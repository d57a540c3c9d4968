--------------------------- MODULE MCCdevChannel ---------------------------
(* CdevChannel with two single-threaded processes. *)
EXTENDS CdevChannel, TLC

CONSTANTS a, b, pa, pb

OneThreadEach == (a :> pa) @@ (b :> pb)
=============================================================================
