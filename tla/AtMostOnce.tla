----------------------------- MODULE AtMostOnce ------------------------------
(***************************************************************************)
(* What Photon Ring promises the consumer of its events, and each stage of *)
(* the way promises the next: the event manager to the reader of the       *)
(* device (EventManager), the device to its process (CdevChannel), the     *)
(* agents and their sessions to the server (AgentSession).  Items are      *)
(* numbered as they are produced.  An item may be lost, alone or with      *)
(* others and at any time, but it is delivered at most once, never unless  *)
(* it was produced, and never after it was lost.  No order is promised.    *)
(***************************************************************************)
EXTENDS Naturals

VARIABLES produced,  \* the number of the newest item
          pending,   \* items that may still be delivered
          delivered  \* items that were

vars == <<produced, pending, delivered>>

Init == produced = 0 /\ pending = {} /\ delivered = {}

\* The newest item may be lost at once, to a full ring.
Produce == /\ produced' = produced + 1
           /\ UNCHANGED delivered
           /\ pending' \in {pending, pending \cup {produced + 1}}

Lose == /\ UNCHANGED <<produced, delivered>>
        /\ pending' \subseteq pending

Deliver(n) == /\ UNCHANGED produced
              /\ delivered' = delivered \cup {n}
              /\ pending' = pending \ {n}

Next == Produce \/ Lose \/ \E n \in pending : Deliver(n)

Spec == Init /\ [][Next]_vars
=============================================================================
