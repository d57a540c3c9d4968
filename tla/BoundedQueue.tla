---------------------------- MODULE BoundedQueue ----------------------------
(***************************************************************************)
(* What the rings of Photon Ring promise their callers: a first-in         *)
(* first-out queue of at most Bound elements that refuses the newest       *)
(* element when it is full and counts the refusals in a counter that wraps *)
(* at DropMod.  RingBuffer implements it; EventManager and CdevChannel use *)
(* queues in its place.                                                    *)
(***************************************************************************)
EXTENDS Naturals, Sequences

CONSTANTS Frame,    \* what the queue holds
          Bound,    \* the most elements it holds
          DropMod,  \* the refusal counter counts modulo DropMod
          Blank     \* content of a destination nothing was copied to

VARIABLES queue,    \* the elements, oldest first
          dropped,  \* refusals, modulo DropMod
          out,      \* the destination buffer of the last pop
          ret       \* the return value of the last call

vars == <<queue, dropped, out, ret>>

Init == /\ queue = <<>>
        /\ dropped = 0
        /\ out = Blank
        /\ ret = "none"

Push(f) == /\ Len(queue) < Bound
           /\ queue' = Append(queue, f)
           /\ ret' = "ok"
           /\ UNCHANGED <<dropped, out>>

Refuse == /\ Len(queue) = Bound
          /\ dropped' = (dropped + 1) % DropMod
          /\ ret' = "ENOSPC"
          /\ UNCHANGED <<queue, out>>

Pop == /\ queue # <<>>
       /\ out' = Head(queue)
       /\ queue' = Tail(queue)
       /\ ret' = "ok"
       /\ UNCHANGED dropped

PopEmpty == /\ queue = <<>>
            /\ ret' = "empty"
            /\ UNCHANGED <<queue, dropped, out>>

Next == (\E f \in Frame : Push(f)) \/ Refuse \/ Pop \/ PopEmpty

Spec == Init /\ [][Next]_vars
=============================================================================
