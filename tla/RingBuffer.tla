----------------------------- MODULE RingBuffer -----------------------------
(***************************************************************************)
(* The ring buffer Photon Ring uses twice: struct photon_ring_buf in       *)
(* comms/cdev_ch.c (frames for userspace, slots wiped when they are read)  *)
(* and struct event_buffer in comms/event_manager.c (one per CPU, slots    *)
(* left as they are).  Every operation runs under the ring's spinlock and  *)
(* is one step.  One slot always stays free: head = tail means empty.      *)
(***************************************************************************)
EXTENDS Naturals, Sequences

CONSTANTS Frame,      \* frames (or events) that can be pushed
          Blank,      \* a slot of zero bytes
          Capacity,   \* slots of the ring
          DropMod,    \* dropped is a u32: it counts modulo 2^32
          WipeOnPop   \* TRUE for photon_ring_buf, FALSE for event_buffer

ASSUME RingAssumption ==
  /\ Capacity \in Nat \ {0}
  /\ DropMod \in Nat \ {0}
  /\ WipeOnPop \in BOOLEAN
  /\ Blank \notin Frame

VARIABLES slots, head, tail, dropped,
          out,   \* the buffer the last pop copied into (g_read_staging, event)
          ret    \* what the last call returned

vars == <<slots, head, tail, dropped, out, ret>>

Index == 0..(Capacity - 1)

(* ring_buf_init: zeroed slots, both positions at 0.                       *)
Init == /\ slots = [i \in Index |-> Blank]
        /\ head = 0
        /\ tail = 0
        /\ dropped = 0
        /\ out = Blank
        /\ ret = "none"

Full_NoWrap == head + 1 = tail              \* mutant: forgets the modulo
Full  == (head + 1) % Capacity = tail
Empty == head = tail


(* ring_buf_push and enqueue_event, there is room.                         *)
Push(f) == /\ ~Full
           /\ slots' = [slots EXCEPT ![head] = f]
           /\ head' = (head + 1) % Capacity
           /\ ret' = "ok"
           /\ UNCHANGED <<tail, dropped, out>>

(* ring_buf_push and enqueue_event, no room: count it and return -ENOSPC.  *)
PushFull == /\ Full
            /\ dropped' = (dropped + 1) % DropMod
            /\ ret' = "ENOSPC"
            /\ UNCHANGED <<slots, head, tail, out>>

(* Mutant: the slot is not wiped after reading.                            *)
Pop_NoWipe == /\ ~Empty
              /\ out' = slots[tail]
              /\ tail' = (tail + 1) % Capacity
              /\ ret' = "ok"
              /\ UNCHANGED <<slots, head, dropped>>

(* ring_buf_pop_locked and the body of flush_event_buffer's loop.          *)
Pop == /\ ~Empty
       /\ out' = slots[tail]
       /\ slots' = IF WipeOnPop THEN [slots EXCEPT ![tail] = Blank] ELSE slots
       /\ tail' = (tail + 1) % Capacity
       /\ ret' = "ok"
       /\ UNCHANGED <<head, dropped>>

(* ring_buf_pop_locked on an empty ring: returns 0, copies nothing.        *)
PopEmpty == /\ Empty
            /\ ret' = "empty"
            /\ UNCHANGED <<slots, head, tail, dropped, out>>

Next == (\E f \in Frame : Push(f)) \/ PushFull \/ Pop \/ PopEmpty

Spec == Init /\ [][Next]_vars

-----------------------------------------------------------------------------
(* Frames in the ring and the slots that hold them, oldest first.          *)
Count == IF head >= tail THEN head - tail ELSE head - tail + Capacity
Live  == {(tail + k) % Capacity : k \in 0..(Count - 1)}
Contents == [k \in 1..Count |-> slots[(tail + k - 1) % Capacity]]

TypeOK == /\ slots \in [Index -> Frame \cup {Blank}]
          /\ head \in Index
          /\ tail \in Index
          /\ dropped \in 0..(DropMod - 1)
          /\ out \in Frame \cup {Blank}
          /\ ret \in {"none", "ok", "ENOSPC", "empty"}

(* What a reader is handed is a pushed frame: no live slot is blank, over  *)
(* any number of wrap-arounds of head and tail.                            *)
LiveSlotsHoldFrames == \A k \in 0..(Count - 1) : slots[(tail + k) % Capacity] \in Frame

(* ring_buf_pop_locked wipes slot->data after reading: in the frame ring   *)
(* no byte of a frame stays in a slot outside the live window.  (Its       *)
(* slot->len stays, which is the length of the read frame and no part of   *)
(* its contents; a slot is its data here.)                                 *)
DeadSlotsAreWiped == WipeOnPop => \A i \in Index \ Live : slots[i] = Blank

(* The ring is a first-in first-out queue of Capacity - 1 elements with    *)
(* the return codes and the drop counter of BoundedQueue.                  *)
Fifo == INSTANCE BoundedQueue WITH queue <- Contents, Bound <- Capacity - 1
ImplementsBoundedQueue == Fifo!Spec
=============================================================================
