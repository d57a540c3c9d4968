-------------------------- MODULE RingBufferProofs --------------------------
(***************************************************************************)
(* For every capacity and every set of frames the ring is a bounded        *)
(* first-in first-out queue, and the frame ring keeps nothing it handed    *)
(* out.                                                                    *)
(***************************************************************************)
EXTENDS RingBuffer, SequenceTheorems, TLAPS

USE RingAssumption DEF Index

(* A position that is at most one lap ahead, without the modulo.           *)
LEMMA OneLap ==
  ASSUME NEW n \in 0..(2 * Capacity - 1)
  PROVE  n % Capacity = IF n < Capacity THEN n ELSE n - Capacity
  OBVIOUS

LEMMA InitType == Init => TypeOK
  BY DEF Init, TypeOK

LEMMA NextType == TypeOK /\ [Next]_vars => TypeOK'
  <1> SUFFICES ASSUME TypeOK, [Next]_vars PROVE TypeOK'
    OBVIOUS
  <1> USE DEF TypeOK
  <1>1. ASSUME NEW f \in Frame, Push(f) PROVE TypeOK'
    <2>1. (head + 1) % Capacity \in Index
      BY OneLap
    <2> QED
      BY <1>1, <2>1 DEF Push
  <1>2. CASE PushFull
    <2>1. (dropped + 1) % DropMod \in 0..(DropMod - 1)
      OBVIOUS
    <2> QED
      BY <1>2, <2>1 DEF PushFull
  <1>3. CASE Pop
    <2>1. (tail + 1) % Capacity \in Index
      BY OneLap
    <2> QED
      BY <1>3, <2>1 DEF Pop
  <1>4. CASE PopEmpty
    BY <1>4 DEF PopEmpty
  <1>5. CASE UNCHANGED vars
    BY <1>5 DEF vars
  <1> QED
    BY <1>1, <1>2, <1>3, <1>4, <1>5 DEF Next

(* head and tail stay inside the array and the drop counter stays below    *)
(* its modulus.                                                            *)
THEOREM RingTypeCorrect == Spec => []TypeOK
  BY InitType, NextType, PTL DEF Spec

-----------------------------------------------------------------------------
(* The position after p, and the position of the (k+1)st oldest frame.     *)
LEMMA NextPosition ==
  ASSUME NEW p \in Index
  PROVE  (p + 1) % Capacity = IF p + 1 < Capacity THEN p + 1 ELSE p + 1 - Capacity
  <1>1. p + 1 \in 0..(2 * Capacity - 1)
    OBVIOUS
  <1> QED
    BY <1>1, OneLap

LEMMA SlotPosition ==
  ASSUME NEW p \in Index, NEW k \in 0..Capacity
  PROVE  (p + k) % Capacity = IF p + k < Capacity THEN p + k ELSE p + k - Capacity
  <1>1. p + k \in 0..(2 * Capacity - 1)
    OBVIOUS
  <1> QED
    BY <1>1, OneLap

(* How head and tail determine the number of frames.                       *)
LEMMA CountFacts ==
  ASSUME TypeOK
  PROVE  /\ Count \in 0..(Capacity - 1)
         /\ Full <=> Count = Capacity - 1
         /\ Empty <=> Count = 0
         /\ (tail + Count) % Capacity = head
  <1>1. Count \in 0..(Capacity - 1)
    BY DEF TypeOK, Count
  <1>2. (head + 1) % Capacity = IF head + 1 < Capacity THEN head + 1 ELSE head + 1 - Capacity
    BY NextPosition DEF TypeOK
  <1>3. (tail + Count) % Capacity
          = IF tail + Count < Capacity THEN tail + Count ELSE tail + Count - Capacity
    <2>1. tail \in Index /\ Count \in 0..Capacity
      BY <1>1 DEF TypeOK
    <2> QED
      BY <2>1, SlotPosition
  <1> QED
    BY <1>1, <1>2, <1>3 DEF TypeOK, Count, Full, Empty

LEMMA ContentsSeq == TypeOK => Contents \in Seq(Frame \cup {Blank}) /\ Len(Contents) = Count
  <1> SUFFICES ASSUME TypeOK
               PROVE  Contents \in Seq(Frame \cup {Blank}) /\ Len(Contents) = Count
    OBVIOUS
  <1>1. Count \in Nat
    BY CountFacts
  <1>2. \A k \in 1..Count : (tail + k - 1) % Capacity \in Index
    <2> SUFFICES ASSUME NEW k \in 1..Count PROVE (tail + k - 1) % Capacity \in Index
      OBVIOUS
    <2>1. k - 1 \in 0..Capacity /\ tail \in Index /\ tail + k - 1 = tail + (k - 1)
      BY CountFacts DEF TypeOK
    <2> QED
      BY <2>1, SlotPosition
  <1> QED
    BY <1>1, <1>2 DEF Contents, TypeOK

(* A push appends to the queue: it writes the one slot outside the live    *)
(* window that head points to.                                             *)
LEMMA PushAppends ==
  ASSUME TypeOK, NEW f \in Frame, Push(f)
  PROVE  Contents' = Append(Contents, f)
  <1>1. Count' = Count + 1 /\ Count < Capacity - 1 /\ Count \in Nat
    <2>1. head' = IF head + 1 < Capacity THEN head + 1 ELSE head + 1 - Capacity
      BY NextPosition DEF Push, TypeOK
    <2> QED
      BY <2>1, CountFacts DEF Push, Count, TypeOK, Full
  <1>2. \A k \in 1..(Count + 1) :
          (tail + k - 1) % Capacity
            = IF tail + k - 1 < Capacity THEN tail + k - 1 ELSE tail + k - 1 - Capacity
    <2> SUFFICES ASSUME NEW k \in 1..(Count + 1)
                 PROVE  (tail + k - 1) % Capacity
                          = IF tail + k - 1 < Capacity
                            THEN tail + k - 1 ELSE tail + k - 1 - Capacity
      OBVIOUS
    <2>1. tail \in Index /\ k - 1 \in 0..Capacity /\ tail + k - 1 = tail + (k - 1)
      BY <1>1 DEF TypeOK
    <2> QED
      BY <2>1, SlotPosition
  <1>3. \A k \in 1..Count : (tail + k - 1) % Capacity \in Index \ {head}
    BY <1>1, <1>2 DEF TypeOK, Count
  <1>4. (tail + (Count + 1) - 1) % Capacity = head
    BY <1>1, CountFacts DEF TypeOK
  <1>5. Contents' = [k \in 1..(Count + 1) |-> slots'[(tail + k - 1) % Capacity]]
    BY <1>1 DEF Contents, Push
  <1>6. \A k \in 1..Count : Contents'[k] = Contents[k]
    BY <1>1, <1>3, <1>5 DEF Contents, Push, TypeOK
  <1>7. Contents'[Count + 1] = f
    BY <1>1, <1>4, <1>5 DEF Push, TypeOK
  <1>8. /\ Contents \in Seq(Frame \cup {Blank}) /\ Len(Contents) = Count
        /\ Contents' \in Seq(Frame \cup {Blank}) /\ Len(Contents') = Count + 1
    <2>1. TypeOK'
      BY NextType DEF Next
    <2>2. TypeOK' => (Contents \in Seq(Frame \cup {Blank}) /\ Len(Contents) = Count)'
      BY ContentsSeq, PTL
    <2> QED
      BY <1>1, <2>1, <2>2, ContentsSeq
  <1>9. /\ Append(Contents, f) \in Seq(Frame \cup {Blank})
        /\ Len(Append(Contents, f)) = Count + 1
        /\ \A k \in 1..Count : Append(Contents, f)[k] = Contents[k]
        /\ Append(Contents, f)[Count + 1] = f
    BY <1>8, AppendProperties
  <1>10. \A k \in 1..(Count + 1) : Contents'[k] = Append(Contents, f)[k]
    BY <1>1, <1>6, <1>7, <1>9
  <1> QED
    BY <1>8, <1>9, <1>10, SeqEqual

(* A pop takes the head of the queue and leaves its tail, wiped or not.    *)
LEMMA PopTakesHead ==
  ASSUME TypeOK, Pop
  PROVE  /\ Contents # <<>>
         /\ out' = Head(Contents)
         /\ Contents' = Tail(Contents)
  <1>1. Count \in 1..(Capacity - 1) /\ Count' = Count - 1
    <2>1. tail' = IF tail + 1 < Capacity THEN tail + 1 ELSE tail + 1 - Capacity
      BY NextPosition DEF Pop, TypeOK
    <2> QED
      BY <2>1, CountFacts DEF Pop, Count, TypeOK, Empty
  <1>2. Contents \in Seq(Frame \cup {Blank}) /\ Len(Contents) = Count
    BY ContentsSeq
  <1>3. out' = Head(Contents)
    <2>1. Contents[1] = slots[tail]
      <3>1. tail \in Index /\ 0 \in 0..Capacity /\ tail + 1 - 1 = tail + 0 /\ tail + 0 = tail
        BY DEF TypeOK
      <3>2. (tail + 1 - 1) % Capacity = tail
        <4>1. (tail + 0) % Capacity = IF tail + 0 < Capacity THEN tail + 0 ELSE tail + 0 - Capacity
          BY <3>1, SlotPosition
        <4> QED
          BY <3>1, <4>1
      <3> QED
        BY <1>1, <3>2 DEF Contents
    <2> QED
      BY <1>1, <1>2, <2>1 DEF Pop
  <1>4. \A k \in 1..(Count - 1) :
          /\ (tail' + k - 1) % Capacity = (tail + (k + 1) - 1) % Capacity
          /\ (tail + (k + 1) - 1) % Capacity \in Index \ {tail}
    <2> SUFFICES ASSUME NEW k \in 1..(Count - 1)
                 PROVE  /\ (tail' + k - 1) % Capacity = (tail + (k + 1) - 1) % Capacity
                        /\ (tail + (k + 1) - 1) % Capacity \in Index \ {tail}
      OBVIOUS
    <2>1. tail' = IF tail + 1 < Capacity THEN tail + 1 ELSE tail + 1 - Capacity
      BY NextPosition DEF Pop, TypeOK
    <2>2. (tail' + k - 1) % Capacity
            = IF tail' + k - 1 < Capacity THEN tail' + k - 1 ELSE tail' + k - 1 - Capacity
      <3>1. tail' \in Index /\ k - 1 \in 0..Capacity /\ tail' + k - 1 = tail' + (k - 1)
        BY <1>1, <2>1 DEF TypeOK
      <3> QED
        BY <3>1, SlotPosition
    <2>3. (tail + (k + 1) - 1) % Capacity
            = IF tail + k < Capacity THEN tail + k ELSE tail + k - Capacity
      <3>1. tail \in Index /\ k \in 0..Capacity /\ tail + (k + 1) - 1 = tail + k
        BY <1>1 DEF TypeOK
      <3> QED
        BY <3>1, SlotPosition
    <2> QED
      BY <1>1, <2>1, <2>2, <2>3 DEF TypeOK
  <1>5. \A k \in 1..(Count - 1) : Contents'[k] = Contents[k + 1]
    BY <1>1, <1>4 DEF Contents, Pop, TypeOK
  <1>6. Contents' \in Seq(Frame \cup {Blank}) /\ Len(Contents') = Count - 1
    <2>1. TypeOK'
      BY NextType DEF Next
    <2>2. TypeOK' => (Contents \in Seq(Frame \cup {Blank}) /\ Len(Contents) = Count)'
      BY ContentsSeq, PTL
    <2> QED
      BY <1>1, <2>1, <2>2, ContentsSeq
  <1>7. Contents # <<>>
    BY <1>1, <1>2
  <1>8. /\ Tail(Contents) \in Seq(Frame \cup {Blank})
        /\ Len(Tail(Contents)) = Count - 1
        /\ \A k \in 1..(Count - 1) : Tail(Contents)[k] = Contents[k + 1]
    BY <1>2, <1>7, HeadTailProperties
  <1> QED
    BY <1>3, <1>5, <1>6, <1>7, <1>8, SeqEqual

-----------------------------------------------------------------------------
LEMMA InitRefines == Init => Fifo!Init
  <1> SUFFICES ASSUME Init PROVE Fifo!Init
    OBVIOUS
  <1>1. TypeOK
    BY InitType
  <1>2. Count = 0
    BY DEF Init, Count
  <1>3. Contents = <<>>
    BY <1>1, <1>2, ContentsSeq
  <1> QED
    BY <1>3 DEF Init, Fifo!Init

LEMMA NextRefines == TypeOK /\ [Next]_vars => [Fifo!Next]_(Fifo!vars)
  <1> SUFFICES ASSUME TypeOK, [Next]_vars PROVE [Fifo!Next]_(Fifo!vars)
    OBVIOUS
  <1>0. Len(Contents) = Count /\ Contents \in Seq(Frame \cup {Blank}) /\ Count \in Nat
    BY ContentsSeq, CountFacts
  <1>1. ASSUME NEW f \in Frame, Push(f) PROVE Fifo!Next
    <2>1. Len(Contents) < Capacity - 1
      BY <1>0, <1>1, CountFacts DEF Push
    <2>2. Fifo!Push(f)
      BY <1>1, <2>1, PushAppends DEF Fifo!Push, Push
    <2> QED
      BY <2>2 DEF Fifo!Next
  <1>2. ASSUME PushFull PROVE Fifo!Next
    <2>1. Len(Contents) = Capacity - 1
      BY <1>0, <1>2, CountFacts DEF PushFull
    <2>2. Contents' = Contents
      BY <1>2 DEF PushFull, Contents, Count
    <2>3. Fifo!Refuse
      BY <1>2, <2>1, <2>2 DEF Fifo!Refuse, PushFull
    <2> QED
      BY <2>3 DEF Fifo!Next
  <1>3. ASSUME Pop PROVE Fifo!Next
    <2>1. Fifo!Pop
      BY <1>3, PopTakesHead DEF Fifo!Pop, Pop
    <2> QED
      BY <2>1 DEF Fifo!Next
  <1>4. ASSUME PopEmpty PROVE Fifo!Next
    <2>1. Contents = <<>>
      BY <1>0, <1>4, CountFacts DEF PopEmpty
    <2>2. Contents' = Contents
      BY <1>4 DEF PopEmpty, Contents, Count
    <2>3. Fifo!PopEmpty
      BY <1>4, <2>1, <2>2 DEF Fifo!PopEmpty, PopEmpty
    <2> QED
      BY <2>3 DEF Fifo!Next
  <1>5. ASSUME UNCHANGED vars PROVE UNCHANGED Fifo!vars
    BY <1>5 DEF vars, Fifo!vars, Contents, Count
  <1> QED
    BY <1>1, <1>2, <1>3, <1>4, <1>5 DEF Next

(* The head/tail arithmetic of ring_buf_push, ring_buf_pop_locked and the  *)
(* per-CPU buffers implements a first-in first-out queue that holds        *)
(* Capacity - 1 elements, for every capacity.                              *)
THEOREM RingIsBoundedQueue == Spec => ImplementsBoundedQueue
  <1>1. Init /\ [][Next]_vars => []TypeOK
    BY InitType, NextType, PTL
  <1> QED
    BY <1>1, InitRefines, NextRefines, PTL DEF Spec, ImplementsBoundedQueue, Fifo!Spec

-----------------------------------------------------------------------------
(* The live window is what the queue view shows.                           *)
LEMMA LiveIsContents ==
  TypeOK => (LiveSlotsHoldFrames <=> \A k \in 1..Count : Contents[k] \in Frame)
  <1> SUFFICES ASSUME TypeOK
               PROVE  LiveSlotsHoldFrames <=> \A k \in 1..Count : Contents[k] \in Frame
    OBVIOUS
  <1>1. Count \in Nat /\ tail \in Nat
    BY CountFacts DEF TypeOK
  <1>2. \A k \in 1..Count : k - 1 \in 0..(Count - 1) /\ tail + k - 1 = tail + (k - 1)
    BY <1>1
  <1>3. \A k \in 0..(Count - 1) : k + 1 \in 1..Count /\ tail + (k + 1) - 1 = tail + k
    BY <1>1
  <1> QED
    BY <1>2, <1>3 DEF LiveSlotsHoldFrames, Contents

LEMMA NextLive == TypeOK /\ LiveSlotsHoldFrames /\ [Next]_vars => LiveSlotsHoldFrames'
  <1> SUFFICES ASSUME TypeOK, LiveSlotsHoldFrames, [Next]_vars PROVE LiveSlotsHoldFrames'
    OBVIOUS
  <1>1. TypeOK' /\ Count \in Nat
    BY NextType, CountFacts
  <1>2. /\ Contents \in Seq(Frame \cup {Blank}) /\ Len(Contents) = Count
        /\ \A k \in 1..Count : Contents[k] \in Frame
    BY ContentsSeq, LiveIsContents
  <1>3. /\ (Contents \in Seq(Frame \cup {Blank}) /\ Len(Contents) = Count)'
        /\ (LiveSlotsHoldFrames <=> \A k \in 1..Count : Contents[k] \in Frame)'
    <2>1. TypeOK' => (Contents \in Seq(Frame \cup {Blank}) /\ Len(Contents) = Count)'
      BY ContentsSeq, PTL
    <2>2. TypeOK' => (LiveSlotsHoldFrames <=> \A k \in 1..Count : Contents[k] \in Frame)'
      BY LiveIsContents, PTL
    <2> QED
      BY <1>1, <2>1, <2>2
  <1>4. ASSUME NEW f \in Frame, Push(f) PROVE LiveSlotsHoldFrames'
    <2>1. Contents' = Append(Contents, f)
      BY <1>4, PushAppends
    <2>2. /\ Len(Append(Contents, f)) = Count + 1
          /\ \A k \in 1..Count : Append(Contents, f)[k] = Contents[k]
          /\ Append(Contents, f)[Count + 1] = f
      BY <1>2, AppendProperties
    <2> QED
      BY <1>1, <1>2, <1>3, <2>1, <2>2
  <1>5. CASE Pop
    <2>1. Contents # <<>> /\ Contents' = Tail(Contents)
      BY <1>5, PopTakesHead
    <2>2. /\ Len(Tail(Contents)) = Count - 1
          /\ \A k \in 1..(Count - 1) : Tail(Contents)[k] = Contents[k + 1]
      BY <1>2, <2>1, HeadTailProperties
    <2> QED
      BY <1>1, <1>2, <1>3, <2>1, <2>2
  <1>6. CASE PushFull \/ PopEmpty \/ UNCHANGED vars
    BY <1>6 DEF PushFull, PopEmpty, vars, LiveSlotsHoldFrames, Count
  <1> QED
    BY <1>4, <1>5, <1>6 DEF Next

(* A reader of the ring is only ever handed frames that were pushed.       *)
THEOREM LiveSlotsCorrect == Spec => []LiveSlotsHoldFrames
  <1>1. Init => LiveSlotsHoldFrames
    BY DEF Init, LiveSlotsHoldFrames, Count
  <1> QED
    BY <1>1, NextLive, RingTypeCorrect, PTL DEF Spec

-----------------------------------------------------------------------------
(* Slot i is live when its distance from tail is below Count.              *)
LEMMA LiveDistance ==
  TypeOK => \A i \in Index :
              i \in Live <=> (IF i >= tail THEN i - tail ELSE i - tail + Capacity) < Count
  <1> SUFFICES ASSUME TypeOK, NEW i \in Index
               PROVE  i \in Live <=> (IF i >= tail THEN i - tail ELSE i - tail + Capacity) < Count
    OBVIOUS
  <1>1. tail \in Index /\ Count \in 0..(Capacity - 1)
    BY CountFacts DEF TypeOK
  <1>2. \A k \in 0..(Count - 1) :
          (tail + k) % Capacity = IF tail + k < Capacity THEN tail + k ELSE tail + k - Capacity
    BY <1>1, SlotPosition
  <1>3. ASSUME i \in Live
        PROVE  (IF i >= tail THEN i - tail ELSE i - tail + Capacity) < Count
    <2>1. PICK k \in 0..(Count - 1) : i = (tail + k) % Capacity
      BY <1>3 DEF Live
    <2>2. i = IF tail + k < Capacity THEN tail + k ELSE tail + k - Capacity
      BY <1>2, <2>1
    <2> QED
      BY <1>1, <2>2
  <1>4. ASSUME (IF i >= tail THEN i - tail ELSE i - tail + Capacity) < Count
        PROVE  i \in Live
    <2> DEFINE k == IF i >= tail THEN i - tail ELSE i - tail + Capacity
    <2>1. k \in 0..(Count - 1)
      BY <1>1, <1>4
    <2>2. (tail + k) % Capacity = IF tail + k < Capacity THEN tail + k ELSE tail + k - Capacity
      BY <1>2, <2>1
    <2>3. (tail + k) % Capacity = i
      BY <1>1, <2>2
    <2> QED
      BY <2>1, <2>3 DEF Live
  <1> QED
    BY <1>3, <1>4

LEMMA NextWiped == TypeOK /\ DeadSlotsAreWiped /\ [Next]_vars => DeadSlotsAreWiped'
  <1> SUFFICES ASSUME TypeOK, DeadSlotsAreWiped, [Next]_vars, WipeOnPop
               PROVE  \A i \in Index : i \notin Live' => slots'[i] = Blank
    BY DEF DeadSlotsAreWiped
  <1>1. TypeOK' /\ \A i \in Index : i \notin Live => slots[i] = Blank
    BY NextType DEF DeadSlotsAreWiped
  <1>2. \A i \in Index :
          /\ i \in Live <=> (IF i >= tail THEN i - tail ELSE i - tail + Capacity) < Count
          /\ i \in Live' <=> (IF i >= tail' THEN i - tail' ELSE i - tail' + Capacity) < Count'
    <2>1. TypeOK' => (\A i \in Index :
              i \in Live <=> (IF i >= tail THEN i - tail ELSE i - tail + Capacity) < Count)'
      BY LiveDistance, PTL
    <2> QED
      BY <1>1, <2>1, LiveDistance
  <1>3. ASSUME NEW f \in Frame, Push(f), NEW i \in Index, i \notin Live'
        PROVE  slots'[i] = Blank
    <2>1. head' = IF head + 1 < Capacity THEN head + 1 ELSE head + 1 - Capacity
      BY <1>3, NextPosition DEF Push, TypeOK
    <2>2. Count' = Count + 1
      BY <1>3, <2>1, CountFacts DEF Push, Count, TypeOK, Full
    <2>3. i # head /\ i \notin Live
      BY <1>2, <1>3, <2>2, CountFacts DEF Push, TypeOK, Count
    <2> QED
      BY <1>1, <1>3, <2>3 DEF Push, TypeOK
  <1>4. ASSUME Pop, NEW i \in Index, i \notin Live' PROVE slots'[i] = Blank
    <2>1. tail' = IF tail + 1 < Capacity THEN tail + 1 ELSE tail + 1 - Capacity
      BY <1>4, NextPosition DEF Pop, TypeOK
    <2>2. Count' = Count - 1
      BY <1>4, <2>1, CountFacts DEF Pop, Count, TypeOK, Empty
    <2>3. i = tail \/ i \notin Live
      <3>1. tail \in Index /\ Count \in Nat
        BY CountFacts DEF TypeOK
      <3>2. ~((IF i >= tail' THEN i - tail' ELSE i - tail' + Capacity) < Count - 1)
        BY <1>2, <1>4, <2>2
      <3>3. i # tail => ~((IF i >= tail THEN i - tail ELSE i - tail + Capacity) < Count)
        BY <2>1, <3>1, <3>2
      <3> QED
        BY <1>2, <3>3
    <2> QED
      BY <1>1, <1>4, <2>3 DEF Pop, TypeOK
  <1>5. CASE PushFull \/ PopEmpty \/ UNCHANGED vars
    BY <1>1, <1>5 DEF PushFull, PopEmpty, vars, Live, Count
  <1> QED
    BY <1>3, <1>4, <1>5 DEF Next

(* No frame that was read stays behind in the frame ring's memory.         *)
THEOREM ReadFramesAreWiped == Spec => []DeadSlotsAreWiped
  <1>1. Init => DeadSlotsAreWiped
    BY DEF Init, DeadSlotsAreWiped
  <1> QED
    BY <1>1, NextWiped, RingTypeCorrect, PTL DEF Spec
=============================================================================
