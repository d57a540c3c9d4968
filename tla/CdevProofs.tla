------------------------------ MODULE CdevProofs ------------------------------
(***************************************************************************)
(* The character device for any number of reader threads, processes and    *)
(* producers.                                                              *)
(***************************************************************************)
EXTENDS CdevChannel, TLAPS

-----------------------------------------------------------------------------
\* The inductive invariant, in parts.

\* A thread that is about to copy a frame has popped one.
CopyInv == \A t \in Thread : At(t, "copy") => popped[t] # Wiped

IInv == TypeOK /\ CopyInv /\ OnlyHolderReads /\ NoLostWakeup

\* The reader the shipped agent is: no two threads of one process.
SingleThreaded == \A t, u \in Thread : ProcOf[t] = ProcOf[u] => t = u

\* Frame numbers only grow, from the results over the frame in the staging
\* buffer and the ring to the last frame pushed.
OrderInv ==
  /\ \A j \in DOMAIN ring : ring[j] <= pushed
  /\ \A i, j \in DOMAIN ring : i < j => ring[i] < ring[j]
  /\ \A i \in DOMAIN results : results[i].frame <= pushed
  /\ \A t \in Thread : At(t, "copy") =>
       /\ staging = popped[t] /\ popped[t] <= pushed
       /\ \A j \in DOMAIN ring : popped[t] < ring[j]
       /\ \A i \in DOMAIN results : results[i].frame < popped[t]
  /\ InPushOrder

-----------------------------------------------------------------------------
\* What the steps do to the two sequences.
LEMMA AppendFacts ==
    ASSUME NEW S, NEW s \in Seq(S), NEW x \in S
    PROVE  /\ Append(s, x) \in Seq(S)
           /\ Len(Append(s, x)) = Len(s) + 1
           /\ DOMAIN Append(s, x) = 1 .. Len(s) + 1 /\ DOMAIN s = 1 .. Len(s)
           /\ Len(s) \in Nat
           /\ \A i \in DOMAIN s : Append(s, x)[i] = s[i]
           /\ Append(s, x)[Len(s) + 1] = x
           /\ Append(s, x) # <<>>
  OBVIOUS

LEMMA TailFacts ==
    ASSUME NEW S, NEW s \in Seq(S), s # <<>>
    PROVE  /\ Tail(s) \in Seq(S)
           /\ Len(s) \in Nat /\ Len(s) >= 1
           /\ Len(Tail(s)) = Len(s) - 1
           /\ DOMAIN Tail(s) = 1 .. Len(s) - 1 /\ DOMAIN s = 1 .. Len(s)
           /\ \A i \in DOMAIN Tail(s) : Tail(s)[i] = s[i + 1]
           /\ Head(s) = s[1] /\ Head(s) \in S
  OBVIOUS

LEMMA InitIInv == Init => IInv /\ OrderInv
  <1> SUFFICES ASSUME Init PROVE IInv /\ OrderInv
    OBVIOUS
  <1> USE DEF Init, At, Wiped
  <1>1. TypeOK
    <2>1. ring \in Seq(1 .. MaxPush) /\ Len(ring) = 0 /\ results \in Seq(Result)
      OBVIOUS
    <2>2. /\ Len(ring) <= RingBound /\ pushed \in 0 .. MaxPush /\ staging \in 0 .. MaxPush
          /\ popped \in [Thread -> 0 .. MaxPush]
      BY <2>1, CdevAssumption
    <2> QED BY <2>1, <2>2 DEF TypeOK, Labels
  <1>2. CopyInv /\ OnlyHolderReads /\ NoLostWakeup
    BY CdevAssumption DEF CopyInv, OnlyHolderReads, NoLostWakeup
  <1>3. OrderInv
    BY DEF OrderInv, InPushOrder
  <1> QED BY <1>1, <1>2, <1>3 DEF IInv

-----------------------------------------------------------------------------
\* Types, one step per action.
LEMMA TypesInductive == IInv /\ [Next]_vars => TypeOK' /\ CopyInv'
  <1> SUFFICES ASSUME IInv, [Next]_vars PROVE TypeOK' /\ CopyInv'
    OBVIOUS
  <1> TypeOK /\ CopyInv
    BY DEF IInv
  <1> USE CdevAssumption
      DEF TypeOK, CopyInv, At, Goto, Labels, Wiped, fileVars, readVars, exitVars
  <1>1. ASSUME NEW p \in Producer, Push(p) PROVE TypeOK' /\ CopyInv'
    <2>1. pushed + 1 \in 1 .. MaxPush
      BY <1>1 DEF Push
    <2>2. ring' \in Seq(1 .. MaxPush) /\ Len(ring') = Len(ring) + 1 /\ Len(ring) \in Nat
      BY <1>1, <2>1, AppendFacts DEF Push
    <2> QED BY <1>1, <2>1, <2>2 DEF Push
  <1>2. ASSUME NEW p \in Producer, PushFull(p) PROVE TypeOK' /\ CopyInv'
    BY <1>2 DEF PushFull
  <1>3. ASSUME NEW p \in Producer, Wake(p) PROVE TypeOK' /\ CopyInv'
    BY <1>3 DEF Wake, WakeAll
  <1>4. ASSUME NEW t \in Thread, Open(t) PROVE TypeOK' /\ CopyInv'
    BY <1>4 DEF Open
  <1>5. ASSUME NEW t \in Thread, NEW count \in {"tiny", "header", "full"}, ReadEnter(t, count)
        PROVE  TypeOK' /\ CopyInv'
    BY <1>5 DEF ReadEnter
  <1>6. ASSUME NEW t \in Thread, ReadCheck(t) \/ ReadSignal(t) \/ ReadReady(t)
        PROVE  TypeOK' /\ CopyInv'
    BY <1>6 DEF ReadCheck, ReadSignal, ReadReady
  <1>7. ASSUME NEW t \in Thread, ReadPop(t) PROVE TypeOK' /\ CopyInv'
    <2>1. CASE ring = <<>>
      BY <1>7, <2>1 DEF ReadPop
    <2>2. CASE ring # <<>>
      <3>1. Head(ring) \in 1 .. MaxPush /\ Tail(ring) \in Seq(1 .. MaxPush)
            /\ Len(Tail(ring)) <= RingBound
        BY <2>2, TailFacts
      <3>2. /\ staging' = Head(ring) /\ popped' = [popped EXCEPT ![t] = Head(ring)]
            /\ ring' = Tail(ring) /\ pc' = [pc EXCEPT ![t] = "copy"]
            /\ UNCHANGED <<pushed, ppc, fileVars, want, results, exitVars>>
        BY <1>7, <2>2 DEF ReadPop
      <3>3. TypeOK'
        BY <3>1, <3>2
      <3>4. CopyInv'
        BY <3>1, <3>2
      <3> QED BY <3>3, <3>4
    <2> QED BY <2>1, <2>2
  <1>8. ASSUME NEW t \in Thread, ReadCopy(t) PROVE TypeOK' /\ CopyInv'
    <2>1. PICK x \in Result : results' = Append(results, x)
      BY <1>8 DEF ReadCopy, Result
    <2>2. results' \in Seq(Result)
      BY <2>1, AppendFacts
    <2> QED BY <1>8, <2>2 DEF ReadCopy
  <1>9. ASSUME NEW p \in Process, Release(p) PROVE TypeOK' /\ CopyInv'
    BY <1>9 DEF Release
  <1>10. CASE InitDone \/ ExitBegin \/ ExitFree
    <2>1. CASE InitDone
      BY <2>1 DEF InitDone
    <2>2. CASE ExitBegin
      BY <2>2 DEF ExitBegin, WakeAll
    <2>3. CASE ExitFree
      BY <2>3 DEF ExitFree
    <2> QED BY <1>10, <2>1, <2>2, <2>3
  <1>11. CASE UNCHANGED vars
    BY <1>11 DEF vars
  <1> QED
    BY <1>1, <1>2, <1>3, <1>4, <1>5, <1>6, <1>7, <1>8, <1>9, <1>10, <1>11
    DEF Next, ReadStep

\* g_is_open and the open file go together.
LEMMA HolderInductive == IInv /\ [Next]_vars => OnlyHolderReads'
  <1> SUFFICES ASSUME IInv, [Next]_vars PROVE OnlyHolderReads'
    OBVIOUS
  <1> USE CdevAssumption
      DEF IInv, TypeOK, OnlyHolderReads, At, Goto, fileVars, readVars, exitVars
  <1>1. ASSUME NEW p \in Producer, Push(p) \/ PushFull(p) \/ Wake(p) PROVE OnlyHolderReads'
    BY <1>1 DEF Push, PushFull, Wake, WakeAll
  <1>2. ASSUME NEW t \in Thread, Open(t) PROVE OnlyHolderReads'
    BY <1>2 DEF Open
  <1>3. ASSUME NEW t \in Thread, NEW count \in {"tiny", "header", "full"}, ReadEnter(t, count)
        PROVE  OnlyHolderReads'
    BY <1>3 DEF ReadEnter
  <1>4. ASSUME NEW t \in Thread, ReadCheck(t) \/ ReadSignal(t) \/ ReadReady(t)
        PROVE  OnlyHolderReads'
    BY <1>4 DEF ReadCheck, ReadSignal, ReadReady
  <1>5. ASSUME NEW t \in Thread, ReadPop(t) \/ ReadCopy(t) PROVE OnlyHolderReads'
    BY <1>5 DEF ReadPop, ReadCopy
  <1>6. ASSUME NEW p \in Process, Release(p) PROVE OnlyHolderReads'
    BY <1>6 DEF Release
  <1>7. CASE InitDone \/ ExitBegin \/ ExitFree
    BY <1>7 DEF InitDone, ExitBegin, ExitFree, WakeAll
  <1>8. CASE UNCHANGED vars
    BY <1>8 DEF vars
  <1> QED BY <1>1, <1>2, <1>3, <1>4, <1>5, <1>6, <1>7, <1>8 DEF Next, ReadStep

\* The window between a push and its wake_up is covered by the producer's state.
LEMMA WakeupInductive == IInv /\ [Next]_vars => NoLostWakeup'
  <1> SUFFICES ASSUME IInv, [Next]_vars PROVE NoLostWakeup'
    OBVIOUS
  <1> USE DEF IInv, TypeOK, NoLostWakeup, At, Goto, fileVars, readVars, exitVars
  <1>1. ASSUME NEW p \in Producer, Push(p) PROVE NoLostWakeup'
    BY <1>1 DEF Push
  <1>2. ASSUME NEW p \in Producer, PushFull(p) \/ Wake(p) PROVE NoLostWakeup'
    BY <1>2 DEF PushFull, Wake, WakeAll
  <1>3. ASSUME NEW t \in Thread, Open(t) PROVE NoLostWakeup'
    BY <1>3 DEF Open
  <1>4. ASSUME NEW t \in Thread, NEW count \in {"tiny", "header", "full"}, ReadEnter(t, count)
        PROVE  NoLostWakeup'
    BY <1>4 DEF ReadEnter
  <1>5. ASSUME NEW t \in Thread, ReadCheck(t) \/ ReadSignal(t) \/ ReadReady(t)
        PROVE  NoLostWakeup'
    BY <1>5 DEF ReadCheck, ReadSignal, ReadReady
  <1>6. ASSUME NEW t \in Thread, ReadPop(t) \/ ReadCopy(t) PROVE NoLostWakeup'
    BY <1>6 DEF ReadPop, ReadCopy
  <1>7. ASSUME NEW p \in Process, Release(p) PROVE NoLostWakeup'
    BY <1>7 DEF Release
  <1>8. CASE InitDone \/ ExitBegin \/ ExitFree
    BY <1>8 DEF InitDone, ExitBegin, ExitFree, WakeAll
  <1>9. CASE UNCHANGED vars
    BY <1>9 DEF vars
  <1> QED BY <1>1, <1>2, <1>3, <1>4, <1>5, <1>6, <1>7, <1>8, <1>9 DEF Next, ReadStep

LEMMA IInvInductive == IInv /\ [Next]_vars => IInv'
  BY TypesInductive, HolderInductive, WakeupInductive DEF IInv

-----------------------------------------------------------------------------
\* With one thread per process, one thread at a time is inside read().
LEMMA OneReader ==
    ASSUME SingleThreaded, IInv, NEW t \in Thread, NEW u \in Thread,
           ~At(t, "out"), ~At(u, "out")
    PROVE  t = u
  BY DEF SingleThreaded, IInv, OnlyHolderReads

\* All that the order is about are numbers.
LEMMA NumberFacts ==
    ASSUME IInv
    PROVE  /\ pushed \in Nat /\ staging \in Nat
           /\ DOMAIN ring = 1 .. Len(ring) /\ Len(ring) \in Nat
           /\ DOMAIN results = 1 .. Len(results) /\ Len(results) \in Nat
           /\ \A j \in DOMAIN ring : ring[j] \in Nat
           /\ \A i \in DOMAIN results : results[i].frame \in Nat
           /\ \A t \in Thread : popped[t] \in Nat
  <1>1. TypeOK
    BY DEF IInv
  <1>2. \A i \in DOMAIN results : results[i] \in Result
    BY <1>1 DEF TypeOK
  <1>3. \A x \in Result : x.frame \in Nat
    BY CdevAssumption DEF Result
  <1> QED BY <1>1, <1>2, <1>3, CdevAssumption DEF TypeOK

\* Steps that leave the frames where they are, and bring nobody to the copy.
LEMMA OrderKept ==
    ASSUME OrderInv, UNCHANGED <<ring, staging, popped, results>>,
           IInv, pushed' \in Nat, pushed' >= pushed,
           \A t \in Thread : At(t, "copy")' => At(t, "copy")
    PROVE  OrderInv'
  <1>1. InPushOrder'
    BY DEF OrderInv, InPushOrder
  <1>2. /\ \A j \in DOMAIN ring : ring[j] <= pushed'
        /\ \A i \in DOMAIN results : results[i].frame <= pushed'
        /\ \A t \in Thread : At(t, "copy") => popped[t] <= pushed'
    BY NumberFacts DEF OrderInv
  <1> QED BY <1>1, <1>2 DEF OrderInv, At

LEMMA OrderInductive ==
    ASSUME SingleThreaded, IInv, OrderInv, [Next]_vars
    PROVE  OrderInv'
  <1> USE CdevAssumption DEF At, Goto, fileVars, readVars, exitVars, Wiped
  <1> pc \in [Thread -> Labels] /\ popped \in [Thread -> 0 .. MaxPush]
    BY DEF IInv, TypeOK
  <1> USE NumberFacts
  <1>1. ASSUME NEW p \in Producer, Push(p) PROVE OrderInv'
    <2>1. /\ ring' = Append(ring, pushed + 1) /\ pushed' = pushed + 1
          /\ UNCHANGED <<pc, staging, popped, results>>
      BY <1>1 DEF Push
    <2>2. /\ DOMAIN ring' = 1 .. Len(ring) + 1 /\ DOMAIN ring = 1 .. Len(ring)
          /\ \A i \in DOMAIN ring : ring'[i] = ring[i]
          /\ ring'[Len(ring) + 1] = pushed + 1
      <3>1. ring \in Seq(Nat)
        BY DEF IInv, TypeOK
      <3> QED BY <2>1, <3>1, AppendFacts
    <2>3. InPushOrder'
      BY <2>1, <2>2 DEF OrderInv, InPushOrder
    <2> QED BY <2>1, <2>2, <2>3 DEF OrderInv
  <1>2. ASSUME NEW p \in Producer, PushFull(p) PROVE OrderInv'
    BY <1>2, OrderKept DEF PushFull
  <1>3. ASSUME NEW p \in Producer, Wake(p) PROVE OrderInv'
    BY <1>3, OrderKept DEF Wake, WakeAll
  <1>4. ASSUME NEW t \in Thread, Open(t) PROVE OrderInv'
    BY <1>4, OrderKept DEF Open
  <1>5. ASSUME NEW t \in Thread, NEW count \in {"tiny", "header", "full"}, ReadEnter(t, count)
        PROVE  OrderInv'
    BY <1>5, OrderKept DEF ReadEnter
  <1>6. ASSUME NEW t \in Thread, ReadCheck(t) \/ ReadSignal(t) \/ ReadReady(t)
        PROVE  OrderInv'
    BY <1>6, OrderKept DEF ReadCheck, ReadSignal, ReadReady
  <1>7. ASSUME NEW t \in Thread, ReadPop(t) PROVE OrderInv'
    <2>1. CASE ring = <<>>
      BY <1>7, <2>1, OrderKept DEF ReadPop
    <2>2. CASE ring # <<>>
      <3>1. /\ staging' = Head(ring) /\ popped' = [popped EXCEPT ![t] = Head(ring)]
            /\ ring' = Tail(ring) /\ pc' = [pc EXCEPT ![t] = "copy"]
            /\ UNCHANGED <<pushed, results>> /\ pc[t] = "pop"
        BY <1>7, <2>2 DEF ReadPop
      <3>2. /\ Len(ring) \in Nat /\ Len(ring) >= 1 /\ Head(ring) = ring[1]
            /\ DOMAIN ring' = 1 .. Len(ring) - 1 /\ DOMAIN ring = 1 .. Len(ring)
            /\ \A i \in DOMAIN ring' : ring'[i] = ring[i + 1]
        <4>1. ring \in Seq(Nat)
          BY DEF IInv, TypeOK
        <4> QED BY <2>2, <3>1, <4>1, TailFacts
      <3>3. \A i \in DOMAIN ring : ring[i] \in Nat
        OBVIOUS
      <3>4. \A u \in Thread : pc'[u] = "copy" => u = t
        BY <3>1, OneReader
      <3>5. \A i \in DOMAIN ring' : i + 1 \in DOMAIN ring /\ 1 < i + 1 /\ 1 \in DOMAIN ring
        BY <3>2
      <3>6. popped'[t] = ring[1] /\ staging' = ring[1]
        BY <3>1, <3>2
      <3>7. /\ \A j \in DOMAIN ring' : ring'[j] <= pushed' /\ ring[1] < ring'[j]
            /\ \A i, j \in DOMAIN ring' : i < j => ring'[i] < ring'[j]
        <4>1. \A j \in DOMAIN ring' : ring'[j] <= pushed' /\ ring[1] < ring'[j]
          BY <3>1, <3>2, <3>5 DEF OrderInv
        <4>2. ASSUME NEW i \in DOMAIN ring', NEW j \in DOMAIN ring', i < j
              PROVE  ring'[i] < ring'[j]
          <5>1. i + 1 < j + 1
            BY <4>2, <3>2
          <5> QED BY <5>1, <3>2, <3>5 DEF OrderInv
        <4> QED BY <4>1, <4>2
      <3>8. /\ \A i \in DOMAIN results' : results'[i].frame <= pushed' /\ results'[i].frame < ring[1]
            /\ ring[1] <= pushed'
        BY <3>1, <3>2, <3>3 DEF OrderInv, InPushOrder
      <3>9. InPushOrder'
        BY <3>1, <3>2, <3>5 DEF OrderInv, InPushOrder
      <3> QED BY <3>4, <3>6, <3>7, <3>8, <3>9 DEF OrderInv
    <2> QED BY <2>1, <2>2
  <1>8. ASSUME NEW t \in Thread, ReadCopy(t) PROVE OrderInv'
    <2>1. PICK x \in Result :
            /\ results' = Append(results, x)
            /\ x.frame = popped[t] /\ x.got \in {Wiped, staging}
      <3>1. popped[t] \in 1 .. MaxPush /\ staging \in 0 .. MaxPush
        BY <1>8 DEF ReadCopy, IInv, CopyInv, TypeOK
      <3> QED BY <1>8, <3>1 DEF ReadCopy, Result
    <2>2. UNCHANGED <<ring, pushed>> /\ pc' = [pc EXCEPT ![t] = "out"] /\ pc[t] = "copy"
      BY <1>8 DEF ReadCopy
    <2>3. \A u \in Thread : pc'[u] # "copy"
      BY <2>2, OneReader
    <2>4. /\ DOMAIN results' = 1 .. Len(results) + 1 /\ DOMAIN results = 1 .. Len(results)
          /\ \A i \in DOMAIN results : results'[i] = results[i]
          /\ results'[Len(results) + 1] = x
      <3>1. results \in Seq(Result)
        BY DEF IInv, TypeOK
      <3> QED BY <2>1, <3>1, AppendFacts
    <2>5. /\ staging = popped[t] /\ popped[t] <= pushed
          /\ \A j \in DOMAIN ring : popped[t] < ring[j]
          /\ \A i \in DOMAIN results : results[i].frame < popped[t]
      BY <2>2 DEF OrderInv
    <2>6. InPushOrder'
      BY <2>1, <2>2, <2>4, <2>5 DEF OrderInv, InPushOrder
    <2> QED BY <2>1, <2>2, <2>3, <2>4, <2>5, <2>6 DEF OrderInv
  <1>9. ASSUME NEW p \in Process, Release(p) PROVE OrderInv'
    BY <1>9, OrderKept DEF Release
  <1>10. CASE InitDone \/ ExitBegin \/ ExitFree
    BY <1>10, OrderKept DEF InitDone, ExitBegin, ExitFree, WakeAll
  <1>11. CASE UNCHANGED vars
    BY <1>11, OrderKept DEF vars
  <1> QED
    BY <1>1, <1>2, <1>3, <1>4, <1>5, <1>6, <1>7, <1>8, <1>9, <1>10, <1>11
    DEF Next, ReadStep

-----------------------------------------------------------------------------
\* Whatever the threads, the processes, the opens and closes and the shutdown:
\* g_is_open is true exactly while a process has the device open, and every
\* thread inside photon_cdev_read belongs to that process.
THEOREM HolderReads == Spec => []OnlyHolderReads
  <1>1. IInv => OnlyHolderReads
    BY DEF IInv
  <1> QED BY <1>1, InitIInv, IInvInductive, PTL DEF Spec

\* No interleaving of pushes, wake-ups, signals and the shutdown leaves a reader
\* asleep over a frame with nobody about to call wake_up_interruptible.
THEOREM WakeupsAreNotLost == Spec => []NoLostWakeup
  <1>1. IInv => NoLostWakeup
    BY DEF IInv
  <1> QED BY <1>1, InitIInv, IInvInductive, PTL DEF Spec

\* When no process reads with two threads, the frames leave the device in the
\* order they were pushed and each read() returns the frame it popped, although
\* it copies from the shared staging buffer without g_ring.lock.
THEOREM FramesInPushOrder ==
    ASSUME SingleThreaded
    PROVE  Spec => []InPushOrder
  <1>1. IInv /\ OrderInv /\ [Next]_vars => (IInv /\ OrderInv)'
    BY IInvInductive, OrderInductive
  <1>2. OrderInv => InPushOrder
    BY DEF OrderInv
  <1> QED BY <1>1, <1>2, InitIInv, PTL DEF Spec
-----------------------------------------------------------------------------
\* The device as a channel: a frame is on its way in the ring and while a thread
\* holds it between the pop and the copy, and delivered when a read() returns it.
OnItsWay == {ring[j] : j \in DOMAIN ring}
              \cup {popped[t] : t \in {u \in Thread : At(u, "copy")}}
Returned == {results[i].got : i \in {j \in DOMAIN results : results[j].got # Wiped}}
Delivery == INSTANCE AtMostOnce WITH
              produced <- pushed, pending <- OnItsWay, delivered <- Returned
DeliversAtMostOnce == Delivery!Spec

LEMMA WayFacts ==
    ASSUME NEW n
    PROVE  /\ n \in OnItsWay <=> \/ \E j \in DOMAIN ring : ring[j] = n
                                 \/ \E t \in Thread : pc[t] = "copy" /\ popped[t] = n
           /\ n \in OnItsWay' <=> \/ \E j \in DOMAIN ring' : ring'[j] = n
                                  \/ \E t \in Thread : pc'[t] = "copy" /\ popped'[t] = n
  BY DEF OnItsWay, At

\* A step that returns no frame and brings none back.
LEMMA Loss ==
    ASSUME UNCHANGED pushed, Returned' = Returned, OnItsWay' \subseteq OnItsWay
    PROVE  Delivery!Next
  BY DEF Delivery!Next, Delivery!Lose

LEMMA FramesStay ==
    ASSUME UNCHANGED <<ring, pushed, popped, results>>,
           \A t \in Thread : pc'[t] = "copy" => pc[t] = "copy"
    PROVE  Delivery!Next
  <1>1. ASSUME NEW n, n \in OnItsWay' PROVE n \in OnItsWay
    BY <1>1, WayFacts
  <1>2. Returned' = Returned
    BY DEF Returned
  <1> QED BY <1>1, <1>2, Loss

\* The pop takes the head of the ring into the thread's hand.
LEMMA PopRefines ==
    ASSUME IInv, NEW t \in Thread, ReadPop(t), ring # <<>>
    PROVE  Delivery!Next
  <1>1. /\ ring \in Seq(1 .. MaxPush) /\ ring' = Tail(ring) /\ UNCHANGED <<pushed, results>>
        /\ pc' = [pc EXCEPT ![t] = "copy"] /\ popped' = [popped EXCEPT ![t] = Head(ring)]
        /\ pc \in [Thread -> Labels] /\ popped \in [Thread -> 0 .. MaxPush]
    BY DEF ReadPop, IInv, TypeOK, Goto
  <1>2. /\ Len(ring) \in Nat /\ Len(ring) >= 1 /\ DOMAIN ring = 1 .. Len(ring)
        /\ DOMAIN ring' = 1 .. Len(ring) - 1 /\ Head(ring) = ring[1]
        /\ \A i \in DOMAIN ring' : ring'[i] = ring[i + 1]
    BY <1>1, TailFacts
  <1>3. 1 \in DOMAIN ring /\ \A i \in DOMAIN ring' : i + 1 \in DOMAIN ring
    BY <1>2
  <1>4. ASSUME NEW n, n \in OnItsWay' PROVE n \in OnItsWay
    <2>1. CASE \E j \in DOMAIN ring' : ring'[j] = n
      BY <1>2, <1>3, <2>1, WayFacts
    <2>2. CASE \E u \in Thread : pc'[u] = "copy" /\ popped'[u] = n
      <3>1. n = ring[1] \/ \E u \in Thread : pc[u] = "copy" /\ popped[u] = n
        BY <1>1, <1>2, <2>2
      <3> QED BY <1>3, <3>1, WayFacts
    <2> QED BY <1>4, <2>1, <2>2, WayFacts
  <1>5. Returned' = Returned
    BY <1>1 DEF Returned
  <1> QED BY <1>1, <1>4, <1>5, Loss

\* The copy returns the frame the thread popped, or gives it up.
LEMMA CopyRefines ==
    ASSUME SingleThreaded, IInv, OrderInv, NEW t \in Thread, ReadCopy(t)
    PROVE  Delivery!Next
  <1>1. PICK n : n = popped[t]
    OBVIOUS
  <1>2. n \in 1 .. MaxPush /\ n = staging /\ n # Wiped /\ \A j \in DOMAIN ring : ring[j] # n
    <2>1. /\ n \in 0 .. MaxPush /\ n # Wiped /\ n = staging
          /\ \A j \in DOMAIN ring : n < ring[j] /\ ring[j] \in Nat
      BY <1>1, NumberFacts DEF ReadCopy, IInv, CopyInv, TypeOK, OrderInv
    <2> QED BY <2>1, CdevAssumption DEF Wiped
  <1>3. PICK x \in Result : results' = Append(results, x) /\ x.got \in {Wiped, n}
    BY <1>1, <1>2, CdevAssumption DEF ReadCopy, Result, Wiped
  <1>4. /\ UNCHANGED <<ring, pushed>> /\ pc[t] = "copy" /\ pc' = [pc EXCEPT ![t] = "out"]
        /\ pc \in [Thread -> Labels]
    BY DEF ReadCopy, Goto, At, IInv, TypeOK
  <1>5. /\ \A u \in Thread : pc'[u] # "copy"
        /\ \A u \in Thread : pc[u] = "copy" => u = t
    BY <1>4, OneReader DEF At
  <1>6. OnItsWay' = OnItsWay \ {n} /\ n \in OnItsWay
    <2>1. \A k : k \in OnItsWay' <=> k \in OnItsWay /\ k # n
      BY <1>1, <1>2, <1>4, <1>5, WayFacts
    <2>2. n \in OnItsWay
      BY <1>1, <1>4, WayFacts
    <2> QED BY <2>1, <2>2
  <1>7. /\ Len(results) \in Nat /\ DOMAIN results = 1 .. Len(results)
        /\ DOMAIN results' = 1 .. Len(results) + 1
        /\ \A i \in DOMAIN results : results'[i] = results[i]
        /\ results'[Len(results) + 1] = x
    <2>1. results \in Seq(Result)
      BY DEF IInv, TypeOK
    <2> QED BY <1>3, <2>1, AppendFacts
  <1>8. /\ Len(results) + 1 \in DOMAIN results' /\ \A i \in DOMAIN results : i \in DOMAIN results'
        /\ \A i \in DOMAIN results' : i \in DOMAIN results \/ i = Len(results) + 1
    BY <1>7
  <1>9. \A k : k \in Returned' <=> k \in Returned \/ (k = x.got /\ k # Wiped)
    BY <1>7, <1>8 DEF Returned, Wiped
  <1>10. CASE x.got = Wiped
    <2>1. Returned' = Returned
      BY <1>9, <1>10
    <2> QED BY <1>4, <1>6, <2>1, Loss
  <1>11. CASE x.got = n
    <2>1. Returned' = Returned \cup {n}
      BY <1>2, <1>9, <1>11
    <2> QED BY <1>4, <1>6, <2>1 DEF Delivery!Next, Delivery!Deliver
  <1> QED BY <1>3, <1>10, <1>11

\* A producer offers a frame, and the ring takes it or not.
LEMMA PushRefines ==
    ASSUME IInv, NEW p \in Producer, Push(p) \/ PushFull(p)
    PROVE  Delivery!Next
  <1>1. /\ pushed' = pushed + 1 /\ UNCHANGED <<pc, popped, results>> /\ ring \in Seq(1 .. MaxPush)
        /\ ring' = ring \/ ring' = Append(ring, pushed + 1)
    BY DEF Push, PushFull, readVars, IInv, TypeOK
  <1>2. Returned' = Returned
    BY <1>1 DEF Returned
  <1>3. CASE ring' = ring
    <2>1. OnItsWay' = OnItsWay
      BY <1>1, <1>3 DEF OnItsWay, At
    <2> QED BY <1>1, <1>2, <2>1 DEF Delivery!Next, Delivery!Produce
  <1>4. CASE ring' = Append(ring, pushed + 1)
    <2>1. /\ Len(ring) \in Nat /\ DOMAIN ring = 1 .. Len(ring)
          /\ DOMAIN ring' = 1 .. Len(ring) + 1
          /\ \A i \in DOMAIN ring : ring'[i] = ring[i]
          /\ ring'[Len(ring) + 1] = pushed + 1
      BY <1>1, <1>4
    <2>2. /\ Len(ring) + 1 \in DOMAIN ring' /\ \A i \in DOMAIN ring : i \in DOMAIN ring'
          /\ \A i \in DOMAIN ring' : i \in DOMAIN ring \/ i = Len(ring) + 1
      BY <2>1
    <2>3. \A n : n \in OnItsWay' <=> n \in OnItsWay \/ n = pushed + 1
      BY <1>1, <2>1, <2>2, WayFacts
    <2>4. OnItsWay' = OnItsWay \cup {pushed + 1}
      BY <2>3
    <2> QED BY <1>1, <1>2, <2>4 DEF Delivery!Next, Delivery!Produce
  <1> QED BY <1>1, <1>3, <1>4

LEMMA StepRefines ==
    ASSUME SingleThreaded
    PROVE  IInv /\ OrderInv /\ [Next]_vars => [Delivery!Next]_(Delivery!vars)
  <1> SUFFICES ASSUME IInv, OrderInv, [Next]_vars PROVE Delivery!Next
    OBVIOUS
  <1>0. pc \in [Thread -> Labels]
    BY DEF IInv, TypeOK
  <1> USE <1>0 DEF Goto, fileVars, readVars, exitVars, WakeAll
  <1>1. ASSUME NEW p \in Producer, Wake(p) PROVE Delivery!Next
    BY <1>1, FramesStay DEF Wake
  <1>2. ASSUME NEW t \in Thread,
               \/ Open(t) \/ ReadCheck(t) \/ ReadSignal(t) \/ ReadReady(t)
               \/ \E count \in {"tiny", "header", "full"} : ReadEnter(t, count)
        PROVE  Delivery!Next
    <2>1. UNCHANGED <<ring, pushed, popped, results>>
      BY <1>2 DEF Open, ReadCheck, ReadSignal, ReadReady, ReadEnter
    <2>2. pc' = pc \/ \E l \in {"check", "ready", "asleep", "out", "pop"} : pc' = [pc EXCEPT ![t] = l]
      BY <1>2 DEF Open, ReadCheck, ReadSignal, ReadReady, ReadEnter
    <2>3. \A u \in Thread : pc'[u] = "copy" => pc[u] = "copy"
      BY <2>2
    <2> QED BY <2>1, <2>3, FramesStay
  <1>3. ASSUME NEW t \in Thread, ReadPop(t), ring = <<>> PROVE Delivery!Next
    BY <1>3, FramesStay DEF ReadPop
  <1>4. ASSUME NEW p \in Process, Release(p) PROVE Delivery!Next
    BY <1>4, FramesStay DEF Release
  <1>5. CASE InitDone \/ ExitBegin \/ ExitFree
    BY <1>5, FramesStay DEF InitDone, ExitBegin, ExitFree
  <1>6. CASE UNCHANGED vars
    BY <1>6, FramesStay DEF vars
  <1> QED BY <1>1, <1>2, <1>3, <1>4, <1>5, <1>6, PushRefines, PopRefines, CopyRefines DEF Next, ReadStep

\* When no process reads with two threads, the device implements AtMostOnce:
\* opens and closes, failed copies, signals and the shutdown lose frames, but no
\* read() returns one twice, or one that an earlier read() gave up.
THEOREM DeviceDeliversAtMostOnce ==
    ASSUME SingleThreaded
    PROVE  Spec => DeliversAtMostOnce
  <1>1. Init => Delivery!Init
    <2> SUFFICES ASSUME Init PROVE Delivery!Init
      OBVIOUS
    <2>1. pushed = 0 /\ Returned = {}
      BY DEF Init, Returned
    <2>2. \A n : n \notin OnItsWay
      BY WayFacts DEF Init
    <2> QED BY <2>1, <2>2 DEF Delivery!Init
  <1>2. IInv /\ OrderInv /\ [Next]_vars => (IInv /\ OrderInv)'
    BY IInvInductive, OrderInductive
  <1> QED BY <1>1, <1>2, InitIInv, StepRefines, PTL
         DEF Spec, DeliversAtMostOnce, Delivery!Spec

=============================================================================
