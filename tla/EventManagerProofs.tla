------------------------- MODULE EventManagerProofs -------------------------
(***************************************************************************)
(* For any number of callers, CPUs, ring sizes and events: the types, that *)
(* no event is ever stranded in a per-CPU ring, that every numbered event  *)
(* is in exactly one place, that the statistics account for all, and that  *)
(* userspace reads each at most once (AtMostOnce).                         *)
(***************************************************************************)
EXTENDS EventManager, SequenceTheorems, FiniteSetTheorems, TLAPS

(* The event a caller is about to enqueue, and the one a flusher is about  *)
(* to send, are real sequence numbers: what TypeOK needs to be inductive.  *)
InHand == \A t \in Logger :
  /\ pc[t] = "enqueue" \/ attempt[t] = "retry" => ev[t] \in Seqs
  /\ pc[t] \in {"send", "encrypt", "push"} => held[t] \in Seqs

TypeInv == TypeOK /\ InHand

USE EventManagerAssumption DEF Cpu, Seqs, None, Stat, Fates, At, Goto

(* A counter of the statistics goes up.                                    *)
LEMMA CountUp ==
    ASSUME NEW f \in [Stat -> Nat], NEW k \in Stat
    PROVE  [f EXCEPT ![k] = @ + 1] \in [Stat -> Nat]
  <1>1. f[k] + 1 \in Nat
    OBVIOUS
  <1> QED BY <1>1

LEMMA InitTypeInv == Init => TypeInv
  BY DEF Init, TypeInv, TypeOK, SharedOK, LocalOK, InHand

LEMMA NextTypeInv == TypeInv /\ [Next]_vars => TypeInv'
  <1> SUFFICES ASSUME SharedOK, LocalOK, InHand, [Next]_vars PROVE TypeInv'
    BY DEF TypeInv, TypeOK
  <1>1. ASSUME NEW t \in Logger, LogEvent(t) PROVE TypeInv'
    <2>1. seqCounter + 1 \in 1..MaxSeq
      BY <1>1 DEF LogEvent, SharedOK
    <2>2. SharedOK'
      <3>1. stats' \in [Stat -> Nat]
        BY <1>1, CountUp DEF LogEvent, SharedOK
      <3>2. seqCounter' = seqCounter + 1 /\ UNCHANGED <<buf, ring, key, fate>>
        BY <1>1 DEF LogEvent
      <3>3. seqCounter' \in 0..MaxSeq
        BY <2>1, <3>2
      <3> QED BY <3>1, <3>2, <3>3 DEF SharedOK
    <2>3. LocalOK'
      BY <1>1, <2>1 DEF LogEvent, LocalOK
    <2>4. InHand'
      BY <1>1, <2>1 DEF LogEvent, InHand, LocalOK
    <2> QED
      BY <2>2, <2>3, <2>4 DEF TypeInv, TypeOK
  <1>2. ASSUME NEW t \in Logger, NEW c \in Cpu, Enqueue(t, c) PROVE TypeInv'
    <2>1. /\ Append(buf[c], ev[t]) \in Seq(1..MaxSeq)
          /\ Len(Append(buf[c], ev[t])) <= BufBound
      BY <1>2 DEF Enqueue, SharedOK, InHand
    <2>2. SharedOK'
      BY <1>2, <2>1 DEF Enqueue, SharedOK
    <2>3. LocalOK'
      BY <1>2 DEF Enqueue, LocalOK
    <2>4. InHand'
      BY <1>2 DEF Enqueue, InHand, LocalOK
    <2> QED
      BY <2>2, <2>3, <2>4 DEF TypeInv, TypeOK
  <1>3. ASSUME NEW t \in Logger, NEW c \in Cpu, EnqueueFull(t, c) PROVE TypeInv'
    <2>1. stats' \in [Stat -> Nat]
      BY <1>3, CountUp DEF EnqueueFull, SharedOK
    <2>2. fate' \in [Seqs -> Fates]
      BY <1>3 DEF EnqueueFull, SharedOK
    <2>3. SharedOK'
      BY <1>3, <2>1, <2>2 DEF EnqueueFull, SharedOK
    <2>4. CASE attempt[t] = "first"
      <3>1. LocalOK'
        <4>1. /\ attempt' = [attempt EXCEPT ![t] = "retry"]
              /\ cur' = [cur EXCEPT ![t] = 1]
              /\ pc' = [pc EXCEPT ![t] = "flush"]
              /\ UNCHANGED <<ev, held, sres>>
          BY <1>3, <2>4 DEF EnqueueFull
        <4> QED
          BY <4>1 DEF LocalOK
      <3>2. InHand'
        BY <1>3, <2>4 DEF EnqueueFull, LocalOK, InHand
      <3> QED
        BY <2>3, <3>1, <3>2 DEF TypeInv, TypeOK
    <2>5. CASE attempt[t] = "retry"
      <3>1. LocalOK'
        BY <1>3, <2>5 DEF EnqueueFull, LocalOK
      <3>2. InHand'
        BY <1>3, <2>5 DEF EnqueueFull, LocalOK, InHand
      <3> QED
        BY <2>3, <3>1, <3>2 DEF TypeInv, TypeOK
    <2> QED
      BY <1>3, <2>4, <2>5 DEF EnqueueFull
  <1>4. ASSUME NEW t \in Logger, FlushPop(t) PROVE TypeInv'
    <2>1. /\ Head(buf[cur[t]]) \in 1..MaxSeq
          /\ Tail(buf[cur[t]]) \in Seq(1..MaxSeq)
          /\ Len(Tail(buf[cur[t]])) <= BufBound
      <3>1. /\ buf[cur[t]] \in Seq(1..MaxSeq)
            /\ buf[cur[t]] # <<>>
            /\ Len(buf[cur[t]]) <= BufBound
        BY <1>4 DEF FlushPop, SharedOK
      <3>2. /\ Head(buf[cur[t]]) \in 1..MaxSeq
            /\ Tail(buf[cur[t]]) \in Seq(1..MaxSeq)
            /\ Len(Tail(buf[cur[t]])) = Len(buf[cur[t]]) - 1
        BY <3>1, HeadTailProperties
      <3>3. Len(buf[cur[t]]) \in Nat
        BY <3>1
      <3> QED
        BY <3>1, <3>2, <3>3
    <2>2. SharedOK'
      BY <1>4, <2>1 DEF FlushPop, SharedOK
    <2>3. LocalOK'
      <3>1. /\ held' = [held EXCEPT ![t] = Head(buf[cur[t]])] /\ Head(buf[cur[t]]) \in 0..MaxSeq
            /\ pc' = [pc EXCEPT ![t] = "send"] /\ UNCHANGED <<ev, attempt, cur, sres>>
        BY <1>4, <2>1 DEF FlushPop
      <3> QED BY <3>1 DEF LocalOK
    <2>4. InHand'
      BY <1>4, <2>1 DEF FlushPop, InHand, LocalOK
    <2> QED
      BY <2>2, <2>3, <2>4 DEF TypeInv, TypeOK
  <1>5. ASSUME NEW t \in Logger, FlushAdvance(t) PROVE TypeInv'
    <2>1. SharedOK'
      BY <1>5 DEF FlushAdvance, SharedOK
    <2>2. LocalOK'
      BY <1>5 DEF FlushAdvance, LocalOK
    <2>3. InHand'
      BY <1>5 DEF FlushAdvance, InHand, LocalOK
    <2> QED
      BY <2>1, <2>2, <2>3 DEF TypeInv, TypeOK
  <1>6. ASSUME NEW t \in Logger, FlushDone(t) PROVE TypeInv'
    <2>1. SharedOK'
      BY <1>6 DEF FlushDone, SharedOK
    <2>2. LocalOK'
      BY <1>6 DEF FlushDone, LocalOK
    <2>3. InHand'
      BY <1>6 DEF FlushDone, InHand, LocalOK
    <2> QED
      BY <2>1, <2>2, <2>3 DEF TypeInv, TypeOK
  <1>7. ASSUME NEW t \in Logger, SendNoKey(t) PROVE TypeInv'
    <2>1. SharedOK'
      BY <1>7 DEF SendNoKey, SharedOK
    <2>2. LocalOK'
      BY <1>7 DEF SendNoKey, LocalOK
    <2>3. InHand'
      BY <1>7 DEF SendNoKey, InHand, LocalOK
    <2> QED
      BY <2>1, <2>2, <2>3 DEF TypeInv, TypeOK
  <1>8. ASSUME NEW t \in Logger, SendHasKey(t) PROVE TypeInv'
    <2>1. SharedOK'
      BY <1>8 DEF SendHasKey, SharedOK
    <2>2. LocalOK'
      BY <1>8 DEF SendHasKey, LocalOK
    <2>3. InHand'
      BY <1>8 DEF SendHasKey, InHand, LocalOK
    <2> QED
      BY <2>1, <2>2, <2>3 DEF TypeInv, TypeOK
  <1>9. ASSUME NEW t \in Logger, Encrypt(t) PROVE TypeInv'
    <2>1. SharedOK'
      BY <1>9 DEF Encrypt, SharedOK
    <2>2. LocalOK'
      BY <1>9 DEF Encrypt, LocalOK
    <2>3. InHand'
      BY <1>9 DEF Encrypt, InHand, LocalOK
    <2> QED
      BY <2>1, <2>2, <2>3 DEF TypeInv, TypeOK
  <1>10. ASSUME NEW t \in Logger, EncryptFail(t) PROVE TypeInv'
    <2>1. SharedOK'
      BY <1>10 DEF EncryptFail, SharedOK
    <2>2. LocalOK'
      BY <1>10 DEF EncryptFail, LocalOK
    <2>3. InHand'
      BY <1>10 DEF EncryptFail, InHand, LocalOK
    <2> QED
      BY <2>1, <2>2, <2>3 DEF TypeInv, TypeOK
  <1>11. ASSUME NEW t \in Logger, Push(t) PROVE TypeInv'
    <2>1. /\ Append(ring, held[t]) \in Seq(1..MaxSeq)
          /\ Len(Append(ring, held[t])) = Len(ring) + 1
          /\ Len(ring) \in Nat
      BY <1>11 DEF Push, SharedOK, InHand
    <2>2. SharedOK'
      <3>1. ring' \in Seq(1..MaxSeq) /\ Len(ring') <= RingBound
        <4>1. CASE Len(ring) < RingBound
          <5>1. ring' = Append(ring, held[t])
            BY <1>11, <2>1, <4>1 DEF Push
          <5> QED
            BY <2>1, <4>1, <5>1
        <4>2. CASE Len(ring) >= RingBound
          BY <1>11, <2>1, <4>2 DEF Push, SharedOK
        <4> QED
          BY <2>1, <4>1, <4>2
      <3>2. fate' \in [Seqs -> Fates]
        BY <1>11 DEF Push, SharedOK
      <3>3. UNCHANGED <<seqCounter, buf, stats, key>>
        BY <1>11 DEF Push
      <3> QED
        BY <3>1, <3>2, <3>3 DEF SharedOK
    <2>3. LocalOK'
      BY <1>11 DEF Push, LocalOK
    <2>4. InHand'
      BY <1>11 DEF Push, InHand, LocalOK
    <2> QED
      BY <2>2, <2>3, <2>4 DEF TypeInv, TypeOK
  <1>12. ASSUME NEW t \in Logger, CountSend(t) PROVE TypeInv'
    <2>1. stats' \in [Stat -> Nat]
      <3>1. stats \in [Stat -> Nat] /\ "failures" \in Stat /\ "sent" \in Stat
        BY DEF SharedOK
      <3> QED BY <1>12, <3>1, CountUp DEF CountSend
    <2>2. UNCHANGED <<seqCounter, buf, ring, key, fate>>
      BY <1>12 DEF CountSend
    <2>3. SharedOK'
      BY <2>1, <2>2 DEF SharedOK
    <2>4. LocalOK'
      BY <1>12 DEF CountSend, LocalOK
    <2>5. InHand'
      BY <1>12 DEF CountSend, InHand, LocalOK
    <2> QED
      BY <2>3, <2>4, <2>5 DEF TypeInv, TypeOK
  <1>13. ASSUME NEW t \in Logger, SetKeyBegin(t) PROVE TypeInv'
    <2>1. SharedOK'
      BY <1>13 DEF SetKeyBegin, SharedOK
    <2>2. LocalOK'
      BY <1>13 DEF SetKeyBegin, LocalOK
    <2>3. InHand'
      BY <1>13 DEF SetKeyBegin, InHand, LocalOK
    <2> QED
      BY <2>1, <2>2, <2>3 DEF TypeInv, TypeOK
  <1>14. ASSUME NEW t \in Logger, SetKeyEnd(t) PROVE TypeInv'
    <2>1. SharedOK'
      BY <1>14 DEF SetKeyEnd, SharedOK
    <2>2. LocalOK'
      BY <1>14 DEF SetKeyEnd, LocalOK
    <2>3. InHand'
      BY <1>14 DEF SetKeyEnd, InHand, LocalOK
    <2> QED
      BY <2>1, <2>2, <2>3 DEF TypeInv, TypeOK
  <1>15. CASE ReadFrame
    <2>1. /\ Tail(ring) \in Seq(1..MaxSeq)
          /\ Len(Tail(ring)) <= RingBound
      BY <1>15, HeadTailProperties DEF ReadFrame, SharedOK
    <2>2. SharedOK'
      BY <1>15, <2>1 DEF ReadFrame, SharedOK
    <2>3. LocalOK'
      BY <1>15 DEF ReadFrame, LocalOK
    <2>4. InHand'
      BY <1>15 DEF ReadFrame, InHand, LocalOK
    <2> QED
      BY <2>2, <2>3, <2>4 DEF TypeInv, TypeOK
  <1>16. CASE UNCHANGED vars
    <2>1. SharedOK'
      BY <1>16 DEF vars, SharedOK
    <2>2. LocalOK'
      BY <1>16 DEF vars, LocalOK
    <2>3. InHand'
      BY <1>16 DEF vars, InHand, LocalOK
    <2> QED
      BY <2>1, <2>2, <2>3 DEF TypeInv, TypeOK
  <1> QED
    BY <1>1, <1>2, <1>3, <1>4, <1>5, <1>6, <1>7, <1>8, <1>9, <1>10, <1>11, <1>12, <1>13, <1>14, <1>15, <1>16
       DEF Next, Step

(* Every variable of the event manager keeps its type; in particular no    *)
(* per-CPU ring and no frame ring ever holds more than its bound.          *)
THEOREM TypeCorrect == Spec => []TypeOK
  <1>1. TypeInv => TypeOK
    BY DEF TypeInv
  <1> QED
    BY InitTypeInv, NextTypeInv, <1>1, PTL DEF Spec

-----------------------------------------------------------------------------
LEMMA InitNoStranded == Init => NoStrandedEvent
  BY DEF Init, NoStrandedEvent

(* Only Enqueue makes a ring non-empty, and its caller starts a full walk; *)
(* only FlushAdvance moves a caller past a ring, and it finds that ring    *)
(* empty; every other step leaves the walks where they are.                *)
LEMMA NextNoStranded == TypeOK /\ NoStrandedEvent /\ [Next]_vars => NoStrandedEvent'
  <1> SUFFICES ASSUME TypeOK, NoStrandedEvent, [Next]_vars PROVE NoStrandedEvent'
    OBVIOUS
  <1> USE DEF NoStrandedEvent, WillFlush, Flushing
  <1>1. ASSUME NEW t \in Logger, NEW c \in Cpu, Enqueue(t, c) PROVE NoStrandedEvent'
    BY <1>1 DEF Enqueue, TypeOK, LocalOK
  <1>2. ASSUME NEW t \in Logger, NEW c \in Cpu, EnqueueFull(t, c) PROVE NoStrandedEvent'
    BY <1>2 DEF EnqueueFull, TypeOK, LocalOK
  <1>3. ASSUME NEW t \in Logger, FlushPop(t) PROVE NoStrandedEvent'
    <2>1. \A c \in Cpu : buf'[c] # <<>> => buf[c] # <<>>
      BY <1>3 DEF FlushPop, TypeOK, SharedOK
    <2>2. \A u \in Logger, c \in Cpu : WillFlush(u, c) => WillFlush(u, c)'
      BY <1>3 DEF FlushPop, TypeOK, LocalOK
    <2> QED
      BY <2>1, <2>2
  <1>4. ASSUME NEW t \in Logger, FlushAdvance(t) PROVE NoStrandedEvent'
    <2>1. \A u \in Logger, c \in Cpu : WillFlush(u, c) /\ buf[c] # <<>> => WillFlush(u, c)'
      BY <1>4 DEF FlushAdvance, TypeOK, LocalOK
    <2> QED
      BY <1>4, <2>1 DEF FlushAdvance
  <1>5. ASSUME NEW t \in Logger, FlushDone(t) PROVE NoStrandedEvent'
    <2>1. \A u \in Logger, c \in Cpu : WillFlush(u, c) => WillFlush(u, c)'
      BY <1>5 DEF FlushDone, TypeOK, LocalOK
    <2> QED
      BY <1>5, <2>1 DEF FlushDone
  <1>6. ASSUME NEW t \in Logger,
               \/ SendNoKey(t) \/ SendHasKey(t) \/ Encrypt(t) \/ EncryptFail(t)
               \/ Push(t) \/ CountSend(t)
        PROVE  NoStrandedEvent'
    <2>1. \A u \in Logger, c \in Cpu : WillFlush(u, c) => WillFlush(u, c)'
      BY <1>6 DEF SendNoKey, SendHasKey, Encrypt, EncryptFail, Push, CountSend, TypeOK, LocalOK
    <2>2. buf' = buf
      BY <1>6 DEF SendNoKey, SendHasKey, Encrypt, EncryptFail, Push, CountSend
    <2> QED
      BY <2>1, <2>2
  <1>7. ASSUME NEW t \in Logger, LogEvent(t) \/ SetKeyBegin(t) \/ SetKeyEnd(t)
        PROVE  NoStrandedEvent'
    <2>1. \A u \in Logger, c \in Cpu : WillFlush(u, c) => WillFlush(u, c)'
      BY <1>7 DEF LogEvent, SetKeyBegin, SetKeyEnd, TypeOK, LocalOK
    <2>2. buf' = buf
      BY <1>7 DEF LogEvent, SetKeyBegin, SetKeyEnd
    <2> QED
      BY <2>1, <2>2
  <1>8. CASE ReadFrame
    BY <1>8 DEF ReadFrame
  <1>9. CASE UNCHANGED vars
    BY <1>9 DEF vars
  <1> QED
    BY <1>1, <1>2, <1>3, <1>4, <1>5, <1>6, <1>7, <1>8, <1>9 DEF Next, Step

(* An event left in a per-CPU ring always has a caller on its way to flush *)
(* that ring, whatever the number of callers, CPUs and slots.              *)
THEOREM NoEventStranded == Spec => []NoStrandedEvent
  BY InitNoStranded, NextNoStranded, TypeCorrect, PTL DEF Spec

(* When every photon_log_event call has returned, nothing is left in the   *)
(* per-CPU rings.                                                          *)
THEOREM IdleMeansDrained == Spec => []DrainedWhenIdle
  <1>1. NoStrandedEvent => DrainedWhenIdle
    BY DEF NoStrandedEvent, DrainedWhenIdle, WillFlush
  <1> QED
    BY <1>1, NoEventStranded, PTL
-----------------------------------------------------------------------------
(* Where events are, element by element.  Carried and held events are      *)
(* those of a caller; a held event is being sent until its outcome is      *)
(* known, and merely remembered until that is counted.                     *)
Carried(t) == attempt[t] # "done"
Holding(t) == pc[t] \in {"send", "encrypt", "push", "count"}
Sending(t) == pc[t] \in {"send", "encrypt", "push"}

CallInv == \A t \in Logger :
  /\ pc[t] = "enqueue" => Carried(t)
  /\ attempt[t] = "first" => pc[t] = "enqueue"
  /\ attempt[t] = "retry" => pc[t] = "enqueue" \/ Flushing(t)

RangeInv ==
  /\ \A t \in Logger : Carried(t) => ev[t] \in 1..seqCounter
  /\ \A c \in Cpu : \A i \in DOMAIN buf[c] : buf[c][i] \in 1..seqCounter
  /\ \A t \in Logger : Holding(t) => held[t] \in 1..seqCounter
  /\ \A i \in DOMAIN ring : ring[i] \in 1..seqCounter
  /\ \A n \in Seqs : fate[n] # "open" => n <= seqCounter

CarryInv == \A t \in Logger : Carried(t) =>
  /\ \A u \in Logger : u # t /\ Carried(u) => ev[u] # ev[t]
  /\ \A c \in Cpu : \A i \in DOMAIN buf[c] : buf[c][i] # ev[t]
  /\ \A u \in Logger : Holding(u) => held[u] # ev[t]
  /\ \A i \in DOMAIN ring : ring[i] # ev[t]
  /\ fate[ev[t]] = "open"

BufInv == \A c \in Cpu : \A i \in DOMAIN buf[c] :
  /\ \A d \in Cpu : \A j \in DOMAIN buf[d] : buf[d][j] = buf[c][i] => d = c /\ j = i
  /\ \A u \in Logger : Holding(u) => held[u] # buf[c][i]
  /\ \A j \in DOMAIN ring : ring[j] # buf[c][i]
  /\ fate[buf[c][i]] = "open"

HoldInv == \A t \in Logger : Holding(t) =>
  /\ \A u \in Logger : u # t /\ Holding(u) => held[u] # held[t]
  /\ Sending(t) => /\ \A j \in DOMAIN ring : ring[j] # held[t]
                   /\ fate[held[t]] = "open"

FrameInv == \A i \in DOMAIN ring :
  /\ \A j \in DOMAIN ring : ring[j] = ring[i] => j = i
  /\ fate[ring[i]] = "open"

(* Nothing is lost.                                                        *)
CoverInv == \A n \in 1..seqCounter :
  \/ \E t \in Logger : Carried(t) /\ ev[t] = n
  \/ \E c \in Cpu : \E i \in DOMAIN buf[c] : buf[c][i] = n
  \/ \E t \in Logger : Sending(t) /\ held[t] = n
  \/ \E i \in DOMAIN ring : ring[i] = n
  \/ fate[n] # "open"

PlaceInv == /\ CallInv /\ RangeInv /\ CarryInv /\ BufInv /\ HoldInv
            /\ FrameInv /\ CoverInv

LEMMA AppendFacts ==
    ASSUME NEW S, NEW q \in Seq(S), NEW x \in S
    PROVE  /\ Len(q) \in Nat /\ Len(Append(q, x)) = Len(q) + 1
           /\ DOMAIN Append(q, x) = 1 .. Len(q) + 1 /\ DOMAIN q = 1 .. Len(q)
           /\ \A i \in DOMAIN q : Append(q, x)[i] = q[i]
           /\ Append(q, x)[Len(q) + 1] = x
  OBVIOUS

LEMMA TailFacts ==
    ASSUME NEW S, NEW q \in Seq(S), q # <<>>
    PROVE  /\ Len(q) \in Nat /\ Len(q) >= 1
           /\ DOMAIN Tail(q) = 1 .. Len(q) - 1 /\ DOMAIN q = 1 .. Len(q)
           /\ \A i \in DOMAIN Tail(q) : Tail(q)[i] = q[i + 1]
           /\ Head(q) = q[1] /\ Head(q) \in S
  OBVIOUS

(* The elements behind the head move down by one.                          *)
LEMMA TailShift ==
    ASSUME NEW S, NEW q \in Seq(S), q # <<>>
    PROVE  /\ 1 \in DOMAIN q /\ Head(q) = q[1]
           /\ \A i \in DOMAIN Tail(q) :
                 i \in Nat /\ i + 1 # 1 /\ i + 1 \in DOMAIN q /\ Tail(q)[i] = q[i + 1]
           /\ \A i \in DOMAIN q : i # 1 =>
                 i - 1 \in DOMAIN Tail(q) /\ Tail(q)[i - 1] = q[i]
  <1>1. /\ Len(q) \in Nat /\ Len(q) >= 1
        /\ DOMAIN Tail(q) = 1 .. Len(q) - 1 /\ DOMAIN q = 1 .. Len(q)
        /\ \A i \in DOMAIN Tail(q) : Tail(q)[i] = q[i + 1]
        /\ Head(q) = q[1]
    BY TailFacts
  <1>2. ASSUME NEW i \in DOMAIN Tail(q)
        PROVE  i \in Nat /\ i + 1 # 1 /\ i + 1 \in DOMAIN q /\ Tail(q)[i] = q[i + 1]
    BY <1>1, <1>2
  <1>3. ASSUME NEW i \in DOMAIN q, i # 1
        PROVE  i - 1 \in DOMAIN Tail(q) /\ Tail(q)[i - 1] = q[i]
    <2>1. i - 1 \in DOMAIN Tail(q) /\ (i - 1) + 1 = i
      BY <1>1, <1>3
    <2> QED BY <1>1, <2>1
  <1> QED BY <1>1, <1>2, <1>3

LEMMA InitPlaceInv == Init => PlaceInv
  <1> SUFFICES ASSUME Init PROVE PlaceInv
    OBVIOUS
  <1> USE DEF Init, Carried, Holding, Sending
  <1>1. CallInv
    BY DEF CallInv
  <1>2. RangeInv
    BY DEF RangeInv
  <1>3. CarryInv /\ BufInv
    BY DEF CarryInv, BufInv
  <1>4. HoldInv /\ FrameInv
    BY DEF HoldInv, FrameInv
  <1>5. CoverInv
    BY DEF CoverInv
  <1> QED BY <1>1, <1>2, <1>3, <1>4, <1>5 DEF PlaceInv

HIDE DEF Cpu, Seqs, Stat, Fates

(* What the types say, in the form the steps below use.                    *)
LEMMA EventFacts ==
    ASSUME TypeInv
    PROVE  /\ seqCounter \in Nat /\ \A n \in 1..seqCounter : n \in Seqs
           /\ \A t \in Logger : ev[t] \in Nat /\ held[t] \in Nat
           /\ \A c \in Cpu : buf[c] \in Seq(Seqs) /\ DOMAIN buf[c] = 1..Len(buf[c]) /\ Len(buf[c]) \in Nat
           /\ ring \in Seq(Seqs) /\ DOMAIN ring = 1..Len(ring) /\ Len(ring) \in Nat
           /\ \A n \in Seqs : n \in Nat
  BY DEF TypeInv, TypeOK, SharedOK, LocalOK, Seqs

(* A step that moves no event.                                             *)
LEMMA PlacesStay ==
    ASSUME PlaceInv, UNCHANGED <<seqCounter, buf, ring, fate, ev, held>>, CallInv',
           \A u \in Logger : /\ attempt'[u] = "done" <=> attempt[u] = "done"
                             /\ Holding(u)' <=> Holding(u)
                             /\ Sending(u)' <=> Sending(u)
    PROVE  PlaceInv'
  <1> USE DEF Carried, Holding, Sending
  <1>1. RangeInv'
    BY DEF PlaceInv, RangeInv
  <1>2. CarryInv'
    BY DEF PlaceInv, CarryInv
  <1>3. BufInv'
    BY DEF PlaceInv, BufInv
  <1>4. HoldInv' /\ FrameInv'
    BY DEF PlaceInv, HoldInv, FrameInv
  <1>5. CoverInv'
    BY DEF PlaceInv, CoverInv
  <1> QED BY <1>1, <1>2, <1>3, <1>4, <1>5 DEF PlaceInv

LEMMA QuietPlaces ==
    ASSUME TypeInv, PlaceInv, NEW t \in Logger,
           \/ FlushAdvance(t) \/ FlushDone(t) \/ SendHasKey(t) \/ Encrypt(t)
           \/ SetKeyBegin(t) \/ SetKeyEnd(t)
           \/ \E c \in Cpu : EnqueueFull(t, c) /\ attempt[t] = "first"
    PROVE  PlaceInv'
  <1>1. UNCHANGED <<seqCounter, buf, ring, fate, ev, held>>
    BY DEF FlushAdvance, FlushDone, SendHasKey, Encrypt, SetKeyBegin, SetKeyEnd, EnqueueFull
  <1>2. pc \in [Logger -> {"idle", "enqueue", "flush", "send", "encrypt", "push",
                           "count", "keying", "heartbeat"}]
        /\ attempt \in [Logger -> {"first", "retry", "done"}] /\ CallInv
    BY DEF TypeInv, TypeOK, LocalOK, PlaceInv
  <1> USE DEF Carried, Holding, Sending, Flushing, CallInv
  <1>3. CASE \E c \in Cpu : EnqueueFull(t, c) /\ attempt[t] = "first"
    <2>1. /\ pc[t] = "enqueue" /\ pc' = [pc EXCEPT ![t] = "flush"]
          /\ attempt[t] = "first" /\ attempt' = [attempt EXCEPT ![t] = "retry"]
      BY <1>3 DEF EnqueueFull
    <2>2. CallInv'
      BY <1>2, <2>1
    <2>3. \A u \in Logger : /\ attempt'[u] = "done" <=> attempt[u] = "done"
                            /\ Holding(u)' <=> Holding(u)
                            /\ Sending(u)' <=> Sending(u)
      BY <1>2, <2>1
    <2> QED BY <1>1, <2>2, <2>3, PlacesStay
  <1>4. CASE \/ FlushAdvance(t) \/ FlushDone(t) \/ SendHasKey(t) \/ Encrypt(t)
             \/ SetKeyBegin(t) \/ SetKeyEnd(t)
    <2>1. attempt' = attempt
      BY <1>4 DEF FlushAdvance, FlushDone, SendHasKey, Encrypt, SetKeyBegin, SetKeyEnd
    <2>2. \/ pc' = pc
          \/ /\ pc[t] = "flush" /\ attempt[t] = "retry" /\ pc' = [pc EXCEPT ![t] = "enqueue"]
          \/ /\ pc[t] = "flush" /\ attempt[t] # "retry" /\ pc' = [pc EXCEPT ![t] = "idle"]
          \/ pc[t] = "send" /\ pc' = [pc EXCEPT ![t] = "encrypt"]
          \/ pc[t] = "encrypt" /\ pc' = [pc EXCEPT ![t] = "push"]
          \/ pc[t] = "idle" /\ pc' = [pc EXCEPT ![t] = "keying"]
          \/ pc[t] = "keying" /\ pc' = [pc EXCEPT ![t] = "heartbeat"]
          \/ pc[t] = "keying" /\ pc' = [pc EXCEPT ![t] = "idle"]
      BY <1>4 DEF FlushAdvance, FlushDone, SendHasKey, Encrypt, SetKeyBegin, SetKeyEnd
    <2>3. CallInv'
      BY <1>2, <2>1, <2>2
    <2>4. \A u \in Logger : /\ attempt'[u] = "done" <=> attempt[u] = "done"
                            /\ Holding(u)' <=> Holding(u)
                            /\ Sending(u)' <=> Sending(u)
      BY <1>2, <2>1, <2>2
    <2> QED BY <1>1, <2>3, <2>4, PlacesStay
  <1> QED BY <1>3, <1>4

(* An event gets its number: nobody has it yet.                            *)
LEMMA LogPlaces == ASSUME TypeInv, PlaceInv, NEW t \in Logger, LogEvent(t) PROVE PlaceInv'
  <1>1. /\ UNCHANGED <<buf, ring, fate, held>> /\ seqCounter' = seqCounter + 1
        /\ seqCounter \in Nat /\ seqCounter + 1 \in Seqs
        /\ pc[t] \in {"idle", "heartbeat"} /\ attempt[t] = "done"
    <2>1. seqCounter \in 0..MaxSeq /\ seqCounter < MaxSeq
      BY DEF LogEvent, TypeInv, TypeOK, SharedOK
    <2>2. seqCounter \in Nat /\ seqCounter + 1 \in Seqs
      BY <2>1 DEF Seqs
    <2>3. pc[t] \in {"idle", "heartbeat"} /\ attempt[t] \in {"first", "retry", "done"}
      BY DEF LogEvent, TypeInv, TypeOK, LocalOK
    <2>4. attempt[t] = "done"
      BY <2>3 DEF PlaceInv, CallInv, Flushing
    <2> QED BY <2>2, <2>3, <2>4 DEF LogEvent
  <1>2. \A u \in Logger : /\ ev'[u] = IF u = t THEN seqCounter + 1 ELSE ev[u]
                          /\ attempt'[u] = IF u = t THEN "first" ELSE attempt[u]
                          /\ pc'[u] = IF u = t THEN "enqueue" ELSE pc[u]
    BY DEF LogEvent, TypeInv, TypeOK, LocalOK
  <1> USE DEF Carried, Holding, Sending
  <1>3. CallInv'
    BY <1>1, <1>2 DEF PlaceInv, CallInv, Flushing
  <1>4. RangeInv'
    <2>1. /\ \A n \in 1..seqCounter : n \in 1..seqCounter'
          /\ seqCounter + 1 \in 1..seqCounter'
          /\ \A n \in Seqs : n <= seqCounter => n <= seqCounter'
      BY <1>1, EventFacts
    <2>2. RangeInv
      BY DEF PlaceInv
    <2> QED BY <1>1, <1>2, <2>1, <2>2 DEF RangeInv
  <1>5. CarryInv'
    BY <1>1, <1>2, EventFacts DEF PlaceInv, CarryInv, RangeInv
  <1>6. BufInv' /\ FrameInv'
    BY <1>1, <1>2 DEF PlaceInv, BufInv, FrameInv
  <1>7. HoldInv'
    BY <1>1, <1>2 DEF PlaceInv, HoldInv
  <1>8. CoverInv'
    BY <1>1, <1>2 DEF PlaceInv, CoverInv
  <1> QED BY <1>3, <1>4, <1>5, <1>6, <1>7, <1>8 DEF PlaceInv

(* A carried event goes to the end of a ring.                              *)
LEMMA EnqueuePlaces ==
    ASSUME TypeInv, PlaceInv, NEW t \in Logger, NEW c \in Cpu, Enqueue(t, c) PROVE PlaceInv'
  <1>1. /\ UNCHANGED <<seqCounter, ring, fate, held, ev>>
        /\ pc[t] = "enqueue" /\ Carried(t) /\ ev[t] \in Seqs
    BY DEF Enqueue, PlaceInv, CallInv, TypeInv, InHand
  <1>2. \A u \in Logger : /\ attempt'[u] = IF u = t THEN "done" ELSE attempt[u]
                          /\ pc'[u] = IF u = t THEN "flush" ELSE pc[u]
    BY DEF Enqueue, TypeInv, TypeOK, LocalOK
  <1>a. \A d \in Cpu : d # c => buf'[d] = buf[d]
    BY DEF Enqueue, TypeInv, TypeOK, SharedOK
  <1>b. /\ Len(buf[c]) \in Nat /\ DOMAIN buf[c] = 1..Len(buf[c])
        /\ DOMAIN buf'[c] = 1..Len(buf[c]) + 1
        /\ \A i \in DOMAIN buf[c] : buf'[c][i] = buf[c][i]
        /\ buf'[c][Len(buf[c]) + 1] = ev[t]
    <2>1. buf[c] \in Seq(Seqs) /\ buf'[c] = Append(buf[c], ev[t])
      BY EventFacts DEF Enqueue, TypeInv, TypeOK, SharedOK
    <2> QED BY <1>1, <2>1, AppendFacts
  <1>3. \A d \in Cpu : \A i \in DOMAIN buf'[d] :
            \/ i \in DOMAIN buf[d] /\ buf'[d][i] = buf[d][i]
            \/ d = c /\ i = Len(buf[c]) + 1 /\ buf'[d][i] = ev[t]
    <2>1. \A i \in DOMAIN buf'[c] : i \in DOMAIN buf[c] \/ i = Len(buf[c]) + 1
      BY <1>b
    <2> QED BY <1>a, <1>b, <2>1
  <1>4. /\ \A d \in Cpu : \A i \in DOMAIN buf[d] : i \in DOMAIN buf'[d] /\ buf'[d][i] = buf[d][i]
        /\ Len(buf[c]) + 1 \in DOMAIN buf'[c] /\ buf'[c][Len(buf[c]) + 1] = ev[t]
    <2>1. /\ \A i \in DOMAIN buf[c] : i \in DOMAIN buf'[c]
          /\ Len(buf[c]) + 1 \in DOMAIN buf'[c]
      BY <1>b
    <2> QED BY <1>a, <1>b, <2>1
  <1> USE DEF Carried, Holding, Sending
  <1>5. CallInv'
    BY <1>1, <1>2 DEF PlaceInv, CallInv, Flushing
  <1>6. RangeInv'
    BY <1>1, <1>2, <1>3 DEF PlaceInv, RangeInv
  <1>7. CarryInv'
    BY <1>1, <1>2, <1>3 DEF PlaceInv, CarryInv
  <1>8. BufInv'
    BY <1>1, <1>2, <1>3 DEF PlaceInv, BufInv, CarryInv
  <1>9. HoldInv' /\ FrameInv'
    BY <1>1, <1>2 DEF PlaceInv, HoldInv, FrameInv
  <1>10. CoverInv'
    BY <1>1, <1>2, <1>4 DEF PlaceInv, CoverInv
  <1> QED BY <1>5, <1>6, <1>7, <1>8, <1>9, <1>10 DEF PlaceInv

(* A carried event is given up.                                            *)
LEMMA GiveUpPlaces ==
    ASSUME TypeInv, PlaceInv, NEW t \in Logger, NEW c \in Cpu, EnqueueFull(t, c),
           attempt[t] = "retry"
    PROVE  PlaceInv'
  <1>1. /\ UNCHANGED <<seqCounter, ring, held, ev, buf>>
        /\ pc[t] = "enqueue" /\ Carried(t) /\ ev[t] \in Seqs
    BY DEF EnqueueFull, PlaceInv, CallInv, TypeInv, InHand
  <1>2. \A u \in Logger : /\ attempt'[u] = IF u = t THEN "done" ELSE attempt[u]
                          /\ pc'[u] = IF u = t THEN "idle" ELSE pc[u]
    BY DEF EnqueueFull, TypeInv, TypeOK, LocalOK
  <1>3. \A n \in Seqs : fate'[n] = IF n = ev[t] THEN "bufferfull" ELSE fate[n]
    BY DEF EnqueueFull, TypeInv, TypeOK, SharedOK
  <1>4. /\ \A u \in Logger : Carried(u) => ev[u] \in Seqs
        /\ \A u \in Logger : Holding(u) => held[u] \in Seqs
        /\ \A d \in Cpu : \A i \in DOMAIN buf[d] : buf[d][i] \in Seqs
        /\ \A i \in DOMAIN ring : ring[i] \in Seqs
    BY EventFacts DEF PlaceInv, RangeInv
  <1> USE DEF Carried, Holding, Sending
  <1>5. CallInv'
    BY <1>1, <1>2 DEF PlaceInv, CallInv, Flushing
  <1>6. RangeInv'
    BY <1>1, <1>2, <1>3 DEF PlaceInv, RangeInv
  <1>7. CarryInv'
    BY <1>1, <1>2, <1>3, <1>4 DEF PlaceInv, CarryInv
  <1>8. BufInv'
    BY <1>1, <1>2, <1>3, <1>4 DEF PlaceInv, BufInv, CarryInv
  <1>9. HoldInv' /\ FrameInv'
    BY <1>1, <1>2, <1>3, <1>4 DEF PlaceInv, HoldInv, FrameInv, CarryInv
  <1>10. CoverInv'
    <2>1. CoverInv /\ \A n \in 1..seqCounter : n \in Seqs
      BY EventFacts DEF PlaceInv
    <2>2. \A n \in 1..seqCounter : n = ev[t] => fate'[n] # "open"
      BY <1>3, <2>1
    <2>3. \A n \in 1..seqCounter : n # ev[t] => fate'[n] = fate[n]
      BY <1>3, <2>1
    <2> QED BY <1>1, <1>2, <2>1, <2>2, <2>3 DEF CoverInv
  <1> QED BY <1>5, <1>6, <1>7, <1>8, <1>9, <1>10 DEF PlaceInv

(* A flusher takes the oldest event of a ring.                             *)
LEMMA PopPlaces == ASSUME TypeInv, PlaceInv, NEW t \in Logger, FlushPop(t) PROVE PlaceInv'
  <1> DEFINE c == cur[t]
  <1>1. /\ UNCHANGED <<seqCounter, ring, fate, ev, attempt>> /\ c \in Cpu
        /\ pc[t] = "flush"
    BY DEF FlushPop
  <1>2. /\ 1 \in DOMAIN buf[c]
        /\ \A d \in Cpu : d # c => buf'[d] = buf[d]
        /\ \A i \in DOMAIN buf'[c] :
              i \in Nat /\ i + 1 # 1 /\ i + 1 \in DOMAIN buf[c] /\ buf'[c][i] = buf[c][i + 1]
        /\ \A i \in DOMAIN buf[c] : i # 1 =>
              i - 1 \in DOMAIN buf'[c] /\ buf'[c][i - 1] = buf[c][i]
        /\ Head(buf[c]) = buf[c][1]
    <2>1. /\ buf[c] \in Seq(Seqs) /\ buf[c] # <<>> /\ buf'[c] = Tail(buf[c])
          /\ \A d \in Cpu : d # c => buf'[d] = buf[d]
      BY EventFacts DEF FlushPop, TypeInv, TypeOK, SharedOK
    <2> HIDE DEF c
    <2> DEFINE q == buf[c]
    <2>2. /\ 1 \in DOMAIN q /\ Head(q) = q[1]
          /\ \A i \in DOMAIN Tail(q) :
                i \in Nat /\ i + 1 # 1 /\ i + 1 \in DOMAIN q /\ Tail(q)[i] = q[i + 1]
          /\ \A i \in DOMAIN q : i # 1 =>
                i - 1 \in DOMAIN Tail(q) /\ Tail(q)[i - 1] = q[i]
      <3>1. q \in Seq(Seqs) /\ q # <<>>
        BY <2>1
      <3> HIDE DEF q
      <3> QED BY <3>1, TailShift
    <2> QED BY <2>1, <2>2
  <1> HIDE DEF c
  <1>3. \A u \in Logger : /\ held'[u] = IF u = t THEN buf[c][1] ELSE held[u]
                          /\ pc'[u] = IF u = t THEN "send" ELSE pc[u]
    BY <1>2 DEF FlushPop, TypeInv, TypeOK, LocalOK, c
  <1>4. \A d \in Cpu : \A i \in DOMAIN buf'[d] :
            \E k \in DOMAIN buf[d] : buf'[d][i] = buf[d][k] /\ (d = c => k # 1)
    <2> SUFFICES ASSUME NEW d \in Cpu, NEW i \in DOMAIN buf'[d]
                 PROVE  \E k \in DOMAIN buf[d] : buf'[d][i] = buf[d][k] /\ (d = c => k # 1)
      OBVIOUS
    <2>1. CASE d = c
      BY <1>2, <2>1
    <2>2. CASE d # c
      BY <1>2, <2>2
    <2> QED BY <2>1, <2>2
  <1> USE DEF Carried, Holding, Sending
  <1>5. CallInv'
    BY <1>1, <1>3 DEF PlaceInv, CallInv, Flushing
  <1>6. RangeInv'
    BY <1>1, <1>2, <1>3, <1>4 DEF PlaceInv, RangeInv
  <1>7. CarryInv'
    BY <1>1, <1>2, <1>3, <1>4 DEF PlaceInv, CarryInv
  <1>8. BufInv'
    <2>0. BufInv
      BY DEF PlaceInv
    <2> SUFFICES ASSUME NEW d \in Cpu, NEW i \in DOMAIN buf'[d]
                 PROVE  /\ \A e \in Cpu : \A j \in DOMAIN buf'[e] :
                              buf'[e][j] = buf'[d][i] => e = d /\ j = i
                        /\ \A u \in Logger : Holding(u)' => held'[u] # buf'[d][i]
                        /\ \A j \in DOMAIN ring : ring[j] # buf'[d][i]
                        /\ fate[buf'[d][i]] = "open"
      BY <1>1 DEF BufInv
    <2>1. PICK k \in DOMAIN buf[d] : buf'[d][i] = buf[d][k] /\ (d = c => k # 1)
      BY <1>4
    <2>2. ASSUME NEW e \in Cpu, NEW j \in DOMAIN buf'[e], buf'[e][j] = buf'[d][i]
          PROVE  e = d /\ j = i
      <3>1. e = d
        <4>1. PICK m \in DOMAIN buf[e] : buf'[e][j] = buf[e][m]
          BY <1>4
        <4>2. buf[e][m] = buf[d][k]
          BY <2>1, <2>2, <4>1
        <4> QED BY <2>0, <4>2 DEF BufInv
      <3>2. CASE d = c
        <4>1. i + 1 = j + 1 /\ i \in Nat /\ j \in Nat
          BY <1>2, <2>0, <2>2, <3>1, <3>2 DEF BufInv
        <4> QED BY <3>1, <4>1
      <3>3. CASE d # c
        BY <1>2, <2>0, <2>2, <3>1, <3>3 DEF BufInv
      <3> QED BY <3>1, <3>2, <3>3
    <2>3. \A u \in Logger : Holding(u)' => held'[u] # buf'[d][i]
      BY <1>1, <1>2, <1>3, <2>0, <2>1 DEF BufInv
    <2>4. /\ \A j \in DOMAIN ring : ring[j] # buf'[d][i]
          /\ fate[buf'[d][i]] = "open"
      BY <2>0, <2>1 DEF BufInv
    <2> QED BY <2>2, <2>3, <2>4
  <1>9. HoldInv' /\ FrameInv'
    BY <1>1, <1>2, <1>3 DEF PlaceInv, HoldInv, FrameInv, BufInv
  <1>10. CoverInv'
    <2>0. CoverInv
      BY DEF PlaceInv
    <2> SUFFICES ASSUME NEW n \in 1..seqCounter
                 PROVE  \/ \E u \in Logger : Carried(u)' /\ ev[u] = n
                        \/ \E d \in Cpu : \E i \in DOMAIN buf'[d] : buf'[d][i] = n
                        \/ \E u \in Logger : Sending(u)' /\ held'[u] = n
                        \/ \E i \in DOMAIN ring : ring[i] = n
                        \/ fate[n] # "open"
      BY <1>1 DEF CoverInv
    <2>1. CASE \E d \in Cpu : \E i \in DOMAIN buf[d] : buf[d][i] = n
      <3>1. PICK d \in Cpu : \E i \in DOMAIN buf[d] : buf[d][i] = n
        BY <2>1
      <3>2. PICK i \in DOMAIN buf[d] : buf[d][i] = n
        BY <3>1
      <3>3. CASE d = c /\ i = 1
        BY <1>3, <3>2, <3>3
      <3>4. CASE d = c /\ i # 1
        BY <1>2, <3>2, <3>4
      <3>5. CASE d # c
        BY <1>2, <3>2, <3>5
      <3> QED BY <3>3, <3>4, <3>5
    <2>2. CASE \E u \in Logger : Sending(u) /\ held[u] = n
      BY <1>1, <1>3, <2>2
    <2>3. CASE \E u \in Logger : Carried(u) /\ ev[u] = n
      BY <1>1, <2>3
    <2> QED BY <2>0, <2>1, <2>2, <2>3 DEF CoverInv
  <1> QED BY <1>5, <1>6, <1>7, <1>8, <1>9, <1>10 DEF PlaceInv

(* The event being sent gets its end: no key, no cipher, no room.          *)
LEMMA EndPlaces ==
    ASSUME TypeInv, PlaceInv, NEW t \in Logger, NEW f, f # "open",
           Sending(t), UNCHANGED <<seqCounter, ring, ev, attempt, buf, held>>,
           pc' = [pc EXCEPT ![t] = "count"], fate' = [fate EXCEPT ![held[t]] = f]
    PROVE  PlaceInv'
  <1>1. /\ held[t] \in Seqs /\ \A n \in Seqs : fate'[n] = IF n = held[t] THEN f ELSE fate[n]
        /\ \A u \in Logger : pc'[u] = IF u = t THEN "count" ELSE pc[u]
    BY DEF TypeInv, TypeOK, LocalOK, SharedOK, InHand, Sending
  <1>2. /\ \A u \in Logger : Carried(u) => ev[u] \in Seqs
        /\ \A u \in Logger : Holding(u) => held[u] \in Seqs
        /\ \A d \in Cpu : \A i \in DOMAIN buf[d] : buf[d][i] \in Seqs
        /\ \A i \in DOMAIN ring : ring[i] \in Seqs
    BY EventFacts DEF PlaceInv, RangeInv
  <1> USE DEF Carried, Holding, Sending
  <1>3. CallInv'
    BY <1>1 DEF PlaceInv, CallInv, Flushing
  <1>4. RangeInv'
    <2>1. \A u \in Logger : Holding(u)' => held'[u] \in 1..seqCounter'
      BY <1>1 DEF PlaceInv, RangeInv
    <2>2. \A n \in Seqs : fate'[n] # "open" => n <= seqCounter'
      <3>1. held[t] \in 1..seqCounter /\ RangeInv
        BY DEF PlaceInv, RangeInv
      <3>2. held[t] <= seqCounter
        BY <3>1, EventFacts
      <3> QED BY <1>1, <3>1, <3>2 DEF RangeInv
    <2> QED BY <2>1, <2>2 DEF PlaceInv, RangeInv
  <1>5. CarryInv'
    BY <1>1, <1>2 DEF PlaceInv, CarryInv
  <1>6. BufInv'
    BY <1>1, <1>2 DEF PlaceInv, BufInv
  <1>7. HoldInv'
    BY <1>1, <1>2 DEF PlaceInv, HoldInv
  <1>8. FrameInv'
    BY <1>1, <1>2 DEF PlaceInv, HoldInv, FrameInv
  <1>9. CoverInv'
    <2>1. CoverInv /\ \A n \in 1..seqCounter : n \in Seqs
      BY EventFacts DEF PlaceInv
    <2>2. \A n \in 1..seqCounter : n = held[t] => fate'[n] # "open"
      BY <1>1, <2>1
    <2>3. \A n \in 1..seqCounter : n # held[t] => fate'[n] = fate[n]
      BY <1>1, <2>1
    <2> QED BY <1>1, <2>1, <2>2, <2>3 DEF CoverInv
  <1> QED BY <1>3, <1>4, <1>5, <1>6, <1>7, <1>8, <1>9 DEF PlaceInv

LEMMA SendPlaces ==
    ASSUME TypeInv, PlaceInv, NEW t \in Logger,
           \/ SendNoKey(t) \/ EncryptFail(t)
           \/ Push(t) /\ Len(ring) >= RingBound
    PROVE  PlaceInv'
  <1>1. /\ Sending(t) /\ UNCHANGED <<seqCounter, ring, ev, attempt, buf, held>>
        /\ pc' = [pc EXCEPT ![t] = "count"]
        /\ \E f \in {"nokey", "encrypt", "ringfull"} : fate' = [fate EXCEPT ![held[t]] = f]
    <2>1. Push(t) /\ Len(ring) >= RingBound => ~(Len(ring) < RingBound)
      BY EventFacts
    <2> QED BY <2>1 DEF SendNoKey, EncryptFail, Push, Sending
  <1>2. PICK f \in {"nokey", "encrypt", "ringfull"} : fate' = [fate EXCEPT ![held[t]] = f]
    BY <1>1
  <1> QED BY <1>1, <1>2, EndPlaces

(* It becomes a frame.                                                     *)
LEMMA PushPlaces ==
    ASSUME TypeInv, PlaceInv, NEW t \in Logger, Push(t), Len(ring) < RingBound
    PROVE  PlaceInv'
  <1>1. /\ UNCHANGED <<seqCounter, fate, ev, attempt, buf, held>> /\ pc[t] = "push"
        /\ ring' = Append(ring, held[t]) /\ held[t] \in Seqs
    <2>1. ~(Len(ring) >= RingBound)
      BY EventFacts
    <2> QED BY <2>1 DEF Push, TypeInv, InHand
  <1>2. \A u \in Logger : pc'[u] = IF u = t THEN "count" ELSE pc[u]
    BY DEF Push, TypeInv, TypeOK, LocalOK
  <1>3. /\ \A i \in DOMAIN ring' : \/ i \in DOMAIN ring /\ ring'[i] = ring[i]
                                   \/ i = Len(ring) + 1 /\ ring'[i] = held[t]
        /\ \A i \in DOMAIN ring : i \in DOMAIN ring' /\ ring'[i] = ring[i]
        /\ Len(ring) + 1 \in DOMAIN ring' /\ ring'[Len(ring) + 1] = held[t]
    <2>1. /\ Len(ring) \in Nat /\ DOMAIN ring = 1..Len(ring)
          /\ DOMAIN ring' = 1..Len(ring) + 1
          /\ \A i \in DOMAIN ring : ring'[i] = ring[i]
          /\ ring'[Len(ring) + 1] = held[t]
      BY <1>1, AppendFacts, EventFacts
    <2> QED BY <2>1
  <1> USE DEF Carried, Holding, Sending
  <1>4. CallInv'
    BY <1>1, <1>2 DEF PlaceInv, CallInv, Flushing
  <1>5. RangeInv'
    BY <1>1, <1>2, <1>3 DEF PlaceInv, RangeInv
  <1>6. CarryInv'
    BY <1>1, <1>2, <1>3 DEF PlaceInv, CarryInv
  <1>7. BufInv'
    BY <1>1, <1>2, <1>3 DEF PlaceInv, BufInv
  <1>8. HoldInv'
    BY <1>1, <1>2, <1>3 DEF PlaceInv, HoldInv
  <1>9. FrameInv'
    BY <1>1, <1>3 DEF PlaceInv, FrameInv, HoldInv
  <1>10. CoverInv'
    BY <1>1, <1>2, <1>3 DEF PlaceInv, CoverInv
  <1> QED BY <1>4, <1>5, <1>6, <1>7, <1>8, <1>9, <1>10 DEF PlaceInv

(* The outcome is counted and the event forgotten.                         *)
LEMMA CountPlaces == ASSUME TypeInv, PlaceInv, NEW t \in Logger, CountSend(t) PROVE PlaceInv'
  <1>1. /\ UNCHANGED <<seqCounter, fate, ev, attempt, buf, ring>> /\ pc[t] = "count"
        /\ \A u \in Logger : /\ pc'[u] = IF u = t THEN "flush" ELSE pc[u]
                             /\ u # t => held'[u] = held[u]
    BY DEF CountSend, TypeInv, TypeOK, LocalOK
  <1> USE DEF Carried, Holding, Sending
  <1>2. CallInv'
    BY <1>1 DEF PlaceInv, CallInv, Flushing
  <1>3. RangeInv'
    BY <1>1 DEF PlaceInv, RangeInv
  <1>4. CarryInv'
    BY <1>1 DEF PlaceInv, CarryInv
  <1>5. BufInv'
    BY <1>1 DEF PlaceInv, BufInv
  <1>6. HoldInv' /\ FrameInv'
    BY <1>1 DEF PlaceInv, HoldInv, FrameInv
  <1>7. CoverInv'
    BY <1>1 DEF PlaceInv, CoverInv
  <1> QED BY <1>2, <1>3, <1>4, <1>5, <1>6, <1>7 DEF PlaceInv

(* Userspace takes the oldest frame.                                       *)
LEMMA ReadPlaces == ASSUME TypeInv, PlaceInv, ReadFrame PROVE PlaceInv'
  <1>1. /\ UNCHANGED <<seqCounter, ev, attempt, buf, pc, held>>
        /\ ring # <<>> /\ ring' = Tail(ring) /\ ring \in Seq(Seqs)
    BY EventFacts DEF ReadFrame
  <1>2. /\ 1 \in DOMAIN ring /\ Head(ring) = ring[1] /\ ring[1] \in Seqs
        /\ \A i \in DOMAIN ring' : i \in Nat /\ i + 1 # 1 /\ i + 1 \in DOMAIN ring /\ ring'[i] = ring[i + 1]
        /\ \A i \in DOMAIN ring : i # 1 => i - 1 \in DOMAIN ring' /\ ring'[i - 1] = ring[i]
    BY <1>1, TailFacts
  <1>3. \A n \in Seqs : fate'[n] = IF n = ring[1] THEN "read" ELSE fate[n]
    BY <1>2 DEF ReadFrame, TypeInv, TypeOK, SharedOK
  <1>4. /\ \A u \in Logger : Carried(u) => ev[u] \in Seqs
        /\ \A u \in Logger : Holding(u) => held[u] \in Seqs
        /\ \A d \in Cpu : \A i \in DOMAIN buf[d] : buf[d][i] \in Seqs
        /\ \A i \in DOMAIN ring : ring[i] \in Seqs
    BY EventFacts DEF PlaceInv, RangeInv
  <1> USE DEF Carried, Holding, Sending
  <1>5. CallInv'
    BY <1>1 DEF PlaceInv, CallInv, Flushing
  <1>6. RangeInv'
    <2>1. /\ \A i \in DOMAIN ring' : ring'[i] \in 1..seqCounter'
          /\ ring[1] \in 1..seqCounter
      BY <1>1, <1>2 DEF PlaceInv, RangeInv
    <2>2. ring[1] <= seqCounter
      BY <2>1, EventFacts
    <2>3. \A n \in Seqs : fate'[n] # "open" => n <= seqCounter'
      BY <1>1, <1>3, <2>2 DEF PlaceInv, RangeInv
    <2> QED BY <1>1, <2>1, <2>3 DEF PlaceInv, RangeInv
  <1>7. CarryInv'
    BY <1>1, <1>2, <1>3, <1>4 DEF PlaceInv, CarryInv
  <1>8. BufInv'
    BY <1>1, <1>2, <1>3, <1>4 DEF PlaceInv, BufInv
  <1>9. HoldInv'
    BY <1>1, <1>2, <1>3, <1>4 DEF PlaceInv, HoldInv
  <1>10. FrameInv'
    <2>0. FrameInv
      BY DEF PlaceInv
    <2>1. ASSUME NEW i \in DOMAIN ring', NEW j \in DOMAIN ring', ring'[j] = ring'[i]
          PROVE  j = i
      <3>1. i + 1 = j + 1 /\ i \in Nat /\ j \in Nat
        BY <1>2, <2>0, <2>1 DEF FrameInv
      <3> QED BY <3>1
    <2>2. \A i \in DOMAIN ring' : fate'[ring'[i]] = "open"
      BY <1>2, <1>3, <1>4, <2>0 DEF FrameInv
    <2> QED BY <2>1, <2>2 DEF FrameInv
  <1>11. CoverInv'
    <2>1. CoverInv /\ \A n \in 1..seqCounter : n \in Seqs
      BY EventFacts DEF PlaceInv
    <2>2. \A n \in 1..seqCounter : n = ring[1] => fate'[n] # "open"
      BY <1>3, <2>1
    <2>3. \A n \in 1..seqCounter : n # ring[1] => fate'[n] = fate[n]
      BY <1>3, <2>1
    <2>4. \A n \in 1..seqCounter : n # ring[1] /\ (\E i \in DOMAIN ring : ring[i] = n)
             => \E i \in DOMAIN ring' : ring'[i] = n
      BY <1>2
    <2> QED BY <1>1, <2>1, <2>2, <2>3, <2>4 DEF CoverInv
  <1> QED BY <1>5, <1>6, <1>7, <1>8, <1>9, <1>10, <1>11 DEF PlaceInv

LEMMA NextPlaceInv == TypeInv /\ PlaceInv /\ [Next]_vars => PlaceInv'
  <1> SUFFICES ASSUME TypeInv, PlaceInv, [Next]_vars PROVE PlaceInv'
    OBVIOUS
  <1>1. ASSUME NEW t \in Logger, NEW c \in Cpu, EnqueueFull(t, c) PROVE PlaceInv'
    BY <1>1, QuietPlaces, GiveUpPlaces DEF EnqueueFull
  <1>2. ASSUME NEW t \in Logger, Push(t) PROVE PlaceInv'
    BY <1>2, PushPlaces, SendPlaces DEF Push
  <1>3. CASE UNCHANGED vars
    <2>1. CallInv'
      BY <1>3 DEF vars, PlaceInv, CallInv, Carried, Flushing
    <2> QED BY <1>3, <2>1, PlacesStay DEF vars, Holding, Sending
  <1> QED BY <1>1, <1>2, <1>3, LogPlaces, EnqueuePlaces, PopPlaces, SendPlaces,
             QuietPlaces, CountPlaces, ReadPlaces DEF Next, Step

LEMMA PlaceInvariant == Spec => [](TypeInv /\ PlaceInv)
  BY InitTypeInv, NextTypeInv, InitPlaceInv, NextPlaceInv, PTL DEF Spec

-----------------------------------------------------------------------------
LEMMA AtMostOne ==
    ASSUME NEW S, \A x, y \in S : x = y
    PROVE  /\ Cardinality(S) \in Nat
           /\ S = {} => Cardinality(S) = 0
           /\ S # {} => Cardinality(S) = 1
  <1>1. CASE S = {}
    BY <1>1, FS_EmptySet
  <1>2. CASE S # {}
    <2>1. PICK x \in S : TRUE
      BY <1>2
    <2>2. S = {x}
      BY <2>1
    <2>3. Cardinality({x}) = 1
      BY FS_Singleton
    <2> QED BY <1>2, <2>2, <2>3
  <1> QED BY <1>1, <1>2

(* A slot of BufSlots(n) is a slot of some CPU's ring that holds n.        *)
LEMMA Slots ==
    ASSUME TypeInv, NEW n \in Seqs
    PROVE  /\ \A p \in BufSlots(n) : /\ p = <<p[1], p[2]>> /\ p[1] \in Cpu
                                      /\ p[2] \in DOMAIN buf[p[1]]
                                      /\ buf[p[1]][p[2]] = n
           /\ \A c \in Cpu : \A i \in DOMAIN buf[c] :
                 buf[c][i] = n => <<c, i>> \in BufSlots(n)
  <1>1. ASSUME NEW p \in BufSlots(n)
        PROVE  /\ p = <<p[1], p[2]>> /\ p[1] \in Cpu
               /\ p[2] \in DOMAIN buf[p[1]] /\ buf[p[1]][p[2]] = n
    <2>1. /\ p = <<p[1], p[2]>> /\ p[1] \in Cpu /\ p[2] \in 1..BufBound
          /\ p[2] <= Len(buf[p[1]]) /\ buf[p[1]][p[2]] = n
      BY <1>1 DEF BufSlots
    <2>2. DOMAIN buf[p[1]] = 1..Len(buf[p[1]]) /\ Len(buf[p[1]]) \in Nat
      BY <2>1, EventFacts
    <2>3. p[2] \in DOMAIN buf[p[1]]
      BY <2>1, <2>2
    <2> QED BY <2>1, <2>3
  <1>2. ASSUME NEW c \in Cpu, NEW i \in DOMAIN buf[c], buf[c][i] = n
        PROVE  <<c, i>> \in BufSlots(n)
    <2>1. /\ Len(buf[c]) <= BufBound /\ DOMAIN buf[c] = 1..Len(buf[c])
          /\ Len(buf[c]) \in Nat
      BY EventFacts DEF TypeInv, TypeOK, SharedOK
    <2>2. BufBound \in Nat
      BY EventManagerAssumption
    <2>3. i \in 1..BufBound /\ i <= Len(buf[c])
      BY <1>2, <2>1, <2>2
    <2> QED BY <1>2, <2>3 DEF BufSlots
  <1> QED BY <1>1, <1>2

(* No event is lost, duplicated, or both dropped and delivered between     *)
(* photon_log_event and userspace, for any number of callers, CPUs and     *)
(* slots.                                                                  *)
THEOREM EveryEventHasOnePlace == Spec => []ExactlyOnePlace
  <1>1. TypeInv /\ PlaceInv => ExactlyOnePlace
    <2> SUFFICES ASSUME TypeInv, PlaceInv, NEW n \in Seqs
                 PROVE  Places(n) = IF n <= seqCounter THEN 1 ELSE 0
      BY DEF ExactlyOnePlace
    <2> DEFINE C == Carriers(n)
               B == BufSlots(n)
               S == Senders(n)
               R == RingSlots(n)
               G == Gone(n)
    <2>0. n \in Nat /\ n >= 1 /\ seqCounter \in Nat
      BY EventFacts DEF Seqs
    <2>1. \A t : t \in C <=> t \in Logger /\ Carried(t) /\ ev[t] = n
      BY DEF Carriers, Carried
    <2>2. \A p : p \in B => /\ p = <<p[1], p[2]>> /\ p[1] \in Cpu
                            /\ p[2] \in DOMAIN buf[p[1]] /\ buf[p[1]][p[2]] = n
      BY Slots
    <2>3. \A c \in Cpu : \A i \in DOMAIN buf[c] : buf[c][i] = n => <<c, i>> \in B
      BY Slots
    <2>4. \A t : t \in S <=> t \in Logger /\ Sending(t) /\ held[t] = n
      BY DEF Senders, Sending
    <2>5. \A i : i \in R <=> i \in DOMAIN ring /\ ring[i] = n
      BY DEF RingSlots
    <2>6. (\A f : f \in G => f = fate[n]) /\ (G # {} <=> fate[n] # "open")
      BY DEF Gone, TypeInv, TypeOK, SharedOK, Fates
    <2> HIDE DEF C, B, S, R, G
    <2>i. CarryInv /\ BufInv /\ HoldInv /\ FrameInv /\ RangeInv /\ CoverInv
      BY DEF PlaceInv
    <2>h. \A t \in Logger : Sending(t) => Holding(t)
      BY DEF Sending, Holding
    <2>7. \A x, y \in C : x = y
      BY <2>1, <2>i DEF CarryInv
    <2>8. \A x, y \in B : x = y
      <3> SUFFICES ASSUME NEW x \in B, NEW y \in B PROVE x = y
        OBVIOUS
      <3>1. x[1] = y[1] /\ x[2] = y[2]
        BY <2>2, <2>i DEF BufInv
      <3> QED BY <2>2, <3>1
    <2>9. \A x, y \in S : x = y
      BY <2>4, <2>h, <2>i DEF HoldInv
    <2>10. \A x, y \in R : x = y
      BY <2>5, <2>i DEF FrameInv
    <2>11. \A x, y \in G : x = y
      BY <2>6
    <2>12. C # {} => B = {} /\ S = {} /\ R = {} /\ G = {}
      BY <2>1, <2>2, <2>4, <2>5, <2>6, <2>h, <2>i DEF CarryInv
    <2>13. B # {} => S = {} /\ R = {} /\ G = {}
      BY <2>2, <2>4, <2>5, <2>6, <2>h, <2>i DEF BufInv
    <2>14. S # {} => R = {} /\ G = {}
      BY <2>4, <2>5, <2>6, <2>h, <2>i DEF HoldInv
    <2>15. R # {} => G = {}
      BY <2>5, <2>6, <2>i DEF FrameInv
    <2>16. n <= seqCounter => C # {} \/ B # {} \/ S # {} \/ R # {} \/ G # {}
      <3>1. n <= seqCounter => n \in 1..seqCounter
        BY <2>0
      <3> QED BY <2>1, <2>3, <2>4, <2>5, <2>6, <2>i, <3>1 DEF CoverInv
    <2>17. C # {} \/ B # {} \/ S # {} \/ R # {} \/ G # {} => n <= seqCounter
      <3>1. n \in 1..seqCounter => n <= seqCounter
        BY <2>0
      <3> QED BY <2>1, <2>2, <2>4, <2>5, <2>6, <2>h, <2>i, <3>1 DEF RangeInv
    <2>18. /\ Cardinality(C) \in Nat /\ (C = {} => Cardinality(C) = 0) /\ (C # {} => Cardinality(C) = 1)
           /\ Cardinality(B) \in Nat /\ (B = {} => Cardinality(B) = 0) /\ (B # {} => Cardinality(B) = 1)
           /\ Cardinality(S) \in Nat /\ (S = {} => Cardinality(S) = 0) /\ (S # {} => Cardinality(S) = 1)
      BY <2>7, <2>8, <2>9, AtMostOne
    <2>19. /\ Cardinality(R) \in Nat /\ (R = {} => Cardinality(R) = 0) /\ (R # {} => Cardinality(R) = 1)
           /\ Cardinality(G) \in Nat /\ (G = {} => Cardinality(G) = 0) /\ (G # {} => Cardinality(G) = 1)
      BY <2>10, <2>11, AtMostOne
    <2>20. Cardinality(C) + Cardinality(B) + Cardinality(S) + Cardinality(R) + Cardinality(G)
             = IF n <= seqCounter THEN 1 ELSE 0
      <3>1. CASE C # {}
        BY <2>12, <2>17, <2>18, <2>19, <3>1
      <3>2. CASE C = {} /\ B # {}
        BY <2>13, <2>17, <2>18, <2>19, <3>2
      <3>3. CASE C = {} /\ B = {} /\ S # {}
        BY <2>14, <2>17, <2>18, <2>19, <3>3
      <3>4. CASE C = {} /\ B = {} /\ S = {} /\ R # {}
        BY <2>15, <2>17, <2>18, <2>19, <3>4
      <3>5. CASE C = {} /\ B = {} /\ S = {} /\ R = {}
        BY <2>16, <2>17, <2>18, <2>19, <3>5
      <3> QED BY <3>1, <3>2, <3>3, <3>4, <3>5
    <2> QED BY <2>20 DEF Places, C, B, S, R, G
  <1> QED BY <1>1, PlaceInvariant, PTL

-----------------------------------------------------------------------------
(* The statistics.                                                         *)
InUse(n) == \/ \E t \in Logger : Carried(t) /\ ev[t] = n
            \/ \E c \in Cpu : \E i \in DOMAIN buf[c] : buf[c][i] = n
            \/ \E t \in Logger : Holding(t) /\ held[t] = n
Way  == {n \in Seqs : InUse(n)}
Full == {n \in Seqs : fate[n] = "bufferfull"}

LEMMA WayIsUnderWay == TypeInv => Way = {n \in Seqs : UnderWay(n)}
  <1> SUFFICES ASSUME TypeInv, NEW n \in Seqs PROVE InUse(n) <=> UnderWay(n)
    BY DEF Way
  <1>1. Carriers(n) # {} <=> \E t \in Logger : Carried(t) /\ ev[t] = n
    BY DEF Carriers, Carried
  <1>2. BufSlots(n) # {} <=> \E c \in Cpu : \E i \in DOMAIN buf[c] : buf[c][i] = n
    <2>1. \A p \in BufSlots(n) :
             p[1] \in Cpu /\ p[2] \in DOMAIN buf[p[1]] /\ buf[p[1]][p[2]] = n
      BY Slots
    <2>2. \A c \in Cpu : \A i \in DOMAIN buf[c] : buf[c][i] = n => <<c, i>> \in BufSlots(n)
      BY Slots
    <2> QED BY <2>1, <2>2
  <1>3. \A t \in Logger : Flushing(t) /\ ~At(t, "flush") <=> Holding(t)
    BY DEF Flushing, Holding
  <1> QED BY <1>1, <1>2, <1>3 DEF UnderWay, InUse

LEMMA FiniteParts == /\ IsFiniteSet(Way) /\ IsFiniteSet(Full)
                     /\ Cardinality(Way) \in Nat /\ Cardinality(Full) \in Nat
  <1>1. IsFiniteSet(Seqs)
    BY FS_Interval DEF Seqs
  <1>2. IsFiniteSet(Way) /\ IsFiniteSet(Full)
    BY <1>1, FS_Subset DEF Way, Full
  <1> QED BY <1>2, FS_CardinalityType

Sums == stats["events"] = stats["sent"] + stats["failures"] + Cardinality(Full) + Cardinality(Way)

(* Steps that count nothing leave both sets alone.                         *)
LEMMA SumsStay ==
    ASSUME Sums, stats'["events"] = stats["events"], stats'["sent"] = stats["sent"],
           stats'["failures"] = stats["failures"], Full' = Full, Way' = Way
    PROVE  Sums'
  BY DEF Sums

LEMMA NextSums == TypeInv /\ PlaceInv /\ Sums /\ [Next]_vars => Sums'
  <1> SUFFICES ASSUME TypeInv, PlaceInv, Sums, [Next]_vars PROVE Sums'
    OBVIOUS
  <1>s. /\ stats["events"] \in Nat /\ stats["sent"] \in Nat /\ stats["failures"] \in Nat
        /\ stats \in [Stat -> Nat] /\ Stat = {"events", "dropped", "sent", "failures"}
    BY DEF TypeInv, TypeOK, SharedOK, Stat
  <1>f. /\ IsFiniteSet(Way) /\ IsFiniteSet(Full)
        /\ Cardinality(Way) \in Nat /\ Cardinality(Full) \in Nat
    BY FiniteParts
  <1> USE DEF Carried, Holding
  <1>1. ASSUME NEW t \in Logger, LogEvent(t) PROVE Sums'
    <2> DEFINE x == seqCounter + 1
    <2>1. /\ UNCHANGED <<buf, fate, held>> /\ x \in Seqs /\ attempt[t] = "done" /\ x \notin 1..seqCounter
          /\ pc[t] \in {"idle", "heartbeat"}
      <3>1. seqCounter \in 0..MaxSeq /\ seqCounter < MaxSeq
        BY <1>1 DEF LogEvent, TypeInv, TypeOK, SharedOK
      <3>2. x \in Seqs /\ x \notin 1..seqCounter
        BY <3>1 DEF Seqs
      <3>3. pc[t] \in {"idle", "heartbeat"} /\ attempt[t] \in {"first", "retry", "done"}
        BY <1>1 DEF LogEvent, TypeInv, TypeOK, LocalOK
      <3>4. attempt[t] = "done"
        BY <3>3 DEF PlaceInv, CallInv, Flushing
      <3> QED BY <1>1, <3>2, <3>3, <3>4 DEF LogEvent
    <2>2. \A u \in Logger : /\ ev'[u] = IF u = t THEN x ELSE ev[u]
                            /\ attempt'[u] = IF u = t THEN "first" ELSE attempt[u]
                            /\ pc'[u] = IF u = t THEN "enqueue" ELSE pc[u]
      BY <1>1 DEF LogEvent, TypeInv, TypeOK, LocalOK
    <2> HIDE DEF x
    <2>3. x \notin Way
      BY <2>1 DEF Way, InUse, PlaceInv, RangeInv
    <2>4. Way' = Way \cup {x}
      BY <2>1, <2>2 DEF Way, InUse
    <2>5. Cardinality(Way') = Cardinality(Way) + 1
      BY <1>f, <2>3, <2>4, FS_AddElement
    <2>6. Full' = Full
      BY <2>1 DEF Full
    <2>7. /\ stats'["events"] = stats["events"] + 1 /\ stats'["sent"] = stats["sent"]
          /\ stats'["failures"] = stats["failures"]
      BY <1>1, <1>s DEF LogEvent
    <2> QED BY <1>s, <1>f, <2>5, <2>6, <2>7 DEF Sums
  <1>2. ASSUME NEW t \in Logger, NEW c \in Cpu, Enqueue(t, c) PROVE Sums'
    <2>1. /\ UNCHANGED <<stats, fate, held, ev>> /\ pc[t] = "enqueue" /\ attempt[t] # "done"
          /\ ev[t] \in Seqs
      BY <1>2 DEF Enqueue, PlaceInv, CallInv, TypeInv, InHand
    <2>2. \A u \in Logger : /\ attempt'[u] = IF u = t THEN "done" ELSE attempt[u]
                            /\ pc'[u] = IF u = t THEN "flush" ELSE pc[u]
      BY <1>2 DEF Enqueue, TypeInv, TypeOK, LocalOK
    <2>a. \A d \in Cpu : d # c => buf'[d] = buf[d]
      BY <1>2 DEF Enqueue, TypeInv, TypeOK, SharedOK
    <2>b. /\ Len(buf[c]) \in Nat /\ DOMAIN buf[c] = 1..Len(buf[c])
          /\ DOMAIN buf'[c] = 1..Len(buf[c]) + 1
          /\ \A i \in DOMAIN buf[c] : buf'[c][i] = buf[c][i]
          /\ buf'[c][Len(buf[c]) + 1] = ev[t]
      <3>1. buf[c] \in Seq(Seqs) /\ buf'[c] = Append(buf[c], ev[t])
        BY <1>2, EventFacts DEF Enqueue, TypeInv, TypeOK, SharedOK
      <3> QED BY <2>1, <3>1, AppendFacts
    <2>3. \A n : (\E i \in DOMAIN buf'[c] : buf'[c][i] = n)
                    <=> n = ev[t] \/ \E i \in DOMAIN buf[c] : buf[c][i] = n
      <3>1. DOMAIN buf'[c] = DOMAIN buf[c] \cup {Len(buf[c]) + 1}
        BY <2>b
      <3> QED BY <2>b, <3>1
    <2>4. \A n \in Seqs : InUse(n)' <=> InUse(n)
      BY <2>1, <2>2, <2>a, <2>3, <1>2 DEF InUse
    <2> QED BY <2>1, <2>4, SumsStay DEF Way, Full
  <1>3. ASSUME NEW t \in Logger, NEW c \in Cpu, EnqueueFull(t, c), attempt[t] = "first" PROVE Sums'
    <2>1. /\ UNCHANGED <<fate, held, ev, buf>> /\ pc[t] = "enqueue"
          /\ pc' = [pc EXCEPT ![t] = "flush"] /\ attempt' = [attempt EXCEPT ![t] = "retry"]
          /\ stats' = [stats EXCEPT !["dropped"] = @ + 1]
      BY <1>3 DEF EnqueueFull
    <2>2. \A u \in Logger : /\ attempt'[u] = "done" <=> attempt[u] = "done"
                            /\ Holding(u)' <=> Holding(u)
      BY <1>3, <2>1 DEF TypeInv, TypeOK, LocalOK
    <2>3. Way' = Way /\ Full' = Full
      BY <2>1, <2>2 DEF Way, InUse, Full
    <2> QED BY <1>s, <2>1, <2>3, SumsStay
  <1>4. ASSUME NEW t \in Logger, NEW c \in Cpu, EnqueueFull(t, c), attempt[t] = "retry" PROVE Sums'
    <2>1. /\ UNCHANGED <<held, ev, buf>> /\ pc[t] = "enqueue" /\ ev[t] \in Seqs
          /\ stats' = [stats EXCEPT !["dropped"] = @ + 1]
      BY <1>4 DEF EnqueueFull, TypeInv, InHand
    <2>2. /\ \A u \in Logger : /\ attempt'[u] = IF u = t THEN "done" ELSE attempt[u]
                               /\ pc'[u] = IF u = t THEN "idle" ELSE pc[u]
          /\ \A n \in Seqs : fate'[n] = IF n = ev[t] THEN "bufferfull" ELSE fate[n]
      BY <1>4 DEF EnqueueFull, TypeInv, TypeOK, LocalOK, SharedOK
    <2>3. CarryInv
      BY DEF PlaceInv
    <2>4. ev[t] \in Way /\ ev[t] \notin Full
      BY <1>4, <2>1, <2>3 DEF Way, InUse, Full, CarryInv
    <2>5. Way' = Way \ {ev[t]}
      BY <1>4, <2>1, <2>2, <2>3 DEF Way, InUse, CarryInv
    <2>6. Full' = Full \cup {ev[t]}
      BY <2>1, <2>2 DEF Full
    <2>7. Cardinality(Way') = Cardinality(Way) - 1 /\ Cardinality(Full') = Cardinality(Full) + 1
      BY <1>f, <2>4, <2>5, <2>6, FS_AddElement, FS_RemoveElement
    <2>8. /\ stats'["events"] = stats["events"] /\ stats'["sent"] = stats["sent"]
          /\ stats'["failures"] = stats["failures"]
      BY <1>s, <2>1
    <2> QED BY <1>s, <1>f, <2>7, <2>8 DEF Sums
  <1>5. ASSUME NEW t \in Logger, FlushPop(t) PROVE Sums'
    <2> DEFINE c == cur[t]
    <2>1. /\ UNCHANGED <<stats, fate, ev, attempt>> /\ c \in Cpu /\ pc[t] = "flush"
          /\ \A d \in Cpu : d # c => buf'[d] = buf[d]
          /\ buf[c] \in Seq(Seqs) /\ buf[c] # <<>> /\ buf'[c] = Tail(buf[c])
      BY <1>5, EventFacts DEF FlushPop, TypeInv, TypeOK, SharedOK
    <2>2. \A u \in Logger : /\ held'[u] = IF u = t THEN Head(buf[c]) ELSE held[u]
                            /\ pc'[u] = IF u = t THEN "send" ELSE pc[u]
      BY <1>5 DEF FlushPop, TypeInv, TypeOK, LocalOK
    <2> HIDE DEF c
    <2>3. \A n : (\E i \in DOMAIN buf[c] : buf[c][i] = n)
                    <=> n = Head(buf[c]) \/ \E i \in DOMAIN buf'[c] : buf'[c][i] = n
      <3>1. /\ 1 \in DOMAIN buf[c] /\ Head(buf[c]) = buf[c][1]
            /\ \A i \in DOMAIN buf'[c] : i + 1 \in DOMAIN buf[c] /\ buf'[c][i] = buf[c][i + 1]
            /\ \A i \in DOMAIN buf[c] : i # 1 =>
                  i - 1 \in DOMAIN buf'[c] /\ buf'[c][i - 1] = buf[c][i]
        BY <2>1, TailShift
      <3> QED BY <3>1
    <2>4. \A n \in Seqs : InUse(n)' <=> InUse(n)
      <3> SUFFICES ASSUME NEW n \in Seqs PROVE InUse(n)' <=> InUse(n)
        OBVIOUS
      <3>1. (\E d \in Cpu : \E i \in DOMAIN buf[d] : buf[d][i] = n)
               <=> n = Head(buf[c]) \/ \E d \in Cpu : \E i \in DOMAIN buf'[d] : buf'[d][i] = n
        <4> DEFINE Was(d) == \E i \in DOMAIN buf[d] : buf[d][i] = n
                   Is(d) == \E i \in DOMAIN buf'[d] : buf'[d][i] = n
        <4>1. c \in Cpu /\ (Was(c) <=> n = Head(buf[c]) \/ Is(c))
          BY <2>1, <2>3
        <4>2. \A d \in Cpu : d # c => (Was(d) <=> Is(d))
          BY <2>1
        <4> HIDE DEF Was, Is
        <4>3. (\E d \in Cpu : Was(d)) <=> n = Head(buf[c]) \/ \E d \in Cpu : Is(d)
          BY <4>1, <4>2
        <4> QED BY <4>3 DEF Was, Is
      <3>2. (\E u \in Logger : Holding(u)' /\ held'[u] = n)
               <=> n = Head(buf[c]) \/ \E u \in Logger : Holding(u) /\ held[u] = n
        BY <2>1, <2>2
      <3>3. (\E u \in Logger : Carried(u)' /\ ev'[u] = n)
               <=> \E u \in Logger : Carried(u) /\ ev[u] = n
        BY <2>1
      <3> QED BY <3>1, <3>2, <3>3 DEF InUse
    <2> QED BY <2>1, <2>4, SumsStay DEF Way, Full
  <1>6. ASSUME NEW t \in Logger, CountSend(t) PROVE Sums'
    <2>1. /\ UNCHANGED <<fate, ev, attempt, buf>> /\ pc[t] = "count"
          /\ \A u \in Logger : /\ pc'[u] = IF u = t THEN "flush" ELSE pc[u]
                               /\ u # t => held'[u] = held[u]
      BY <1>6 DEF CountSend, TypeInv, TypeOK, LocalOK
    <2>2. CarryInv /\ BufInv /\ HoldInv /\ held[t] \in Seqs
      BY <2>1, EventFacts DEF PlaceInv, RangeInv
    <2>3. held[t] \in Way
      BY <2>1, <2>2 DEF Way, InUse
    <2>4. Way' = Way \ {held[t]}
      BY <2>1, <2>2 DEF Way, InUse, CarryInv, BufInv, HoldInv
    <2>5. Full' = Full
      BY <2>1 DEF Full
    <2>6. Cardinality(Way') = Cardinality(Way) - 1
      BY <1>f, <2>3, <2>4, FS_RemoveElement
    <2>7. /\ stats'["events"] = stats["events"]
          /\ \/ stats'["sent"] = stats["sent"] + 1 /\ stats'["failures"] = stats["failures"]
             \/ stats'["sent"] = stats["sent"] /\ stats'["failures"] = stats["failures"] + 1
      BY <1>6, <1>s DEF CountSend
    <2> QED BY <1>s, <1>f, <2>5, <2>6, <2>7 DEF Sums
  <1>7. ASSUME NEW t \in Logger, SendNoKey(t) \/ EncryptFail(t) \/ Push(t) PROVE Sums'
    <2>1. /\ UNCHANGED <<stats, ev, attempt, buf, held>> /\ Sending(t)
          /\ pc' = [pc EXCEPT ![t] = "count"]
          /\ \/ fate' = fate
             \/ \E f \in {"nokey", "encrypt", "ringfull"} : fate' = [fate EXCEPT ![held[t]] = f]
      BY <1>7 DEF SendNoKey, EncryptFail, Push, Sending
    <2>2. \A u \in Logger : Holding(u)' <=> Holding(u)
      BY <2>1 DEF TypeInv, TypeOK, LocalOK, Sending
    <2>3. Way' = Way
      BY <2>1, <2>2 DEF Way, InUse
    <2>4. fate[held[t]] = "open"
      BY <2>1 DEF PlaceInv, HoldInv, Sending
    <2>5. Full' = Full
      BY <2>1, <2>4 DEF Full, TypeInv, TypeOK, SharedOK
    <2> QED BY <2>1, <2>3, <2>5, SumsStay
  <1>8. ASSUME ReadFrame PROVE Sums'
    <2>1. /\ UNCHANGED <<stats, ev, attempt, buf, held, pc>> /\ ring # <<>>
          /\ fate' = [fate EXCEPT ![Head(ring)] = "read"]
      BY <1>8 DEF ReadFrame
    <2>2. 1 \in DOMAIN ring /\ Head(ring) = ring[1]
      BY <2>1, TailFacts, EventFacts
    <2>3. fate[Head(ring)] = "open"
      BY <2>2 DEF PlaceInv, FrameInv
    <2>4. Full' = Full
      BY <2>1, <2>3 DEF Full, TypeInv, TypeOK, SharedOK
    <2>5. Way' = Way
      BY <2>1 DEF Way, InUse
    <2> QED BY <2>1, <2>4, <2>5, SumsStay
  <1>9. ASSUME NEW t \in Logger,
               \/ FlushAdvance(t) \/ FlushDone(t) \/ SendHasKey(t) \/ Encrypt(t)
               \/ SetKeyBegin(t) \/ SetKeyEnd(t)
        PROVE  Sums'
    <2>1. UNCHANGED <<stats, ev, attempt, buf, held, fate>>
      BY <1>9 DEF FlushAdvance, FlushDone, SendHasKey, Encrypt, SetKeyBegin, SetKeyEnd
    <2>2. \/ pc' = pc
          \/ /\ pc[t] = "flush" \/ pc[t] = "idle" \/ pc[t] = "keying"
             /\ \E l \in {"enqueue", "idle", "keying", "heartbeat"} : pc' = [pc EXCEPT ![t] = l]
          \/ /\ pc[t] = "send" \/ pc[t] = "encrypt"
             /\ \E l \in {"encrypt", "push"} : pc' = [pc EXCEPT ![t] = l]
      BY <1>9 DEF FlushAdvance, FlushDone, SendHasKey, Encrypt, SetKeyBegin, SetKeyEnd
    <2>3. \A u \in Logger : Holding(u)' <=> Holding(u)
      BY <2>2 DEF TypeInv, TypeOK, LocalOK
    <2>4. Way' = Way /\ Full' = Full
      BY <2>1, <2>3 DEF Way, InUse, Full
    <2> QED BY <2>1, <2>4, SumsStay
  <1>10. CASE UNCHANGED vars
    <2>1. Way' = Way /\ Full' = Full
      BY <1>10 DEF Way, InUse, Full, vars
    <2> QED BY <1>10, <2>1, SumsStay DEF vars
  <1>11. \A t \in Logger, c \in Cpu : EnqueueFull(t, c) => attempt[t] = "first" \/ attempt[t] = "retry"
    BY DEF EnqueueFull
  <1> QED BY <1>1, <1>2, <1>3, <1>4, <1>5, <1>6, <1>7, <1>8, <1>9, <1>10, <1>11 DEF Next, Step

LEMMA InitSums == Init => Sums
  <1> SUFFICES ASSUME Init PROVE Sums
    OBVIOUS
  <1>1. Way = {} /\ Full = {}
    BY DEF Init, Way, InUse, Full, Carried, Holding, Seqs
  <1>2. Cardinality({}) = 0
    BY FS_EmptySet
  <1> QED BY <1>1, <1>2 DEF Init, Sums, Stat

(* photon_get_stats never loses an event: what was logged is sent, failed, *)
(* refused or still under way, in every state of any number of callers.    *)
THEOREM StatisticsAddUp == Spec => []StatsAddUp
  <1>1. TypeInv /\ Sums => StatsAddUp
    BY WayIsUnderWay DEF Sums, StatsAddUp, Full
  <1>2. Spec => []Sums
    BY InitSums, NextSums, PlaceInvariant, PTL DEF Spec
  <1> QED BY <1>1, <1>2, PlaceInvariant, PTL
-----------------------------------------------------------------------------
(* The event manager as a channel: events are produced when they are       *)
(* numbered, on their way while a caller, a per-CPU ring, a flusher or the *)
(* frame ring has them, and delivered when userspace reads them.           *)
OnItsWay == {n \in Seqs : \/ \E t \in Logger : Carried(t) /\ ev[t] = n
                          \/ \E c \in Cpu : \E i \in DOMAIN buf[c] : buf[c][i] = n
                          \/ \E t \in Logger : Sending(t) /\ held[t] = n
                          \/ \E i \in DOMAIN ring : ring[i] = n}
WasRead == {n \in Seqs : fate[n] = "read"}
Delivery == INSTANCE AtMostOnce WITH
              produced <- seqCounter, pending <- OnItsWay, delivered <- WasRead
DeliversAtMostOnce == Delivery!Spec

(* Because every event has one place, those on their way are the numbered  *)
(* ones without a recorded end.                                            *)
LEMMA WayIsOpen ==
    TypeInv /\ PlaceInv => OnItsWay = {n \in Seqs : n <= seqCounter /\ fate[n] = "open"}
  <1> SUFFICES ASSUME TypeInv, PlaceInv, NEW n \in Seqs
               PROVE  n \in OnItsWay <=> n <= seqCounter /\ fate[n] = "open"
    BY DEF OnItsWay
  <1>0. seqCounter \in Nat /\ n \in Nat /\ n >= 1
    BY EventFacts DEF Seqs
  <1>1. ASSUME n \in OnItsWay PROVE n \in 1..seqCounter /\ fate[n] = "open"
    <2>1. CASE \E t \in Logger : Carried(t) /\ ev[t] = n
      BY <2>1 DEF PlaceInv, RangeInv, CarryInv
    <2>2. CASE \E c \in Cpu : \E i \in DOMAIN buf[c] : buf[c][i] = n
      BY <2>2 DEF PlaceInv, RangeInv, BufInv
    <2>3. CASE \E t \in Logger : Sending(t) /\ held[t] = n
      BY <2>3 DEF PlaceInv, RangeInv, HoldInv, Sending, Holding
    <2>4. CASE \E i \in DOMAIN ring : ring[i] = n
      BY <2>4 DEF PlaceInv, RangeInv, FrameInv
    <2> QED BY <1>1, <2>1, <2>2, <2>3, <2>4 DEF OnItsWay
  <1>2. ASSUME n <= seqCounter, fate[n] = "open" PROVE n \in OnItsWay
    <2>1. n \in 1..seqCounter
      BY <1>0, <1>2
    <2> QED BY <1>2, <2>1 DEF PlaceInv, CoverInv, OnItsWay
  <1> QED BY <1>0, <1>1, <1>2

LEMMA StepDelivers == TypeInv /\ PlaceInv /\ [Next]_vars => [Delivery!Next]_(Delivery!vars)
  <1> SUFFICES ASSUME TypeInv, PlaceInv, [Next]_vars PROVE Delivery!Next
    OBVIOUS
  <1>0. /\ seqCounter \in Nat /\ \A n \in Seqs : n \in Nat
        /\ fate \in [Seqs -> Fates]
    BY EventFacts DEF TypeInv, TypeOK, SharedOK
  <1>1. /\ OnItsWay = {n \in Seqs : n <= seqCounter /\ fate[n] = "open"}
        /\ OnItsWay' = {n \in Seqs : n <= seqCounter' /\ fate'[n] = "open"}
    <2>1. (TypeInv /\ PlaceInv)'
      BY NextTypeInv, NextPlaceInv
    <2>2. (TypeInv /\ PlaceInv)' => (OnItsWay = {n \in Seqs : n <= seqCounter /\ fate[n] = "open"})'
      BY WayIsOpen, PTL
    <2> QED BY <2>1, <2>2, WayIsOpen
  <1>2. WasRead = {n \in Seqs : fate[n] = "read"} /\ WasRead' = {n \in Seqs : fate'[n] = "read"}
    BY DEF WasRead
  <1> HIDE DEF OnItsWay, WasRead
  (* Nothing is numbered and nothing ends.                                 *)
  <1>3. CASE UNCHANGED <<seqCounter, fate>>
    BY <1>1, <1>2, <1>3 DEF Delivery!Next, Delivery!Lose
  (* An event takes the next number.                                       *)
  <1>4. ASSUME NEW t \in Logger, LogEvent(t) PROVE Delivery!Next
    <2>1. seqCounter' = seqCounter + 1 /\ fate' = fate /\ seqCounter < MaxSeq
      BY <1>4 DEF LogEvent
    <2>2. seqCounter + 1 \in Seqs
      BY <1>0, <2>1, EventManagerAssumption DEF Seqs
    <2>3. fate[seqCounter + 1] = "open"
      <3>1. seqCounter + 1 \in Seqs /\ fate[seqCounter + 1] # "open" => seqCounter + 1 <= seqCounter
        BY <2>2 DEF PlaceInv, RangeInv
      <3> QED BY <1>0, <2>2, <3>1
    <2>4. \A n \in Seqs : n <= seqCounter + 1 <=> n <= seqCounter \/ n = seqCounter + 1
      BY <1>0
    <2>5. OnItsWay' = OnItsWay \cup {seqCounter + 1} /\ WasRead' = WasRead
      BY <1>1, <1>2, <2>1, <2>2, <2>3, <2>4
    <2> QED BY <2>1, <2>5 DEF Delivery!Next, Delivery!Produce
  (* An event in hand ends unread.                                         *)
  <1>5. ASSUME NEW n \in Seqs, NEW f \in {"nokey", "ringfull", "encrypt", "bufferfull"},
               fate[n] = "open", fate' = [fate EXCEPT ![n] = f], seqCounter' = seqCounter
        PROVE  Delivery!Next
    <2>1. OnItsWay' \subseteq OnItsWay /\ WasRead' = WasRead
      BY <1>0, <1>1, <1>2, <1>5
    <2> QED BY <1>5, <2>1 DEF Delivery!Next, Delivery!Lose
  <1>6. ASSUME NEW t \in Logger, SendNoKey(t) \/ EncryptFail(t) \/ Push(t) PROVE Delivery!Next
    <2>1. /\ pc[t] \in {"send", "encrypt", "push"} /\ seqCounter' = seqCounter
          /\ \/ fate' = fate
             \/ \E f \in {"nokey", "ringfull", "encrypt"} : fate' = [fate EXCEPT ![held[t]] = f]
      BY <1>6 DEF SendNoKey, EncryptFail, Push
    <2>2. held[t] \in Seqs /\ fate[held[t]] = "open"
      BY <2>1, EventFacts DEF PlaceInv, RangeInv, HoldInv, Holding, Sending
    <2> QED BY <1>3, <1>5, <2>1, <2>2
  <1>7. ASSUME NEW t \in Logger, NEW c \in Cpu, EnqueueFull(t, c) PROVE Delivery!Next
    <2>1. /\ pc[t] = "enqueue" /\ seqCounter' = seqCounter
          /\ fate' = fate \/ fate' = [fate EXCEPT ![ev[t]] = "bufferfull"]
      BY <1>7 DEF EnqueueFull
    <2>2. ev[t] \in Seqs /\ fate[ev[t]] = "open"
      BY <2>1, EventFacts DEF PlaceInv, CallInv, RangeInv, CarryInv
    <2> QED BY <1>3, <1>5, <2>1, <2>2
  (* Userspace reads the oldest frame.                                     *)
  <1>8. ASSUME ReadFrame PROVE Delivery!Next
    <2>1. /\ ring # <<>> /\ fate' = [fate EXCEPT ![Head(ring)] = "read"]
          /\ seqCounter' = seqCounter
      BY <1>8 DEF ReadFrame
    <2>2. PICK n : n = Head(ring)
      OBVIOUS
    <2>3. 1 \in DOMAIN ring /\ n = ring[1]
      BY <2>1, <2>2, EventFacts, TailShift
    <2>4. n \in Seqs /\ fate[n] = "open" /\ n <= seqCounter
      BY <2>3, EventFacts DEF PlaceInv, RangeInv, FrameInv
    <2>5. fate' = [fate EXCEPT ![n] = "read"]
      BY <2>1, <2>2
    <2>6. OnItsWay' = OnItsWay \ {n} /\ WasRead' = WasRead \cup {n} /\ n \in OnItsWay
      BY <1>0, <1>1, <1>2, <2>1, <2>4, <2>5
    <2> QED BY <2>1, <2>6 DEF Delivery!Next, Delivery!Deliver
  <1>9. ASSUME NEW t \in Logger,
               \/ \E c \in Cpu : Enqueue(t, c)
               \/ FlushPop(t) \/ FlushAdvance(t) \/ FlushDone(t) \/ SendHasKey(t) \/ Encrypt(t)
               \/ CountSend(t) \/ SetKeyBegin(t) \/ SetKeyEnd(t)
        PROVE  UNCHANGED <<seqCounter, fate>>
    BY <1>9 DEF Enqueue, FlushPop, FlushAdvance, FlushDone, SendHasKey, Encrypt, CountSend,
       SetKeyBegin, SetKeyEnd
  <1>10. ASSUME UNCHANGED vars PROVE UNCHANGED <<seqCounter, fate>>
    BY <1>10 DEF vars
  <1> QED BY <1>3, <1>4, <1>6, <1>7, <1>8, <1>9, <1>10 DEF Next, Step

(* The event manager implements AtMostOnce, for any number of callers and  *)
(* CPUs: although callers flush each other's rings and push with no lock   *)
(* held, userspace reads an event at most once and never one that was      *)
(* dropped.                                                                *)
THEOREM ManagerDeliversAtMostOnce == Spec => DeliversAtMostOnce
  <1>1. Init => Delivery!Init
    <2> SUFFICES ASSUME Init PROVE Delivery!Init
      OBVIOUS
    <2>1. seqCounter = 0 /\ WasRead = {}
      BY DEF Init, WasRead
    <2>2. \A n \in Seqs : n \notin OnItsWay
      BY DEF Init, OnItsWay, Carried, Sending
    <2>3. OnItsWay = {}
      BY <2>2 DEF OnItsWay
    <2> QED BY <2>1, <2>3 DEF Delivery!Init
  <1> QED BY <1>1, StepDelivers, PlaceInvariant, PTL DEF Spec, DeliversAtMostOnce, Delivery!Spec

=============================================================================
