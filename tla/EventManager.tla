---------------------------- MODULE EventManager ----------------------------
(***************************************************************************)
(* comms/event_manager.c and photon_send_encrypted_event: every detector   *)
(* hook calls photon_log_event, which numbers the event, puts it in the    *)
(* ring of the CPU it happens to run on and then flushes the rings of ALL  *)
(* CPUs.  A flusher pops under the ring's spinlock but encrypts and pushes *)
(* the frame with the lock released, so the steps of several callers       *)
(* interleave between pop and push.                                        *)
(*                                                                         *)
(* An event is its sequence number.  The per-CPU rings and the frame ring  *)
(* are bounded queues (RingBuffer implements BoundedQueue).  The key is    *)
(* abstracted to what the send path sees of it; CryptoLayer has the rest.  *)
(***************************************************************************)
EXTENDS Naturals, Sequences, FiniteSets

CONSTANTS Logger,     \* threads and interrupt contexts that call photon_log_event
          NCpu,       \* possible CPUs, visited in the order 1..NCpu
          BufBound,   \* EVENT_BUFFER_SIZE - 1
          RingBound,  \* PHOTON_RING_BUF_FRAMES - 1
          MaxSeq      \* bound: photon_log_event calls explored

ASSUME EventManagerAssumption ==
  /\ NCpu \in Nat \ {0}
  /\ BufBound \in Nat
  /\ RingBound \in Nat
  /\ MaxSeq \in Nat

VARIABLES seqCounter,  \* g_sequence_counter
          buf,         \* event_buffers: per CPU, oldest event first
          stats,       \* g_stats
          ring,        \* g_ring: frames waiting for userspace, oldest first
          key,         \* g_key_set and the key of the AEAD transform
          pc,          \* what each caller does next
          ev,          \* the event each caller is logging
          attempt,     \* has the caller's event been enqueued yet
          cur,         \* the CPU whose ring the caller flushes
          held,        \* the event the caller popped and is sending
          sres,        \* what photon_send_encrypted_event returned to the caller
          fate         \* history: what became of an event once it left the rings

vars == <<seqCounter, buf, stats, ring, key, pc, ev, attempt, cur, held, sres, fate>>

Cpu  == 1..NCpu
Seqs == 1..MaxSeq
None == 0
Stat == {"events", "dropped", "sent", "failures"}
Fates == {"open", "read", "nokey", "ringfull", "encrypt", "bufferfull"}

Init == /\ seqCounter = 0
        /\ buf = [c \in Cpu |-> <<>>]
        /\ stats = [s \in Stat |-> 0]
        /\ ring = <<>>
        /\ key = "none"
        /\ pc = [t \in Logger |-> "idle"]
        /\ ev = [t \in Logger |-> None]
        /\ attempt = [t \in Logger |-> "done"]
        /\ cur = [t \in Logger |-> 1]
        /\ held = [t \in Logger |-> None]
        /\ sres = [t \in Logger |-> "ok"]
        /\ fate = [n \in Seqs |-> "open"]

At(t, label)   == pc[t] = label
Goto(t, label) == pc' = [pc EXCEPT ![t] = label]

-----------------------------------------------------------------------------
(* photon_log_event up to the first enqueue_event: the event takes the     *)
(* next sequence number.  The caller is a detector, or the ioctl that just *)
(* installed the key and now sends its heartbeat.                          *)
LogEvent(t) ==
  /\ pc[t] \in {"idle", "heartbeat"}
  /\ seqCounter < MaxSeq
  /\ seqCounter' = seqCounter + 1
  /\ ev' = [ev EXCEPT ![t] = seqCounter + 1]
  /\ attempt' = [attempt EXCEPT ![t] = "first"]
  /\ stats' = [stats EXCEPT !["events"] = @ + 1]
  /\ Goto(t, "enqueue")
  /\ UNCHANGED <<buf, ring, key, cur, held, sres, fate>>

(* Mutant: skip the flush when somebody else is flushing already.          *)
Enqueue_SkipFlush(t, c) ==
  /\ At(t, "enqueue")
  /\ Len(buf[c]) < BufBound
  /\ buf' = [buf EXCEPT ![c] = Append(@, ev[t])]
  /\ attempt' = [attempt EXCEPT ![t] = "done"]
  /\ cur' = [cur EXCEPT ![t] = 1]
  /\ Goto(t, IF \E u \in Logger : At(u, "flush") THEN "idle" ELSE "flush")
  /\ UNCHANGED <<seqCounter, stats, ring, key, ev, held, sres, fate>>

(* enqueue_event on the CPU c the caller runs on now, there is room; the   *)
(* caller goes on to flush_all_buffers.                                    *)
Enqueue(t, c) ==
  /\ At(t, "enqueue")
  /\ Len(buf[c]) < BufBound
  /\ buf' = [buf EXCEPT ![c] = Append(@, ev[t])]
  /\ attempt' = [attempt EXCEPT ![t] = "done"]
  /\ cur' = [cur EXCEPT ![t] = 1]
  /\ Goto(t, "flush")
  /\ UNCHANGED <<seqCounter, stats, ring, key, ev, held, sres, fate>>

(* enqueue_event on a full ring: -ENOSPC.  The first time the caller       *)
(* flushes everything and tries again, the second time it gives up.        *)
EnqueueFull(t, c) ==
  /\ At(t, "enqueue")
  /\ Len(buf[c]) >= BufBound
  /\ stats' = [stats EXCEPT !["dropped"] = @ + 1]
  /\ \/ /\ attempt[t] = "first"
        /\ attempt' = [attempt EXCEPT ![t] = "retry"]
        /\ cur' = [cur EXCEPT ![t] = 1]
        /\ Goto(t, "flush")
        /\ UNCHANGED fate
     \/ /\ attempt[t] = "retry"
        /\ attempt' = [attempt EXCEPT ![t] = "done"]
        /\ fate' = [fate EXCEPT ![ev[t]] = "bufferfull"]
        /\ Goto(t, "idle")
        /\ UNCHANGED cur
  /\ UNCHANGED <<seqCounter, buf, ring, key, ev, held, sres>>

-----------------------------------------------------------------------------
(* Mutant: the event is copied out but tail is left where it is.           *)
FlushPop_KeepTail(t) ==
  /\ At(t, "flush")
  /\ cur[t] \in Cpu
  /\ buf[cur[t]] # <<>>
  /\ held' = [held EXCEPT ![t] = Head(buf[cur[t]])]
  /\ Goto(t, "send")
  /\ UNCHANGED <<seqCounter, buf, stats, ring, key, ev, attempt, cur, sres, fate>>

(* flush_event_buffer: pop the oldest event, release the lock, send it.    *)
FlushPop(t) ==
  /\ At(t, "flush")
  /\ cur[t] \in Cpu
  /\ buf[cur[t]] # <<>>
  /\ held' = [held EXCEPT ![t] = Head(buf[cur[t]])]
  /\ buf' = [buf EXCEPT ![cur[t]] = Tail(@)]
  /\ Goto(t, "send")
  /\ UNCHANGED <<seqCounter, stats, ring, key, ev, attempt, cur, sres, fate>>

(* flush_all_buffers: this CPU's ring is empty, go on to the next CPU.     *)
FlushAdvance(t) ==
  /\ At(t, "flush")
  /\ cur[t] \in Cpu
  /\ buf[cur[t]] = <<>>
  /\ cur' = [cur EXCEPT ![t] = @ + 1]
  /\ UNCHANGED <<seqCounter, buf, stats, ring, key, pc, ev, attempt, held, sres, fate>>

(* flush_all_buffers returns: retry the enqueue, or return 0.              *)
FlushDone(t) ==
  /\ At(t, "flush")
  /\ cur[t] > NCpu
  /\ Goto(t, IF attempt[t] = "retry" THEN "enqueue" ELSE "idle")
  /\ UNCHANGED <<seqCounter, buf, stats, ring, key, ev, attempt, cur, held, sres, fate>>

-----------------------------------------------------------------------------
(* photon_send_encrypted_event without a key: returns 0, the event is gone.*)
SendNoKey(t) ==
  /\ At(t, "send")
  /\ key = "none"
  /\ fate' = [fate EXCEPT ![held[t]] = "nokey"]
  /\ sres' = [sres EXCEPT ![t] = "ok"]
  /\ Goto(t, "count")
  /\ UNCHANGED <<seqCounter, buf, stats, ring, key, ev, attempt, cur, held>>

SendHasKey(t) ==
  /\ At(t, "send")
  /\ key # "none"
  /\ Goto(t, "encrypt")
  /\ UNCHANGED <<seqCounter, buf, stats, ring, key, ev, attempt, cur, held, sres, fate>>

(* photon_encrypt_event succeeds only when the AEAD transform has its key. *)
Encrypt(t) ==
  /\ At(t, "encrypt")
  /\ key = "active"
  /\ Goto(t, "push")
  /\ UNCHANGED <<seqCounter, buf, stats, ring, key, ev, attempt, cur, held, sres, fate>>

(* It fails with -ENOKEY in the window in which g_key_set is true but the  *)
(* transform has no key, and with -ENOMEM at any time.                     *)
EncryptFail(t) ==
  /\ At(t, "encrypt")
  /\ fate' = [fate EXCEPT ![held[t]] = "encrypt"]
  /\ sres' = [sres EXCEPT ![t] = "error"]
  /\ Goto(t, "count")
  /\ UNCHANGED <<seqCounter, buf, stats, ring, key, ev, attempt, cur, held>>

(* ring_buf_push under g_ring.lock; -ENOSPC is turned into 0.              *)
Push(t) ==
  /\ At(t, "push")
  /\ \/ /\ Len(ring) < RingBound
        /\ ring' = Append(ring, held[t])
        /\ UNCHANGED fate
     \/ /\ Len(ring) >= RingBound
        /\ fate' = [fate EXCEPT ![held[t]] = "ringfull"]
        /\ UNCHANGED ring
  /\ sres' = [sres EXCEPT ![t] = "ok"]
  /\ Goto(t, "count")
  /\ UNCHANGED <<seqCounter, buf, stats, key, ev, attempt, cur, held>>

(* Mutant: total_sent is bumped whatever the send returned.                *)
CountSend_NoElse(t) ==
  /\ At(t, "count")
  /\ stats' = [stats EXCEPT !["sent"] = @ + 1,
                            !["failures"] = IF sres[t] = "error" THEN @ + 1 ELSE @]
  /\ held' = [held EXCEPT ![t] = None]
  /\ Goto(t, "flush")
  /\ UNCHANGED <<seqCounter, buf, ring, key, ev, attempt, cur, sres, fate>>

(* flush_event_buffer counts the outcome and takes the lock again.         *)
CountSend(t) ==
  /\ At(t, "count")
  /\ stats' = IF sres[t] = "error"
              THEN [stats EXCEPT !["failures"] = @ + 1]
              ELSE [stats EXCEPT !["sent"] = @ + 1]
  /\ held' = [held EXCEPT ![t] = None]
  /\ Goto(t, "flush")
  /\ UNCHANGED <<seqCounter, buf, ring, key, ev, attempt, cur, sres, fate>>

-----------------------------------------------------------------------------
(* ioctl SET_KEY: g_key_set becomes true, later the transform gets the     *)
(* derived key, or the derivation fails and g_key_set is taken back.       *)
SetKeyBegin(t) ==
  /\ At(t, "idle")
  /\ key = "none"
  /\ key' = "pending"
  /\ Goto(t, "keying")
  /\ UNCHANGED <<seqCounter, buf, stats, ring, ev, attempt, cur, held, sres, fate>>

SetKeyEnd(t) ==
  /\ At(t, "keying")
  /\ \/ key' = "active" /\ Goto(t, "heartbeat")
     \/ key' = "none" /\ Goto(t, "idle")
  /\ UNCHANGED <<seqCounter, buf, stats, ring, ev, attempt, cur, held, sres, fate>>

(* photon_cdev_read pops the oldest frame.                                 *)
ReadFrame ==
  /\ ring # <<>>
  /\ fate' = [fate EXCEPT ![Head(ring)] = "read"]
  /\ ring' = Tail(ring)
  /\ UNCHANGED <<seqCounter, buf, stats, key, pc, ev, attempt, cur, held, sres>>

-----------------------------------------------------------------------------
(* What a caller does inside photon_log_event and the ioctl.               *)
Step(t) == \/ \E c \in Cpu : Enqueue(t, c) \/ EnqueueFull(t, c)
           \/ FlushPop(t) \/ FlushAdvance(t) \/ FlushDone(t)
           \/ SendNoKey(t) \/ SendHasKey(t)
           \/ Encrypt(t) \/ EncryptFail(t) \/ Push(t) \/ CountSend(t)
           \/ SetKeyEnd(t)

Next == \/ \E t \in Logger : Step(t) \/ LogEvent(t) \/ SetKeyBegin(t)
        \/ ReadFrame

Spec == Init /\ [][Next]_vars

(* Kernel code that was entered runs on; nothing forces a detector to fire *)
(* or userspace to read.                                                   *)
FairSpec == Spec /\ \A t \in Logger : WF_vars(Step(t))

-----------------------------------------------------------------------------
SharedOK == /\ seqCounter \in 0..MaxSeq
            /\ buf \in [Cpu -> Seq(1..MaxSeq)]
            /\ \A c \in Cpu : Len(buf[c]) <= BufBound
            /\ stats \in [Stat -> Nat]
            /\ ring \in Seq(1..MaxSeq) /\ Len(ring) <= RingBound
            /\ key \in {"none", "pending", "active"}
            /\ fate \in [Seqs -> Fates]
LocalOK == /\ pc \in [Logger -> {"idle", "enqueue", "flush", "send", "encrypt",
                                 "push", "count", "keying", "heartbeat"}]
           /\ ev \in [Logger -> 0..MaxSeq]
           /\ attempt \in [Logger -> {"first", "retry", "done"}]
           /\ cur \in [Logger -> 1..(NCpu + 1)]
           /\ held \in [Logger -> 0..MaxSeq]
           /\ sres \in [Logger -> {"ok", "error"}]
TypeOK == SharedOK /\ LocalOK

(* A caller that has not yet passed CPU c in its walk over the rings.      *)
Flushing(t) == pc[t] \in {"flush", "send", "encrypt", "push", "count"}
WillFlush(t, c) == Flushing(t) /\ cur[t] <= c

(* No event is stranded in a per-CPU ring: photon_log_event has no timer   *)
(* or worker behind it, so whoever left an event in CPU c's ring, or some  *)
(* other caller, must still be on its way to flush that ring.              *)
NoStrandedEvent == \A c \in Cpu : buf[c] # <<>> => \E t \in Logger : WillFlush(t, c)

(* When no caller is flushing, the per-CPU rings are empty.                *)
DrainedWhenIdle == (\A t \in Logger : ~Flushing(t)) => \A c \in Cpu : buf[c] = <<>>

(* Where event n is: with its caller, in per-CPU rings, with a flusher, in *)
(* the frame ring, or gone.                                                *)
Carriers(n)  == {t \in Logger : ev[t] = n /\ attempt[t] # "done"}
BufSlots(n)  == {p \in Cpu \X (1..BufBound) : p[2] <= Len(buf[p[1]]) /\ buf[p[1]][p[2]] = n}
Senders(n)   == {t \in Logger : pc[t] \in {"send", "encrypt", "push"} /\ held[t] = n}
RingSlots(n) == {i \in DOMAIN ring : ring[i] = n}
Gone(n)      == {f \in Fates \ {"open"} : fate[n] = f}
Places(n) == Cardinality(Carriers(n)) + Cardinality(BufSlots(n)) + Cardinality(Senders(n))
             + Cardinality(RingSlots(n)) + Cardinality(Gone(n))

(* Every numbered event is in exactly one place: the window between pop    *)
(* and push neither loses nor duplicates an event unaccounted for, and an  *)
(* event reported as dropped is not also delivered.                        *)
ExactlyOnePlace == \A n \in Seqs : Places(n) = IF n <= seqCounter THEN 1 ELSE 0

(* g_stats adds up in every state: an event that was logged is counted     *)
(* sent, counted failed, refused with -ENOSPC, or still under way.         *)
UnderWay(n) == Carriers(n) # {} \/ BufSlots(n) # {}
               \/ \E t \in Logger : Flushing(t) /\ ~At(t, "flush") /\ held[t] = n
StatsAddUp ==
  stats["events"] = stats["sent"] + stats["failures"]
                 + Cardinality({n \in Seqs : fate[n] = "bufferfull"})
                 + Cardinality({n \in Seqs : UnderWay(n)})

(* Every event that was numbered reaches the frame ring or a recorded end, *)
(* though callers flush each other's events and none of them waits for     *)
(* another.                                                                *)
EventuallyOutOfBuffers ==
  \A n \in Seqs : (n <= seqCounter) ~> (RingSlots(n) # {} \/ Gone(n) # {})
=============================================================================
