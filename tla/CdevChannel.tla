---------------------------- MODULE CdevChannel -----------------------------
(***************************************************************************)
(* comms/cdev_ch.c: /dev/photon_ring.  Producers (the flushers of          *)
(* EventManager) push frames into g_ring and wake the readers; userspace   *)
(* threads open the device, sleep in read() until a frame or the shutdown  *)
(* is there, pop one frame into the one static staging buffer and copy it  *)
(* out.  cdev_channel_exit runs when the module is removed, which the      *)
(* kernel refuses while the device is open, and when photon_ring_init      *)
(* fails after the device already exists, which nothing refuses.           *)
(*                                                                         *)
(* Frames are numbered in the order they reach ring_buf_push.              *)
(***************************************************************************)
EXTENDS Naturals, Sequences

CONSTANTS Thread,      \* userspace threads
          Process,     \* processes that may open the device
          ProcOf,      \* the process of each thread
          Privileged,  \* processes with CAP_SYS_ADMIN
          Producer,    \* contexts inside photon_send_encrypted_event
          RingBound,   \* PHOTON_RING_BUF_FRAMES - 1
          MaxPush,     \* bound: frames pushed
          Nobody       \* no process holds the device open

ASSUME CdevAssumption ==
  /\ ProcOf \in [Thread -> Process]
  /\ Privileged \subseteq Process
  /\ RingBound \in Nat
  /\ MaxPush \in Nat
  /\ Nobody \notin Process

VARIABLES ring,       \* g_ring: frame numbers, oldest first
          pushed,     \* frames offered to the ring so far (their numbering)
          ppc,        \* producers: "idle", or "wake" between push and wake_up
          isOpen,     \* g_is_open
          holder,     \* the process whose struct file is open
          pc,         \* where each thread is in photon_cdev_read
          want,       \* size of the thread's buffer: "tiny", "header", "full"
          staging,    \* g_read_staging: a frame number, 0 when wiped
          popped,     \* the frame the thread's own pop took
          results,    \* history: what the read() calls that popped returned
          module,     \* "loading", "live", "exiting", "gone"
          shutting,   \* g_shutting_down
          freed       \* ring_buf_free has run

vars == <<ring, pushed, ppc, isOpen, holder, pc, want, staging, popped, results,
          module, shutting, freed>>
fileVars == <<isOpen, holder>>
readVars == <<pc, want, staging, popped, results>>
exitVars == <<module, shutting, freed>>

Wiped == 0

Init == /\ ring = <<>>
        /\ pushed = 0
        /\ ppc = [p \in Producer |-> "idle"]
        /\ isOpen = FALSE
        /\ holder = Nobody
        /\ pc = [t \in Thread |-> "out"]
        /\ want = [t \in Thread |-> "full"]
        /\ staging = Wiped
        /\ popped = [t \in Thread |-> Wiped]
        /\ results = <<>>
        /\ module = "loading"
        /\ shutting = FALSE
        /\ freed = FALSE

At(t, label)   == pc[t] = label
Goto(t, label) == pc' = [pc EXCEPT ![t] = label]
WakeAll == [t \in Thread |-> IF pc[t] = "asleep" THEN "check" ELSE pc[t]]

-----------------------------------------------------------------------------

(* The tail of photon_send_encrypted_event: push under the ring's lock ... *)
Push(p) ==
  /\ ppc[p] = "idle"
  /\ ~shutting
  /\ pushed < MaxPush
  /\ Len(ring) < RingBound
  /\ ring' = Append(ring, pushed + 1)
  /\ pushed' = pushed + 1
  /\ ppc' = [ppc EXCEPT ![p] = "wake"]
  /\ UNCHANGED <<fileVars, readVars, exitVars>>

(* ... or find the ring full: the frame is dropped and nobody is woken.    *)
PushFull(p) ==
  /\ ppc[p] = "idle"
  /\ ~shutting
  /\ pushed < MaxPush
  /\ Len(ring) >= RingBound
  /\ pushed' = pushed + 1
  /\ UNCHANGED <<ring, ppc, fileVars, readVars, exitVars>>

(* Mutant: the reader is not woken after the push.                         *)
Wake_Forgotten(p) ==
  /\ ppc[p] = "wake"
  /\ ppc' = [ppc EXCEPT ![p] = "idle"]
  /\ UNCHANGED <<ring, pushed, fileVars, readVars, exitVars>>

(* After the push, wake_up_interruptible with the lock released.       *)
Wake(p) ==
  /\ ppc[p] = "wake"
  /\ ppc' = [ppc EXCEPT ![p] = "idle"]
  /\ pc' = WakeAll
  /\ UNCHANGED <<ring, pushed, fileVars, want, staging, popped, results, exitVars>>

-----------------------------------------------------------------------------
(* Mutant: the test of g_is_open is missing.                               *)
Open_NoTest(t) ==
  /\ module \in {"loading", "live"}
  /\ At(t, "out")
  /\ ProcOf[t] \in Privileged
  /\ isOpen' = TRUE
  /\ holder' = ProcOf[t]
  /\ UNCHANGED <<ring, pushed, ppc, readVars, exitVars>>

(* photon_cdev_open: needs CAP_SYS_ADMIN (-EPERM) and the device closed    *)
(* (-EBUSY); a refused open changes nothing.                               *)
Open(t) ==
  /\ module \in {"loading", "live"}
  /\ At(t, "out")
  /\ ProcOf[t] \in Privileged
  /\ ~isOpen
  /\ isOpen' = TRUE
  /\ holder' = ProcOf[t]
  /\ UNCHANGED <<ring, pushed, ppc, readVars, exitVars>>

(* photon_cdev_release: the last reference to the file is gone, so no      *)
(* thread of the process is inside read().                                 *)
Release(p) ==
  /\ holder = p
  /\ \A t \in Thread : ProcOf[t] = p => At(t, "out")
  /\ isOpen' = FALSE
  /\ holder' = Nobody
  /\ UNCHANGED <<ring, pushed, ppc, readVars, exitVars>>

-----------------------------------------------------------------------------
(* read(fd, buf, count) with a buffer below 4 bytes, below a frame, or     *)
(* large enough.                                                           *)
ReadEnter(t, count) ==
  /\ At(t, "out")
  /\ holder = ProcOf[t]
  /\ module # "gone"
  /\ want' = [want EXCEPT ![t] = count]
  /\ Goto(t, "check")
  /\ UNCHANGED <<ring, pushed, ppc, fileVars, staging, popped, results, exitVars>>

(* wait_event_interruptible queues the thread, then tests the condition:   *)
(* a wake_up between the two is not missed.                                *)
ReadCheck(t) ==
  /\ At(t, "check")
  /\ Goto(t, IF ring # <<>> \/ shutting THEN "ready" ELSE "asleep")
  /\ UNCHANGED <<ring, pushed, ppc, fileVars, want, staging, popped, results, exitVars>>

(* A signal ends the sleep: -EINTR.                                        *)
ReadSignal(t) ==
  /\ At(t, "asleep")
  /\ Goto(t, "out")
  /\ UNCHANGED <<ring, pushed, ppc, fileVars, want, staging, popped, results, exitVars>>

(* Back from the wait: -EIO when the module is going away.                 *)
ReadReady(t) ==
  /\ At(t, "ready")
  /\ Goto(t, IF shutting THEN "out" ELSE "pop")
  /\ UNCHANGED <<ring, pushed, ppc, fileVars, want, staging, popped, results, exitVars>>

(* Mutant: the tail of the ring is not advanced.                           *)
ReadPop_KeepTail(t) ==
  /\ At(t, "pop")
  /\ ring # <<>>
  /\ staging' = Head(ring)
  /\ popped' = [popped EXCEPT ![t] = Head(ring)]
  /\ Goto(t, "copy")
  /\ UNCHANGED <<ring, pushed, ppc, fileVars, want, results, exitVars>>

(* ring_buf_pop_locked into g_read_staging; 0 when another thread emptied  *)
(* the ring.  A pop from a freed ring has no defined outcome and no step.  *)
ReadPop(t) ==
  /\ At(t, "pop")
  /\ ~freed
  /\ \/ /\ ring = <<>>
        /\ Goto(t, "out")
        /\ UNCHANGED <<ring, staging, popped>>
     \/ /\ ring # <<>>
        /\ staging' = Head(ring)
        /\ popped' = [popped EXCEPT ![t] = Head(ring)]
        /\ ring' = Tail(ring)
        /\ Goto(t, "copy")
  /\ UNCHANGED <<pushed, ppc, fileVars, want, results, exitVars>>

(* The rest of photon_cdev_read: -EINVAL for a tiny buffer, -EFAULT when   *)
(* the copy faults, else min(frame, count) bytes.  The frame has left the  *)
(* ring in every case.  Only the first case leaves the staging buffer as   *)
(* it is.                                                                  *)
ReadCopy(t) ==
  /\ At(t, "copy")
  /\ \/ /\ want[t] = "tiny"
        /\ results' = Append(results, [frame |-> popped[t], got |-> Wiped, how |-> "EINVAL"])
        /\ UNCHANGED staging
     \/ /\ want[t] # "tiny"
        /\ results' = Append(results, [frame |-> popped[t], got |-> Wiped, how |-> "EFAULT"])
        /\ staging' = Wiped
     \/ /\ want[t] # "tiny"
        /\ results' = Append(results, [frame |-> popped[t], got |-> staging,
                                       how |-> IF want[t] = "full" THEN "whole" ELSE "cut"])
        /\ staging' = Wiped
  /\ popped' = [popped EXCEPT ![t] = Wiped]
  /\ Goto(t, "out")
  /\ UNCHANGED <<ring, pushed, ppc, fileVars, want, exitVars>>

-----------------------------------------------------------------------------
(* photon_ring_init returns 0.                                             *)
InitDone ==
  /\ module = "loading"
  /\ module' = "live"
  /\ UNCHANGED <<ring, pushed, ppc, fileVars, readVars, shutting, freed>>

(* Mutant: sleeping readers are not woken.                                 *)
ExitBegin_NoWake ==
  /\ \/ module = "loading"
     \/ module = "live" /\ holder = Nobody
  /\ \A p \in Producer : ppc[p] = "idle"
  /\ module' = "exiting"
  /\ shutting' = TRUE
  /\ UNCHANGED <<ring, pushed, ppc, fileVars, readVars, freed>>

(* cdev_channel_exit, first half: set g_shutting_down and wake everyone.   *)
(* rmmod gets here only when no file is open (fops.owner); the error path  *)
(* of photon_ring_init gets here whatever userspace did with the device in *)
(* the meantime.  The detectors are down: no producer is active.           *)
ExitBegin ==
  /\ \/ module = "loading"
     \/ module = "live" /\ holder = Nobody
  /\ \A p \in Producer : ppc[p] = "idle"
  /\ module' = "exiting"
  /\ shutting' = TRUE
  /\ pc' = WakeAll
  /\ UNCHANGED <<ring, pushed, ppc, fileVars, want, staging, popped, results, freed>>

(* Second half: the node goes away and the ring is freed.                  *)
ExitFree ==
  /\ module = "exiting"
  /\ module' = "gone"
  /\ freed' = TRUE
  /\ UNCHANGED <<ring, pushed, ppc, fileVars, readVars, shutting>>

-----------------------------------------------------------------------------
ReadStep(t) == ReadCheck(t) \/ ReadReady(t) \/ ReadPop(t) \/ ReadCopy(t)

Next == \/ \E p \in Producer : Push(p) \/ PushFull(p) \/ Wake(p)
        \/ \E t \in Thread : \/ Open(t) \/ ReadStep(t) \/ ReadSignal(t)
                             \/ \E count \in {"tiny", "header", "full"} : ReadEnter(t, count)
        \/ \E p \in Process : Release(p)
        \/ InitDone \/ ExitBegin \/ ExitFree

Spec == Init /\ [][Next]_vars

(* A producer that pushed goes on to its wake_up, a runnable thread runs.  *)
FairSpec == /\ Spec
            /\ \A p \in Producer : WF_vars(Wake(p))
            /\ \A t \in Thread : WF_vars(ReadStep(t))

-----------------------------------------------------------------------------
Labels == {"out", "check", "asleep", "ready", "pop", "copy"}
Result == [frame : 1..MaxPush, got : 0..MaxPush, how : {"EINVAL", "EFAULT", "whole", "cut"}]
TypeOK == /\ ring \in Seq(1..MaxPush) /\ Len(ring) <= RingBound
          /\ pushed \in 0..MaxPush
          /\ ppc \in [Producer -> {"idle", "wake"}]
          /\ isOpen \in BOOLEAN
          /\ holder \in Process \cup {Nobody}
          /\ pc \in [Thread -> Labels]
          /\ want \in [Thread -> {"tiny", "header", "full"}]
          /\ staging \in 0..MaxPush
          /\ popped \in [Thread -> 0..MaxPush]
          /\ results \in Seq(Result)
          /\ module \in {"loading", "live", "exiting", "gone"}
          /\ shutting \in BOOLEAN
          /\ freed \in BOOLEAN

(* Only threads of the one process that has the device open are in read(): *)
(* g_is_open, a flag nothing ties to a file, tells the truth about it.     *)
OnlyHolderReads == /\ isOpen <=> holder # Nobody
                   /\ \A t \in Thread : ~At(t, "out") => holder = ProcOf[t]

(* Frames leave the device in the order they were pushed, none twice, and  *)
(* a read() returns the frame it popped itself, although it copies from    *)
(* the shared staging buffer after g_ring.lock is released: what it needs  *)
(* is a reader process with one thread.                                    *)
InPushOrder == /\ \A i \in DOMAIN results : results[i].got \in {Wiped, results[i].frame}
               /\ \A i, j \in DOMAIN results : i < j => results[i].frame < results[j].frame
               /\ \A i \in DOMAIN results, j \in DOMAIN ring : results[i].frame < ring[j]

(* No lost wakeup: a reader sleeps over frames, or over a shutdown, only   *)
(* while some producer has yet to call wake_up.                            *)
NoLostWakeup == \A t \in Thread :
  At(t, "asleep") => /\ ~shutting
                     /\ ring # <<>> => \E p \in Producer : ppc[p] = "wake"

(* A sleeping reader does not sleep for ever over a frame or a shutdown.   *)
SleeperWakes == \A t \in Thread :
  (At(t, "asleep") /\ (ring # <<>> \/ shutting)) ~> ~At(t, "asleep")

-----------------------------------------------------------------------------
(* cdev_ch.c:447 "wake any sleeping readers so they can see                *)
(* g_shutting_down and exit": when the ring is freed they have left.       *)
ReadersGoneBeforeFree == freed => \A t \in Thread : At(t, "out")
=============================================================================
