---------------------------- MODULE DetectorProofs ---------------------------
(***************************************************************************)
(* The detectors, for every value of the constants.  First the hook bodies *)
(* that keep state, for any number of threads, processes, open calls and   *)
(* probes, and any width of the taint mask: one invariant for each family, *)
(* over the family's own specification; the composed specification that    *)
(* the run checks implements all four.  Then the way of the lines that     *)
(* detectors print: the kernel's log, the daemon that polls it and its two *)
(* outputs, for any size of the log and any number of lines and restarts.  *)
(***************************************************************************)
EXTENDS DetectorBodies, DmesgPath, FiniteSetTheorems, TLAPS

-----------------------------------------------------------------------------
\* reset_tainted_detector.c

\* How far the exit function has come, and what that means for the work items:
\* an item whose cancellation has begun is not pending, and one whose
\* cancellation has returned is idle.
ExitInv ==
    /\ life \in {"unhooked", "half", "gone"} => ~hook
    /\ \A w \in cancel : work[w] # "pending"
    /\ life \in {"half", "gone"} => "taint" \in cancel /\ work["taint"] = "idle"
    /\ life = "gone" => "scan" \in cancel /\ work["scan"] = "idle"

\* A bit that was reported is not in the baseline.
ToldInv == told \cap baseline = {}

TaintInv == TaintTypeOK /\ ExitInv /\ ToldInv

\* What init leaves satisfies the invariant, whichever vectors are missing.
LEMMA TaintInitInv == TaintInit => TaintInv
  <1> SUFFICES ASSUME TaintInit PROVE TaintInv
      OBVIOUS
  <1>1. TaintTypeOK
      BY DEF TaintInit, TaintTypeOK, Work
  <1>2. ExitInv
      BY DEF TaintInit, ExitInv
  <1>3. ToldInv
      BY DEF TaintInit, ToldInv
  <1> QED BY <1>1, <1>2, <1>3 DEF TaintInv

\* Every step of the kernel, of the work functions and of the exit function
\* preserves it.
LEMMA TaintNextInv == TaintInv /\ [TaintNext]_taintVars => TaintInv'
  <1> SUFFICES ASSUME TaintInv, [TaintNext]_taintVars PROVE TaintInv'
      OBVIOUS
  <1> USE DEF TaintInv, Work
  <1>1. ASSUME NEW b \in Bit, SetTaint(b) PROVE TaintInv'
    <2>1. TaintTypeOK'
        BY <1>1 DEF TaintTypeOK, SetTaint, driver
    <2>2. ExitInv'
        BY <1>1 DEF TaintTypeOK, ExitInv, SetTaint, driver
    <2>3. ToldInv'
        BY <1>1 DEF ToldInv, SetTaint, driver
    <2> QED BY <2>1, <2>2, <2>3
  <1>2. ASSUME NEW b \in Bit, ClearTaint(b) PROVE TaintInv'
    <2>1. TaintTypeOK'
        BY <1>2 DEF TaintTypeOK, ClearTaint, driver
    <2>2. ExitInv'
        BY <1>2 DEF TaintTypeOK, ExitInv, ClearTaint, driver
    <2>3. ToldInv'
        BY <1>2 DEF ToldInv, ClearTaint, driver
    <2> QED BY <2>1, <2>2, <2>3
  <1>3. ASSUME SpawnRogue PROVE TaintInv'
    <2>1. TaintTypeOK'
        BY <1>3 DEF TaintTypeOK, SpawnRogue, driver
    <2>2. ExitInv'
        BY <1>3 DEF TaintTypeOK, ExitInv, SpawnRogue, driver
    <2>3. ToldInv'
        BY <1>3 DEF ToldInv, SpawnRogue, driver
    <2> QED BY <2>1, <2>2, <2>3
  <1>4. ASSUME RogueEnds PROVE TaintInv'
    <2>1. TaintTypeOK'
        BY <1>4 DEF TaintTypeOK, RogueEnds, driver
    <2>2. ExitInv'
        BY <1>4 DEF TaintTypeOK, ExitInv, RogueEnds, driver
    <2>3. ToldInv'
        BY <1>4 DEF ToldInv, RogueEnds, driver
    <2> QED BY <2>1, <2>2, <2>3
  <1>5. ASSUME NEW w \in Work, WorkBegins(w) PROVE TaintInv'
    <2>1. TaintTypeOK'
        BY <1>5 DEF TaintTypeOK, WorkBegins
    <2>2. ExitInv'
        BY <1>5 DEF TaintTypeOK, ExitInv, WorkBegins
    <2>3. ToldInv'
        BY <1>5 DEF ToldInv, WorkBegins
    <2> QED BY <2>1, <2>2, <2>3
  <1>6. ASSUME TaintCheck PROVE TaintInv'
    <2>1. TaintTypeOK'
        BY <1>6 DEF TaintTypeOK, TaintCheck
    <2>2. ExitInv'
        BY <1>6 DEF TaintTypeOK, ExitInv, TaintCheck
    <2>3. ToldInv'
        BY <1>6 DEF ToldInv, TaintCheck
    <2> QED BY <2>1, <2>2, <2>3
  <1>7. ASSUME ThreadScan PROVE TaintInv'
    <2>1. TaintTypeOK'
        BY <1>7 DEF TaintTypeOK, ThreadScan
    <2>2. ExitInv'
        BY <1>7 DEF TaintTypeOK, ExitInv, ThreadScan
    <2>3. ToldInv'
        BY <1>7 DEF ToldInv, ThreadScan
    <2> QED BY <2>1, <2>2, <2>3
  <1>8. ASSUME NEW w \in Work, WorkEnds(w) PROVE TaintInv'
    <2>1. TaintTypeOK'
        BY <1>8 DEF TaintTypeOK, WorkEnds, Exiting
    <2>2. ExitInv'
        BY <1>8 DEF TaintTypeOK, ExitInv, WorkEnds, Exiting
    <2>3. ToldInv'
        BY <1>8 DEF ToldInv, WorkEnds, Exiting
    <2> QED BY <2>1, <2>2, <2>3
  <1>9. ASSUME ExitFlag PROVE TaintInv'
    <2>1. TaintTypeOK'
        BY <1>9 DEF TaintTypeOK, ExitFlag
    <2>2. ExitInv'
        BY <1>9 DEF TaintTypeOK, ExitInv, ExitFlag
    <2>3. ToldInv'
        BY <1>9 DEF ToldInv, ExitFlag
    <2> QED BY <2>1, <2>2, <2>3
  <1>10. ASSUME ExitHook PROVE TaintInv'
    <2>1. TaintTypeOK'
        BY <1>10 DEF TaintTypeOK, ExitHook
    <2>2. ExitInv'
        BY <1>10 DEF TaintTypeOK, ExitInv, ExitHook
    <2>3. ToldInv'
        BY <1>10 DEF ToldInv, ExitHook
    <2> QED BY <2>1, <2>2, <2>3
  <1>11. ASSUME CancelBegins("taint", "unhooked") PROVE TaintInv'
    <2>1. TaintTypeOK'
        BY <1>11 DEF TaintTypeOK, CancelBegins
    <2>2. ExitInv'
        BY <1>11 DEF TaintTypeOK, ExitInv, CancelBegins
    <2>3. ToldInv'
        BY <1>11 DEF ToldInv, CancelBegins
    <2> QED BY <2>1, <2>2, <2>3
  <1>12. ASSUME CancelReturns("taint", "unhooked", "half") PROVE TaintInv'
    <2>1. TaintTypeOK'
        BY <1>12 DEF TaintTypeOK, CancelReturns
    <2>2. ExitInv'
        BY <1>12 DEF TaintTypeOK, ExitInv, CancelReturns
    <2>3. ToldInv'
        BY <1>12 DEF ToldInv, CancelReturns
    <2> QED BY <2>1, <2>2, <2>3
  <1>13. ASSUME CancelBegins("scan", "half") PROVE TaintInv'
    <2>1. TaintTypeOK'
        BY <1>13 DEF TaintTypeOK, CancelBegins
    <2>2. ExitInv'
        BY <1>13 DEF TaintTypeOK, ExitInv, CancelBegins
    <2>3. ToldInv'
        BY <1>13 DEF ToldInv, CancelBegins
    <2> QED BY <2>1, <2>2, <2>3
  <1>14. ASSUME CancelReturns("scan", "half", "gone") PROVE TaintInv'
    <2>1. TaintTypeOK'
        BY <1>14 DEF TaintTypeOK, CancelReturns
    <2>2. ExitInv'
        BY <1>14 DEF TaintTypeOK, ExitInv, CancelReturns
    <2>3. ToldInv'
        BY <1>14 DEF ToldInv, CancelReturns
    <2> QED BY <2>1, <2>2, <2>3
  <1>15. CASE UNCHANGED taintVars
      BY <1>15 DEF TaintTypeOK, ExitInv, ToldInv, taintVars
  <1> QED
      BY <1>1, <1>2, <1>3, <1>4, <1>5, <1>6, <1>7, <1>8, <1>9, <1>10, <1>11, <1>12, <1>13, <1>14, <1>15
      DEF TaintNext, TaintWorld, Worker, TaintExit

-----------------------------------------------------------------------------
\* hiding_stat.c and hiding_directory.c

Seen == {"none", "shown", "hidden", "exited"}

CallRecord ==
    [at : {"idle", "task", "vfs", "done"}, pid : Pid \cup {0}, below : BOOLEAN,
     task : BOOLEAN, seen : SUBSET Seen, verdict : {"none", "critical"}]

ThrOK ==
    /\ proc \in [Pid -> {"none", "shown", "hidden"}]
    /\ thr \in [Thread -> CallRecord]

\* What a call under way knows about its process: it has met the present state,
\* and what it read of the task list is true or explained by what it has met.
CallInv ==
    \A t \in Thread :
        /\ thr[t].at # "done" => thr[t].verdict = "none"
        /\ thr[t].at # "idle" => thr[t].pid \in Pid /\ thr[t].seen # {}
        /\ thr[t].at \in {"task", "vfs"} => proc[thr[t].pid] \in thr[t].seen
        /\ thr[t].at = "vfs" =>
             /\ ~thr[t].task => "none" \in thr[t].seen
             /\ (thr[t].task /\ proc[thr[t].pid] = "none") => "exited" \in thr[t].seen

ProcInv == ThrOK /\ CallInv /\ HiddenIsReported /\ CriticalHasCause

LEMMA ProcInitInv == ProcInit => ProcInv
  BY DEF ProcInit, ProcInv, ThrOK, CallInv, HiddenIsReported, CriticalHasCause,
         Idle, Seen, CallRecord

\* The world moves under the calls, and each remembers it.
LEMMA ChangeInv ==
    ASSUME ProcInv, NEW p \in Pid, NEW s \in {"none", "shown", "hidden"},
           NEW met \in SUBSET Seen, s \in met, s = "none" => "exited" \in met,
           Change(p, s, met)
    PROVE  ProcInv'
  <1>1. proc' = [proc EXCEPT ![p] = s] /\ proc' \in [Pid -> {"none", "shown", "hidden"}]
    BY DEF Change, ProcInv, ThrOK
  <1>2. ASSUME NEW t \in Thread, thr[t].at # "idle", thr[t].pid = p
        PROVE  thr'[t] = [thr[t] EXCEPT !.seen = @ \cup met]
    BY <1>2 DEF Change
  <1>3. ASSUME NEW t \in Thread, ~(thr[t].at # "idle" /\ thr[t].pid = p)
        PROVE  thr'[t] = thr[t]
    BY <1>3 DEF Change
  <1>4. ThrOK'
    BY <1>1 DEF Change, ProcInv, ThrOK, CallRecord
  <1>5. CallInv' /\ HiddenIsReported' /\ CriticalHasCause'
    <2> SUFFICES ASSUME NEW t \in Thread
                 PROVE  /\ thr'[t].at # "done" => thr'[t].verdict = "none"
                        /\ thr'[t].at # "idle" => thr'[t].pid \in Pid /\ thr'[t].seen # {}
                        /\ thr'[t].at \in {"task", "vfs"} => proc'[thr'[t].pid] \in thr'[t].seen
                        /\ thr'[t].at = "vfs" =>
                             /\ ~thr'[t].task => "none" \in thr'[t].seen
                             /\ (thr'[t].task /\ proc'[thr'[t].pid] = "none")
                                  => "exited" \in thr'[t].seen
                        /\ thr'[t].at = "done" /\ thr'[t].seen = {"hidden"}
                             => thr'[t].verdict = "critical"
                        /\ thr'[t].verdict = "critical" =>
                             \/ thr'[t].below \/ "hidden" \in thr'[t].seen
                             \/ "exited" \in thr'[t].seen
      BY DEF CallInv, HiddenIsReported, CriticalHasCause
    <2> USE DEF ProcInv, ThrOK, CallInv, HiddenIsReported, CriticalHasCause
    <2>1. CASE thr[t].at # "idle" /\ thr[t].pid = p
      <3>1. /\ thr'[t].at = thr[t].at /\ thr'[t].pid = p /\ thr'[t].below = thr[t].below
            /\ thr'[t].task = thr[t].task /\ thr'[t].verdict = thr[t].verdict
            /\ thr'[t].seen = thr[t].seen \cup met
        <4> HIDE DEF ProcInv, ThrOK, CallInv, HiddenIsReported, CriticalHasCause
        <4>1. thr[t] \in CallRecord
          BY DEF ProcInv, ThrOK
        <4> QED BY <1>2, <2>1, <4>1 DEF CallRecord
      <3>2. proc'[p] = s
        BY <1>1
      <3> QED BY <2>1, <3>1, <3>2
    <2>2. CASE ~(thr[t].at # "idle" /\ thr[t].pid = p)
      BY <1>1, <1>3, <2>2
    <2> QED BY <2>1, <2>2
  <1> QED BY <1>4, <1>5 DEF ProcInv

LEMMA ProcNextInv == ProcInv /\ [ProcNext]_procVars => ProcInv'
  <1> SUFFICES ASSUME ProcInv, [ProcNext]_procVars PROVE ProcInv'
    OBVIOUS
  <1> USE DEF ProcInv, ThrOK, CallInv, HiddenIsReported, CriticalHasCause
  <1>1. ASSUME NEW p \in Pid, Spawn(p) \/ Hide(p) \/ Exits(p) PROVE ProcInv'
    <2>1. CASE Spawn(p)
      BY <2>1, ChangeInv DEF Spawn, Seen
    <2>2. CASE Hide(p)
      BY <2>2, ChangeInv DEF Hide, Seen
    <2>3. CASE Exits(p)
      BY <2>3, ChangeInv DEF Exits, Seen
    <2> QED BY <1>1, <2>1, <2>2, <2>3
  <1>2. ASSUME NEW t \in Thread, NEW p \in Pid, StatProc(t, p) PROVE ProcInv'
    <2>1. PICK below \in BOOLEAN :
            thr' = [thr EXCEPT ![t] = [Idle EXCEPT !.at = "task", !.pid = p, !.below = below,
                                                   !.seen = {proc[p]}]]
      BY <1>2 DEF StatProc
    <2>2. thr'[t] \in CallRecord
      BY <2>1 DEF Idle, Seen, CallRecord
    <2>3. /\ thr'[t].at = "task" /\ thr'[t].pid = p /\ thr'[t].seen = {proc[p]}
          /\ thr'[t].verdict = "none"
      BY <2>1 DEF Idle
    <2>4. \A u \in Thread : u # t => thr'[u] = thr[u]
      BY <2>1
    <2>5. thr' \in [Thread -> CallRecord] /\ UNCHANGED proc
      BY <1>2, <2>1, <2>2 DEF StatProc
    <2> QED BY <2>3, <2>4, <2>5
  <1>3. ASSUME NEW t \in Thread, ReadTask(t) PROVE ProcInv'
    <2>1. thr' = [thr EXCEPT ![t].task = HasTask(thr[t].pid), ![t].at = "vfs"]
      BY <1>3 DEF ReadTask
    <2>2. thr[t] \in CallRecord /\ thr[t].at = "task" /\ HasTask(thr[t].pid) \in BOOLEAN
      BY <1>3 DEF ReadTask, HasTask
    <2>3. /\ thr'[t].at = "vfs" /\ thr'[t].pid = thr[t].pid /\ thr'[t].seen = thr[t].seen
          /\ thr'[t].verdict = "none" /\ thr'[t].below = thr[t].below
          /\ thr'[t].task = HasTask(thr[t].pid) /\ thr'[t] \in CallRecord
      BY <2>1, <2>2 DEF CallRecord
    <2>4. \A u \in Thread : u # t => thr'[u] = thr[u]
      BY <2>1
    <2>5. thr' \in [Thread -> CallRecord] /\ UNCHANGED proc
      BY <1>3, <2>1, <2>3 DEF ReadTask
    <2>6. /\ thr[t].pid \in Pid /\ thr[t].seen # {} /\ proc[thr[t].pid] \in thr[t].seen
      BY <2>2
    <2>7. /\ ~thr'[t].task => "none" \in thr[t].seen
          /\ thr'[t].task => proc[thr[t].pid] # "none"
      BY <2>3, <2>6 DEF HasTask
    <2> QED BY <2>2, <2>3, <2>4, <2>5, <2>6, <2>7
  <1>4. ASSUME NEW t \in Thread, ReadVfs(t) PROVE ProcInv'
    <2>1. PICK vfs \in BOOLEAN : InVfs(thr[t], thr[t].pid, vfs) /\ Verdict(t, vfs)
      BY <1>4 DEF ReadVfs
    <2>2. thr' = [thr EXCEPT ![t].at = "done",
                             ![t].verdict = IF thr[t].task /\ ~vfs THEN "critical" ELSE "none"]
      BY <2>1 DEF Verdict
    <2>3. thr[t] \in CallRecord /\ thr[t].at = "vfs" /\ UNCHANGED proc
      BY <1>4 DEF ReadVfs
    <2>4. /\ thr'[t].at = "done" /\ thr'[t].pid = thr[t].pid /\ thr'[t].seen = thr[t].seen
          /\ thr'[t].below = thr[t].below /\ thr'[t] \in CallRecord
          /\ thr'[t].verdict = IF thr[t].task /\ ~vfs THEN "critical" ELSE "none"
      BY <2>2, <2>3 DEF CallRecord
    <2>5. /\ \A u \in Thread : u # t => thr'[u] = thr[u]
          /\ thr' \in [Thread -> CallRecord]
      BY <2>2, <2>4
    <2>6. /\ thr[t].pid \in Pid /\ proc[thr[t].pid] \in thr[t].seen
          /\ proc[thr[t].pid] \in {"none", "shown", "hidden"}
      BY <2>3
    <2>7. /\ thr[t].seen = {"hidden"} => thr[t].task /\ ~vfs
          /\ (thr[t].task /\ ~vfs) =>
               thr[t].below \/ "hidden" \in thr[t].seen \/ "exited" \in thr[t].seen
      BY <2>1, <2>3, <2>6 DEF InVfs
    <2> QED BY <2>3, <2>4, <2>5, <2>6, <2>7
  <1>5. ASSUME NEW t \in Thread, Returns(t) PROVE ProcInv'
    BY <1>5 DEF Returns, Idle, CallRecord
  <1>6. CASE UNCHANGED <<proc, thr>>
    BY <1>6
  <1> QED
    BY <1>1, <1>2, <1>3, <1>4, <1>5, <1>6
    DEF ProcNext, procVars, NewInterval, StatDirectory, Getpriority, Getdents

-----------------------------------------------------------------------------
\* hook_file_access.c

OpenCall ==
    [at : {"no", "in", "failed", "nameless", "ok"}, path : Path \cup {"other"}, flags : Flags,
     inst : Instance \cup {NoInst}, full : BOOLEAN]

Report == [task : Task \cup {NoInst}, write : BOOLEAN]

OpenOK ==
    /\ data \in [Instance -> [task : Task \cup {NoInst}, flags : Flags]]
    /\ open \in [Task -> OpenCall]
    /\ opened \in [Task -> Report]

\* An instance in use belongs to one call, and its data is about that call.
InstanceInv ==
    \A t \in Task :
        /\ open[t].inst # NoInst => \A u \in Task : u # t => open[u].inst # open[t].inst
        /\ open[t].at # "in" => open[t].inst = NoInst
        /\ open[t].at = "in" =>
             /\ open[t].full <=> open[t].inst = NoInst
             /\ open[t].inst # NoInst =>
                  /\ data[open[t].inst].task = t
                  /\ data[open[t].inst].flags \in {{}, open[t].flags}

\* There is a report only between a successful return and the next call.
QuietInv == \A t \in Task : open[t].at # "ok" => opened[t] = NoReport

OpenInv == OpenOK /\ InstanceInv /\ QuietInv /\ OpensAreReported

LEMMA OpenInitInv == OpenInit => OpenInv
  <1> SUFFICES ASSUME OpenInit PROVE OpenInv
    OBVIOUS
  <1>1. NotOpen \in OpenCall /\ NotOpen.at = "no" /\ NotOpen.inst = NoInst
    BY DEF NotOpen, OpenCall, Flags
  <1>2. NoReport \in Report
    BY DEF NoReport, Report
  <1>3. OpenOK
    BY <1>1, <1>2 DEF OpenInit, OpenOK, Flags
  <1>4. \A t \in Task : open[t] = NotOpen /\ opened[t] = NoReport
    BY DEF OpenInit
  <1>5. InstanceInv /\ QuietInv /\ OpensAreReported
    BY <1>1, <1>4
    DEF InstanceInv, QuietInv, OpensAreReported, ReportIsOwn, UnreportedHasReason
  <1> QED BY <1>3, <1>5 DEF OpenInv

\* A task enters do_filp_open().
LEMMA EnterInv ==
    ASSUME OpenInv, NEW t \in Task, OpenEnter(t)
    PROVE  OpenInv'
  <1>1. PICK path \in Path, flags \in Flags, x \in Instance \cup {NoInst}, full \in BOOLEAN :
          /\ open' = [open EXCEPT ![t] = [at |-> "in", path |-> path, flags |-> flags,
                                          inst |-> x, full |-> full]]
          /\ full <=> x = NoInst
          /\ x # NoInst => \A u \in Task : open[u].inst # x
          /\ x = NoInst => UNCHANGED data
          /\ x # NoInst => \E readable \in BOOLEAN :
                            data' = [data EXCEPT ![x] = EntryData(x, t, flags, readable)]
    <2>1. PICK path \in Path, flags \in Flags :
         \/ /\ Free = {}
            /\ open' = [open EXCEPT ![t] = [at |-> "in", path |-> path, flags |-> flags,
                                            inst |-> NoInst, full |-> TRUE]]
            /\ UNCHANGED data
         \/ \E x \in Free, readable \in BOOLEAN :
            /\ open' = [open EXCEPT ![t] = [at |-> "in", path |-> path, flags |-> flags,
                                            inst |-> x, full |-> FALSE]]
            /\ data' = [data EXCEPT ![x] = EntryData(x, t, flags, readable)]
      BY DEF OpenEnter
    <2>2. CASE /\ open' = [open EXCEPT ![t] = [at |-> "in", path |-> path, flags |-> flags,
                                            inst |-> NoInst, full |-> TRUE]]
               /\ UNCHANGED data
      BY <2>2
    <2>3. ASSUME NEW x \in Free, NEW readable \in BOOLEAN,
                 open' = [open EXCEPT ![t] = [at |-> "in", path |-> path, flags |-> flags,
                                            inst |-> x, full |-> FALSE]],
                 data' = [data EXCEPT ![x] = EntryData(x, t, flags, readable)]
          PROVE  /\ x \in Instance /\ x # NoInst
                 /\ \A u \in Task : open[u].inst # x
      BY OpenAssumption DEF Free
    <2> QED BY <2>1, <2>2, <2>3
  <1>2. /\ open'[t] \in OpenCall /\ open'[t].at = "in" /\ open'[t].flags = flags
        /\ open'[t].inst = x /\ open'[t].full = full
        /\ \A u \in Task : u # t => open'[u] = open[u]
        /\ open' \in [Task -> OpenCall]
    BY <1>1 DEF OpenInv, OpenOK, OpenCall
  <1>3. /\ data' \in [Instance -> [task : Task \cup {NoInst}, flags : Flags]]
        /\ \A y \in Instance : y # x => data'[y] = data[y]
        /\ x # NoInst => data'[x].task = t /\ data'[x].flags \in {{}, flags}
    <2>1. CASE x = NoInst
      BY <1>1, <2>1 DEF OpenInv, OpenOK
    <2>2. CASE x # NoInst
      <3>1. PICK readable \in BOOLEAN : data' = [data EXCEPT ![x] = EntryData(x, t, flags, readable)]
        BY <1>1, <2>2
      <3>2. /\ EntryData(x, t, flags, readable) \in [task : Task \cup {NoInst}, flags : Flags]
            /\ EntryData(x, t, flags, readable).task = t
            /\ EntryData(x, t, flags, readable).flags \in {{}, flags}
        BY DEF EntryData, Flags
      <3> QED BY <2>2, <3>1, <3>2 DEF OpenInv, OpenOK
    <2> QED BY <2>1, <2>2
  <1>4. /\ opened' \in [Task -> Report] /\ opened'[t] = NoReport
        /\ \A u \in Task : u # t => opened'[u] = opened[u]
    BY DEF OpenEnter, OpenInv, OpenOK, NoReport, Report
  <1>5. OpenOK'
    BY <1>2, <1>3, <1>4 DEF OpenOK
  <1>6. \A u \in Task : open[u].inst \in Instance \cup {NoInst}
    BY DEF OpenInv, OpenOK, OpenCall
  <1>7. InstanceInv'
    BY <1>1, <1>2, <1>3, <1>6 DEF OpenInv, InstanceInv
  <1>8. QuietInv'
    BY <1>2, <1>4 DEF OpenInv, QuietInv
  <1>9. OpensAreReported'
    BY <1>2, <1>4 DEF OpenInv, OpensAreReported, ReportIsOwn, UnreportedHasReason
  <1> QED BY <1>5, <1>7, <1>8, <1>9 DEF OpenInv

\* What do_filp_open_ret() reports.
LEMMA ReturnFacts ==
    ASSUME OpenInv, NEW t \in Task, open[t].at = "in", open[t].inst # NoInst
    PROVE  LET r == ReturnReport(open[t].inst, open[t].path, open[t].flags)
           IN  /\ r \in Report
               /\ r # NoReport <=> Sensitive(open[t].path)
               /\ r # NoReport =>
                    /\ r.task = t
                    /\ r.write => Writeish(open[t].flags)
                    /\ "WR" \in open[t].flags => r.write
  <1> DEFINE d == data[open[t].inst]
             f == open[t].flags
             eff == IF d.flags # {} THEN d.flags ELSE f \ {"CREAT", "TRUNC"}
             s == [task |-> d.task, write |-> Writeish(eff)]
  <1>1. d.task = t /\ d.flags \in {{}, f} /\ f \in Flags
    BY DEF OpenInv, InstanceInv, OpenOK, OpenCall
  <1> HIDE DEF d, f
  <1>2. Writeish(eff) => Writeish(f)
    BY <1>1 DEF Writeish, Flags
  <1>3. "WR" \in f => Writeish(eff)
    BY <1>1 DEF Writeish, Flags
  <1>4. s \in Report /\ s.task = t /\ s.write = Writeish(eff)
    BY <1>1 DEF Report, Writeish
  <1>5. s # NoReport
    BY <1>4, OpenAssumption DEF NoReport
  <1>6. ReturnReport(open[t].inst, open[t].path, f) = IF Sensitive(open[t].path) THEN s ELSE NoReport
    BY DEF ReturnReport, d
  <1>7. NoReport \in Report
    BY DEF NoReport, Report
  <1> HIDE DEF s, eff
  <1> QED BY <1>2, <1>3, <1>4, <1>5, <1>6, <1>7 DEF f

\* do_filp_open() returns.
LEMMA ReturnInv ==
    ASSUME OpenInv, NEW t \in Task, OpenReturn(t)
    PROVE  OpenInv'
  <1>1. PICK out \in {"failed", "nameless", "ok"} :
         /\ opened' = [opened EXCEPT ![t] =
                         IF out = "ok" /\ open[t].inst # NoInst
                         THEN ReturnReport(open[t].inst, open[t].path, open[t].flags) ELSE NoReport]
         /\ open' = [open EXCEPT ![t].at = out, ![t].inst = NoInst]
    BY DEF OpenReturn
  <1>2. open[t] \in OpenCall /\ open[t].at = "in" /\ UNCHANGED data
    BY DEF OpenReturn, OpenInv, OpenOK
  <1>3. /\ open'[t] \in OpenCall /\ open'[t].at = out
        /\ open'[t].inst = NoInst
        /\ open'[t].path = open[t].path /\ open'[t].flags = open[t].flags
        /\ open'[t].full = open[t].full
    BY <1>1, <1>2 DEF OpenInv, OpenOK, OpenCall
  <1>4. /\ \A u \in Task : u # t => open'[u] = open[u] /\ opened'[u] = opened[u]
        /\ open' \in [Task -> OpenCall]
    BY <1>1, <1>3 DEF OpenInv, OpenOK
  <1>5. /\ opened'[t] \in Report /\ opened' \in [Task -> Report]
        /\ opened'[t] # NoReport <=> out = "ok" /\ open[t].inst # NoInst /\ Sensitive(open[t].path)
        /\ opened'[t] # NoReport =>
             /\ opened'[t].task = t
             /\ opened'[t].write => Writeish(open[t].flags)
             /\ "WR" \in open[t].flags => opened'[t].write
    <2>1. NoReport \in Report
      BY DEF NoReport, Report
    <2>2. opened'[t] = IF out = "ok" /\ open[t].inst # NoInst
                       THEN ReturnReport(open[t].inst, open[t].path, open[t].flags) ELSE NoReport
      BY <1>1 DEF OpenInv, OpenOK
    <2>3. /\ opened'[t] \in Report
          /\ opened'[t] # NoReport <=> out = "ok" /\ open[t].inst # NoInst /\ Sensitive(open[t].path)
          /\ opened'[t] # NoReport =>
               /\ opened'[t].task = t
               /\ opened'[t].write => Writeish(open[t].flags)
               /\ "WR" \in open[t].flags => opened'[t].write
      BY <1>2, <2>1, <2>2, ReturnFacts
    <2> QED BY <1>1, <2>3 DEF OpenInv, OpenOK
  <1>6. open[t].full <=> open[t].inst = NoInst
    BY <1>2 DEF OpenInv, InstanceInv
  <1>7. OpenOK'
    BY <1>2, <1>4, <1>5 DEF OpenInv, OpenOK
  <1>8. InstanceInv' /\ QuietInv'
    <2>1. InstanceInv'
      BY <1>2, <1>3, <1>4 DEF OpenInv, InstanceInv
    <2>2. QuietInv'
      <3>1. open'[t].at # "ok" => opened'[t] = NoReport
        BY <1>3, <1>5
      <3> QED BY <1>4, <3>1 DEF OpenInv, QuietInv
    <2> QED BY <2>1, <2>2
  <1>9. OpensAreReported'
    <2>1. ReportIsOwn'
      BY <1>3, <1>4, <1>5 DEF OpenInv, OpensAreReported, ReportIsOwn
    <2>2. UnreportedHasReason'
      BY <1>3, <1>4, <1>5, <1>6
      DEF OpenInv, OpensAreReported, UnreportedHasReason, Sensitive
    <2> QED BY <2>1, <2>2 DEF OpensAreReported
  <1> QED BY <1>7, <1>8, <1>9 DEF OpenInv

LEMMA OpenNextInv == OpenInv /\ [OpenNext]_openVars => OpenInv'
  <1> SUFFICES ASSUME OpenInv, [OpenNext]_openVars PROVE OpenInv'
    OBVIOUS
  <1>1. ASSUME NEW t \in Task, OpenDone(t) PROVE OpenInv'
    <2>1. NotOpen \in OpenCall /\ NotOpen.at = "no" /\ NotOpen.inst = NoInst
      BY DEF NotOpen, OpenCall, Flags
    <2>2. NoReport \in Report
      BY DEF NoReport, Report
    <2>3. /\ open'[t] = NotOpen /\ opened'[t] = NoReport /\ UNCHANGED data
          /\ \A u \in Task : u # t => open'[u] = open[u] /\ opened'[u] = opened[u]
          /\ OpenOK'
      BY <1>1, <2>1, <2>2 DEF OpenDone, OpenInv, OpenOK
    <2>4. InstanceInv' /\ QuietInv'
      BY <2>1, <2>3 DEF OpenInv, InstanceInv, QuietInv
    <2>5. OpensAreReported'
      BY <2>1, <2>3 DEF OpenInv, OpensAreReported, ReportIsOwn, UnreportedHasReason
    <2> QED BY <2>3, <2>4, <2>5 DEF OpenInv
  <1>2. CASE UNCHANGED openVars
    <2>1. OpenOK' /\ InstanceInv' /\ QuietInv'
      BY <1>2 DEF openVars, OpenInv, OpenOK, InstanceInv, QuietInv
    <2>2. OpensAreReported'
      BY <1>2 DEF openVars, OpenInv, OpensAreReported, ReportIsOwn, UnreportedHasReason
    <2> QED BY <2>1, <2>2 DEF OpenInv
  <1> QED BY <1>1, <1>2, EnterInv, ReturnInv DEF OpenNext

-----------------------------------------------------------------------------
\* kprobe_detector.c and kretprobe_detector.c

FlagName == {"BATCH", "WATCHLISTED", "ANON_HANDLER", "HIGH_ACTIVE"}

ProbeCall ==
    [fn : {"none", "kprobe", "kretprobe", "kprobes"}, who : {"own", "foreign"},
     probes : Seq(Probe), i : Nat \ {0}, high : BOOLEAN, flags : SUBSET FlagName,
     at : {"kprobe", "kretprobe", "batch", "inner", "done"}]

\* Where the call is, and how far the loop of that place has come.
StageInv ==
    /\ call \in ProbeCall
    /\ call.at = "kprobe" => call.fn = "kprobe" /\ Len(call.probes) = 1 /\ call.i = 1
    /\ call.at = "kretprobe" => call.fn = "kretprobe" /\ Len(call.probes) = 1 /\ call.i = 1
    /\ call.at = "batch" => call.fn = "kprobes" /\ call.i <= LastSeen + 1
    /\ call.at \in {"inner", "done"} => call.i <= Len(call.probes) + 1
    /\ \A r \in reports : r.idx \in 1 .. Len(call.probes)

\* What has been reported when the loop is at its i-th probe.
WatchedSoFar ==
    call.at \in {"inner", "done"} /\ call.who = "foreign" =>
        \A j \in 1 .. (call.i - 1) : Watchlisted(call.probes[j]) =>
            \E r \in reports : r.idx = j /\ r.severity = "critical"

AnonymousSoFar ==
    call.at = "batch" /\ call.who = "foreign" =>
        \A j \in 1 .. (call.i - 1) : call.probes[j].anon =>
            \E r \in reports : r.idx = j /\ "ANON_HANDLER" \in r.flags

ProbeInv == StageInv /\ WatchedSoFar /\ AnonymousSoFar /\ AnonymousIsSeen /\ NoBorrowedFlags

\* The flags a probe gives rise to.
LEMMA FlagFacts ==
    ASSUME NEW p \in Probe
    PROVE  /\ SignalFlags(p) \subseteq {"WATCHLISTED", "ANON_HANDLER"}
           /\ "WATCHLISTED" \in SignalFlags(p) <=> Watchlisted(p)
           /\ "ANON_HANDLER" \in SignalFlags(p) <=> p.anon
  BY DEF SignalFlags, Probe

LEMMA Min2Facts ==
    ASSUME NEW a \in Nat
    PROVE  /\ Min2(a, BatchCap) \in Nat
           /\ Min2(a, BatchCap) <= a /\ 1 <= Min2(a, BatchCap) + 1
           /\ a = 1 => Min2(a, BatchCap) = 1
           /\ a = 0 => Min2(a, BatchCap) = 0
  BY ProbeAssumption DEF Min2

LEMMA ProbeFacts ==
    ASSUME StageInv
    PROVE  /\ Len(call.probes) \in Nat /\ DOMAIN call.probes = 1 .. Len(call.probes)
           /\ \A j \in 1 .. Len(call.probes) : call.probes[j] \in Probe
           /\ call.i \in Nat \ {0}
           /\ LastSeen \in Nat /\ LastSeen <= Len(call.probes)
           /\ Len(call.probes) = 1 => LastSeen = 1
  <1>1. call.probes \in Seq(Probe) /\ call.i \in Nat \ {0}
    BY DEF StageInv, ProbeCall
  <1>2. Len(call.probes) \in Nat /\ BatchCap \in Nat \ {0}
    BY <1>1, ProbeAssumption
  <1>3. LastSeen \in Nat /\ LastSeen <= Len(call.probes)
        /\ (Len(call.probes) = 1 => LastSeen = 1)
    BY <1>2, Min2Facts DEF LastSeen
  <1> QED BY <1>1, <1>3

LEMMA ProbeInitInv == ProbeInit => ProbeInv
  <1> SUFFICES ASSUME ProbeInit PROVE ProbeInv
    OBVIOUS
  <1>1. /\ call = NoCall /\ reports = {} /\ call.probes = <<>> /\ call.i = 1
        /\ call.at = "done" /\ call.probes \in Seq(Probe) /\ Len(call.probes) = 0
    BY DEF ProbeInit, NoCall
  <1>2. StageInv
    BY <1>1 DEF StageInv, NoCall, ProbeCall
  <1>3. WatchedSoFar /\ AnonymousSoFar /\ NoBorrowedFlags
    BY <1>1 DEF WatchedSoFar, AnonymousSoFar, NoBorrowedFlags
  <1>4. AnonymousIsSeen
    <2>1. Min2(Len(call.probes), BatchCap) = 0
      BY <1>1, Min2Facts
    <2> QED BY <2>1 DEF AnonymousIsSeen
  <1> QED BY <1>2, <1>3, <1>4 DEF ProbeInv

\* A call begins: nothing is reported about it yet.
LEMMA CalledInv ==
    ASSUME ProbeInv, NEW fn, NEW at, NEW who \in {"own", "foreign"},
           NEW ps \in Seq(Probe), NEW high \in BOOLEAN, Called(fn, who, ps, high, at),
           \/ fn \in {"kprobe", "kretprobe"} /\ at = fn /\ Len(ps) = 1
           \/ fn = "kprobes" /\ at = "batch"
    PROVE  ProbeInv'
  <1>1. /\ call' = [fn |-> fn, who |-> who, probes |-> ps, i |-> 1, high |-> high,
                    flags |-> {}, at |-> at]
        /\ reports' = {}
    BY DEF Called
  <1>2. /\ call'.fn = fn /\ call'.at = at /\ call'.probes = ps /\ call'.i = 1
        /\ at \in {"kprobe", "kretprobe", "batch"} /\ call' \in ProbeCall
    BY <1>1 DEF ProbeCall
  <1>3. call'.i <= LastSeen' + 1
    <2>1. Len(ps) \in Nat
      OBVIOUS
    <2> QED BY <1>2, <2>1, Min2Facts DEF LastSeen
  <1>4. StageInv'
    BY <1>1, <1>2, <1>3 DEF StageInv
  <1>5. (WatchedSoFar /\ AnonymousSoFar /\ AnonymousIsSeen /\ NoBorrowedFlags)'
    BY <1>1, <1>2 DEF WatchedSoFar, AnonymousSoFar, AnonymousIsSeen, NoBorrowedFlags
  <1> QED BY <1>4, <1>5 DEF ProbeInv

LEMMA CallsInv ==
    ASSUME ProbeInv, NEW who \in {"own", "foreign"},
           CallKprobe(who) \/ CallKretprobe(who) \/ CallKprobes(who)
    PROVE  ProbeInv'
  <1>1. \A p \in Probe : <<p>> \in Seq(Probe) /\ Len(<<p>>) = 1
    OBVIOUS
  <1>2. CASE CallKprobe(who)
    BY <1>1, <1>2, CalledInv DEF CallKprobe
  <1>3. CASE CallKretprobe(who)
    BY <1>1, <1>3, CalledInv DEF CallKretprobe
  <1>4. CASE CallKprobes(who)
    <2>1. PICK n \in 0 .. MaxBatch : \E ps \in [1 .. n -> Probe] :
            Called("kprobes", who, ps, FALSE, "batch")
      BY <1>4 DEF CallKprobes
    <2>2. n \in Nat
      BY ProbeAssumption
    <2>3. PICK ps \in [1 .. n -> Probe] : Called("kprobes", who, ps, FALSE, "batch")
      BY <2>1
    <2>4. ps \in Seq(Probe)
      BY <2>2
    <2> QED BY <2>3, <2>4, CalledInv
  <1> QED BY <1>2, <1>3, <1>4

\* A step within a call: the probes stay, the reports only grow.
LEMMA KretprobeInv ==
    ASSUME ProbeInv, KretprobeHook
    PROVE  ProbeInv'
  <1> DEFINE p == call.probes[1]
             f == SignalFlags(p) \cup (IF call.high THEN {"HIGH_ACTIVE"} ELSE {})
  <1>1. /\ call \in ProbeCall /\ call.at = "kretprobe" /\ call.fn = "kretprobe"
        /\ Len(call.probes) = 1 /\ call.i = 1 /\ p \in Probe
    BY ProbeFacts DEF ProbeInv, StageInv, KretprobeHook
  <1>2. /\ call'.at = "inner" /\ call'.fn = "kretprobe" /\ call'.who = call.who
        /\ call'.probes = call.probes /\ call'.i = 1 /\ call' \in ProbeCall
    BY <1>1 DEF KretprobeHook, ProbeCall
  <1>3. reports' = IF call.who = "own" \/ f = {} THEN reports ELSE reports \cup {Emitted(1, f)}
    BY DEF KretprobeHook
  <1>4. /\ Emitted(1, f).idx = 1 /\ Emitted(1, f).flags = f
        /\ f \ {"BATCH", "HIGH_ACTIVE"} \subseteq SignalFlags(p)
        /\ p.anon => "ANON_HANDLER" \in f
    BY <1>1, FlagFacts DEF Emitted
  <1> HIDE DEF f
  <1>5. StageInv'
    BY <1>1, <1>2, <1>3, <1>4 DEF ProbeInv, StageInv
  <1>6. (WatchedSoFar /\ AnonymousSoFar)'
    BY <1>2 DEF WatchedSoFar, AnonymousSoFar
  <1>7. NoBorrowedFlags'
    BY <1>2, <1>3, <1>4 DEF ProbeInv, NoBorrowedFlags
  <1>8. AnonymousIsSeen'
    <2>1. Min2(Len(call.probes), BatchCap) = 1
      BY <1>1, Min2Facts
    <2>2. (call.who = "foreign" /\ p.anon) =>
            \E r \in reports' : r.idx = 1 /\ "ANON_HANDLER" \in r.flags
      BY <1>3, <1>4
    <2> QED BY <1>2, <2>1, <2>2 DEF AnonymousIsSeen
  <1> QED BY <1>5, <1>6, <1>7, <1>8 DEF ProbeInv

LEMMA BatchStepInv ==
    ASSUME ProbeInv, BatchStep
    PROVE  ProbeInv'
  <1> DEFINE p == call.probes[call.i]
             f == FreshFlags \cup SignalFlags(p)
  <1>1. /\ call \in ProbeCall /\ call.at = "batch" /\ call.fn = "kprobes"
        /\ call.i \in 1 .. Len(call.probes) /\ call.i <= LastSeen /\ p \in Probe
    BY ProbeFacts DEF ProbeInv, StageInv, BatchStep
  <1>2. f \in SUBSET FlagName
    BY <1>1, FlagFacts DEF FreshFlags, FlagName
  <1>3. call' = [call EXCEPT !.i = @ + 1, !.flags = f]
    BY DEF BatchStep
  <1>4. /\ Emitted(call.i, f).idx = call.i /\ Emitted(call.i, f).flags = f
        /\ f \ {"BATCH", "HIGH_ACTIVE"} \subseteq SignalFlags(p)
        /\ p.anon => "ANON_HANDLER" \in f /\ f # {"BATCH"}
    BY <1>1, FlagFacts DEF Emitted, FreshFlags
  <1>5. reports' = IF f = {"BATCH"} THEN reports ELSE reports \cup {Emitted(call.i, f)}
    BY DEF BatchStep
  <1> HIDE DEF f
  <1>6. /\ call'.at = "batch" /\ call'.fn = "kprobes" /\ call'.who = call.who
        /\ call'.probes = call.probes /\ call'.i = call.i + 1 /\ call' \in ProbeCall
    <2>1. call.i + 1 \in Nat \ {0}
      BY <1>1 DEF ProbeCall
    <2>2. /\ call'.at = call.at /\ call'.fn = call.fn /\ call'.who = call.who
          /\ call'.probes = call.probes /\ call'.i = call.i + 1
      BY <1>1, <1>3 DEF ProbeCall
    <2>3. call' \in ProbeCall
      BY <1>1, <1>2, <1>3, <2>1 DEF ProbeCall
    <2> QED BY <1>1, <2>2, <2>3
  <1>7. StageInv'
    <2>1. LastSeen' = LastSeen /\ LastSeen \in Nat
      BY <1>6, ProbeFacts DEF LastSeen, ProbeInv
    <2>2. \A r \in reports' : r.idx \in 1 .. Len(call.probes)
      BY <1>1, <1>4, <1>5 DEF ProbeInv, StageInv
    <2> QED BY <1>1, <1>6, <2>1, <2>2 DEF StageInv
  <1>8. (WatchedSoFar /\ AnonymousIsSeen)'
    BY <1>6 DEF WatchedSoFar, AnonymousIsSeen
  <1>9. NoBorrowedFlags'
    BY <1>4, <1>5, <1>6 DEF ProbeInv, NoBorrowedFlags
  <1>10. AnonymousSoFar'
    <2> SUFFICES ASSUME call.who = "foreign", NEW j \in 1 .. call.i, call.probes[j].anon
                 PROVE  \E r \in reports' : r.idx = j /\ "ANON_HANDLER" \in r.flags
      BY <1>1, <1>6 DEF AnonymousSoFar
    <2>1. CASE j = call.i
      BY <2>1, <1>4, <1>5
    <2>2. CASE j # call.i
      <3>1. j \in 1 .. (call.i - 1)
        BY <2>2, <1>1
      <3> QED BY <1>1, <1>5, <3>1 DEF ProbeInv, AnonymousSoFar
    <2> QED BY <2>1, <2>2
  <1> QED BY <1>7, <1>8, <1>9, <1>10 DEF ProbeInv

LEMMA BatchEndsInv ==
    ASSUME ProbeInv, BatchEnds
    PROVE  ProbeInv'
  <1>1. /\ call \in ProbeCall /\ call.at = "batch" /\ call.fn = "kprobes"
        /\ call.who = "own" \/ call.i > LastSeen
        /\ UNCHANGED reports /\ call.i \in Nat /\ LastSeen \in Nat
        /\ Len(call.probes) \in Nat
    BY ProbeFacts DEF ProbeInv, StageInv, BatchEnds
  <1>2. /\ call'.at = "inner" /\ call'.fn = "kprobes" /\ call'.who = call.who
        /\ call'.probes = call.probes /\ call'.i = 1 /\ call' \in ProbeCall
    <2>1. call' = [call EXCEPT !.at = "inner", !.i = 1, !.flags = {}]
      BY DEF BatchEnds
    <2>2. /\ call'.at = "inner" /\ call'.fn = call.fn /\ call'.who = call.who
          /\ call'.probes = call.probes /\ call'.i = 1
      BY <1>1, <2>1 DEF ProbeCall
    <2>3. call' \in ProbeCall
      <3> DEFINE n == 1
                 f == {}
      <3>1. n \in Nat \ {0} /\ f \in SUBSET FlagName
        OBVIOUS
      <3>2. call' = [call EXCEPT !.at = "inner", !.i = n, !.flags = f]
        BY <2>1
      <3> HIDE DEF n, f
      <3> QED BY <1>1, <3>1, <3>2 DEF ProbeCall
    <2> QED BY <1>1, <2>2, <2>3
  <1>3. StageInv' /\ NoBorrowedFlags'
    BY <1>1, <1>2 DEF ProbeInv, StageInv, NoBorrowedFlags
  <1>4. (WatchedSoFar /\ AnonymousSoFar)'
    BY <1>2 DEF WatchedSoFar, AnonymousSoFar
  <1>5. AnonymousIsSeen'
    <2> SUFFICES ASSUME call.who = "foreign", NEW j \in 1 .. LastSeen, call.probes[j].anon
                 PROVE  \E r \in reports : r.idx = j /\ "ANON_HANDLER" \in r.flags
      BY <1>1, <1>2 DEF AnonymousIsSeen, LastSeen
    <2>1. j \in 1 .. (call.i - 1)
      BY <1>1
    <2> QED BY <1>1, <2>1 DEF ProbeInv, AnonymousSoFar
  <1> QED BY <1>3, <1>4, <1>5 DEF ProbeInv

\* What hook_kprobe_register() reports about a probe.
LEMMA KprobeReportFacts ==
    ASSUME StageInv, NEW i \in 1 .. Len(call.probes), NEW parent
    PROVE  /\ \A r \in KprobeReports(i, parent) :
                r.idx = i /\ r.flags \subseteq SignalFlags(call.probes[i])
           /\ (parent # "own" /\ Watchlisted(call.probes[i])) =>
                \E r \in KprobeReports(i, parent) : r.idx = i /\ r.severity = "critical"
  <1> DEFINE p == call.probes[i]
             e == [hook |-> "kprobe", idx |-> i, flags |-> SignalFlags(p) \ {"ANON_HANDLER"},
                   severity |-> IF Watchlisted(p) THEN "critical" ELSE "suspicious"]
  <1>1. KprobeReports(i, parent) = IF parent = "own" \/ p.sym = "none" THEN {} ELSE {e}
    BY DEF KprobeReports
  <1>2. /\ e.idx = i /\ e.flags \subseteq SignalFlags(p)
        /\ Watchlisted(p) => e.severity = "critical" /\ p.sym # "none"
    BY DEF Watchlisted
  <1> HIDE DEF e
  <1> QED BY <1>1, <1>2

\* One more probe has passed hook_kprobe_register().
LEMMA RegisterInv ==
    ASSUME ProbeInv, NEW parent, parent = call.who \/ parent = "kernel",
           call.at \in {"kprobe", "inner"}, call.i <= Len(call.probes),
           reports' = reports \cup KprobeReports(call.i, parent),
           call'.at = (IF call.at = "kprobe" THEN "done" ELSE "inner"),
           call'.i = call.i + 1, call'.fn = call.fn, call'.who = call.who,
           call'.probes = call.probes, call' \in ProbeCall
    PROVE  ProbeInv'
  <1>1. StageInv /\ Len(call.probes) \in Nat /\ call.i \in 1 .. Len(call.probes)
    BY ProbeFacts DEF ProbeInv
  <1>2. /\ \A r \in KprobeReports(call.i, parent) :
             r.idx = call.i /\ r.flags \subseteq SignalFlags(call.probes[call.i])
        /\ (parent # "own" /\ Watchlisted(call.probes[call.i])) =>
             \E r \in KprobeReports(call.i, parent) : r.idx = call.i /\ r.severity = "critical"
    BY <1>1, KprobeReportFacts
  <1>3. StageInv'
    BY <1>1, <1>2 DEF StageInv
  <1>4. NoBorrowedFlags'
    BY <1>2 DEF ProbeInv, NoBorrowedFlags
  <1>5. AnonymousSoFar'
    BY DEF AnonymousSoFar
  <1>6. AnonymousIsSeen'
    <2>1. CASE call.at = "kprobe"
      BY <1>1, <2>1 DEF AnonymousIsSeen, StageInv
    <2>2. CASE call.at = "inner"
      BY <2>2 DEF ProbeInv, AnonymousIsSeen
    <2> QED BY <2>1, <2>2
  <1>7. WatchedSoFar'
    <2> SUFFICES ASSUME call.who = "foreign", NEW j \in 1 .. call.i, Watchlisted(call.probes[j])
                 PROVE  \E r \in reports' : r.idx = j /\ r.severity = "critical"
      BY <1>1 DEF WatchedSoFar
    <2>1. CASE j = call.i
      BY <2>1, <1>2
    <2>2. CASE j # call.i
      <3>1. j \in 1 .. (call.i - 1) /\ call.at = "inner"
        BY <2>2, <1>1 DEF StageInv
      <3> QED BY <3>1 DEF ProbeInv, WatchedSoFar
    <2> QED BY <2>1, <2>2
  <1> QED BY <1>3, <1>4, <1>5, <1>6, <1>7 DEF ProbeInv

LEMMA ProbeNextInv == ProbeInv /\ [ProbeNext]_probeVars => ProbeInv'
  <1> SUFFICES ASSUME ProbeInv, [ProbeNext]_probeVars PROVE ProbeInv'
    OBVIOUS
  <1>1. call \in ProbeCall
    BY DEF ProbeInv, StageInv
  <1>2. CASE KprobeHook
    <2>1. call.i = 1 /\ Len(call.probes) = 1 /\ call.at = "kprobe"
      BY <1>2 DEF KprobeHook, ProbeInv, StageInv
    <2>2. /\ call'.at = "done" /\ call'.i = 2 /\ call'.fn = call.fn /\ call'.who = call.who
          /\ call'.probes = call.probes /\ call' \in ProbeCall
          /\ reports' = reports \cup KprobeReports(1, call.who)
      <3>1. call' = [call EXCEPT !.at = "done", !.i = 2]
        BY <1>2 DEF KprobeHook
      <3>2. /\ call'.at = "done" /\ call'.i = 2 /\ call'.fn = call.fn /\ call'.who = call.who
            /\ call'.probes = call.probes
        BY <1>1, <3>1 DEF ProbeCall
      <3>3. call' \in ProbeCall
        <4> DEFINE n == 2
        <4>1. n \in Nat \ {0}
          OBVIOUS
        <4>2. call' = [call EXCEPT !.at = "done", !.i = n]
          BY <3>1
        <4> HIDE DEF n
        <4> QED BY <1>1, <4>1, <4>2 DEF ProbeCall
      <3> QED BY <1>2, <3>2, <3>3 DEF KprobeHook
    <2> QED BY <2>1, <2>2, RegisterInv
  <1>3. CASE InnerRegister
    <2>1. /\ call'.at = "inner" /\ call'.i = call.i + 1 /\ call'.fn = call.fn
          /\ call'.who = call.who /\ call'.probes = call.probes /\ call' \in ProbeCall
          /\ reports' = reports \cup KprobeReports(call.i, "kernel")
          /\ call.at = "inner" /\ call.i <= Len(call.probes)
      BY <1>1, <1>3 DEF InnerRegister, ProbeCall
    <2> QED BY <2>1, RegisterInv
  <1>4. CASE InnerEnds
    <2>1. /\ call'.at = "done" /\ call'.i = call.i /\ call'.fn = call.fn
          /\ call'.who = call.who /\ call'.probes = call.probes /\ call' \in ProbeCall
          /\ UNCHANGED reports /\ call.at = "inner"
      BY <1>1, <1>4 DEF InnerEnds, ProbeCall
    <2>2. StageInv'
      BY <2>1 DEF ProbeInv, StageInv
    <2>3. (WatchedSoFar /\ AnonymousSoFar)'
      BY <2>1 DEF ProbeInv, WatchedSoFar, AnonymousSoFar
    <2>4. (AnonymousIsSeen /\ NoBorrowedFlags)'
      BY <2>1 DEF ProbeInv, AnonymousIsSeen, NoBorrowedFlags
    <2> QED BY <2>2, <2>3, <2>4 DEF ProbeInv
  <1>5. CASE UNCHANGED probeVars
    BY <1>5 DEF probeVars, ProbeInv, StageInv, LastSeen, WatchedSoFar, AnonymousSoFar,
                AnonymousIsSeen, NoBorrowedFlags
  <1> QED
    BY <1>2, <1>3, <1>4, <1>5, CallsInv, KretprobeInv, BatchStepInv, BatchEndsInv
    DEF ProbeNext

-----------------------------------------------------------------------------
\* The composed specification takes the steps of one family, and so implements
\* each of the four.
LEMMA FamiliesImplemented == Spec => TaintSpec /\ ProbeSpec /\ ProcSpec /\ OpenSpec
  <1>1. Init => TaintInit /\ ProbeInit /\ ProcInit /\ OpenInit
    BY DEF Init
  <1>2. [Next]_bodyVars => /\ [TaintNext]_taintVars /\ [ProbeNext]_probeVars
                           /\ [ProcNext]_procVars /\ [OpenNext]_openVars
    BY DEF Next, bodyVars
  <1> QED BY <1>1, <1>2, PTL DEF Spec, TaintSpec, ProbeSpec, ProcSpec, OpenSpec

\* Once reset_tainted_detector_exit() has returned and rmmod frees the code, no
\* work item is queued or running and the hook is gone, for any taint mask and
\* whatever the items were doing when the exit began.
THEOREM NoWorkOutlives == Spec => []NoWorkAfterUnload
  <1>1. TaintInv => NoWorkAfterUnload
    BY DEF TaintInv, ExitInv, NoWorkAfterUnload, Work
  <1> QED BY <1>1, TaintInitInv, TaintNextInv, FamiliesImplemented, PTL DEF TaintSpec

\* taint_check_fn() never reports a cleared bit again before it has seen it set,
\* for any taint mask and any changes between its checks.
THEOREM AlertsAreNotRepeated == Spec => []NoRepeatedAlert
  <1>1. TaintInv => NoRepeatedAlert
    BY DEF TaintInv, ToldInv, NoRepeatedAlert
  <1> QED BY <1>1, TaintInitInv, TaintNextInv, FamiliesImplemented, PTL DEF TaintSpec

\* For any number of probes in a batch: what another module registers is
\* reported, probe by probe and as what it is, through the nested hooks on
\* register_kprobe(), register_kretprobe() and register_kprobes().
THEOREM ProbesAreReported == Spec => []ReportsFollowProbes
  <1>1. ProbeInv => ReportsFollowProbes
    BY DEF ProbeInv, WatchedSoFar, WatchedIsSeen, ReportsFollowProbes
  <1> QED BY <1>1, ProbeInitInv, ProbeNextInv, FamiliesImplemented, PTL DEF ProbeSpec

\* A process that is hidden throughout the call that looks at it is reported,
\* whatever the rate limiters have let through, for any threads and processes.
THEOREM HiddenProcessReported == Spec => []HiddenIsReported
  <1>1. ProcInv => HiddenIsReported
    BY DEF ProcInv
  <1> QED BY <1>1, ProcInitInv, ProcNextInv, FamiliesImplemented, PTL DEF ProcSpec

\* analyze_stat_path() reads the task list and the file system at two moments;
\* a critical report still has a cause that happened during the call.
THEOREM CriticalReportHasCause == Spec => []CriticalHasCause
  <1>1. ProcInv => CriticalHasCause
    BY DEF ProcInv
  <1> QED BY <1>1, ProcInitInv, ProcNextInv, FamiliesImplemented, PTL DEF ProcSpec

\* Overlapping calls of do_filp_open() and reused kretprobe instances do not show
\* through in the reports, for any pool size and any number of tasks.
THEOREM OpenReportsAreOwn == Spec => []OpensAreReported
  <1>1. OpenInv => OpensAreReported
    BY DEF OpenInv
  <1> QED BY <1>1, OpenInitInv, OpenNextInv, FamiliesImplemented, PTL DEF OpenSpec

-----------------------------------------------------------------------------
\* The operators the dmesg path is built from.

Line == [ts : Nat, msg : Msg]

\* Every hooked call makes its detectors print lines that exist.
LEMMA LinesAreLines ==
    ASSUME NEW c \in Call
    PROVE  Lines(c) \in Seq(Kind)
  <1>1. /\ {"bpf_hook", "ftrace_filter", "tcp_hook", "tcp_hook_module", "icmp_hook",
            "icmp_hook_module"} \subseteq Kind
        /\ {"ftrace_direct", "kallsyms", "privesc", "privesc_detail", "trace_pid", "status"} \subseteq Kind
        /\ {"chdir", "ftrace_write", "readlink", "dmesg_clear", "lkrg", "lkrg_module", "audit"} \subseteq Kind
    BY DEF Kind, Suspicious, Plain
  <1>2. <<>> \in Seq(Kind) /\ \A m \in Kind : <<m>> \in Seq(Kind)
    OBVIOUS
  <1>3. \A s, t \in Seq(Kind) : s \o t \in Seq(Kind)
    OBVIOUS
  <1>4. ASSUME NEW cond, NEW s \in Seq(Kind) PROVE When(cond, s) \in Seq(Kind)
    BY <1>2 DEF When
  <1>5. CASE c.fn = "ftrace_set_filter_ip"
    <2>1. BpfLines(c) \in Seq(Kind)
      BY <1>1, <1>2 DEF BpfLines, When
    <2>2. TcpLines(c) \in Seq(Kind)
      BY <1>1, <1>2 DEF TcpLines, When
    <2>3. IcmpLines(c) \in Seq(Kind)
      BY <1>1, <1>2 DEF IcmpLines, When
    <2> QED BY <1>3, <1>5, <2>1, <2>2, <2>3 DEF Lines, FilterIpLines
  <1>6. CASE c.fn \in {"ftrace_set_filter", "modify_ftrace_direct", "kallsyms_lookup_name",
                       "tracepoint_probe_register"}
    BY <1>1, <1>2, <1>6 DEF Lines, SetFilterLines, ModifyDirectLines, KallsymsLines, TracepointLines, When
  <1>7. CASE c.fn = "commit_creds"
    <2>1. <<"privesc", "privesc_detail">> \in Seq(Kind)
      BY <1>1
    <2> QED BY <1>2, <1>7, <2>1 DEF Lines, CredsLines, When
  <1>8. CASE c.fn \in {"chdir", "vfs_write", "vfs_readlink", "do_syslog", "vprintk_emit",
                       "call_usermodehelper_exec"}
    BY <1>1, <1>2, <1>8 DEF Lines, ChdirLines, WriteLines, ReadlinkLines, SyslogLines, VprintkLines,
                            UmhLines, When
  <1>9. CASE c.fn = "audit"
    <2>1. c.of \in {"unicast", "start", "end", "syscall"}
      BY <1>9 DEF Call
    <2>2. <<"audit">> \in Seq(Kind) /\ <<"status">> \in Seq(Kind)
      BY <1>1, <1>2
    <2>3. /\ When(c.user, <<"audit">>) \in Seq(Kind) /\ When(c.stats, <<"status">>) \in Seq(Kind)
          /\ When(c.unknown, <<"audit">>) \in Seq(Kind) /\ When(c.listed, <<"status">>) \in Seq(Kind)
      BY <1>4, <2>2
    <2>4. AuditLines(c) \in Seq(Kind)
      BY <1>3, <2>1, <2>2, <2>3 DEF AuditLines
    <2> QED BY <1>3, <1>9, <2>4 DEF Lines, TaskstatsLines
  <1>10. CASE c.fn \in {"kthread_create", "register_kprobe", "stat", "do_filp_open"}
    <2>1. c.line \in Kind
      BY <1>10 DEF Call
    <2> QED BY <1>2, <1>10, <2>1 DEF Lines
  <1> QED BY <1>5, <1>6, <1>7, <1>8, <1>9, <1>10 DEF Call

\* What is printed is messages.
LEMMA PrintedAreMessages ==
    ASSUME NEW c \in Call, NEW clean \in BOOLEAN
    PROVE  Printed(Lines(c), clean) \in Seq(Msg)
  BY LinesAreLines DEF Printed, Msg

\* The newest lines are a suffix of the lines.
LEMMA NewestIsSuffix ==
    ASSUME NEW S, NEW s \in Seq(S), NEW n \in Nat
    PROVE  /\ Newest(s, n) \in Seq(S)
           /\ \E o \in Nat : \A i \in DOMAIN Newest(s, n) : i + o \in DOMAIN s /\ Newest(s, n)[i] = s[i + o]
  <1>1. CASE Len(s) <= n
    <2>1. \A i \in DOMAIN Newest(s, n) : i + 0 \in DOMAIN s /\ Newest(s, n)[i] = s[i + 0]
      BY <1>1 DEF Newest
    <2> QED BY <1>1, <2>1 DEF Newest
  <1>2. CASE Len(s) > n
    <2>1. Newest(s, n) = SubSeq(s, Len(s) - n + 1, Len(s))
      BY <1>2 DEF Newest
    <2>2. Len(s) - n + 1 \in 1 .. Len(s) + 1 /\ Len(s) \in 0 .. Len(s)
      BY <1>2
    <2>3. /\ Newest(s, n) \in Seq(S)
          /\ DOMAIN Newest(s, n) = 1 .. n
          /\ \A i \in 1 .. n : Newest(s, n)[i] = s[i + (Len(s) - n)]
      BY <1>2, <2>1, <2>2
    <2>4. Len(s) - n \in Nat
      BY <1>2
    <2>5. \A i \in DOMAIN Newest(s, n) :
             i + (Len(s) - n) \in DOMAIN s /\ Newest(s, n)[i] = s[i + (Len(s) - n)]
      BY <2>3, <2>4
    <2> QED BY <2>3, <2>4, <2>5
  <1>3. Len(s) <= n \/ Len(s) > n
    <2>1. Len(s) \in Nat
      OBVIOUS
    <2> QED BY <2>1
  <1> QED BY ONLY <1>1, <1>2, <1>3

\* Nth counts a finite set of numbers off in ascending order.
LEMMA NthCounts ==
    ASSUME NEW n \in Nat, NEW S \in SUBSET (1 .. n)
    PROVE  /\ Cardinality(S) \in Nat
           /\ \A k \in 1 .. Cardinality(S) : Nth(S, k) \in S
           /\ \A k, m \in 1 .. Cardinality(S) : k < m => Nth(S, k) < Nth(S, m)
           /\ \A i \in S : \E k \in 1 .. Cardinality(S) : Nth(S, k) = i
  <1> DEFINE N == Cardinality(S)
             Upto(i) == {j \in S : j <= i}
             f == [i \in S |-> Rank(S, i)]
  <1>0. \A i \in S : i \in Int
    OBVIOUS
  <1>1. IsFiniteSet(S) /\ N \in Nat
    <2>1. IsFiniteSet(1 .. n)
      BY FS_Interval
    <2> QED BY <2>1, FS_Subset, FS_CardinalityType
  <1>2. \A i \in S : IsFiniteSet(Upto(i)) /\ Rank(S, i) \in Nat /\ Rank(S, i) \in 1 .. N
    <2> TAKE i \in S
    <2>1. Upto(i) \subseteq S /\ i \in Upto(i)
      OBVIOUS
    <2>2. IsFiniteSet(Upto(i)) /\ Cardinality(Upto(i)) <= N
      BY <1>1, <2>1, FS_Subset
    <2>3. Cardinality(Upto(i)) \in Nat /\ Cardinality(Upto(i)) # 0
      BY <2>1, <2>2, FS_CardinalityType, FS_EmptySet
    <2> QED BY <1>1, <2>2, <2>3 DEF Rank
  <1>3. \A i, j \in S : i < j => Rank(S, i) < Rank(S, j)
    <2> SUFFICES ASSUME NEW i \in S, NEW j \in S, i < j PROVE Rank(S, i) < Rank(S, j)
      OBVIOUS
    <2>1. Upto(i) \in SUBSET Upto(j) /\ j \in Upto(j) /\ j \notin Upto(i)
      <3>1. \A x \in S : x <= i => x <= j
        BY <1>0
      <3>2. j <= j /\ ~(j <= i)
        BY <1>0
      <3> QED BY <3>1, <3>2
    <2>2. Cardinality(Upto(i)) <= Cardinality(Upto(j))
          /\ (Cardinality(Upto(j)) = Cardinality(Upto(i)) => Upto(j) = Upto(i))
      BY <1>2, <2>1, FS_Subset
    <2> HIDE DEF Upto
    <2>3. Rank(S, i) = Cardinality(Upto(i)) /\ Rank(S, j) = Cardinality(Upto(j))
      BY DEF Rank, Upto
    <2>4. Rank(S, i) \in Int /\ Rank(S, j) \in Int
      BY <1>2
    <2> QED BY <2>1, <2>2, <2>3, <2>4
  <1>4. f \in Injection(S, 1 .. N)
    <2>1. f \in [S -> 1 .. N]
      BY <1>2
    <2>2. \A i, j \in S : f[i] = f[j] => i = j
      <3> SUFFICES ASSUME NEW i \in S, NEW j \in S, i # j PROVE f[i] # f[j]
        OBVIOUS
      <3>1. i < j \/ j < i
        BY <1>0
      <3>2. f[i] < f[j] \/ f[j] < f[i]
        BY <1>3, <3>1
      <3> QED BY <2>1, <3>2
    <2> QED BY <2>1, <2>2 DEF Injection, IsInjective
  <1>5. f \in Surjection(S, 1 .. N)
    <2>1. IsFiniteSet(1 .. N) /\ Cardinality(1 .. N) = N
      BY <1>1, FS_Interval
    <2> QED BY <1>4, <2>1, FS_Injection
  <1>6. \A k \in 1 .. N : Nth(S, k) \in S /\ Rank(S, Nth(S, k)) = k
    <2> TAKE k \in 1 .. N
    <2>1. \E i \in S : Rank(S, i) = k
      BY <1>5 DEF Surjection
    <2> QED BY <2>1 DEF Nth
  <1>7. \A k, m \in 1 .. N : k < m => Nth(S, k) < Nth(S, m)
    <2> SUFFICES ASSUME NEW k \in 1 .. N, NEW m \in 1 .. N, k < m, ~(Nth(S, k) < Nth(S, m)) PROVE FALSE
      OBVIOUS
    <2>1. Nth(S, k) \in 1 .. n /\ Nth(S, m) \in 1 .. n
      BY <1>6
    <2>2. Nth(S, k) = Nth(S, m) \/ Nth(S, m) < Nth(S, k)
      BY <2>1
    <2>3. Rank(S, Nth(S, k)) = k /\ Rank(S, Nth(S, m)) = m /\ k \in Int /\ m \in Int
      BY <1>1, <1>6
    <2>4. Nth(S, m) < Nth(S, k) => Rank(S, Nth(S, m)) < Rank(S, Nth(S, k))
      BY <1>3, <1>6
    <2> QED BY <2>2, <2>3, <2>4
  <1>8. \A i \in S : \E k \in 1 .. N : Nth(S, k) = i
    <2> TAKE i \in S
    <2>0. PICK x \in S : x = Nth(S, Rank(S, i)) /\ Rank(S, x) = Rank(S, i)
      BY <1>2, <1>6
    <2>2. x = i
      <3>1. x < i \/ x = i \/ i < x
        BY <1>0
      <3>2. Rank(S, i) \in Nat
        BY <1>2
      <3>3. ~(x < i) /\ ~(i < x)
        BY <1>3, <2>0, <3>2
      <3> QED BY <3>1, <3>3
    <2> QED BY <1>2, <2>0, <2>2
  <1> QED BY <1>1, <1>6, <1>7, <1>8

-----------------------------------------------------------------------------
\* The inductive invariant of the dmesg path, in parts.

Entry == [inc : Nat, seq : Nat, line : Line, severity : {"info", "medium", "high", "critical"}]

DmesgTypes ==
    /\ klog \in Seq(Line) /\ clock \in Nat
    /\ dpc \in {"down", "idle", "logging", "indexing"} /\ inc \in Nat /\ seq \in Nat
    /\ seen \subseteq Line
    /\ batch \in Seq(Entry) /\ file \in Seq(Entry)

\* The kernel's log is in the order of its times, and none is in the future.
LogInv ==
    /\ \A i \in DOMAIN klog : klog[i].ts <= clock
    /\ \A i, j \in DOMAIN klog : i < j => klog[i].ts <= klog[j].ts

\* A poll reads the whole log, so what is not seen yet is younger than all that
\* is seen.
SeenInv ==
    \A l \in seen : /\ l.ts <= clock
                    /\ \A i \in DOMAIN klog : klog[i] \notin seen => l.ts <= klog[i].ts

\* The file holds entries of the runs so far.
FileInv ==
    \A k \in DOMAIN file : /\ file[k].inc <= inc
                           /\ file[k].severity = Severity(file[k].line.msg)

\* A batch that is about to be written continues the entries of this run.
BatchInv ==
    dpc = "logging" =>
        /\ seen = Written \cup {batch[m].line : m \in DOMAIN batch}
        /\ seq = Cardinality(Own(inc)) + Len(batch)
        /\ \A m \in DOMAIN batch :
             /\ batch[m].inc = inc /\ batch[m].seq = Cardinality(Own(inc)) + m - 1
             /\ batch[m].severity = Severity(batch[m].line.msg)
             /\ \A l \in Written : l # batch[m].line /\ l.ts <= batch[m].line.ts
             /\ \A p \in 1 .. (m - 1) :
                  batch[p].line # batch[m].line /\ batch[p].line.ts <= batch[m].line.ts

\* Otherwise all that was seen is written, and what is indexed comes from there.
RestInv ==
    /\ dpc \in {"idle", "indexing"} => seen = Written /\ seq = Cardinality(Own(inc))
    /\ dpc = "indexing" => \A m \in DOMAIN batch : \E k \in DOMAIN file : file[k] = batch[m]
    /\ es \subseteq {<<file[k].inc, file[k].seq>> : k \in DOMAIN file}

DmesgInv == DmesgTypes /\ LogInv /\ SeenInv /\ FileInv /\ BatchInv /\ RestInv /\ OncePerRun

\* What the reader's expressions make of each line, against the document.
LEMMA SeverityFacts ==
    ASSUME NEW m \in Msg
    PROVE  /\ Severity(m) \in {"info", "medium", "high", "critical"}
           /\ Severity(m) # Documented[m.kind] =>
                /\ m.kind \in CallerInModule \cup OtherText \/ ~m.clean
                /\ Severity(m) = IF m.kind \in Suspicious THEN "high" ELSE "info"
  BY DEF Severity, Matched, MatchedSeverity, NameOptional, Documented, CallerInModule, OtherText,
         Msg, Kind, Suspicious, Plain

LEMMA InitDmesg == PathInit => DmesgInv
  <1> SUFFICES ASSUME PathInit PROVE DmesgInv
    OBVIOUS
  <1> USE DEF PathInit, LogInit, DaemonInit
  <1>1. DmesgTypes /\ LogInv /\ SeenInv
    BY DEF DmesgTypes, LogInv, SeenInv
  <1>2. FileInv /\ BatchInv /\ RestInv /\ OncePerRun
    BY DEF FileInv, BatchInv, RestInv, OncePerRun
  <1> QED BY <1>1, <1>2 DEF DmesgInv

-----------------------------------------------------------------------------
\* Steps of the kernel's log.

LEMMA SameDaemon ==
    ASSUME DmesgInv, UNCHANGED daemonVars
    PROVE  FileInv' /\ BatchInv' /\ RestInv' /\ OncePerRun'
  <1> USE DEF daemonVars
  <1>1. FileInv' /\ OncePerRun'
    BY DEF DmesgInv, FileInv, OncePerRun, Own
  <1>2. Own(inc)' = Own(inc) /\ Written' = Written
    BY DEF Own, Written
  <1>3. BatchInv'
    BY <1>2 DEF DmesgInv, BatchInv
  <1>4. RestInv'
    BY <1>2 DEF DmesgInv, RestInv
  <1> QED BY <1>1, <1>3, <1>4

\* Printed lines bear the present time: they are the youngest of the log, and
\* none of those seen is younger.
LEMMA PrintkStep ==
    ASSUME DmesgInv, NEW ms \in Seq(Msg), Printk(ms), UNCHANGED daemonVars
    PROVE  DmesgInv'
  <1> DEFINE new == [i \in 1 .. Len(ms) |-> [ts |-> clock, msg |-> ms[i]]]
             all == klog \o new
  <1>1. klog \in Seq(Line) /\ clock \in Nat /\ seen \subseteq Line
    BY DEF DmesgInv, DmesgTypes
  <1>2. new \in Seq(Line) /\ Len(new) = Len(ms) /\ \A i \in 1 .. Len(ms) : new[i].ts = clock
    BY <1>1 DEF Line
  <1> HIDE DEF new
  <1>3. /\ all \in Seq(Line) /\ DOMAIN all = 1 .. Len(klog) + Len(ms)
        /\ \A i \in 1 .. Len(klog) : all[i] = klog[i]
        /\ \A i \in DOMAIN all : i \notin 1 .. Len(klog) => all[i].ts = clock
    <2>1. all \in Seq(Line) /\ Len(all) = Len(klog) + Len(ms) /\ Len(klog) \in Nat /\ Len(ms) \in Nat
      BY <1>1, <1>2
    <2>2. \A i \in 1 .. Len(all) : all[i] = IF i <= Len(klog) THEN klog[i] ELSE new[i - Len(klog)]
      BY <1>1, <1>2
    <2> HIDE DEF all
    <2>3. \A i \in 1 .. Len(all) : i \notin 1 .. Len(klog) => all[i].ts = clock
      <3> SUFFICES ASSUME NEW i \in 1 .. Len(all), i \notin 1 .. Len(klog) PROVE all[i].ts = clock
        OBVIOUS
      <3>1. i - Len(klog) \in 1 .. Len(ms) /\ ~(i <= Len(klog))
        BY <2>1
      <3> QED BY <1>2, <2>2, <3>1
    <2> QED BY <2>1, <2>2, <2>3
  <1> HIDE DEF all
  <1>4. \A i \in DOMAIN all : all[i].ts \in Nat /\ all[i].ts <= clock
    <2> TAKE i \in DOMAIN all
    <2>1. all[i].ts \in Nat
      <3>1. all[i] \in Line
        BY <1>3
      <3> QED BY <3>1 DEF Line
    <2>2. CASE i \in 1 .. Len(klog)
      BY <1>1, <1>3, <2>1, <2>2 DEF DmesgInv, LogInv
    <2>3. CASE i \notin 1 .. Len(klog)
      BY <1>1, <1>3, <2>1, <2>3
    <2> QED BY <2>1, <2>2, <2>3
  <1>5. \A i, j \in DOMAIN all : i < j => all[i].ts <= all[j].ts
    <2> SUFFICES ASSUME NEW i \in DOMAIN all, NEW j \in DOMAIN all, i < j PROVE all[i].ts <= all[j].ts
      OBVIOUS
    <2>1. CASE j \in 1 .. Len(klog)
      <3>1. i \in 1 .. Len(klog)
        BY <1>1, <1>3, <2>1
      <3> QED BY <1>1, <1>3, <2>1, <3>1 DEF DmesgInv, LogInv
    <2>2. CASE j \notin 1 .. Len(klog)
      BY <1>3, <1>4, <2>2
    <2> QED BY <2>1, <2>2
  <1>6. /\ klog' \in Seq(Line) /\ clock' = clock
        /\ \E o \in Nat : \A i \in DOMAIN klog' : i + o \in DOMAIN all /\ klog'[i] = all[i + o]
    <2>1. klog' = Newest(all, LogCap) /\ clock' = clock
      BY DEF Printk, all, new
    <2>2. LogCap \in Nat
      BY LogAssumption
    <2>3. /\ Newest(all, LogCap) \in Seq(Line)
          /\ \E o \in Nat : \A i \in DOMAIN Newest(all, LogCap) :
               i + o \in DOMAIN all /\ Newest(all, LogCap)[i] = all[i + o]
      <3>1. all \in Seq(Line)
        BY <1>3
      <3> QED BY <2>2, <3>1, NewestIsSuffix
    <2> QED BY <2>1, <2>3
  <1>7. PICK o \in Nat : \A i \in DOMAIN klog' : i + o \in DOMAIN all /\ klog'[i] = all[i + o]
    BY <1>6
  <1>8. DOMAIN klog' \subseteq Nat
    BY <1>6
  <1>9. LogInv'
    <2>1. \A i \in DOMAIN klog' : klog'[i].ts <= clock'
      BY <1>4, <1>6, <1>7
    <2>2. ASSUME NEW i \in DOMAIN klog', NEW j \in DOMAIN klog', i < j PROVE klog'[i].ts <= klog'[j].ts
      <3>1. i + o < j + o
        BY <1>8, <2>2
      <3> QED BY <1>5, <1>7, <3>1
    <2> QED BY <2>1, <2>2 DEF LogInv
  <1>10. SeenInv'
    <2>1. seen' = seen
      BY DEF daemonVars
    <2>2. \A l \in seen : l.ts \in Nat /\ l.ts <= clock
      BY <1>1 DEF DmesgInv, SeenInv, Line
    <2>3. ASSUME NEW l \in seen, NEW i \in DOMAIN klog', klog'[i] \notin seen PROVE l.ts <= klog'[i].ts
      <3>1. CASE i + o \in 1 .. Len(klog)
        <4>1. klog'[i] = klog[i + o] /\ i + o \in DOMAIN klog
          BY <1>1, <1>3, <1>7, <3>1
        <4> QED BY <2>3, <4>1 DEF DmesgInv, SeenInv
      <3>2. CASE i + o \notin 1 .. Len(klog)
        BY <1>3, <1>7, <2>2, <3>2
      <3> QED BY <3>1, <3>2
    <2> QED BY <1>6, <2>1, <2>2, <2>3 DEF SeenInv
  <1>11. DmesgTypes'
    BY <1>6 DEF DmesgInv, DmesgTypes, daemonVars
  <1> QED BY <1>9, <1>10, <1>11, SameDaemon DEF DmesgInv

LEMMA TickStep ==
    ASSUME DmesgInv, Tick, UNCHANGED daemonVars
    PROVE  DmesgInv'
  <1>1. clock \in Nat /\ clock' = clock + 1 /\ klog' = klog /\ seen' = seen
    BY DEF DmesgInv, DmesgTypes, Tick, daemonVars
  <1>2. DmesgTypes'
    BY <1>1 DEF DmesgInv, DmesgTypes, daemonVars
  <1>3. \A i \in DOMAIN klog : klog[i].ts \in Nat
    <2>1. \A i \in DOMAIN klog : klog[i] \in Line
      BY DEF DmesgInv, DmesgTypes
    <2> QED BY <2>1 DEF Line
  <1>4. LogInv'
    BY <1>1, <1>3 DEF DmesgInv, LogInv
  <1>5. \A l \in seen : l.ts \in Nat
    BY DEF DmesgInv, DmesgTypes, Line
  <1>6. SeenInv'
    BY <1>1, <1>5 DEF DmesgInv, SeenInv
  <1> QED BY <1>2, <1>4, <1>6, SameDaemon DEF DmesgInv

LEMMA ClearStep ==
    ASSUME DmesgInv, ClearLog, UNCHANGED daemonVars
    PROVE  DmesgInv'
  <1>1. DmesgTypes' /\ LogInv' /\ SeenInv'
    BY DEF DmesgInv, DmesgTypes, LogInv, SeenInv, ClearLog, daemonVars
  <1> QED BY <1>1, SameDaemon DEF DmesgInv

-----------------------------------------------------------------------------
\* Writing the first n entries of a batch, all of them or until the daemon ends.

LEMMA WriteFacts ==
    ASSUME DmesgInv, dpc = "logging", NEW n \in 0 .. Len(batch), inc' = inc,
           file' = file \o SubSeq(batch, 1, n)
    PROVE  /\ file' \in Seq(Entry) /\ DOMAIN file' = 1 .. Len(file) + n
           /\ \A k \in DOMAIN file : k \in DOMAIN file' /\ file'[k] = file[k]
           /\ \A m \in 1 .. n : m \in DOMAIN batch /\ Len(file) + m \in DOMAIN file'
                                /\ file'[Len(file) + m] = batch[m]
           /\ \A k \in DOMAIN file' : k \in DOMAIN file \/ \E m \in 1 .. n : k = Len(file) + m
  <1>1. file \in Seq(Entry) /\ batch \in Seq(Entry) /\ n \in Nat /\ n <= Len(batch)
        /\ DOMAIN file = 1 .. Len(file) /\ DOMAIN batch = 1 .. Len(batch)
        /\ Len(file) \in Nat /\ Len(batch) \in Nat
    BY DEF DmesgInv, DmesgTypes
  <1> DEFINE part == SubSeq(batch, 1, n)
  <1>2. part \in Seq(Entry) /\ Len(part) = n /\ \A m \in 1 .. n : part[m] = batch[m]
    BY <1>1
  <1> HIDE DEF part
  <1>3. file' = file \o part
    BY DEF part
  <1>4. file' \in Seq(Entry) /\ Len(file') = Len(file) + n
        /\ DOMAIN file' = 1 .. Len(file')
    BY <1>1, <1>2, <1>3
  <1>5. \A k \in 1 .. Len(file') : file'[k] = IF k <= Len(file) THEN file[k] ELSE part[k - Len(file)]
    BY <1>1, <1>2, <1>3, <1>4
  <1>6. \A k \in DOMAIN file : k \in DOMAIN file' /\ file'[k] = file[k]
    BY <1>1, <1>4, <1>5
  <1>7. ASSUME NEW m \in 1 .. n
        PROVE  m \in DOMAIN batch /\ Len(file) + m \in DOMAIN file' /\ file'[Len(file) + m] = batch[m]
    <2>1. m \in DOMAIN batch /\ Len(file) + m \in 1 .. Len(file') /\ ~(Len(file) + m <= Len(file))
          /\ (Len(file) + m) - Len(file) = m
      BY <1>1, <1>4
    <2> QED BY <1>2, <1>4, <1>5, <2>1
  <1>8. ASSUME NEW k \in DOMAIN file', k \notin DOMAIN file PROVE \E m \in 1 .. n : k = Len(file) + m
    <2>1. k - Len(file) \in 1 .. n /\ k = Len(file) + (k - Len(file))
      BY <1>1, <1>4, <1>8
    <2> QED BY <2>1
  <1> QED BY <1>4, <1>6, <1>7, <1>8

\* The entries of this run so far, and how many they are.
LEMMA OwnFinite ==
    ASSUME DmesgTypes, NEW i
    PROVE  IsFiniteSet(Own(i)) /\ Cardinality(Own(i)) \in Nat /\ Own(i) \subseteq 1 .. Len(file)
  <1>1. Len(file) \in Nat /\ DOMAIN file = 1 .. Len(file)
    BY DEF DmesgTypes
  <1>2. IsFiniteSet(1 .. Len(file))
    BY <1>1, FS_Interval
  <1>3. Own(i) \in SUBSET (1 .. Len(file))
    BY <1>1 DEF Own
  <1> QED BY <1>2, <1>3, FS_Subset, FS_CardinalityType

\* A set of earlier positions and m positions after them.
LEMMA CountUp ==
    ASSUME NEW S, NEW len \in Nat, NEW m \in Nat, S \subseteq 1 .. len
    PROVE  Cardinality(S \cup (len + 1 .. len + m)) = Cardinality(S) + m
  <1>1. IsFiniteSet(S) /\ Cardinality(S) \in Nat
    <2>1. IsFiniteSet(1 .. len)
      BY FS_Interval
    <2> QED BY <2>1, FS_Subset, FS_CardinalityType
  <1>2. IsFiniteSet(len + 1 .. len + m) /\ Cardinality(len + 1 .. len + m) = m
    <2>1. len + 1 \in Int /\ len + m \in Int /\ (len + 1 > len + m <=> m = 0)
      OBVIOUS
    <2>2. Cardinality(len + 1 .. len + m) = IF len + 1 > len + m THEN 0 ELSE (len + m) - (len + 1) + 1
      BY <2>1, FS_Interval
    <2> QED BY <2>1, <2>2, FS_Interval
  <1>3. S \cap (len + 1 .. len + m) = {}
    OBVIOUS
  <1>4. Cardinality(S \cap (len + 1 .. len + m)) = 0
    BY <1>3, FS_EmptySet
  <1>5. Cardinality(S \cup (len + 1 .. len + m))
          = Cardinality(S) + Cardinality(len + 1 .. len + m) - Cardinality(S \cap (len + 1 .. len + m))
    BY <1>1, <1>2, FS_Union
  <1> QED BY <1>1, <1>2, <1>4, <1>5

LEMMA WriteKeeps ==
    ASSUME DmesgInv, dpc = "logging", NEW n \in 0 .. Len(batch), inc' = inc,
           file' = file \o SubSeq(batch, 1, n)
    PROVE  /\ FileInv' /\ OncePerRun'
           /\ Own(inc)' = Own(inc) \cup (Len(file) + 1 .. Len(file) + n)
           /\ Cardinality(Own(inc)') = Cardinality(Own(inc)) + n
           /\ Written' = Written \cup {batch[m].line : m \in 1 .. n}
  <1> DEFINE len == Len(file)
             OwnNext(i) == {k \in DOMAIN file' : file'[k].inc = i}
  <1>0. len \in Nat /\ DOMAIN file = 1 .. len /\ n \in Nat /\ inc \in Nat /\ DmesgTypes
    BY DEF DmesgInv, DmesgTypes
  <1>1. /\ file' \in Seq(Entry) /\ DOMAIN file' = 1 .. len + n
        /\ \A k \in DOMAIN file : k \in DOMAIN file' /\ file'[k] = file[k]
        /\ \A m \in 1 .. n : m \in DOMAIN batch /\ len + m \in DOMAIN file' /\ file'[len + m] = batch[m]
        /\ \A k \in DOMAIN file' : k \in DOMAIN file \/ \E m \in 1 .. n : k = len + m
    BY WriteFacts
  <1>2. \A m \in DOMAIN batch :
           /\ batch[m].inc = inc /\ batch[m].seq = Cardinality(Own(inc)) + m - 1
           /\ batch[m].severity = Severity(batch[m].line.msg)
           /\ \A l \in Written : l # batch[m].line /\ l.ts <= batch[m].line.ts
           /\ \A p \in 1 .. (m - 1) :
                batch[p].line # batch[m].line /\ batch[p].line.ts <= batch[m].line.ts
    BY DEF DmesgInv, BatchInv
  <1>3. FileInv'
    <2> SUFFICES ASSUME NEW k \in DOMAIN file'
                 PROVE  file'[k].inc <= inc /\ file'[k].severity = Severity(file'[k].line.msg)
      BY DEF FileInv, Severity
    <2>1. CASE k \in DOMAIN file
      BY <1>1, <2>1 DEF DmesgInv, FileInv
    <2>2. CASE \E m \in 1 .. n : k = len + m
      <3>1. PICK m \in 1 .. n : k = len + m
        BY <2>2
      <3>2. file'[k] = batch[m] /\ m \in DOMAIN batch
        BY <1>1, <3>1
      <3>3. batch[m].inc = inc /\ batch[m].severity = Severity(batch[m].line.msg)
        BY <1>2, <3>2
      <3> QED BY ONLY <1>0, <3>2, <3>3
    <2> QED BY <1>1, <2>1, <2>2
  <1>4. \A i : OwnNext(i) = Own(i) \cup {k \in len + 1 .. len + n : i = inc}
    <2> TAKE i
    <2>1. ASSUME NEW k \in DOMAIN file' PROVE k \in OwnNext(i) <=> k \in Own(i) \/ (k \in len + 1 .. len + n /\ i = inc)
      <3>1. CASE k \in DOMAIN file
        <4>1. ~(k \in len + 1 .. len + n)
          BY <1>0, <3>1
        <4> QED BY <1>1, <3>1, <4>1 DEF Own
      <3>2. CASE k \notin DOMAIN file
        <4>1. PICK m \in 1 .. n : k = len + m
          BY <1>1, <3>2
        <4>2. file'[k] = batch[m] /\ m \in DOMAIN batch /\ k \in len + 1 .. len + n
          BY <1>0, <1>1, <4>1
        <4> QED BY <1>2, <3>2, <4>2 DEF Own
      <3> QED BY <3>1, <3>2
    <2>2. OwnNext(i) \subseteq DOMAIN file' /\ Own(i) \subseteq DOMAIN file' /\ len + 1 .. len + n \subseteq DOMAIN file'
      BY <1>0, <1>1 DEF Own
    <2> QED BY <2>1, <2>2
  <1>5. Own(inc)' = Own(inc) \cup (len + 1 .. len + n)
    <2>1. Own(inc)' = OwnNext(inc)
      BY DEF Own
    <2> QED BY <1>4, <2>1
  <1>6. Cardinality(Own(inc)') = Cardinality(Own(inc)) + n
    <2>1. Own(inc) \subseteq 1 .. len
      BY <1>0, OwnFinite
    <2>2. Cardinality(Own(inc) \cup (len + 1 .. len + n)) = Cardinality(Own(inc)) + n
      <3> HIDE DEF len
      <3> QED BY ONLY <1>0, <2>1, CountUp
    <2> QED BY ONLY <1>5, <2>2
  <1>7. Written' = Written \cup {batch[m].line : m \in 1 .. n}
    <2>1. Written' = {file'[k].line : k \in Own(inc)'}
      BY DEF Written, Own
    <2>2. ASSUME NEW k \in Own(inc) PROVE file'[k].line = file[k].line
      BY <1>1, <2>2 DEF Own
    <2>3. ASSUME NEW k \in len + 1 .. len + n PROVE \E m \in 1 .. n : file'[k].line = batch[m].line
      <3>1. k - len \in 1 .. n /\ k = len + (k - len)
        BY <1>0, <2>3
      <3> QED BY <1>1, <3>1
    <2>4. ASSUME NEW m \in 1 .. n PROVE \E k \in len + 1 .. len + n : file'[k].line = batch[m].line
      <3>1. len + m \in len + 1 .. len + n
        BY <1>0
      <3> QED BY <1>1, <3>1
    <2>5. Written' \subseteq Written \cup {batch[m].line : m \in 1 .. n}
      <3> SUFFICES ASSUME NEW l \in Written'
                   PROVE  l \in Written \/ \E m \in 1 .. n : l = batch[m].line
        OBVIOUS
      <3>0. PICK k \in Own(inc)' : l = file'[k].line
        BY <2>1
      <3>1. CASE k \in Own(inc)
        BY <2>2, <3>0, <3>1 DEF Written
      <3>2. CASE k \in len + 1 .. len + n
        BY <2>3, <3>0, <3>2
      <3> QED BY <1>5, <3>1, <3>2
    <2>6. Written \subseteq Written'
      BY <1>5, <2>1, <2>2 DEF Written
    <2>7. {batch[m].line : m \in 1 .. n} \subseteq Written'
      BY <1>5, <2>1, <2>4
    <2> QED BY <2>5, <2>6, <2>7
  <1>8. OncePerRun'
    <2> DEFINE Before(k) == {j \in OwnNext(file'[k].inc) : j < k}
    <2> SUFFICES ASSUME NEW k \in DOMAIN file'
                 PROVE  /\ file'[k].seq = Cardinality(Before(k))
                        /\ \A j \in Before(k) : file'[j].line # file'[k].line
                                                /\ file'[j].line.ts <= file'[k].line.ts
      <3>1. OncePerRun' = (\A x \in DOMAIN file' : /\ file'[x].seq = Cardinality(Before(x))
                                                   /\ \A j \in Before(x) : file'[j].line # file'[x].line
                                                         /\ file'[j].line.ts <= file'[x].line.ts)
        BY DEF OncePerRun, Own
      <3> QED BY <3>1
    <2>1. CASE k \in DOMAIN file
      <3>1. file'[k] = file[k]
        BY <1>1, <2>1
      <3>2. Before(k) = {j \in Own(file[k].inc) : j < k}
        <4>1. \A j \in len + 1 .. len + n : ~(j < k)
          BY <1>0, <2>1
        <4>2. OwnNext(file[k].inc) = Own(file[k].inc) \cup {j \in len + 1 .. len + n : file[k].inc = inc}
          BY <1>4
        <4> HIDE DEF OwnNext
        <4> QED BY <3>1, <4>1, <4>2
      <3>3. \A j \in Before(k) : file'[j] = file[j]
        BY <1>1, <3>2 DEF Own
      <3>4. /\ file[k].seq = Cardinality({j \in Own(file[k].inc) : j < k})
            /\ \A j \in {j \in Own(file[k].inc) : j < k} :
                 file[j].line # file[k].line /\ file[j].line.ts <= file[k].line.ts
        BY <2>1 DEF DmesgInv, OncePerRun
      <3> QED BY <3>1, <3>2, <3>3, <3>4
    <2>2. CASE k \notin DOMAIN file
      <3>1. PICK m \in 1 .. n : k = len + m
        BY <1>1, <2>2
      <3>2. file'[k] = batch[m] /\ m \in DOMAIN batch /\ file'[k].inc = inc
        BY <1>1, <1>2, <3>1
      <3>3. Before(k) = Own(inc) \cup (len + 1 .. len + (m - 1))
        <4>1. \A j \in Own(inc) : j < k
          BY <1>0, <3>1, OwnFinite
        <4>2. \A j \in len + 1 .. len + n : j < k <=> j \in len + 1 .. len + (m - 1)
          BY <1>0, <3>1
        <4>3. len + 1 .. len + (m - 1) \subseteq len + 1 .. len + n
          BY <1>0, <3>1
        <4>4. OwnNext(inc) = Own(inc) \cup (len + 1 .. len + n)
          BY <1>4
        <4> HIDE DEF OwnNext
        <4> QED BY <3>2, <4>1, <4>2, <4>3, <4>4
      <3>4. Cardinality(Before(k)) = Cardinality(Own(inc)) + (m - 1)
        <4>1. Own(inc) \subseteq 1 .. len /\ m - 1 \in Nat
          BY <1>0, OwnFinite
        <4>2. Cardinality(Own(inc) \cup (len + 1 .. len + (m - 1))) = Cardinality(Own(inc)) + (m - 1)
          BY <1>0, <4>1, CountUp
        <4> QED BY <3>3, <4>2
      <3>5. file'[k].seq = Cardinality(Before(k))
        BY <1>0, <1>2, <3>2, <3>4, OwnFinite
      <3>6. ASSUME NEW j \in Before(k)
            PROVE  file'[j].line # file'[k].line /\ file'[j].line.ts <= file'[k].line.ts
        <4>1. CASE j \in Own(inc)
          <5>1. file'[j] = file[j] /\ file[j].line \in Written
            BY <1>1, <4>1 DEF Own, Written
          <5>2. \A l \in Written : l # batch[m].line /\ l.ts <= batch[m].line.ts
            BY <1>2, <3>2
          <5> QED BY ONLY <3>2, <5>1, <5>2
        <4>2. CASE j \in len + 1 .. len + (m - 1)
          <5>0. len \in Int /\ m \in Int /\ n \in Int /\ m <= n /\ j \in Int /\ len + 1 <= j /\ j <= len + (m - 1)
            BY <1>0, <4>2
          <5> HIDE DEF len
          <5>1. j - len \in 1 .. (m - 1) /\ j - len \in 1 .. n /\ j = len + (j - len)
            BY <5>0
          <5>2. file'[j] = batch[j - len]
            BY <1>1, <5>1
          <5>3. /\ batch[j - len].line # batch[m].line
                /\ batch[j - len].line.ts <= batch[m].line.ts
            BY <1>2, <3>2, <5>1
          <5> QED BY ONLY <3>2, <5>2, <5>3
        <4> QED BY <3>3, <4>1, <4>2
      <3> QED BY <3>5, <3>6
    <2> QED BY <2>1, <2>2
  <1> QED BY <1>3, <1>5, <1>6, <1>7, <1>8

-----------------------------------------------------------------------------
\* The poll.

\* Every line of the log that is not seen yet has a first occurrence.
LEMMA FreshCovers ==
    ASSUME DmesgTypes, NEW i \in DOMAIN klog, klog[i] \notin seen
    PROVE  \E j \in Fresh : klog[j] = klog[i]
  <1> DEFINE S == {j \in 1 .. Len(klog) : klog[j] = klog[i]}
             N == Cardinality(S)
             first == Nth(S, 1)
  <1>1. Len(klog) \in Nat /\ i \in 1 .. Len(klog)
    BY DEF DmesgTypes
  <1>2. S \in SUBSET (1 .. Len(klog)) /\ i \in S
    BY <1>1
  <1> HIDE DEF S
  <1>3. /\ N \in Nat
        /\ \A k \in 1 .. N : Nth(S, k) \in S
        /\ \A k, m \in 1 .. N : k < m => Nth(S, k) < Nth(S, m)
        /\ \A x \in S : \E k \in 1 .. N : Nth(S, k) = x
    BY <1>1, <1>2, NthCounts
  <1>4. 1 \in 1 .. N
    BY <1>2, <1>3
  <1>5. first \in S
    BY <1>3, <1>4
  <1>6. ASSUME NEW x \in S, x < first PROVE FALSE
    <2>1. PICK k \in 1 .. N : Nth(S, k) = x
      BY <1>3
    <2>2. k = 1 \/ 1 < k
      BY <1>3
    <2>3. x \in Int /\ first \in Int
      BY <1>2, <1>5
    <2>4. k = 1 => x = first
      BY <2>1
    <2>5. 1 < k => first < x
      BY <1>3, <1>4, <2>1
    <2> HIDE DEF first
    <2> QED BY <1>6, <2>2, <2>3, <2>4, <2>5
  <1>7. first \in 1 .. Len(klog) /\ klog[first] = klog[i]
    BY <1>5 DEF S
  <1>8. \A j \in 1 .. (first - 1) : klog[j] # klog[first]
    <2> SUFFICES ASSUME NEW j \in 1 .. (first - 1), klog[j] = klog[first] PROVE FALSE
      OBVIOUS
    <2>1. j \in 1 .. Len(klog) /\ j < first
      BY <1>1, <1>7
    <2>2. j \in S
      BY <1>7, <2>1 DEF S
    <2> QED BY <1>6, <2>1, <2>2
  <1>9. first \in Fresh
    BY <1>7, <1>8 DEF Fresh
  <1> QED BY <1>7, <1>9

LEMMA PollStep ==
    ASSUME DmesgInv, Poll
    PROVE  DmesgInv'
  <1> DEFINE N == Cardinality(Fresh)
             at(k) == Nth(Fresh, k)
  <1>1. /\ klog \in Seq(Line) /\ Len(klog) \in Nat /\ DOMAIN klog = 1 .. Len(klog)
        /\ \A i \in 1 .. Len(klog) : klog[i] \in Line
        /\ inc \in Nat /\ seq \in Nat /\ DmesgTypes /\ clock \in Nat
    BY DEF DmesgInv, DmesgTypes
  <1>2. /\ dpc = "idle" /\ seen = Written /\ seq = Cardinality(Own(inc))
        /\ UNCHANGED <<klog, clock, inc, file, es>>
    BY DEF DmesgInv, RestInv, Poll, logVars
  <1>3. Fresh \in SUBSET (1 .. Len(klog))
    BY DEF Fresh
  <1>4. /\ N \in Nat
        /\ \A k \in 1 .. N : at(k) \in Fresh
        /\ \A k, m \in 1 .. N : k < m => at(k) < at(m)
        /\ \A i \in Fresh : \E k \in 1 .. N : at(k) = i
    BY <1>1, <1>3, NthCounts
  <1>5. /\ DOMAIN batch' = 1 .. N
        /\ \A k \in 1 .. N :
             batch'[k] = [inc |-> inc, seq |-> seq + k - 1, line |-> klog[at(k)],
                          severity |-> Severity(klog[at(k)].msg)]
    BY DEF Poll
  <1>6. /\ seen' = seen \cup {klog[i] : i \in DOMAIN klog}
        /\ seq' = seq + N
        /\ dpc' = IF Fresh = {} THEN "idle" ELSE "logging"
    BY DEF Poll, ToSet
  <1>7. batch' \in Seq(Entry) /\ Len(batch') = N
    <2>1. ASSUME NEW k \in 1 .. N PROVE batch'[k] \in Entry
      <3>1. klog[at(k)] \in Line
        BY <1>1, <1>3, <1>4
      <3>2. klog[at(k)].msg \in Msg
        BY <3>1 DEF Line
      <3>3. Severity(klog[at(k)].msg) \in {"info", "medium", "high", "critical"}
        BY <3>2, SeverityFacts
      <3>4. seq + k - 1 \in Nat
        BY <1>1, <1>4
      <3> QED BY <1>1, <1>5, <3>1, <3>3, <3>4 DEF Entry
    <2>2. batch' = [k \in 1 .. N |-> batch'[k]]
      BY DEF Poll
    <2> HIDE DEF N, at
    <2> QED BY <1>4, <2>1, <2>2
  <1> HIDE DEF N, at
  <1>8. DmesgTypes'
    <2>1. seq' \in Nat /\ seen' \subseteq Line
      BY <1>1, <1>4, <1>6 DEF DmesgTypes
    <2> QED BY <1>1, <1>2, <1>6, <1>7, <2>1 DEF DmesgTypes
  <1>9. LogInv' /\ FileInv' /\ OncePerRun'
    <2>1. LogInv'
      BY <1>2 DEF DmesgInv, LogInv
    <2>2. FileInv'
      BY <1>2 DEF DmesgInv, FileInv
    <2>3. OncePerRun'
      BY <1>2 DEF DmesgInv, OncePerRun, Own
    <2> QED BY <2>1, <2>2, <2>3
  <1>10. SeenInv'
    <2>1. \A l \in seen' : l.ts <= clock
      BY <1>6 DEF DmesgInv, SeenInv, LogInv
    <2>2. \A i \in DOMAIN klog' : klog'[i] \in seen'
      BY <1>2, <1>6
    <2> QED BY <1>2, <2>1, <2>2 DEF SeenInv
  <1>11. Own(inc)' = Own(inc) /\ Written' = Written
    BY <1>2 DEF Own, Written
  <1>12. \A k \in 1 .. N : at(k) \in 1 .. Len(klog) /\ klog[at(k)] \notin seen
    BY <1>3, <1>4 DEF Fresh
  <1>13. seen' = Written \cup {klog[at(k)] : k \in 1 .. N}
    <2>1. ASSUME NEW i \in DOMAIN klog, klog[i] \notin seen
          PROVE  \E k \in 1 .. N : klog[at(k)] = klog[i]
      <3>1. PICK j \in Fresh : klog[j] = klog[i]
        BY <1>1, <2>1, FreshCovers
      <3> QED BY <1>4, <3>1
    <2>2. seen' \subseteq Written \cup {klog[at(k)] : k \in 1 .. N}
      BY <1>2, <1>6, <2>1
    <2>3. {klog[at(k)] : k \in 1 .. N} \subseteq {klog[i] : i \in DOMAIN klog}
      BY <1>1, <1>12
    <2> QED BY <1>2, <1>6, <2>2, <2>3
  <1>14. CASE Fresh = {}
    <2>1. N = 0
      BY <1>4, <1>14
    <2>2. seen' = Written' /\ seq' = Cardinality(Own(inc)')
      BY <1>1, <1>2, <1>6, <1>11, <1>13, <2>1
    <2>3. RestInv' /\ BatchInv'
      BY <1>2, <1>6, <1>14, <2>2 DEF DmesgInv, RestInv, BatchInv
    <2> QED BY <1>8, <1>9, <1>10, <2>3 DEF DmesgInv
  <1>15. CASE Fresh # {}
    <2>1. dpc' = "logging"
      BY <1>6, <1>15
    <2>2. RestInv'
      BY <1>2, <2>1 DEF DmesgInv, RestInv
    <2>3. seen' = Written' \cup {batch'[m].line : m \in DOMAIN batch'}
      <3>1. \A m \in 1 .. N : batch'[m].line = klog[at(m)]
        BY <1>5
      <3>2. {batch'[m].line : m \in DOMAIN batch'} = {klog[at(k)] : k \in 1 .. N}
        BY <1>5, <3>1
      <3> QED BY <1>11, <1>13, <3>2
    <2>4. seq' = Cardinality(Own(inc)') + Len(batch')
      BY <1>2, <1>6, <1>7, <1>11
    <2>5. ASSUME NEW m \in DOMAIN batch'
          PROVE  /\ batch'[m].inc = inc' /\ batch'[m].seq = Cardinality(Own(inc)') + m - 1
                 /\ batch'[m].severity = Severity(batch'[m].line.msg)
      BY <1>2, <1>5, <1>11
    <2>6. ASSUME NEW m \in DOMAIN batch', NEW l \in Written'
          PROVE  l # batch'[m].line /\ l.ts <= batch'[m].line.ts
      <3>1. m \in 1 .. N /\ batch'[m].line = klog[at(m)]
        BY <1>5
      <3>2. l \in seen /\ at(m) \in DOMAIN klog /\ klog[at(m)] \notin seen
        BY <1>1, <1>2, <1>11, <1>12, <3>1
      <3> QED BY <3>1, <3>2 DEF DmesgInv, SeenInv
    <2>7. ASSUME NEW m \in DOMAIN batch', NEW p \in 1 .. (m - 1)
          PROVE  batch'[p].line # batch'[m].line /\ batch'[p].line.ts <= batch'[m].line.ts
      <3>1. m \in 1 .. N /\ p \in 1 .. N /\ p < m
        BY <1>4, <1>5
      <3>2. at(p) < at(m) /\ at(p) \in 1 .. Len(klog) /\ at(m) \in 1 .. Len(klog) /\ at(m) \in Fresh
        BY <1>4, <1>12, <3>1
      <3>3. at(p) \in 1 .. (at(m) - 1)
        BY <1>1, <3>2
      <3>4. klog[at(p)] # klog[at(m)]
        BY <3>2, <3>3 DEF Fresh
      <3>5. klog[at(p)].ts <= klog[at(m)].ts
        BY <1>1, <3>2 DEF DmesgInv, LogInv
      <3> QED BY <1>5, <3>1, <3>4, <3>5
    <2>8. BatchInv'
      BY <2>3, <2>4, <2>5, <2>6, <2>7 DEF BatchInv, Severity
    <2> QED BY <1>8, <1>9, <1>10, <2>2, <2>8 DEF DmesgInv
  <1> QED BY <1>14, <1>15

-----------------------------------------------------------------------------
\* The other steps of the daemon.

LEMMA StartStep ==
    ASSUME DmesgInv, Start
    PROVE  DmesgInv'
  <1>1. /\ dpc' = "idle" /\ inc' = inc + 1 /\ inc \in Nat /\ seen' = {} /\ seq' = 0 /\ batch' = <<>>
        /\ UNCHANGED <<klog, clock, file, es>>
    BY DEF DmesgInv, DmesgTypes, Start, logVars
  <1>2. DmesgTypes' /\ LogInv' /\ SeenInv'
    BY <1>1 DEF DmesgInv, DmesgTypes, LogInv, SeenInv
  <1>3. \A k \in DOMAIN file : file[k].inc \in Nat /\ file[k].inc <= inc
    <2>1. \A k \in DOMAIN file : file[k] \in Entry
      BY DEF DmesgInv, DmesgTypes
    <2> QED BY <2>1 DEF DmesgInv, FileInv, Entry
  <1>4. FileInv'
    <2>1. \A k \in DOMAIN file : file[k].inc <= inc + 1
      BY <1>1, <1>3
    <2> QED BY <1>1, <2>1 DEF DmesgInv, FileInv
  <1>5. Own(inc)' = {} /\ Written' = {}
    <2>1. \A k \in DOMAIN file : file[k].inc # inc + 1
      BY <1>1, <1>3
    <2> QED BY <1>1, <2>1 DEF Own, Written
  <1>6. Cardinality(Own(inc)') = 0
    BY <1>5, FS_EmptySet
  <1>7. RestInv' /\ BatchInv'
    BY <1>1, <1>5, <1>6 DEF DmesgInv, RestInv, BatchInv
  <1>8. OncePerRun'
    BY <1>1 DEF DmesgInv, OncePerRun, Own
  <1> QED BY <1>2, <1>4, <1>7, <1>8 DEF DmesgInv

\* The keys of the entries of the file stay when the file grows.
LEMMA KeysStay ==
    ASSUME NEW S, S \subseteq {<<file[k].inc, file[k].seq>> : k \in DOMAIN file},
           \A k \in DOMAIN file : k \in DOMAIN file' /\ file'[k] = file[k]
    PROVE  S \subseteq {<<file'[k].inc, file'[k].seq>> : k \in DOMAIN file'}
  <1>1. \A k \in DOMAIN file :
           <<file[k].inc, file[k].seq>> \in {<<file'[x].inc, file'[x].seq>> : x \in DOMAIN file'}
    OBVIOUS
  <1> QED BY <1>1

LEMMA LogStep ==
    ASSUME DmesgInv, Log
    PROVE  DmesgInv'
  <1>1. /\ dpc = "logging" /\ dpc' = "indexing" /\ UNCHANGED <<klog, clock, inc, seen, seq, batch, es>>
        /\ file' = file \o batch
    BY DEF Log, logVars
  <1>2. batch \in Seq(Entry) /\ Len(batch) \in Nat /\ DOMAIN batch = 1 .. Len(batch)
    BY DEF DmesgInv, DmesgTypes
  <1>3. file' = file \o SubSeq(batch, 1, Len(batch)) /\ Len(batch) \in 0 .. Len(batch)
    <2>1. SubSeq(batch, 1, Len(batch)) = batch
      BY <1>2
    <2> QED BY <1>1, <1>2, <2>1
  <1>4. /\ FileInv' /\ OncePerRun'
        /\ Cardinality(Own(inc)') = Cardinality(Own(inc)) + Len(batch)
        /\ Written' = Written \cup {batch[m].line : m \in 1 .. Len(batch)}
    BY <1>1, <1>3, WriteKeeps
  <1>5. /\ file' \in Seq(Entry)
        /\ \A k \in DOMAIN file : k \in DOMAIN file' /\ file'[k] = file[k]
        /\ \A m \in 1 .. Len(batch) : Len(file) + m \in DOMAIN file' /\ file'[Len(file) + m] = batch[m]
    BY <1>1, <1>3, WriteFacts
  <1>6. DmesgTypes' /\ LogInv' /\ SeenInv'
    BY <1>1, <1>5 DEF DmesgInv, DmesgTypes, LogInv, SeenInv
  <1>7. seen' = Written' /\ seq' = Cardinality(Own(inc)')
    BY <1>1, <1>2, <1>4 DEF DmesgInv, BatchInv
  <1>8. es' \subseteq {<<file'[k].inc, file'[k].seq>> : k \in DOMAIN file'}
    <2>1. es \subseteq {<<file[k].inc, file[k].seq>> : k \in DOMAIN file}
      BY DEF DmesgInv, RestInv
    <2> QED BY <1>1, <1>5, <2>1, KeysStay
  <1>9. RestInv' /\ BatchInv'
    BY <1>1, <1>2, <1>5, <1>7, <1>8 DEF RestInv, BatchInv
  <1> QED BY <1>4, <1>6, <1>9 DEF DmesgInv

LEMMA IndexStep ==
    ASSUME DmesgInv, Index
    PROVE  DmesgInv'
  <1>1. /\ dpc = "indexing" /\ dpc' = "idle" /\ batch' = <<>>
        /\ UNCHANGED <<klog, clock, inc, seen, seq, file>>
    BY DEF Index, logVars
  <1>2. PICK n \in IF enabled THEN 0 .. Len(batch) ELSE {0} :
           es' = es \cup {<<batch[i].inc, batch[i].seq>> : i \in 1 .. n}
    BY DEF Index
  <1>3. 1 .. n \subseteq DOMAIN batch
    <2>1. DOMAIN batch = 1 .. Len(batch) /\ Len(batch) \in Nat
      BY DEF DmesgInv, DmesgTypes
    <2> QED BY <1>2, <2>1
  <1>4. es' \subseteq {<<file[k].inc, file[k].seq>> : k \in DOMAIN file}
    <2>1. \A i \in 1 .. n : \E k \in DOMAIN file : file[k] = batch[i]
      BY <1>1, <1>3 DEF DmesgInv, RestInv
    <2>2. es \subseteq {<<file[k].inc, file[k].seq>> : k \in DOMAIN file}
      BY DEF DmesgInv, RestInv
    <2> QED BY <1>2, <2>1, <2>2
  <1>5. DmesgTypes' /\ LogInv' /\ SeenInv'
    BY <1>1 DEF DmesgInv, DmesgTypes, LogInv, SeenInv
  <1>6. Own(inc)' = Own(inc) /\ Written' = Written
    BY <1>1 DEF Own, Written
  <1>7. RestInv' /\ BatchInv'
    BY <1>1, <1>4, <1>6 DEF DmesgInv, RestInv, BatchInv
  <1>8. FileInv' /\ OncePerRun'
    BY <1>1 DEF DmesgInv, FileInv, OncePerRun, Own
  <1> QED BY <1>5, <1>7, <1>8 DEF DmesgInv

LEMMA EndStep ==
    ASSUME DmesgInv, End
    PROVE  DmesgInv'
  <1>1. /\ dpc' = "down" /\ seen' = {} /\ seq' = 0 /\ batch' = <<>> /\ UNCHANGED <<klog, clock, inc>>
    BY DEF End, logVars
  <1>2. LogInv' /\ SeenInv'
    BY <1>1 DEF DmesgInv, LogInv, SeenInv
  <1>3. es \subseteq {<<file[k].inc, file[k].seq>> : k \in DOMAIN file}
    BY DEF DmesgInv, RestInv
  <1>4. CASE dpc = "logging"
    <2>1. PICK n \in 0 .. Len(batch) : file' = file \o SubSeq(batch, 1, n)
      BY <1>4 DEF End
    <2>2. es' = es
      BY <1>4 DEF End
    <2>3. FileInv' /\ OncePerRun'
      BY <1>1, <1>4, <2>1, WriteKeeps
    <2>4. file' \in Seq(Entry) /\ \A k \in DOMAIN file : k \in DOMAIN file' /\ file'[k] = file[k]
      BY <1>1, <1>4, <2>1, WriteFacts
    <2>5. DmesgTypes'
      BY <1>1, <2>4 DEF DmesgInv, DmesgTypes
    <2>6. RestInv' /\ BatchInv'
      BY <1>1, <1>3, <2>2, <2>4, KeysStay DEF RestInv, BatchInv
    <2> QED BY <1>2, <2>3, <2>5, <2>6 DEF DmesgInv
  <1>5. CASE dpc # "logging"
    <2>1. file' = file
      BY <1>5 DEF End
    <2>2. es' \subseteq {<<file[k].inc, file[k].seq>> : k \in DOMAIN file}
      <3>1. CASE dpc = "indexing" /\ enabled
        <4>1. PICK n \in 0 .. Len(batch) : es' = es \cup {<<batch[i].inc, batch[i].seq>> : i \in 1 .. n}
          BY <3>1 DEF End
        <4>2. DOMAIN batch = 1 .. Len(batch) /\ Len(batch) \in Nat
          BY DEF DmesgInv, DmesgTypes
        <4>3. 1 .. n \subseteq DOMAIN batch
          BY <4>2
        <4>4. \A i \in 1 .. n : \E k \in DOMAIN file : file[k] = batch[i]
          BY <3>1, <4>3 DEF DmesgInv, RestInv
        <4> QED BY <1>3, <4>1, <4>4
      <3>2. CASE ~(dpc = "indexing" /\ enabled)
        BY <1>3, <3>2 DEF End
      <3> QED BY <3>1, <3>2
    <2>3. DmesgTypes' /\ FileInv'
      BY <1>1, <2>1 DEF DmesgInv, DmesgTypes, FileInv
    <2>4. OncePerRun'
      BY <2>1 DEF DmesgInv, OncePerRun, Own
    <2>5. RestInv' /\ BatchInv'
      BY <1>1, <2>1, <2>2 DEF RestInv, BatchInv
    <2> QED BY <1>2, <2>3, <2>4, <2>5 DEF DmesgInv
  <1> QED BY <1>4, <1>5

LEMMA DmesgInductive == DmesgInv /\ [PathNext]_pathVars => DmesgInv'
  <1> SUFFICES ASSUME DmesgInv, [PathNext]_pathVars PROVE DmesgInv'
    OBVIOUS
  <1>1. CASE UNCHANGED pathVars
    <2>1. UNCHANGED daemonVars /\ UNCHANGED <<klog, clock>>
      BY <1>1 DEF pathVars, logVars
    <2>2. DmesgTypes' /\ LogInv' /\ SeenInv'
      BY <2>1 DEF DmesgInv, DmesgTypes, LogInv, SeenInv, daemonVars
    <2> QED BY <2>1, <2>2, SameDaemon DEF DmesgInv
  <1>2. CASE DaemonNext
    BY <1>2, StartStep, PollStep, LogStep, IndexStep, EndStep DEF DaemonNext
  <1>3. CASE HookedCall
    <2>1. PICK c \in Calls, clean \in BOOLEAN : Printk(Printed(Lines(c), clean))
      BY <1>3 DEF HookedCall
    <2>2. Printed(Lines(c), clean) \in Seq(Msg)
      BY PrintedAreMessages, CallsAssumption
    <2> QED BY <1>3, <2>1, <2>2, PrintkStep DEF HookedCall
  <1>4. CASE ClearCalled
    <2>1. [fn |-> "do_syslog", type |-> 5] \in Call
      BY DEF Call
    <2>2. PICK clean \in BOOLEAN : Printk(Printed(Lines([fn |-> "do_syslog", type |-> 5]), clean))
      BY <1>4 DEF ClearCalled
    <2>3. Printed(Lines([fn |-> "do_syslog", type |-> 5]), clean) \in Seq(Msg)
      BY <2>1, PrintedAreMessages
    <2> QED BY <1>4, <2>2, <2>3, PrintkStep DEF ClearCalled
  <1>5. CASE ClearDone
    BY <1>5, ClearStep DEF ClearDone
  <1>6. CASE Time
    BY <1>6, TickStep DEF Time
  <1> QED BY <1>1, <1>2, <1>3, <1>4, <1>5, <1>6 DEF PathNext

LEMMA DmesgInvariance == PathSpec => []DmesgInv
  BY InitDmesg, DmesgInductive, PTL DEF PathSpec

\* Whatever the kernel prints, overwrites and clears while the daemon polls, and
\* however often it ends half-way through a batch and starts again: within one
\* run no line is written twice, and the entries are numbered without a gap in
\* the order of their times.
THEOREM LinesOncePerRun == PathSpec => []OncePerRun
  <1>1. DmesgInv => OncePerRun
    BY DEF DmesgInv
  <1> QED BY <1>1, DmesgInvariance, PTL

\* What an earlier poll of this run marked as seen is in the file when the next
\* one begins, and Elasticsearch holds nothing that the file does not.
THEOREM SeenLinesAreWritten == PathSpec => []SeenIsWritten
  <1>1. DmesgInv => SeenIsWritten
    <2> SUFFICES ASSUME DmesgInv PROVE SeenIsWritten
      OBVIOUS
    <2>1. dpc = "idle" => seen = Written
      BY DEF DmesgInv, RestInv
    <2>2. es \subseteq {<<file[k].inc, file[k].seq>> : k \in DOMAIN file}
      BY DEF DmesgInv, RestInv
    <2>3. {<<file[k].inc, file[k].seq>> : k \in DOMAIN file} \subseteq {<<e.inc, e.seq>> : e \in ToSet(file)}
      BY DEF ToSet
    <2> QED BY <2>1, <2>2, <2>3 DEF SeenIsWritten
  <1> QED BY <1>1, DmesgInvariance, PTL

\* For every set of hooked calls and whatever names the lines hold: where the
\* severity of an entry is not the documented one, the caller is in a module,
\* the text is not the expected one or a name is unquotable, and the entry is
\* "high" if the line says SUSPICIOUS and "info" if it does not.
THEOREM SeveritiesFallBack == PathSpec => []SeverityFallback
  <1>1. DmesgInv => SeverityFallback
    <2> SUFFICES ASSUME DmesgInv, NEW k \in DOMAIN file,
                        file[k].severity # Documented[file[k].line.msg.kind]
                 PROVE  LET m == file[k].line.msg
                        IN  /\ m.kind \in CallerInModule \cup OtherText \/ ~m.clean
                            /\ file[k].severity = IF m.kind \in Suspicious THEN "high" ELSE "info"
      BY DEF SeverityFallback, ToSet
    <2>1. file[k] \in Entry
      BY DEF DmesgInv, DmesgTypes
    <2>2. file[k].line.msg \in Msg
      BY <2>1 DEF Entry, Line
    <2>3. file[k].severity = Severity(file[k].line.msg)
      BY DEF DmesgInv, FileInv
    <2> QED BY <2>2, <2>3, SeverityFacts
  <1> QED BY <1>1, DmesgInvariance, PTL

-----------------------------------------------------------------------------
\* Half lines.

\* The entry behind a half line is the first of a later run; a half line at the
\* end of the file was not left by the present run, which has written nothing.
TornInv ==
    \A k \in torn :
        /\ k \in Nat /\ k <= Len(file)
        /\ k < Len(file) => file[k + 1].seq = 0 /\ file[k + 1].inc > 1
        /\ k = Len(file) => inc >= 1 /\ (dpc = "down" \/ (inc > 1 /\ Own(inc) = {}))

\* A write puts a first entry behind a half line at the end of the file, and
\* leaves what was behind the others.
LEMMA WriteKeepsTorn ==
    ASSUME DmesgInv, TornInv, dpc = "logging", NEW n \in 0 .. Len(batch), inc' = inc,
           file' = file \o SubSeq(batch, 1, n), NEW k \in torn
    PROVE  /\ k \in Nat /\ k <= Len(file')
           /\ k < Len(file') => file'[k + 1].seq = 0 /\ file'[k + 1].inc > 1
           /\ k = Len(file') => n = 0 /\ inc > 1 /\ Own(inc) = {}
  <1>1. /\ file' \in Seq(Entry) /\ DOMAIN file' = 1 .. Len(file) + n
        /\ \A j \in DOMAIN file : file'[j] = file[j]
        /\ \A m \in 1 .. n : m \in DOMAIN batch /\ file'[Len(file) + m] = batch[m]
    BY WriteFacts
  <1>2. /\ DOMAIN file = 1 .. Len(file) /\ Len(file) \in Nat /\ n \in Nat /\ inc \in Nat
        /\ Len(file') = Len(file) + n
    BY <1>1 DEF DmesgInv, DmesgTypes
  <1>3. /\ k \in Nat /\ k <= Len(file)
        /\ k < Len(file) => file[k + 1].seq = 0 /\ file[k + 1].inc > 1
        /\ k = Len(file) => inc > 1 /\ Own(inc) = {}
    BY DEF TornInv
  <1> DEFINE len == Len(file)
             lenNext == Len(file')
  <1>4. len \in Nat /\ n \in Nat /\ inc \in Nat /\ lenNext = len + n /\ DOMAIN file = 1 .. len
    BY <1>2
  <1>5. k \in Nat /\ k <= len
    BY <1>3
  <1> HIDE DEF len, lenNext
  <1>6. CASE k < len
    <2>1. k + 1 \in DOMAIN file
      BY ONLY <1>6, <1>4, <1>5
    <2>2. file'[k + 1] = file[k + 1]
      BY <1>1, <2>1
    <2>3. file'[k + 1].seq = 0 /\ file'[k + 1].inc > 1
      BY <1>3, <1>6, <2>2 DEF len
    <2>4. k <= lenNext /\ k # lenNext
      BY ONLY <1>6, <1>4, <1>5
    <2> QED BY <1>5, <2>3, <2>4 DEF lenNext
  <1>7. CASE k = len /\ n = 0
    <2>1. k = lenNext /\ ~(k < lenNext)
      BY ONLY <1>7, <1>4
    <2> QED BY <1>3, <1>7, <1>4, <2>1 DEF len, lenNext
  <1>8. CASE k = len /\ n > 0
    <2>1. 1 \in 1 .. n
      BY <1>8, <1>4
    <2>2. file'[k + 1] = batch[1] /\ 1 \in DOMAIN batch
      BY <1>1, <1>8, <2>1 DEF len
    <2>3. batch[1].inc = inc /\ batch[1].seq = Cardinality(Own(inc)) + 1 - 1
      BY <2>2 DEF DmesgInv, BatchInv
    <2>4. Cardinality(Own(inc)) = 0
      BY <1>3, <1>8, FS_EmptySet DEF len
    <2>5. inc > 1
      BY <1>3, <1>8 DEF len
    <2>6. file'[k + 1].seq = 0 /\ file'[k + 1].inc > 1
      BY ONLY <2>2, <2>3, <2>4, <2>5
    <2>7. k <= lenNext /\ k # lenNext
      BY ONLY <1>8, <1>4
    <2> QED BY <1>5, <2>6, <2>7 DEF lenNext
  <1>9. k < len \/ (k = len /\ n = 0) \/ (k = len /\ n > 0)
    BY ONLY <1>4, <1>5
  <1> QED BY <1>6, <1>7, <1>8, <1>9

\* A running daemon has been started.
StartedInv == inc \in Nat /\ (dpc # "down" => inc >= 1)

LEMMA TornInductive == DmesgInv /\ StartedInv /\ TornInv /\ [PathNext]_pathVars => TornInv'
  <1> SUFFICES ASSUME DmesgInv, StartedInv, TornInv, [PathNext]_pathVars PROVE TornInv'
    OBVIOUS
  <1>0. file \in Seq(Entry) /\ Len(file) \in Nat /\ inc \in Nat
    BY DEF DmesgInv, DmesgTypes
  <1>1. CASE UNCHANGED <<file, torn, inc>> /\ (dpc' = "down" \/ dpc # "down")
    <2>1. Own(inc)' = Own(inc)
      BY <1>1 DEF Own
    <2> QED BY <1>1, <2>1 DEF TornInv
  <1>2. CASE UNCHANGED daemonVars
    <2>1. Own(inc)' = Own(inc)
      BY <1>2 DEF Own, daemonVars
    <2> QED BY <1>2, <2>1 DEF TornInv, daemonVars
  <1>3. CASE Start
    <2>1. inc' = inc + 1 /\ UNCHANGED <<file, torn>>
      BY <1>3 DEF Start
    <2>2. \A k \in DOMAIN file : file[k].inc \in Nat /\ file[k].inc <= inc
      <3>1. \A k \in DOMAIN file : file[k] \in Entry
        BY <1>0
      <3> QED BY <3>1 DEF DmesgInv, FileInv, Entry
    <2>3. \A k \in DOMAIN file : file[k].inc # inc + 1
      BY <1>0, <2>2
    <2>4. Own(inc)' = {}
      BY <2>1, <2>3 DEF Own
    <2>5. \A k \in torn :
             /\ k \in Nat /\ k <= Len(file)
             /\ k < Len(file) => file[k + 1].seq = 0 /\ file[k + 1].inc > 1
             /\ k = Len(file) => inc + 1 > 1
      BY <1>0 DEF TornInv
    <2> QED BY <1>0, <2>1, <2>4, <2>5 DEF TornInv
  <1>4. CASE Poll \/ Index
    BY <1>1, <1>4 DEF Poll, Index
  <1>5. CASE Log
    <2>1. dpc = "logging" /\ file' = file \o batch /\ UNCHANGED <<inc, torn>>
      BY <1>5 DEF Log
    <2>2. batch \in Seq(Entry) /\ Len(batch) \in Nat /\ Len(batch) \in 0 .. Len(batch)
      BY DEF DmesgInv, DmesgTypes
    <2>3. file' = file \o SubSeq(batch, 1, Len(batch))
      <3>1. SubSeq(batch, 1, Len(batch)) = batch
        BY <2>2
      <3> QED BY <2>1, <3>1
    <2>4. \A k \in torn :
             /\ k \in Nat /\ k <= Len(file')
             /\ k < Len(file') => file'[k + 1].seq = 0 /\ file'[k + 1].inc > 1
             /\ k = Len(file') => Len(batch) = 0 /\ inc > 1 /\ Own(inc) = {}
      BY <2>1, <2>2, <2>3, WriteKeepsTorn
    <2>5. Len(batch) = 0 => Own(inc)' = Own(inc)
      <3>1. ASSUME Len(batch) = 0 PROVE file' = file
        BY <1>0, <2>1, <2>2, <3>1
      <3> QED BY <2>1, <3>1 DEF Own
    <2> QED BY <1>0, <2>1, <2>4, <2>5 DEF TornInv
  <1>6. CASE End
    <2>1. dpc' = "down" /\ dpc # "down" /\ inc' = inc
      BY <1>6 DEF End
    <2>2. CASE dpc # "logging"
      BY <1>1, <1>6, <2>1, <2>2 DEF End
    <2>3. CASE dpc = "logging"
      <3>1. PICK n \in 0 .. Len(batch) :
               /\ file' = file \o SubSeq(batch, 1, n)
               /\ UNCHANGED torn \/ torn' = torn \cup {Len(file) + n}
        BY <1>6, <2>3 DEF End
      <3>2. \A k \in torn :
               /\ k \in Nat /\ k <= Len(file')
               /\ k < Len(file') => file'[k + 1].seq = 0 /\ file'[k + 1].inc > 1
        BY <2>1, <2>3, <3>1, WriteKeepsTorn
      <3>3. file' \in Seq(Entry) /\ DOMAIN file' = 1 .. Len(file) + n
        BY <2>1, <2>3, <3>1, WriteFacts
      <3>4. n \in Nat
        BY DEF DmesgInv, DmesgTypes
      <3>5. Len(file') = Len(file) + n /\ Len(file') \in Nat
        BY <1>0, <3>3, <3>4
      <3>6. \A k \in torn' : k \in torn \/ k = Len(file')
        BY <3>1, <3>5
      <3>7. inc >= 1
        BY <2>1 DEF StartedInv
      <3> QED BY <2>1, <3>2, <3>5, <3>6, <3>7 DEF TornInv
    <2> QED BY <2>2, <2>3
  <1>7. CASE DaemonNext
    BY <1>3, <1>4, <1>5, <1>6, <1>7 DEF DaemonNext
  <1> QED BY <1>2, <1>7 DEF PathNext, pathVars, HookedCall, ClearCalled, ClearDone, Time

\* However often the daemon dies in the middle of a line: the only entries
\* without a line to themselves are first entries of later runs.
THEOREM TearsCostOneEntry == PathSpec => []OneEntryPerTear
  <1>1. PathInit => StartedInv /\ TornInv
    BY DEF PathInit, DaemonInit, StartedInv, TornInv
  <1>2. StartedInv /\ [PathNext]_pathVars => StartedInv'
    BY DEF StartedInv, PathNext, pathVars, daemonVars, DaemonNext, Start, Poll, Log, Index, End,
           HookedCall, ClearCalled, ClearDone, Time
  <1>3. DmesgInv /\ TornInv => OneEntryPerTear
    <2> SUFFICES ASSUME DmesgInv, TornInv, NEW k \in DOMAIN file, k - 1 \in torn
                 PROVE  file[k].seq = 0 /\ file[k].inc > 1
      BY DEF OneEntryPerTear
    <2>1. k \in 1 .. Len(file) /\ Len(file) \in Nat
      BY DEF DmesgInv, DmesgTypes
    <2>2. k - 1 < Len(file) /\ (k - 1) + 1 = k
      BY <2>1
    <2>3. file[(k - 1) + 1].seq = 0 /\ file[(k - 1) + 1].inc > 1
      BY <2>2 DEF TornInv
    <2> QED BY <2>2, <2>3
  <1> QED BY <1>1, <1>2, <1>3, TornInductive, DmesgInvariance, PTL DEF PathSpec
=============================================================================
