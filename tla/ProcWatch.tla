----------------------------- MODULE ProcWatch ------------------------------
(***************************************************************************)
(* hiding_stat.c and hiding_directory.c: at the entry of stat, getpriority *)
(* and getdents calls the hooks compare the task list with what the file   *)
(* system shows, and leave an audit trail that is limited to a number of   *)
(* lines per second.  The two reads of analyze_stat_path() are two steps:  *)
(* a process may start, exit or be hidden between them.                    *)
(***************************************************************************)
EXTENDS Integers, FiniteSets

CONSTANTS
    Thread,   \* the threads that make the calls
    Pid,      \* the processes they ask about
    Burst     \* lines per second and limiter (10, 5, 5 and 10)

ASSUME ProcAssumption == Burst \in Nat \ {0}

Limiter == {"stat_rl", "nlink_rl", "getprio_rl", "dir_rl"}

VARIABLES
    proc,      \* per process: "none", "shown" or "hidden" in /proc
    printed,   \* per limiter: lines let through in this second
    thr        \* per thread: its last call

procVars == <<proc, printed, thr>>

Idle == [at |-> "idle", pid |-> 0, below |-> FALSE, task |-> FALSE, seen |-> {}, verdict |-> "none"]

ProcInit ==
    /\ proc = [p \in Pid |-> "none"]
    /\ printed = [l \in Limiter |-> 0]
    /\ thr = [t \in Thread |-> Idle]

-----------------------------------------------------------------------------
\* The world.  Every call under way remembers what it has met its process as
\* (history).
Change(p, state, met) ==
    /\ proc' = [proc EXCEPT ![p] = state]
    /\ thr' = [t \in Thread |-> IF thr[t].at # "idle" /\ thr[t].pid = p
                                THEN [thr[t] EXCEPT !.seen = @ \cup met] ELSE thr[t]]
    /\ UNCHANGED printed

Spawn(p)  == proc[p] = "none" /\ \E s \in {"shown", "hidden"} : Change(p, s, {s})
Hide(p)   == proc[p] = "shown" /\ Change(p, "hidden", {"hidden"})
Exits(p)  == proc[p] # "none" /\ Change(p, "none", {"none", "exited"})

\* A second has passed for the limiter l: __ratelimit() begins a new interval.
NewInterval(l) ==
    /\ printed[l] > 0
    /\ printed' = [printed EXCEPT ![l] = 0]
    /\ UNCHANGED <<proc, thr>>

\* __ratelimit(l) and the line: TRUE at most Burst times in an interval.
Limited(l) ==
    \/ printed[l] < Burst /\ printed' = [printed EXCEPT ![l] = @ + 1]
    \/ printed[l] = Burst /\ UNCHANGED printed

-----------------------------------------------------------------------------
\* hook_stat_di(), hook_stat_si(): the path could be read from the caller and
\* begins with /proc/<pid>; `below' says that it goes on after the number.
StatProc(t, p) ==
    /\ thr[t].at = "idle"
    /\ \E below \in BOOLEAN :
         thr' = [thr EXCEPT ![t] = [Idle EXCEPT !.at = "task", !.pid = p, !.below = below,
                                                !.seen = {proc[p]}]]
    /\ UNCHANGED <<proc, printed>>

\* photon_pid_has_task()
HasTask(p) == proc[p] # "none"

\* path_exists_in_vfs(): a path below the process directory may also be
\* missing, or not be open to the caller.
InVfs(r, p, v) ==
    \/ ~v /\ (proc[p] # "shown" \/ r.below)
    \/ v /\ proc[p] = "shown"

ReadTask(t) ==
    /\ thr[t].at = "task"
    /\ thr' = [thr EXCEPT ![t].task = HasTask(thr[t].pid), ![t].at = "vfs"]
    /\ UNCHANGED <<proc, printed>>

Verdict_LimitAll(t, vfs) ==
    IF thr[t].task /\ ~vfs
    THEN /\ thr' = [thr EXCEPT ![t].at = "done",
                               ![t].verdict = IF printed["stat_rl"] < Burst THEN "critical" ELSE "none"]
         /\ Limited("stat_rl")
    ELSE /\ thr' = [thr EXCEPT ![t].at = "done", ![t].verdict = "none"]
         /\ IF thr[t].task THEN Limited("stat_rl") ELSE UNCHANGED printed

Verdict_NoTaskCheck(t, vfs) ==
    IF ~vfs
    THEN thr' = [thr EXCEPT ![t].at = "done", ![t].verdict = "critical"] /\ UNCHANGED printed
    ELSE /\ thr' = [thr EXCEPT ![t].at = "done", ![t].verdict = "none"]
         /\ IF thr[t].task THEN Limited("stat_rl") ELSE UNCHANGED printed

\* The rest of analyze_stat_path() for a process: missing in /proc is always
\* reported, the audit line is limited.
Verdict(t, vfs) ==
    IF thr[t].task /\ ~vfs
    THEN thr' = [thr EXCEPT ![t].at = "done", ![t].verdict = "critical"] /\ UNCHANGED printed
    ELSE /\ thr' = [thr EXCEPT ![t].at = "done", ![t].verdict = "none"]
         /\ IF thr[t].task THEN Limited("stat_rl") ELSE UNCHANGED printed

ReadVfs(t) ==
    /\ thr[t].at = "vfs"
    /\ \E vfs \in BOOLEAN : InVfs(thr[t], thr[t].pid, vfs) /\ Verdict(t, vfs)
    /\ UNCHANGED proc

\* The calls that only leave an audit line.  analyze_stat_path() for a path
\* that is not below /proc/<pid> but a directory:
StatDirectory(t) ==
    /\ thr[t].at = "idle"
    /\ Limited("nlink_rl")
    /\ UNCHANGED <<proc, thr>>

\* hook_getpriority_cb() for a process that exists
Getpriority(t) ==
    /\ thr[t].at = "idle"
    /\ \E p \in Pid : HasTask(p)
    /\ Limited("getprio_rl")
    /\ UNCHANGED <<proc, thr>>

\* hook_getdents(), hook_getdents64() for a descriptor that has a path
Getdents(t) ==
    /\ thr[t].at = "idle"
    /\ Limited("dir_rl")
    /\ UNCHANGED <<proc, thr>>

Returns(t) ==
    /\ thr[t].at = "done"
    /\ thr' = [thr EXCEPT ![t] = Idle]
    /\ UNCHANGED <<proc, printed>>

ProcNext ==
    \/ \E p \in Pid : Spawn(p) \/ Hide(p) \/ Exits(p)
    \/ \E l \in Limiter : NewInterval(l)
    \/ \E t \in Thread : ReadTask(t) \/ ReadVfs(t) \/ Returns(t)
    \/ \E t \in Thread : StatDirectory(t) \/ Getpriority(t) \/ Getdents(t)
    \/ \E t \in Thread, p \in Pid : StatProc(t, p)

\* The two detectors by themselves.
ProcSpec == ProcInit /\ [][ProcNext]_procVars

-----------------------------------------------------------------------------
ProcTypeOK ==
    /\ proc \in [Pid -> {"none", "shown", "hidden"}]
    /\ printed \in [Limiter -> 0..Burst]
    /\ \A t \in Thread : thr[t].at \in {"idle", "task", "vfs", "done"}

\* A process that is hidden in /proc while the call looks at it, from its
\* beginning to its end, is reported, however many lines the same second has
\* seen.
HiddenIsReported ==
    \A t \in Thread : thr[t].at = "done" /\ thr[t].seen = {"hidden"} => thr[t].verdict = "critical"

\* The critical report has a cause: during the call the process was hidden or
\* it exited, or the path was one below its directory.  A process that merely
\* starts during the call is not reported as hidden.
CriticalHasCause ==
    \A t \in Thread : thr[t].verdict = "critical" =>
        thr[t].below \/ "hidden" \in thr[t].seen \/ "exited" \in thr[t].seen
=============================================================================
