---------------------------- MODULE TaintMonitor ----------------------------
(***************************************************************************)
(* reset_tainted_detector.c: a hook on kthread creation, a work item that  *)
(* polls tainted_mask every five seconds and one that scans the task list  *)
(* every ten.  Both work items schedule themselves again; the exit         *)
(* function has to get rid of them before the module's code is freed.      *)
(*                                                                         *)
(* The workqueue is the kernel's: cancel_delayed_work_sync() removes a     *)
(* pending item, refuses to let a running one be queued again, and returns *)
(* when it has finished.                                                   *)
(***************************************************************************)
EXTENDS Integers

CONSTANT Bit   \* the bits of tainted_mask

Work == {"taint", "scan"}

VARIABLES
    mask,       \* *tainted_mask_ptr (the kernel's)
    life,       \* "in", "flagged", "unhooked", "half" or "gone"
    baseline,   \* taint_baseline
    hook,       \* kthread_hook_active
    work,       \* per work item: "idle", "pending", "running" or "ending"
    cancel,     \* the work items being or having been cancelled
    cur,        \* what the running taint check read
    told,       \* bits reported as cleared and not seen set since (history)
    rogue       \* a thread with a name of suspicious_names: "none", "alive" or
                \* "reported" (the kernel's, and history)

taintVars == <<mask, life, baseline, hook, work, cancel, cur, told, rogue>>
driver    == <<life, baseline, hook, work, cancel, cur>>

TaintTypeOK ==
    /\ mask \subseteq Bit /\ baseline \subseteq Bit /\ told \subseteq Bit
    /\ life \in {"in", "flagged", "unhooked", "half", "gone"}
    /\ work \in [Work -> {"idle", "pending", "running", "ending"}]
    /\ cancel \subseteq Work /\ hook \in BOOLEAN
    /\ cur \subseteq Bit /\ rogue \in {"none", "alive", "reported"}

\* The state reset_tainted_detector_init() leaves.  Each vector may be missing
\* (kallsyms_lookup_name or tainted_mask not found, hook refused); init does
\* not fail, and the scan is always queued.
TaintInit ==
    /\ mask \in SUBSET Bit /\ life = "in" /\ hook \in BOOLEAN
    /\ \/ baseline = mask /\ work = [w \in Work |-> "pending"]
       \/ baseline = {} /\ work = [w \in Work |-> IF w = "scan" THEN "pending" ELSE "idle"]
    /\ cancel = {} /\ cur = {} /\ told = {} /\ rogue = "none"

-----------------------------------------------------------------------------
\* The kernel and what runs in it: taint bits come and go, a thread with a
\* suspicious name is started.

SetTaint(b) ==
    /\ b \notin mask
    /\ mask' = mask \cup {b}
    /\ UNCHANGED <<told, rogue, driver>>

ClearTaint(b) ==
    /\ b \in mask
    /\ mask' = mask \ {b}
    /\ UNCHANGED <<told, rogue, driver>>

\* kthread_create_on_node makes a thread with a name of suspicious_names.  If the
\* hook is there, hook_kthread_create() compares the format, which is the name
\* when it is given literally and not when it is an argument of "%s".
SpawnRogue ==
    /\ rogue = "none"
    /\ \E literal \in BOOLEAN : rogue' = IF hook /\ literal THEN "reported" ELSE "alive"
    /\ UNCHANGED <<mask, told, driver>>

RogueEnds ==
    /\ rogue # "none"
    /\ rogue' = "none"
    /\ UNCHANGED <<mask, told, driver>>

\* A delay has passed and a worker takes the item; the taint check reads the
\* mask first.
WorkBegins(w) ==
    /\ work[w] = "pending"
    /\ work' = [work EXCEPT ![w] = "running"]
    /\ cur' = IF w = "taint" THEN mask ELSE cur
    /\ UNCHANGED <<mask, life, baseline, hook, cancel, told, rogue>>

TaintCheck_KeepBaseline ==
    /\ work["taint"] = "running"
    /\ work' = [work EXCEPT !["taint"] = "ending"]
    /\ cur' = {}
    /\ told' = (told \ cur) \cup (baseline \ cur)
    /\ UNCHANGED <<mask, life, baseline, hook, cancel, rogue>>

TaintCheck_BaselineFirst ==
    /\ work["taint"] = "running"
    /\ work' = [work EXCEPT !["taint"] = "ending"]
    /\ cur' = {}
    /\ baseline' = cur
    /\ told' = told \ cur
    /\ UNCHANGED <<mask, life, hook, cancel, rogue>>

\* taint_check_fn() after its read of the mask: the baseline follows a
\* clearing, and nothing else.
TaintCheck ==
    /\ work["taint"] = "running"
    /\ work' = [work EXCEPT !["taint"] = "ending"]
    /\ cur' = {}
    /\ told' = (told \ cur) \cup (baseline \ cur)
    /\ IF baseline \ cur # {}
       THEN baseline' = cur
       ELSE UNCHANGED baseline
    /\ UNCHANGED <<mask, life, hook, cancel, rogue>>

\* thread_scan_fn(): every task with a suspicious name is reported, at every
\* scan.
ThreadScan ==
    /\ work["scan"] = "running"
    /\ work' = [work EXCEPT !["scan"] = "ending"]
    /\ rogue' = IF rogue = "alive" THEN "reported" ELSE rogue
    /\ UNCHANGED <<mask, life, baseline, hook, cancel, cur, told>>

Exiting == life # "in"

\* The end of a work function: the item is queued again unless the module is
\* exiting; an item being cancelled cannot be queued.
WorkEnds(w) ==
    /\ work[w] = "ending"
    /\ work' = [work EXCEPT ![w] = IF ~Exiting /\ w \notin cancel THEN "pending" ELSE "idle"]
    /\ UNCHANGED <<mask, life, baseline, hook, cancel, cur, told, rogue>>

-----------------------------------------------------------------------------
\* reset_tainted_detector_exit(): set detector_exiting, remove the hook, cancel
\* the taint check, cancel the scan.  After that the code is freed.

ExitFlag ==
    /\ life = "in"
    /\ life' = "flagged"
    /\ UNCHANGED <<mask, baseline, hook, work, cancel, cur, told, rogue>>

ExitHook ==
    /\ life = "flagged"
    /\ life' = "unhooked"
    /\ hook' = FALSE
    /\ UNCHANGED <<mask, baseline, work, cancel, cur, told, rogue>>

\* The call begins: the timer is deleted and re-queueing is blocked.
CancelBegins(w, from) ==
    /\ life = from /\ w \notin cancel
    /\ cancel' = cancel \cup {w}
    /\ work' = [work EXCEPT ![w] = IF @ = "pending" THEN "idle" ELSE @]
    /\ UNCHANGED <<mask, life, baseline, hook, cur, told, rogue>>

CancelReturns_NoSync(w, from, to) ==
    /\ life = from /\ w \in cancel
    /\ life' = to
    /\ UNCHANGED <<mask, baseline, hook, work, cancel, cur, told, rogue>>

\* The call returns when the work function has.
CancelReturns(w, from, to) ==
    /\ life = from /\ w \in cancel /\ work[w] = "idle"
    /\ life' = to
    /\ UNCHANGED <<mask, baseline, hook, work, cancel, cur, told, rogue>>

TaintExit ==
    \/ ExitFlag \/ ExitHook
    \/ CancelBegins("taint", "unhooked") \/ CancelReturns("taint", "unhooked", "half")
    \/ CancelBegins("scan", "half") \/ CancelReturns("scan", "half", "gone")

Worker(w) ==
    \/ WorkBegins(w)
    \/ w = "taint" /\ TaintCheck
    \/ w = "scan" /\ ThreadScan
    \/ WorkEnds(w)

TaintWorld == (\E b \in Bit : SetTaint(b) \/ ClearTaint(b)) \/ SpawnRogue \/ RogueEnds

TaintNext == TaintWorld \/ (\E w \in Work : Worker(w)) \/ TaintExit

\* The detector by itself.
TaintSpec == TaintInit /\ [][TaintNext]_taintVars

-----------------------------------------------------------------------------
\* No work item of the detector is queued or running once its exit function
\* has returned and rmmod frees the code, whatever the items were doing when
\* the exit began, and no hook is left.
NoWorkAfterUnload ==
    life = "gone" => ~hook /\ \A w \in Work : work[w] = "idle"

\* reset_tainted_detector.c: "Update baseline so we don't spam repeated
\* alerts".  The alert a running check is about to print names no bit that
\* was reported before and has not been seen set since, however the mask
\* changes between the checks and between the read and the alert.
NoRepeatedAlert ==
    work["taint"] = "running" => (baseline \ cur) \cap told = {}

\* A bit of the baseline that is cleared is reported, unless it is set again
\* before the next check reads the mask, or the detector is unloaded.
ClearedIsNoticed ==
    \A b \in Bit :
        (life = "in" /\ b \in baseline \ mask) ~> (b \in told \/ b \in mask \/ life # "in")

\* A thread with a suspicious name is reported, by the hook or by the next
\* scan, unless it ends before or the detector is unloaded.
RogueIsNoticed ==
    (life = "in" /\ rogue = "alive") ~> (rogue # "alive" \/ life # "in")

\* Nothing that taint_check_fn() and thread_scan_fn() watch for goes unnoticed
\* while the detector is loaded: both items keep queueing themselves.
TamperingIsNoticed == ClearedIsNoticed /\ RogueIsNoticed
=============================================================================
