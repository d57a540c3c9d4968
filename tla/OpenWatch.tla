----------------------------- MODULE OpenWatch ------------------------------
(***************************************************************************)
(* hook_file_access.c: a return probe on do_filp_open().  The entry        *)
(* handler saves the caller and the open flags in the instance that the    *)
(* kernel hands it, the return handler finds the file and reports          *)
(* sensitive ones.  Instances come from a pool of maxactive; a call that   *)
(* finds none free is not probed at all.  An instance keeps its data from  *)
(* one use to the next, and calls overlap: opening may sleep.              *)
(***************************************************************************)
EXTENDS Integers, FiniteSets

CONSTANTS
    Task,       \* tasks that open files
    Instance,   \* the pool: maxactive (64) instances
    NoInst,     \* no instance
    Path        \* a subset of PathKind

ASSUME OpenAssumption == NoInst \notin Task \cup Instance

\* The classes of paths is_sensitive_path() tells apart.
PathKind == {"exact", "etc_ssh", "root_ssh", "home_ssh", "home", "other"}

VARIABLES
    data,    \* per instance: ri->data, a struct open_call_ctx
    open,    \* per task: its call of do_filp_open
    opened   \* per task: the report about its last call, or "none"

openVars == <<data, open, opened>>

\* Flags: WR is an access mode that writes, or O_APPEND; CREAT and TRUNC act
\* only while opening and are not kept in file->f_flags.
Flags == SUBSET {"WR", "CREAT", "TRUNC"}

NotOpen  == [at |-> "no", path |-> "other", flags |-> {}, inst |-> NoInst, full |-> FALSE]
NoReport == [task |-> NoInst, write |-> FALSE]

OpenInit ==
    /\ data = [x \in Instance |-> [task |-> NoInst, flags |-> {}]]
    /\ open = [t \in Task |-> NotOpen]
    /\ opened = [t \in Task |-> NoReport]

Free == Instance \ {open[t].inst : t \in Task}

\* is_sensitive_path(): under /home/ only what is in an .ssh directory.
Sensitive(path) == path \in {"exact", "etc_ssh", "root_ssh", "home_ssh"}

\* is_writeish()
Writeish(flags) == flags # {}

-----------------------------------------------------------------------------
EntryData_NoReset(x, t, flags, readable) ==
    [task |-> t, flags |-> IF readable THEN flags ELSE data[x].flags]

\* do_filp_open_entry(): what it saves; the third argument is the open flags,
\* if it is readable there.
EntryData(x, t, flags, readable) == [task |-> t, flags |-> IF readable THEN flags ELSE {}]

\* A task enters do_filp_open().
OpenEnter(t) ==
    /\ open[t].at = "no"
    /\ \E path \in Path, flags \in Flags :
         \/ /\ Free = {}
            /\ open' = [open EXCEPT ![t] = [at |-> "in", path |-> path, flags |-> flags,
                                            inst |-> NoInst, full |-> TRUE]]
            /\ UNCHANGED data
         \/ \E x \in Free, readable \in BOOLEAN :
            /\ open' = [open EXCEPT ![t] = [at |-> "in", path |-> path, flags |-> flags,
                                            inst |-> x, full |-> FALSE]]
            /\ data' = [data EXCEPT ![x] = EntryData(x, t, flags, readable)]
    /\ opened' = [opened EXCEPT ![t] = NoReport]

\* do_filp_open_ret() when it has the path: the flags saved at the entry, or
\* else those of the file.
ReturnReport(x, path, flags) ==
    LET saved == data[x].flags
        eff   == IF saved # {} THEN saved ELSE flags \ {"CREAT", "TRUNC"}
    IN  IF Sensitive(path) THEN [task |-> data[x].task, write |-> Writeish(eff)] ELSE NoReport

\* do_filp_open() returns.  It may have failed; d_path() may have no room for
\* the path in its 512 bytes ("nameless"), which a path on the list of exact
\* ones always has.  In both cases, and without an instance, nothing is said.
OpenReturn(t) ==
    /\ open[t].at = "in"
    /\ \E out \in {"failed", "nameless", "ok"} :
         /\ out = "nameless" => open[t].path # "exact"
         /\ opened' = [opened EXCEPT ![t] =
                         IF out = "ok" /\ open[t].inst # NoInst
                         THEN ReturnReport(open[t].inst, open[t].path, open[t].flags) ELSE NoReport]
         /\ open' = [open EXCEPT ![t].at = out, ![t].inst = NoInst]
    /\ UNCHANGED data

OpenDone(t) ==
    /\ open[t].at \in {"failed", "nameless", "ok"}
    /\ open' = [open EXCEPT ![t] = NotOpen]
    /\ opened' = [opened EXCEPT ![t] = NoReport]
    /\ UNCHANGED data

OpenNext == \E t \in Task : OpenEnter(t) \/ OpenReturn(t) \/ OpenDone(t)

\* The detector by itself.
OpenSpec == OpenInit /\ [][OpenNext]_openVars

-----------------------------------------------------------------------------
OpenTypeOK ==
    /\ data \in [Instance -> [task : Task \cup {NoInst}, flags : Flags]]
    /\ \A t \in Task : open[t].at \in {"no", "in", "failed", "nameless", "ok"} /\ open[t].flags \in Flags
    /\ \A t, u \in Task : t # u /\ open[t].inst # NoInst => open[t].inst # open[u].inst

\* A report names the task that made the call it is about, and says "write"
\* only if that call asked for it: neither another call in progress nor an
\* earlier use of the instance shows through, also when the flags could not be
\* read at the entry.
ReportIsOwn ==
    \A t \in Task : opened[t] # NoReport =>
        /\ opened[t].task = t
        /\ opened[t].write => Writeish(open[t].flags)
        /\ "WR" \in open[t].flags => opened[t].write

\* A sensitive file that was opened goes without a report only if every
\* instance was in use when the call began, or its path is longer than the
\* handler's buffer; nothing else is reported.
UnreportedHasReason ==
    \A t \in Task : open[t].at \in {"ok", "nameless"} =>
        (opened[t] = NoReport <=>
            \/ open[t].path \notin {"exact", "etc_ssh", "root_ssh", "home_ssh"}
            \/ open[t].full
            \/ open[t].at = "nameless")

\* do_filp_open_ret() reports the right opens and each as what it is, although
\* calls overlap and share a limited pool of instances.
OpensAreReported == ReportIsOwn /\ UnreportedHasReason
=============================================================================
