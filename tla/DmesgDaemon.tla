---------------------------- MODULE DmesgDaemon -----------------------------
(***************************************************************************)
(* The Python daemon: main.py polls the registered modules (there is one,  *)
(* the dmesg reader), numbers what they return, appends it to the day's    *)
(* JSONL file and indexes it in Elasticsearch.  It keeps nothing on disk   *)
(* about what it has read: a restart begins with an empty `_seen' and      *)
(* sequence number 0.                                                      *)
(*                                                                         *)
(* A poll that fails (dmesg missing, or not done within five seconds)      *)
(* returns no events and changes nothing; it is a stuttering step.         *)
(***************************************************************************)
EXTENDS KernelLog, DetectorLines, FiniteSets, SequencesExt

CONSTANT MaxInc   \* bound: starts of the daemon

VARIABLES
    dpc,      \* "down", "idle", "logging" or "indexing"
    inc,      \* starts so far
    seen,     \* reader._seen: the (ts, msg) pairs
    seq,      \* registry._seq
    batch,    \* events: what the last poll returned
    enabled,  \* es_writer.enabled
    file,     \* the JSONL file (survives the daemon)
    torn,     \* after how many of its entries the file has half a line
    es        \* the Elasticsearch index (survives the daemon)

daemonVars == <<dpc, inc, seen, seq, batch, enabled, file, torn, es>>

DaemonInit ==
    /\ dpc = "down" /\ inc = 0 /\ seen = {} /\ seq = 0 /\ batch = <<>>
    /\ enabled = FALSE /\ file = <<>> /\ torn = {} /\ es = {}

-----------------------------------------------------------------------------
\* The severity of the regular expressions of _parse_message(), by the kind of
\* line each one is for.  Their (\S+) for the caller does not match one in a
\* module.
MatchedSeverity ==
    LET critical == {"bpf_hook", "tcp_hook", "icmp_hook", "kthread", "taint_cleared", "hidden_task",
                     "dmesg_clear", "ftrace_write", "pid_hidden"}
        high   == {"trace_pid", "file_open", "lkrg"}
        medium == {"chdir", "readlink"}
    IN  [m \in critical \cup high \cup medium \cup {"ftrace_filter"} |->
           CASE m \in critical -> "critical" [] m \in high -> "high" [] m \in medium -> "medium"
             [] OTHER -> "info"]

\* The expressions with no name in them, or with an optional one; the others
\* want every name non-empty and without the quote.
NameOptional == {"bpf_hook", "ftrace_filter", "taint_cleared"}

Matched(m) == m.kind \in DOMAIN MatchedSeverity /\ (m.clean \/ m.kind \in NameOptional)

Severity_CatchAllFirst(m) ==
    IF m.kind \in Suspicious THEN "high"
    ELSE IF Matched(m) THEN MatchedSeverity[m.kind] ELSE "info"

\* _parse_message(): the first expression that matches, then any SUSPICIOUS.
Severity(m) ==
    IF Matched(m) THEN MatchedSeverity[m.kind]
    ELSE IF m.kind \in Suspicious THEN "high" ELSE "info"

-----------------------------------------------------------------------------
\* run_daemon() up to its loop; the writer is disabled for good when
\* Elasticsearch is not configured or cannot be reached now.
Start ==
    /\ dpc = "down" /\ inc < MaxInc
    /\ dpc' = "idle" /\ inc' = inc + 1
    /\ seen' = {} /\ seq' = 0 /\ batch' = <<>>
    /\ enabled' \in BOOLEAN
    /\ UNCHANGED <<file, torn, es, logVars>>

Fresh_LastTs ==
    LET newest == {l.ts : l \in seen}
        new(i) == /\ \A t \in newest : t < klog[i].ts
                  /\ \A j \in 1..(i - 1) : klog[j] # klog[i]
    IN  {i \in 1..Len(klog) : new(i)}

Fresh_Forget == 1..Len(klog)

\* Where in the log a poll finds a line to report: at the first occurrence of
\* every line not seen before (`_last_ts' stays 0.0, so its test passes every
\* line).
Fresh == {i \in 1..Len(klog) : klog[i] \notin seen /\ \A j \in 1..(i - 1) : klog[j] # klog[i]}

\* The k-th smallest of a set of numbers.
Rank(S, i) == Cardinality({j \in S : j <= i})
Nth(S, k)  == CHOOSE i \in S : Rank(S, i) = k

\* poll() and poll_all(): read the whole kernel log, keep what is new, number
\* it from `_seq'.
Poll ==
    /\ dpc = "idle"
    /\ seen' = seen \cup ToSet(klog)
    /\ seq' = seq + Cardinality(Fresh)
    /\ batch' = [k \in 1..Cardinality(Fresh) |->
                   LET line == klog[Nth(Fresh, k)]
                   IN  [inc |-> inc, seq |-> seq + k - 1, line |-> line,
                        severity |-> Severity(line.msg)]]
    /\ dpc' = IF Fresh = {} THEN "idle" ELSE "logging"
    /\ UNCHANGED <<inc, enabled, file, torn, es, logVars>>

Log_Swallow ==
    /\ dpc = "logging"
    /\ \E n \in 0..Len(batch) : file' = file \o SubSeq(batch, 1, n)
    /\ dpc' = "indexing"
    /\ UNCHANGED <<inc, seen, seq, batch, enabled, torn, es, logVars>>

Log_NoNewline ==
    /\ dpc = "logging"
    /\ file' = file \o batch
    /\ torn' = torn \cup {Len(file')}
    /\ dpc' = "indexing"
    /\ UNCHANGED <<inc, seen, seq, batch, enabled, es, logVars>>

\* EventLogger.log_events(): the file is appended to, wherever it ends, and
\* closed.
Log ==
    /\ dpc = "logging"
    /\ file' = file \o batch
    /\ dpc' = "indexing"
    /\ UNCHANGED <<inc, seen, seq, batch, enabled, torn, es, logVars>>

\* ElasticsearchWriter.log_events(): nothing when disabled; an exception of the
\* bulk request, after any part of it was indexed, is logged and forgotten.
Index ==
    /\ dpc = "indexing"
    /\ \E n \in IF enabled THEN 0..Len(batch) ELSE {0} :
         es' = es \cup {<<batch[i].inc, batch[i].seq>> : i \in 1..n}
    /\ dpc' = "idle" /\ batch' = <<>>
    /\ UNCHANGED <<inc, seen, seq, enabled, file, torn, logVars>>

\* The daemon ends: stopped or interrupted, killed, or by an exception that
\* nothing catches (the file cannot be written: EventLogger has no handler).
\* A batch being written is in the file up to where that happened, which may be
\* in the middle of a line; nothing ends that line or removes it.
End ==
    /\ dpc # "down"
    /\ \/ /\ dpc = "logging"
          /\ \E n \in 0..Len(batch) :
               /\ file' = file \o SubSeq(batch, 1, n)
               /\ \/ UNCHANGED torn
                  \/ n < Len(batch) /\ torn' = torn \cup {Len(file) + n}
       \/ dpc # "logging" /\ UNCHANGED <<file, torn>>
    /\ \/ dpc = "indexing" /\ enabled
          /\ \E n \in 0..Len(batch) : es' = es \cup {<<batch[i].inc, batch[i].seq>> : i \in 1..n}
       \/ ~(dpc = "indexing" /\ enabled) /\ UNCHANGED es
    /\ dpc' = "down" /\ seen' = {} /\ seq' = 0 /\ batch' = <<>> /\ enabled' = FALSE
    /\ UNCHANGED <<inc, logVars>>

DaemonNext == Start \/ Poll \/ Log \/ Index \/ End

-----------------------------------------------------------------------------
Entries == [inc : 1..MaxInc, seq : 0..MaxLines, line : [ts : 0..MaxClock, msg : Msg],
            severity : {"info", "medium", "high", "critical"}]

DaemonTypeOK ==
    /\ ToSet(klog) \cup seen \subseteq [ts : 0..MaxClock, msg : Msg]
    /\ dpc \in {"down", "idle", "logging", "indexing"} /\ inc \in 0..MaxInc
    /\ ToSet(batch) \cup ToSet(file) \subseteq Entries
    /\ torn \subseteq 0..Len(file)

\* Where in the file the entries are that one run of the daemon wrote, and
\* which lines the present run has written.
Own(i) == {k \in DOMAIN file : file[k].inc = i}
Written == {file[k].line : k \in Own(inc)}

\* Within one run of the daemon no line (time and text) is written twice,
\* and the entries bear the numbers 0, 1, 2, ... in the order of their times,
\* although every poll reads the whole log again.
OncePerRun ==
    \A k \in DOMAIN file :
        LET earlier == {j \in Own(file[k].inc) : j < k}
        IN  /\ file[k].seq = Cardinality(earlier)
            /\ \A j \in earlier : file[j].line # file[k].line /\ file[j].line.ts <= file[k].line.ts

\* What a poll has marked as seen is in the file by the time of the next
\* poll: nothing is passed over because an earlier write failed.  Elasticsearch
\* comes second and holds nothing that the file does not.
SeenIsWritten ==
    /\ dpc = "idle" => seen = Written
    /\ es \subseteq {<<e.inc, e.seq>> : e \in ToSet(file)}

\* A daemon that dies in the middle of a line costs one more entry, the first of
\* a later run, which is appended to the half line and can be read by nobody:
\* every other entry has a line to itself.
OneEntryPerTear ==
    \A k \in DOMAIN file : k - 1 \in torn => file[k].seq = 0 /\ file[k].inc > 1

\* The table "Event Types" of es_payload_structure.md: the severity of each kind
\* of line.  Its last rows are catch-alls: SUSPICIOUS lines without a row of
\* their own are "high", all others "info".
Documented ==
    LET critical == {"bpf_hook", "tcp_hook", "tcp_hook_module", "icmp_hook", "icmp_hook_module",
                     "kthread", "kthread_module", "taint_cleared", "hidden_task", "dmesg_clear",
                     "ftrace_write", "pid_hidden", "privesc"}
        high   == {"trace_pid", "file_open", "lkrg", "lkrg_module", "kallsyms", "audit"}
        medium == {"chdir", "readlink"}
    IN  [k \in Kind |->
           CASE k \in critical -> "critical" [] k \in high -> "high" [] k \in medium -> "medium"
             [] OTHER -> "info"]

\* What the document says of the file: every entry has the severity of its row.
SeverityDocumented ==
    \A e \in ToSet(file) : e.severity = Documented[e.line.msg.kind]

\* Lines whose expression cannot match: the caller is in a module, or the text
\* become_root_detector.c prints is not the one that is looked for.
CallerInModule == {"tcp_hook_module", "icmp_hook_module", "kthread_module", "lkrg_module"}
OtherText == {"privesc"}

\* What the code does.  The severity of an entry departs from the document only
\* for those lines and for lines with an unquotable name in them; and then one
\* that says SUSPICIOUS is still "high" by the catch-all.  An alert that does
\* not say so (pid_hidden, file_open, lkrg) becomes "info".
SeverityFallback ==
    \A e \in ToSet(file) :
        LET m == e.line.msg
        IN  e.severity # Documented[m.kind] =>
              /\ m.kind \in CallerInModule \cup OtherText \/ ~m.clean
              /\ e.severity = IF m.kind \in Suspicious THEN "high" ELSE "info"

\* A running daemon catches up with the kernel log again and again: a line is
\* not passed over because it bears the same time as one read before.
CaughtUp ==
    []<>(dpc = "down" \/ ToSet(klog) \subseteq Written)
=============================================================================
