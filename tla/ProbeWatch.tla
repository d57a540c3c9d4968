----------------------------- MODULE ProbeWatch -----------------------------
(***************************************************************************)
(* The detectors that watch the registration of probes: the hooks of       *)
(* kprobe_detector.c on register_kprobe() and of kretprobe_detector.c on   *)
(* register_kretprobe() and register_kprobes().  A call is followed        *)
(* through the hooks it passes.  The kernel implements the last two by     *)
(* calling register_kprobe() for each probe, so the first hook sees those  *)
(* as well, with a caller that is the kernel and no module.                *)
(***************************************************************************)
EXTENDS Integers, Sequences, FiniteSets

CONSTANTS
    BatchCap,   \* probes of a batch the hook looks at (64)
    MaxBatch    \* bound: probes in a batch

ASSUME ProbeAssumption == BatchCap \in Nat \ {0} /\ MaxBatch \in Nat

VARIABLES
    call,      \* the registration in progress or just done
    reports    \* the events about it

probeVars == <<call, reports>>

\* What the hooks look at.  `sym' is the kind of symbol_name; a probe may be
\* registered by address and have none.  Handlers are anonymous when no symbol
\* covers their address.
Probe == [sym : {"watched", "other", "none"}, anon : BOOLEAN]

\* photon_is_watchlisted()
Watchlisted(p) == p.sym = "watched"

NoCall == [fn |-> "none", who |-> "foreign", probes |-> <<>>, i |-> 1, high |-> FALSE,
           flags |-> {}, at |-> "done"]

ProbeInit == call = NoCall /\ reports = {}

Called(fn, who, ps, high, at) ==
    /\ call.at = "done"
    /\ call' = [fn |-> fn, who |-> who, probes |-> ps, i |-> 1, high |-> high,
                flags |-> {}, at |-> at]
    /\ reports' = {}

-----------------------------------------------------------------------------
\* register_kprobe(), called by a module, or register_kretprobe(), or
\* register_kprobes(); `high' stands for maxactive above the threshold.
CallKprobe(who)    == \E p \in Probe : Called("kprobe", who, <<p>>, FALSE, "kprobe")
CallKretprobe(who) == \E p \in Probe, high \in BOOLEAN :
                         Called("kretprobe", who, <<p>>, high, "kretprobe")
CallKprobes(who)   == \E n \in 0..MaxBatch : \E ps \in [1..n -> Probe] :
                         Called("kprobes", who, ps, FALSE, "batch")

\* build_and_emit(): the severity follows from the flags.
Emitted(i, flags) ==
    [hook |-> "kretprobe", idx |-> i, flags |-> flags,
     severity |-> IF flags \cap {"ANON_HANDLER", "WATCHLISTED"} # {} THEN "critical"
                  ELSE "suspicious"]

\* The flags that the probe p gives rise to.
SignalFlags(p) == (IF Watchlisted(p) THEN {"WATCHLISTED"} ELSE {})
                  \cup (IF p.anon THEN {"ANON_HANDLER"} ELSE {})

\* hook_register_kretprobe()
KretprobeHook ==
    /\ call.at = "kretprobe"
    /\ LET flags == SignalFlags(call.probes[1]) \cup (IF call.high THEN {"HIGH_ACTIVE"} ELSE {})
       IN  reports' = IF call.who = "own" \/ flags = {} THEN reports
                      ELSE reports \cup {Emitted(1, flags)}
    /\ call' = [call EXCEPT !.at = "inner"]

Min2(a, b) == IF a <= b THEN a ELSE b

\* num = min(num_ul, 64)
LastSeen == Min2(Len(call.probes), BatchCap)

\* The flags an iteration begins with.
FreshFlags == {"BATCH"}

\* hook_register_kprobes(): one iteration of its loop; a probe whose only flag
\* is BATCH is passed over.
BatchStep ==
    /\ call.at = "batch" /\ call.who # "own" /\ call.i <= LastSeen
    /\ LET flags == FreshFlags \cup SignalFlags(call.probes[call.i])
       IN  /\ reports' = IF flags = {"BATCH"} THEN reports
                         ELSE reports \cup {Emitted(call.i, flags)}
           /\ call' = [call EXCEPT !.i = @ + 1, !.flags = flags]

BatchEnds ==
    /\ call.at = "batch" /\ (call.who = "own" \/ call.i > LastSeen)
    /\ call' = [call EXCEPT !.at = "inner", !.i = 1, !.flags = {}]
    /\ UNCHANGED reports

KprobeReports_SkipKernel(i, parent) ==
    LET p == call.probes[i]
    IN  IF parent # "foreign" \/ p.sym = "none" THEN {}
        ELSE {[hook |-> "kprobe", idx |-> i, flags |-> SignalFlags(p) \ {"ANON_HANDLER"},
               severity |-> IF Watchlisted(p) THEN "critical" ELSE "suspicious"]}

\* hook_kprobe_register() for the i-th probe, called from `parent'.
KprobeReports(i, parent) ==
    LET p == call.probes[i]
    IN  IF parent = "own" \/ p.sym = "none" THEN {}
        ELSE {[hook |-> "kprobe", idx |-> i, flags |-> SignalFlags(p) \ {"ANON_HANDLER"},
               severity |-> IF Watchlisted(p) THEN "critical" ELSE "suspicious"]}

KprobeHook ==
    /\ call.at = "kprobe"
    /\ reports' = reports \cup KprobeReports(1, call.who)
    /\ call' = [call EXCEPT !.at = "done", !.i = 2]

\* The kernel's register_kprobe() for the next probe of the call.
InnerRegister ==
    /\ call.at = "inner" /\ call.i <= Len(call.probes)
    /\ reports' = reports \cup KprobeReports(call.i, "kernel")
    /\ call' = [call EXCEPT !.i = @ + 1]

\* All are registered, or one is refused and the kernel takes back the others.
InnerEnds ==
    /\ call.at = "inner"
    /\ call' = [call EXCEPT !.at = "done"]
    /\ UNCHANGED reports

ProbeNext ==
    \/ \E who \in {"own", "foreign"} : CallKprobe(who) \/ CallKretprobe(who) \/ CallKprobes(who)
    \/ KretprobeHook \/ BatchStep \/ BatchEnds \/ KprobeHook \/ InnerRegister \/ InnerEnds

\* The two detectors by themselves.
ProbeSpec == ProbeInit /\ [][ProbeNext]_probeVars

-----------------------------------------------------------------------------
ProbeTypeOK ==
    /\ call.at \in {"kprobe", "kretprobe", "batch", "inner", "done"}
    /\ call.i \in 1..(Len(call.probes) + 1)
    /\ \A r \in reports : r.idx \in 1..Len(call.probes)

\* First part: a probe on a watchlisted symbol that another module registers by name is
\* reported as critical by the time the call returns, whichever of the three
\* functions is called and wherever in a batch the probe is, also past the
\* 64 that the batch hook looks at.
WatchedIsSeen ==
    call.at = "done" /\ call.who = "foreign" =>
        \A i \in 1..(call.i - 1) : Watchlisted(call.probes[i]) =>
            \E r \in reports : r.idx = i /\ r.severity = "critical"

\* Second part: a handler without a symbol is reported for a return probe and for every
\* probe of a batch up to the cap.
AnonymousIsSeen ==
    call.at \in {"inner", "done"} /\ call.who = "foreign" /\ call.fn # "kprobe" =>
        \A i \in 1..Min2(Len(call.probes), BatchCap) : call.probes[i].anon =>
            \E r \in reports : r.idx = i /\ "ANON_HANDLER" \in r.flags

\* Third part: a report about one probe says nothing that is true of another one
\* only; in a batch the flags of an iteration do not reach the next.
NoBorrowedFlags ==
    \A r \in reports : r.flags \ {"BATCH", "HIGH_ACTIVE"} \subseteq SignalFlags(call.probes[r.idx])

\* What another module registers is reported, probe by probe and as what it is,
\* through the nested hooks of kprobe_detector and kretprobe_detector.
ReportsFollowProbes == WatchedIsSeen /\ AnonymousIsSeen /\ NoBorrowedFlags
=============================================================================
