--------------------------- MODULE ModuleLifecycle ---------------------------
(***************************************************************************)
(* Loading and unloading the kernel module: photon_ring_init() brings up   *)
(* the event manager (per-CPU buffers, AEAD transform, frame ring,         *)
(* character device), then the detectors of a table in order.  A failure   *)
(* at any step rolls back what was done; photon_ring_exit() takes the same *)
(* way down.  Every hook that is registered can fire at any moment, in     *)
(* code of this module and into the event manager.                         *)
(***************************************************************************)
EXTENDS Naturals, Sequences, FiniteSets

CONSTANT Table      \* the sequence of detectors (see module Detectors)

Shape ==
    [hooks : Nat \ {0}, absent : {"skip", "abort"}, refused : {"skip", "abort"},
     sure : Nat, need : Nat, undo : {"all", "flag", "count"},
     flagged : {"success", "tried"}, addr : {"sets", "needs", "none"}]

ASSUME TableAssumption == Table \in Seq(Shape) /\ Len(Table) > 0

\* Detectors that remember which hooks they installed, and that fail only with
\* none installed or at the hook that stops them.
Regular(t) ==
    /\ t.undo # "count"
    /\ \/ t.need <= 1
       \/ t.absent = "abort" /\ t.refused = "abort" /\ t.need <= t.hooks

\* What event_manager_init() acquires, in its order.
Infra == <<"buffers", "tfm", "ring", "chrdev", "cdev", "class", "device">>

VARIABLES
    pc,          \* "unloaded", "infra", "init", "rollback", "loaded", "release"
    step,        \* position in Infra
    infra,       \* what the event manager holds
    d,           \* the detector being initialised or removed
    h,           \* the hook being installed by detector d
    active,      \* active_detectors
    registered,  \* hooks the kernel knows: pairs <<detector, hook>>
    flag,        \* hooks whose flag is set
    count,       \* hooks_installed of each detector
    kallsyms,    \* g_kallsyms_addr # 0
    warned       \* hooks the last cleanup unregistered without their being registered

static == <<flag, count, kallsyms>>
vars == <<pc, step, infra, d, h, active, registered, static, warned>>

HooksOf(i) == {i} \X (1 .. Table[i].hooks)

Hooks == UNION {HooksOf(i) : i \in DOMAIN Table}

AllInfra == {Infra[i] : i \in DOMAIN Infra}

TypeOK ==
    /\ pc \in {"unloaded", "infra", "init", "rollback", "loaded", "release"}
    /\ step \in 0 .. Len(Infra)
    /\ infra \subseteq AllInfra
    /\ d \in 0 .. Len(Table)
    /\ h \in Nat \ {0}
    /\ active \in 0 .. Len(Table)
    /\ registered \subseteq Hooks
    /\ flag \subseteq Hooks
    /\ count \in [DOMAIN Table -> Nat]
    /\ kallsyms \in BOOLEAN
    /\ warned \subseteq Hooks

\* No module in memory; leftover registrations belong to the kernel.
Init ==
    /\ pc = "unloaded" /\ step = 0 /\ infra = {}
    /\ d = 0 /\ h = 1 /\ active = 0
    /\ registered = {} /\ warned = {}
    /\ flag = {} /\ count = [i \in DOMAIN Table |-> 0] /\ kallsyms = FALSE

-----------------------------------------------------------------------------
\* event_manager_init() and its unwinding, event_manager_exit().

\* insmod: static variables start from zero.
Insmod ==
    /\ pc = "unloaded"
    /\ pc' = "infra" /\ step' = 1
    /\ d' = 0 /\ h' = 1 /\ active' = 0
    /\ flag' = {} /\ count' = [i \in DOMAIN Table |-> 0] /\ kallsyms' = FALSE
    /\ UNCHANGED <<infra, registered, warned>>

InfraAcquire ==
    /\ pc = "infra"
    /\ infra' = infra \cup {Infra[step]}
    /\ IF step < Len(Infra)
       THEN step' = step + 1 /\ UNCHANGED <<pc, d>>
       ELSE pc' = "init" /\ d' = 1 /\ UNCHANGED step
    /\ UNCHANGED <<h, active, registered, static, warned>>

\* The goto label releases what precedes the failed step.  A failed buffer
\* allocation frees every buffer, the missing ones included.
InfraFail ==
    /\ pc = "infra"
    /\ pc' = "release"
    /\ step' = IF step = 1 THEN 1 ELSE step - 1
    /\ UNCHANGED <<infra, d, h, active, registered, static, warned>>

InfraRelease ==
    /\ pc = "release"
    /\ infra' = infra \ {Infra[step]}
    /\ IF step > 1 THEN step' = step - 1 /\ UNCHANGED pc
                   ELSE pc' = "unloaded" /\ step' = 0
    /\ UNCHANGED <<d, h, active, registered, static, warned>>

-----------------------------------------------------------------------------
\* The init function of detector d, hook by hook.

Installing == pc = "init" /\ h <= Table[d].hooks

MayFail == Installing /\ h <= Table[d].hooks - Table[d].sure

Unregister(hooks) ==
    /\ registered' = registered \ hooks
    /\ warned' = hooks \ registered

\* What the cleanup code of detector i takes for installed.
Believed(i) ==
    CASE Table[i].undo = "all"   -> HooksOf(i)
      [] Table[i].undo = "flag"  -> HooksOf(i) \cap flag
      [] Table[i].undo = "count" -> {x \in HooksOf(i) : x[2] <= count[i]}

HookOk ==
    /\ Installing
    /\ Table[d].addr = "needs" => kallsyms
    /\ registered' = registered \cup {<<d, h>>}
    /\ flag' = flag \cup {<<d, h>>}
    /\ count' = [count EXCEPT ![d] = @ + 1]
    /\ kallsyms' = (kallsyms \/ Table[d].addr = "sets")
    /\ h' = h + 1
    /\ UNCHANGED <<pc, step, infra, d, active, warned>>

\* Init gives up on hook h: undo the hooks before it and report failure.
Abort ==
    /\ Unregister({x \in Believed(d) : x[2] < h})
    /\ count' = [count EXCEPT ![d] = 0]
    /\ pc' = "rollback" /\ d' = active /\ h' = 1
    /\ UNCHANGED <<step, infra, active, kallsyms>>

Skip ==
    /\ h' = h + 1
    /\ UNCHANGED <<pc, step, infra, d, active, registered, count, kallsyms, warned>>

\* The target is not found (no symbol, no filter, no address).
HookAbsent ==
    /\ MayFail
    /\ IF Table[d].absent = "abort" THEN Abort ELSE Skip
    /\ UNCHANGED flag

\* The target exists and its registration fails.
HookRefused ==
    /\ MayFail
    /\ Table[d].addr = "needs" => kallsyms
    /\ IF Table[d].refused = "abort" THEN Abort ELSE Skip
    /\ flag' = IF Table[d].flagged = "tried" THEN flag \cup {<<d, h>>} ELSE flag

DetectorDone_NoMinimum ==
    /\ pc = "init" /\ h > Table[d].hooks
    /\ active' = active + 1
    /\ IF d < Len(Table) THEN d' = d + 1 /\ UNCHANGED pc
                         ELSE pc' = "loaded" /\ UNCHANGED d
    /\ h' = 1
    /\ UNCHANGED <<step, infra, registered, static, warned>>

\* Init returns: too few hooks is a failure, otherwise the loop of
\* photon_ring_init() goes on.
DetectorDone ==
    /\ pc = "init" /\ h > Table[d].hooks
    /\ h' = 1
    /\ IF count[d] < Table[d].need
       THEN pc' = "rollback" /\ d' = active /\ UNCHANGED active
       ELSE /\ active' = active + 1
            /\ IF d < Len(Table) THEN d' = d + 1 /\ UNCHANGED pc
                                 ELSE pc' = "loaded" /\ UNCHANGED d
    /\ UNCHANGED <<step, infra, registered, static, warned>>

-----------------------------------------------------------------------------
\* The cleanup loops of photon_ring_init() and photon_ring_exit().

Rmmod_ManagerFirst ==
    /\ pc = "loaded"
    /\ pc' = "release" /\ step' = Len(Infra) /\ d' = active
    /\ UNCHANGED <<infra, h, active, registered, static, warned>>

Rmmod ==
    /\ pc = "loaded"
    /\ pc' = "rollback" /\ d' = active
    /\ UNCHANGED <<step, infra, h, active, registered, static, warned>>

\* detectors[i].exit().
DetectorExit ==
    /\ pc = "rollback" /\ d > 0
    /\ Unregister(Believed(d))
    /\ flag' = flag \ HooksOf(d)
    /\ count' = [count EXCEPT ![d] = 0]
    /\ kallsyms' = (kallsyms /\ Table[d].addr # "sets")
    /\ d' = d - 1
    /\ UNCHANGED <<pc, step, infra, h, active>>

AllDetectorsGone_OffByOne ==
    /\ pc = "rollback" /\ d <= 1
    /\ pc' = "release" /\ step' = Len(Infra)
    /\ UNCHANGED <<infra, d, h, active, registered, static, warned>>

\* The loop ends and event_manager_exit() runs.
AllDetectorsGone ==
    /\ pc = "rollback" /\ d = 0
    /\ pc' = "release" /\ step' = Len(Infra)
    /\ UNCHANGED <<infra, d, h, active, registered, static, warned>>

Next ==
    \/ Insmod
    \/ InfraAcquire
    \/ InfraFail
    \/ InfraRelease
    \/ HookOk
    \/ HookAbsent
    \/ HookRefused
    \/ DetectorDone
    \/ Rmmod
    \/ DetectorExit
    \/ AllDetectorsGone

Spec == Init /\ [][Next]_vars

-----------------------------------------------------------------------------
(***************************************************************************)
(* Properties.                                                             *)
(***************************************************************************)

\* Once the module is out of memory, after a failed load as after an unload,
\* no hook points into it and the event manager holds nothing.
NothingOutlivesModule ==
    pc = "unloaded" => registered = {} /\ infra = {}

\* A registered hook may fire at any time and logs through the event manager,
\* so the event manager is up before the first hook and until after the last.
HooksNeedManager ==
    registered # {} => infra = AllInfra

\* "All detectors active": after a successful load every detector that must
\* watch something has its minimum of hooks in place.
LoadedMeansWatching ==
    pc = "loaded" => \A i \in DOMAIN Table :
        Cardinality(HooksOf(i) \cap registered) >= Table[i].need

\* hiding_stat.h: exit "should reverse everything done in hiding_stat_init(),
\* such as removing hooks".
ExitReversesInit ==
    (pc = "rollback" /\ d = 0) => registered = {}
=============================================================================
