--------------------------- MODULE LifecycleProofs ---------------------------
(***************************************************************************)
(* For every table of regular detectors, whatever fails during loading:    *)
(* hooks are registered only while the whole event manager is up, and none *)
(* is left once the module is gone.  For every table at all: a module that *)
(* reports success watches what its detectors must watch.                  *)
(***************************************************************************)
EXTENDS ModuleLifecycle, TLAPS, FiniteSetTheorems

RegularTable == \A i \in DOMAIN Table : Regular(Table[i])

-----------------------------------------------------------------------------
\* The inductive invariant, in parts.

TypesInv ==
    /\ pc \in {"unloaded", "infra", "init", "rollback", "loaded", "release"}
    /\ d \in 0 .. Len(Table)
    /\ active \in 0 .. Len(Table)
    /\ h \in Nat \ {0}
    /\ step \in 0 .. 7
    /\ registered \subseteq Hooks
    /\ count \in [DOMAIN Table -> Nat]

\* How much of the event manager is up at each point.
InfraInv ==
    /\ pc = "infra" => step \in 1 .. 7 /\ infra = {Infra[i] : i \in 1 .. (step - 1)}
    /\ pc = "release" => step \in 1 .. 7 /\ infra \subseteq {Infra[i] : i \in 1 .. step}
    /\ pc = "unloaded" => infra = {}
    /\ pc \in {"init", "rollback", "loaded"} => infra = AllInfra

\* Which detectors may have hooks at each point.
ScopeInv ==
    /\ pc \in {"unloaded", "infra", "release"} => registered = {}
    /\ pc = "infra" => active = 0 /\ h = 1
    /\ pc = "init" =>
         /\ d = active + 1 /\ d \in DOMAIN Table
         /\ h <= Table[d].hooks + 1
         /\ \A x \in registered : x[1] <= active \/ (x[1] = d /\ x[2] < h)
    /\ pc = "rollback" => \A x \in registered : x[1] <= d
    /\ pc = "loaded" => \A x \in registered : x[1] <= active

\* A detector that goes by its flags has the flag of every registered hook.
FlagInv ==
    \A x \in registered : Table[x[1]].undo = "flag" => x \in flag

\* The count of the detector being initialised.
CountInv ==
    pc \in {"infra", "init"} =>
      /\ \A i \in DOMAIN Table : (pc = "infra" \/ i > d) => count[i] = 0
      /\ pc = "init" =>
           /\ count[d] = 0 => \A x \in registered : x[1] # d
           /\ (Table[d].absent = "abort" /\ Table[d].refused = "abort")
                => count[d] = h - 1

IInv == TypesInv /\ InfraInv /\ ScopeInv /\ FlagInv /\ CountInv

-----------------------------------------------------------------------------
\* The table is a non-empty sequence of shapes.
LEMMA TableShapes ==
    /\ Len(Table) \in Nat \ {0} /\ DOMAIN Table = 1 .. Len(Table)
    /\ \A i \in DOMAIN Table :
         /\ Table[i].hooks \in Nat \ {0}
         /\ Table[i].need \in Nat
         /\ Table[i].undo \in {"all", "flag", "count"}
         /\ Table[i].absent \in {"skip", "abort"}
         /\ Table[i].refused \in {"skip", "abort"}
  <1>1. Table \in Seq(Shape) /\ Len(Table) > 0
    BY TableAssumption
  <1>2. Len(Table) \in Nat \ {0} /\ DOMAIN Table = 1 .. Len(Table)
    BY <1>1
  <1>3. \A i \in DOMAIN Table : Table[i] \in Shape
    BY <1>1, <1>2
  <1> QED BY <1>2, <1>3 DEF Shape

\* A hook is the pair of its detector and its number.
LEMMA HookPairs ==
    ASSUME NEW x \in Hooks
    PROVE  /\ x = <<x[1], x[2]>>
           /\ x[1] \in DOMAIN Table
           /\ x[2] \in 1 .. Table[x[1]].hooks
           /\ \A i \in DOMAIN Table : x \in HooksOf(i) <=> x[1] = i
  <1>1. PICK i \in DOMAIN Table : x \in HooksOf(i)
    BY DEF Hooks
  <1>2. PICK n \in 1 .. Table[i].hooks : x = <<i, n>>
    BY <1>1 DEF HooksOf
  <1> QED BY <1>2 DEF HooksOf

\* Infra has seven entries.
LEMMA InfraFacts ==
    /\ Len(Infra) = 7 /\ DOMAIN Infra = 1 .. 7
    /\ AllInfra = {Infra[i] : i \in 1 .. 7}
  <1>1. Len(Infra) = 7 /\ DOMAIN Infra = 1 .. 7
    BY DEF Infra
  <1> QED BY <1>1 DEF AllInfra

LEMMA InitEstablishes == Init => IInv
  <1> SUFFICES ASSUME Init PROVE IInv
    OBVIOUS
  <1>1. TypesInv
    BY TableShapes DEF Init, TypesInv
  <1>2. InfraInv
    BY DEF Init, InfraInv
  <1>3. ScopeInv /\ FlagInv /\ CountInv
    BY DEF Init, ScopeInv, FlagInv, CountInv
  <1> QED BY <1>1, <1>2, <1>3 DEF IInv

-----------------------------------------------------------------------------
\* One lemma per part of the invariant, one step per action.

LEMMA TypesInductive == IInv /\ [Next]_vars => TypesInv'
  <1> SUFFICES ASSUME IInv, [Next]_vars PROVE TypesInv'
    OBVIOUS
  <1>1. CASE Insmod
    BY <1>1, TableShapes DEF Insmod, IInv, TypesInv
  <1>2. CASE InfraAcquire
    BY <1>2, TableShapes, InfraFacts
    DEF InfraAcquire, IInv, TypesInv, InfraInv, static
  <1>3. CASE InfraFail
    BY <1>3 DEF InfraFail, IInv, TypesInv, InfraInv, static
  <1>4. CASE InfraRelease
    BY <1>4 DEF InfraRelease, IInv, TypesInv, InfraInv, static
  <1>5. CASE HookOk
    <2>1. d \in DOMAIN Table /\ h \in 1 .. Table[d].hooks
      BY <1>5, TableShapes DEF HookOk, Installing, IInv, TypesInv, ScopeInv
    <2>2. <<d, h>> \in Hooks
      BY <2>1 DEF Hooks, HooksOf
    <2> QED BY <1>5, <2>1, <2>2 DEF HookOk, IInv, TypesInv
  <1>6. CASE HookAbsent \/ HookRefused
    <2>1. CASE Abort
      <3>1. count' \in [DOMAIN Table -> Nat]
        BY <2>1 DEF Abort, IInv, TypesInv
      <3>2. /\ registered' \subseteq registered /\ pc' = "rollback" /\ d' = active
            /\ h' = 1 /\ UNCHANGED <<step, active>>
        BY <2>1 DEF Abort, Unregister
      <3> QED BY <3>1, <3>2 DEF IInv, TypesInv
    <2>2. CASE Skip
      BY <2>2 DEF Skip, IInv, TypesInv
    <2> QED BY <1>6, <2>1, <2>2 DEF HookAbsent, HookRefused
  <1>7. CASE DetectorDone
    BY <1>7, TableShapes
    DEF DetectorDone, IInv, TypesInv, ScopeInv, static
  <1>8. CASE Rmmod
    BY <1>8 DEF Rmmod, IInv, TypesInv, static
  <1>9. CASE DetectorExit
    BY <1>9, TableShapes DEF DetectorExit, Unregister, IInv, TypesInv
  <1>10. CASE AllDetectorsGone
    BY <1>10, InfraFacts DEF AllDetectorsGone, IInv, TypesInv, static
  <1>11. CASE UNCHANGED vars
    BY <1>11 DEF vars, IInv, TypesInv, static
  <1> QED
    BY <1>1, <1>2, <1>3, <1>4, <1>5, <1>6, <1>7, <1>8, <1>9, <1>10, <1>11
    DEF Next

LEMMA InfraInductive == IInv /\ [Next]_vars => InfraInv'
  <1> SUFFICES ASSUME IInv, [Next]_vars PROVE InfraInv'
    OBVIOUS
  <1>1. CASE Insmod
    BY <1>1 DEF Insmod, IInv, InfraInv
  <1>2. CASE InfraAcquire
    <2>1. /\ pc = "infra" /\ step \in 1 .. 7
          /\ infra' = {Infra[i] : i \in 1 .. step}
      BY <1>2 DEF InfraAcquire, IInv, InfraInv
    <2>2. CASE step < 7
      BY <1>2, <2>1, <2>2, InfraFacts DEF InfraAcquire, InfraInv
    <2>3. CASE step = 7
      BY <1>2, <2>1, <2>3, InfraFacts DEF InfraAcquire, InfraInv
    <2> QED BY <2>1, <2>2, <2>3
  <1>3. CASE InfraFail
    BY <1>3 DEF InfraFail, IInv, InfraInv
  <1>4. CASE InfraRelease
    <2>1. /\ pc = "release" /\ step \in 1 .. 7
          /\ infra' \subseteq {Infra[i] : i \in 1 .. (step - 1)}
      BY <1>4 DEF InfraRelease, IInv, InfraInv
    <2> QED BY <1>4, <2>1 DEF InfraRelease, InfraInv
  <1>5. CASE HookOk \/ HookAbsent \/ HookRefused
    BY <1>5
    DEF HookOk, HookAbsent, HookRefused, Installing, MayFail, Abort, Skip,
        IInv, InfraInv
  <1>6. CASE DetectorDone \/ Rmmod \/ DetectorExit
    BY <1>6 DEF DetectorDone, Rmmod, DetectorExit, IInv, InfraInv
  <1>7. CASE AllDetectorsGone
    BY <1>7, InfraFacts DEF AllDetectorsGone, IInv, InfraInv
  <1>8. CASE UNCHANGED vars
    BY <1>8 DEF vars, IInv, InfraInv
  <1> QED BY <1>1, <1>2, <1>3, <1>4, <1>5, <1>6, <1>7, <1>8 DEF Next

\* What the undoing of a failed init leaves: no hook of detector d.
LEMMA AbortScope ==
    ASSUME RegularTable, IInv, Installing, Abort
    PROVE  \A x \in registered' : x[1] <= active
  <1>1. d \in DOMAIN Table /\ h \in Nat /\ active \in Nat /\ registered \subseteq Hooks
    BY TableShapes DEF IInv, TypesInv, ScopeInv, Installing
  <1>2. Table[d].undo \in {"all", "flag"}
    BY <1>1, TableShapes DEF RegularTable, Regular
  <1>3. SUFFICES ASSUME NEW x \in registered, x[1] = d
                 PROVE  x \notin registered'
    BY DEF IInv, ScopeInv, Installing, Abort, Unregister
  <1>4. x \in HooksOf(d) /\ x[2] < h
    BY <1>1, <1>3, HookPairs DEF IInv, ScopeInv, Installing
  <1>5. Table[d].undo = "flag" => x \in flag
    BY <1>3 DEF IInv, FlagInv
  <1>6. x \in Believed(d)
    BY <1>2, <1>4, <1>5 DEF Believed
  <1> QED BY <1>4, <1>6 DEF Abort, Unregister

LEMMA ScopeInductive == RegularTable /\ IInv /\ [Next]_vars => ScopeInv'
  <1> SUFFICES ASSUME RegularTable, IInv, [Next]_vars PROVE ScopeInv'
    OBVIOUS
  <1>1. CASE Insmod
    BY <1>1 DEF Insmod, IInv, ScopeInv
  <1>2. CASE InfraAcquire
    BY <1>2, TableShapes DEF InfraAcquire, IInv, TypesInv, ScopeInv, CountInv, static
  <1>3. CASE InfraFail \/ InfraRelease
    BY <1>3 DEF InfraFail, InfraRelease, IInv, ScopeInv
  <1>4. CASE HookOk
    <2>1. /\ pc = "init" /\ h \in 1 .. Table[d].hooks /\ d \in DOMAIN Table
          /\ Table[d].hooks \in Nat
      BY <1>4, TableShapes DEF HookOk, Installing, IInv, TypesInv, ScopeInv
    <2>2. ASSUME NEW x \in registered'
          PROVE  x[1] <= active \/ (x[1] = d /\ x[2] < h + 1)
      <3>1. CASE x = <<d, h>>
        BY <2>1, <3>1
      <3>2. CASE x \in registered
        <4>1. x[2] \in Nat
          BY <3>2, HookPairs DEF IInv, TypesInv
        <4> QED BY <2>1, <3>2, <4>1 DEF IInv, ScopeInv
      <3> QED BY <1>4, <2>2, <3>1, <3>2 DEF HookOk
    <2> QED BY <1>4, <2>1, <2>2 DEF HookOk, IInv, ScopeInv
  <1>5. CASE HookAbsent \/ HookRefused
    <2>1. CASE Abort
      BY <1>5, <2>1, AbortScope
      DEF HookAbsent, HookRefused, MayFail, Abort, ScopeInv
    <2>2. CASE Skip
      <3>1. /\ pc = "init" /\ h \in 1 .. Table[d].hooks /\ d \in DOMAIN Table
            /\ Table[d].hooks \in Nat
        BY <1>5, TableShapes
        DEF HookAbsent, HookRefused, MayFail, Installing, IInv, TypesInv, ScopeInv
      <3>2. \A x \in registered : x[2] \in Nat
        BY HookPairs DEF IInv, TypesInv
      <3>3. \A x \in registered : x[1] <= active \/ (x[1] = d /\ x[2] < h + 1)
        BY <3>1, <3>2 DEF IInv, ScopeInv
      <3> QED BY <2>2, <3>1, <3>3 DEF Skip, IInv, ScopeInv
    <2> QED BY <1>5, <2>1, <2>2 DEF HookAbsent, HookRefused
  <1>6. CASE DetectorDone
    <2>1. pc = "init" /\ d = active + 1 /\ d \in DOMAIN Table /\ h = Table[d].hooks + 1
      <3>1. /\ pc = "init" /\ d = active + 1 /\ d \in DOMAIN Table
            /\ h > Table[d].hooks /\ h <= Table[d].hooks + 1 /\ h \in Nat
        BY <1>6 DEF DetectorDone, IInv, TypesInv, ScopeInv
      <3>2. Table[d].hooks \in Nat
        BY <3>1, TableShapes
      <3> QED BY <3>1, <3>2
    <2>2. CASE count[d] < Table[d].need
      <3>1. count[d] = 0
        BY <2>1, <2>2, TableShapes
        DEF RegularTable, Regular, IInv, TypesInv, CountInv
      <3>2. \A x \in registered : x[1] <= active
        BY <2>1, <3>1 DEF IInv, ScopeInv, CountInv
      <3> QED BY <1>6, <2>2, <3>2 DEF DetectorDone, ScopeInv
    <2>3. CASE ~(count[d] < Table[d].need)
      <3>1. \A x \in registered : x[1] <= active'
        <4>1. active' = active + 1 /\ active \in Nat
          BY <1>6, <2>3 DEF DetectorDone, IInv, TypesInv
        <4>2. \A x \in registered : x[1] \in Nat /\ (x[1] <= active \/ x[1] = d)
          BY <2>1, HookPairs, TableShapes DEF IInv, TypesInv, ScopeInv
        <4> QED BY <2>1, <4>1, <4>2
      <3>2. CASE d < Len(Table)
        <4>1. /\ pc' = "init" /\ d' = d + 1 /\ d' \in DOMAIN Table /\ h' = 1
              /\ active' = active + 1 /\ registered' = registered
          BY <1>6, <2>1, <2>3, <3>2, TableShapes DEF DetectorDone
        <4>2. h' <= Table[d'].hooks + 1
          BY <4>1, TableShapes
        <4> QED BY <2>1, <3>1, <4>1, <4>2 DEF ScopeInv
      <3>3. CASE ~(d < Len(Table))
        BY <1>6, <2>1, <2>3, <3>1, <3>3 DEF DetectorDone, ScopeInv
      <3> QED BY <3>2, <3>3
    <2> QED BY <2>2, <2>3
  <1>7. CASE Rmmod
    BY <1>7 DEF Rmmod, IInv, ScopeInv
  <1>8. CASE DetectorExit
    <2>1. d \in DOMAIN Table /\ registered \subseteq Hooks
      BY <1>8, TableShapes DEF DetectorExit, IInv, TypesInv
    <2>2. Table[d].undo \in {"all", "flag"}
      BY <2>1, TableShapes DEF RegularTable, Regular
    <2>3. ASSUME NEW x \in registered' PROVE x[1] <= d - 1
      <3>1. x \in registered /\ x \notin Believed(d)
        BY <1>8, <2>3 DEF DetectorExit, Unregister
      <3>2. x[1] \in DOMAIN Table /\ x[1] <= d /\ (x[1] = d => x \in HooksOf(d))
        BY <1>8, <2>1, <3>1, HookPairs DEF DetectorExit, IInv, ScopeInv
      <3>3. x[1] # d
        BY <2>2, <3>1, <3>2 DEF Believed, IInv, FlagInv
      <3> QED BY <2>1, <3>2, <3>3, TableShapes
    <2> QED BY <1>8, <2>3 DEF DetectorExit, ScopeInv
  <1>9. CASE AllDetectorsGone
    <2>1. \A x \in registered : x[1] <= 0 /\ x[1] \in DOMAIN Table
      BY <1>9, HookPairs DEF AllDetectorsGone, IInv, TypesInv, ScopeInv
    <2>2. registered = {}
      BY <2>1, TableShapes
    <2> QED BY <1>9, <2>2 DEF AllDetectorsGone, ScopeInv
  <1>10. CASE UNCHANGED vars
    BY <1>10 DEF vars, IInv, ScopeInv
  <1> QED
    BY <1>1, <1>2, <1>3, <1>4, <1>5, <1>6, <1>7, <1>8, <1>9, <1>10 DEF Next

LEMMA FlagInductive == RegularTable /\ IInv /\ [Next]_vars => FlagInv'
  <1> SUFFICES ASSUME RegularTable, IInv, [Next]_vars PROVE FlagInv'
    OBVIOUS
  <1>1. CASE Insmod
    BY <1>1 DEF Insmod, IInv, ScopeInv, FlagInv
  <1>2. CASE HookOk
    BY <1>2 DEF HookOk, IInv, FlagInv
  <1>3. CASE HookAbsent \/ HookRefused
    BY <1>3 DEF HookAbsent, HookRefused, Abort, Skip, Unregister, IInv, FlagInv
  <1>4. CASE DetectorExit
    <2>1. d \in DOMAIN Table /\ registered \subseteq Hooks
      BY <1>4, TableShapes DEF DetectorExit, IInv, TypesInv
    <2>2. ASSUME NEW x \in registered', Table[x[1]].undo = "flag"
          PROVE  x \in flag'
      <3>1. x \in registered /\ x \notin Believed(d) /\ x \in flag
        BY <1>4, <2>2 DEF DetectorExit, Unregister, IInv, FlagInv
      <3>2. x \in HooksOf(d) => Table[d].undo = "flag"
        BY <2>1, <2>2, <3>1, HookPairs
      <3>3. x \notin HooksOf(d)
        BY <3>1, <3>2 DEF Believed
      <3> QED BY <1>4, <3>1, <3>3 DEF DetectorExit
    <2> QED BY <2>2 DEF FlagInv
  <1>5. CASE InfraAcquire \/ InfraFail \/ InfraRelease
    BY <1>5 DEF InfraAcquire, InfraFail, InfraRelease, static, IInv, FlagInv
  <1>6. CASE DetectorDone \/ Rmmod \/ AllDetectorsGone
    BY <1>6 DEF DetectorDone, Rmmod, AllDetectorsGone, static, IInv, FlagInv
  <1>7. CASE UNCHANGED vars
    BY <1>7 DEF vars, static, IInv, FlagInv
  <1> QED BY <1>1, <1>2, <1>3, <1>4, <1>5, <1>6, <1>7 DEF Next

LEMMA CountInductive == IInv /\ [Next]_vars => CountInv'
  <1> SUFFICES ASSUME IInv, [Next]_vars PROVE CountInv'
    OBVIOUS
  <1>1. CASE Insmod
    BY <1>1 DEF Insmod, CountInv
  <1>2. CASE InfraAcquire
    BY <1>2, TableShapes
    DEF InfraAcquire, static, IInv, TypesInv, ScopeInv, CountInv
  <1>3. CASE HookOk
    <2>1. /\ pc = "init" /\ h \in Nat /\ d \in DOMAIN Table
          /\ count[d] \in Nat /\ count'[d] = count[d] + 1
          /\ \A i \in DOMAIN Table : i # d => count'[i] = count[i]
      BY <1>3 DEF HookOk, Installing, IInv, TypesInv, ScopeInv
    <2> QED BY <1>3, <2>1, TableShapes DEF HookOk, IInv, CountInv
  <1>4. CASE HookAbsent \/ HookRefused
    <2>1. CASE Abort
      BY <2>1 DEF Abort, CountInv
    <2>2. CASE Skip /\ ~(Table[d].absent = "abort" /\ Table[d].refused = "abort")
      BY <2>2 DEF Skip, IInv, CountInv
    <2> QED BY <1>4, <2>1, <2>2 DEF HookAbsent, HookRefused
  <1>5. CASE DetectorDone
    <2>1. CASE pc' = "init"
      <3>1. /\ pc = "init" /\ d = active + 1 /\ d \in DOMAIN Table /\ active \in Nat
            /\ d' = d + 1 /\ d' \in DOMAIN Table /\ h' = 1
            /\ UNCHANGED <<count, registered>>
        BY <1>5, <2>1, TableShapes
        DEF DetectorDone, static, IInv, TypesInv, ScopeInv
      <3>2. \A i \in DOMAIN Table : i > d => count[i] = 0
        BY <3>1 DEF IInv, CountInv
      <3>3. \A x \in registered : x[1] # d + 1
        BY <3>1, TableShapes DEF IInv, ScopeInv
      <3> QED BY <2>1, <3>1, <3>2, <3>3, TableShapes DEF CountInv
    <2>2. CASE pc' # "init"
      BY <1>5, <2>2 DEF DetectorDone, CountInv
    <2> QED BY <2>1, <2>2
  <1>6. CASE InfraFail \/ InfraRelease
    BY <1>6 DEF InfraFail, InfraRelease, CountInv
  <1>7. CASE Rmmod \/ DetectorExit \/ AllDetectorsGone
    BY <1>7 DEF Rmmod, DetectorExit, AllDetectorsGone, CountInv
  <1>8. CASE UNCHANGED vars
    BY <1>8 DEF vars, static, IInv, CountInv
  <1> QED BY <1>1, <1>2, <1>3, <1>4, <1>5, <1>6, <1>7, <1>8 DEF Next

-----------------------------------------------------------------------------
\* The parts together are inductive.
THEOREM LifecycleInvariant ==
    ASSUME RegularTable
    PROVE  Spec => []IInv
  <1>1. IInv /\ [Next]_vars => IInv'
    BY RegularTable, TypesInductive, InfraInductive, ScopeInductive, FlagInductive,
       CountInductive
    DEF IInv
  <1> QED BY <1>1, InitEstablishes, PTL DEF Spec

\* Whatever step of photon_ring_init() fails, and after every unload, no hook
\* and no resource of the event manager outlives the module.
THEOREM NothingOutlives ==
    ASSUME RegularTable
    PROVE  Spec => []NothingOutlivesModule
  <1>1. Spec => []IInv
    BY RegularTable, LifecycleInvariant
  <1>2. IInv => NothingOutlivesModule
    BY DEF IInv, InfraInv, ScopeInv, NothingOutlivesModule
  <1> QED BY <1>1, <1>2, PTL

\* Hooks are registered only while the whole event manager is up.
THEOREM HooksHaveManager ==
    ASSUME RegularTable
    PROVE  Spec => []HooksNeedManager
  <1>1. Spec => []IInv
    BY RegularTable, LifecycleInvariant
  <1>2. IInv => HooksNeedManager
    BY DEF IInv, TypesInv, InfraInv, ScopeInv, HooksNeedManager
  <1> QED BY <1>1, <1>2, PTL

\* The exit functions of regular detectors remove every hook their init
\* functions left, so the loop of main.c ends with none registered.
THEOREM RegularExitReversesInit ==
    ASSUME RegularTable
    PROVE  Spec => []ExitReversesInit
  <1>1. Spec => []IInv
    BY RegularTable, LifecycleInvariant
  <1>2. IInv => ExitReversesInit
    <2> SUFFICES ASSUME IInv, pc = "rollback", d = 0 PROVE registered = {}
      BY DEF ExitReversesInit
    <2>1. \A x \in registered : x[1] <= 0 /\ x[1] \in DOMAIN Table
      BY HookPairs DEF IInv, TypesInv, ScopeInv
    <2> QED BY <2>1, TableShapes
  <1> QED BY <1>1, <1>2, PTL

-----------------------------------------------------------------------------
(***************************************************************************)
(* That a loaded module watches does not need regular detectors: a count   *)
(* never exceeds the hooks in place, even where earlier loads left some.   *)
(***************************************************************************)
Seen == {x \in HooksOf(d) \cap registered : x[2] < h}
Watches(i) == Cardinality(HooksOf(i) \cap registered) >= Table[i].need

WatchTypes ==
    /\ pc \in {"unloaded", "infra", "init", "rollback", "loaded", "release"}
    /\ d \in 0 .. Len(Table) /\ active \in 0 .. Len(Table)
    /\ h \in Nat \ {0}
    /\ count \in [DOMAIN Table -> Nat]

LoadInv ==
    /\ pc = "infra" => active = 0 /\ \A i \in DOMAIN Table : count[i] = 0
    /\ pc = "init" => /\ d = active + 1 /\ d \in DOMAIN Table
                      /\ \A i \in DOMAIN Table : i > d => count[i] = 0
                      /\ count[d] <= Cardinality(Seen)
                      /\ \A i \in DOMAIN Table : i < d => Watches(i)
    /\ LoadedMeansWatching

WatchInv == WatchTypes /\ LoadInv

\* A detector has finitely many hooks, and so has each part of them.
LEMMA FewHooks ==
    ASSUME NEW i \in DOMAIN Table, NEW S, S \subseteq HooksOf(i)
    PROVE  IsFiniteSet(S) /\ Cardinality(S) \in Nat
  <1>1. Table[i].hooks \in Nat
    BY TableShapes
  <1>2. IsFiniteSet(1 .. Table[i].hooks)
    BY <1>1, FS_Interval
  <1>3. IsFiniteSet({i})
    BY FS_Singleton
  <1>4. IsFiniteSet(HooksOf(i))
    BY <1>2, <1>3, FS_Product DEF HooksOf
  <1>5. IsFiniteSet(S)
    BY <1>4, FS_Subset
  <1> QED BY <1>5, FS_CardinalityType

\* Hooks that are added to a detector's hooks in place only add to their number.
LEMMA MoreHooks ==
    ASSUME NEW i \in DOMAIN Table, NEW S, NEW T, T \subseteq HooksOf(i), S \subseteq T
    PROVE  Cardinality(S) <= Cardinality(T)
  <1>1. IsFiniteSet(T)
    BY FewHooks
  <1> QED BY <1>1, FS_Subset

LEMMA InitWatch == Init => WatchInv
  BY TableShapes DEF Init, WatchInv, WatchTypes, LoadInv, LoadedMeansWatching

LEMMA NextWatchTypes == WatchInv /\ [Next]_vars => WatchTypes'
  <1> SUFFICES ASSUME WatchInv, [Next]_vars PROVE WatchTypes'
    OBVIOUS
  <1> USE DEF WatchInv
  <1>1. CASE Insmod
    BY <1>1, TableShapes DEF Insmod, WatchTypes
  <1>2. CASE InfraAcquire \/ InfraFail \/ InfraRelease
    BY <1>2, TableShapes DEF InfraAcquire, InfraFail, InfraRelease, WatchTypes, static
  <1>3. CASE HookOk
    <2>1. d \in DOMAIN Table /\ count[d] \in Nat
      BY <1>3 DEF HookOk, Installing, WatchTypes, LoadInv
    <2>2. count' \in [DOMAIN Table -> Nat]
      BY <1>3, <2>1 DEF HookOk, WatchTypes
    <2> QED BY <1>3, <2>2 DEF HookOk, WatchTypes
  <1>4. CASE HookAbsent \/ HookRefused
    BY <1>4 DEF HookAbsent, HookRefused, Abort, Skip, WatchTypes
  <1>5. CASE DetectorDone
    BY <1>5, TableShapes DEF DetectorDone, WatchTypes, LoadInv, static
  <1>6. CASE Rmmod \/ AllDetectorsGone
    BY <1>6 DEF Rmmod, AllDetectorsGone, WatchTypes, static
  <1>7. CASE DetectorExit
    BY <1>7, TableShapes DEF DetectorExit, WatchTypes
  <1>8. CASE UNCHANGED vars
    BY <1>8 DEF vars, static, WatchTypes
  <1> QED BY <1>1, <1>2, <1>3, <1>4, <1>5, <1>6, <1>7, <1>8 DEF Next

\* Another hook in place: the count and the hooks behind it grow together.
LEMMA HookOkWatch ==
    ASSUME WatchInv, HookOk
    PROVE  LoadInv'
  <1>1. /\ pc = "init" /\ d \in DOMAIN Table /\ h \in 1 .. Table[d].hooks
        /\ pc' = pc /\ d' = d /\ active' = active /\ h' = h + 1
        /\ registered' = registered \cup {<<d, h>>}
        /\ count[d] \in Nat /\ count'[d] = count[d] + 1
        /\ \A i \in DOMAIN Table : i # d => count'[i] = count[i]
    BY TableShapes DEF HookOk, Installing, WatchInv, WatchTypes, LoadInv
  <1>2. Seen \subseteq HooksOf(d) /\ <<d, h>> \notin Seen /\ <<d, h>> \in HooksOf(d)
    BY <1>1, TableShapes DEF Seen, HooksOf
  <1>3. Seen \cup {<<d, h>>} \subseteq Seen'
    <2>1. \A x \in HooksOf(d) : x[2] \in Nat
      BY <1>1, TableShapes DEF HooksOf
    <2> QED BY <1>1, <1>2, <2>1 DEF Seen, HooksOf
  <1>4. Seen' \subseteq HooksOf(d)
    BY <1>1 DEF Seen, HooksOf
  <1>5. Cardinality(Seen \cup {<<d, h>>}) = Cardinality(Seen) + 1
    BY <1>1, <1>2, FewHooks, FS_AddElement
  <1>6. Cardinality(Seen \cup {<<d, h>>}) <= Cardinality(Seen')
    BY <1>1, <1>3, <1>4, MoreHooks
  <1>7. Cardinality(Seen) \in Nat /\ Cardinality(Seen') \in Nat
    BY <1>1, <1>2, <1>4, FewHooks
  <1>8. count'[d] <= Cardinality(Seen')
    BY <1>1, <1>5, <1>6, <1>7 DEF WatchInv, LoadInv
  <1>9. ASSUME NEW i \in DOMAIN Table, i < d PROVE Watches(i)'
    <2>1. Cardinality(HooksOf(i) \cap registered) <= Cardinality(HooksOf(i) \cap registered')
      BY <1>1, MoreHooks
    <2>2. /\ Cardinality(HooksOf(i) \cap registered) \in Nat
          /\ Cardinality(HooksOf(i) \cap registered') \in Nat /\ Table[i].need \in Nat
      BY FewHooks, TableShapes
    <2>3. Watches(i)
      BY <1>1, <1>9 DEF WatchInv, LoadInv
    <2> QED BY <2>1, <2>2, <2>3 DEF Watches, HooksOf
  <1> QED BY <1>1, <1>8, <1>9, TableShapes DEF WatchInv, LoadInv, LoadedMeansWatching

\* A hook that is skipped leaves the count behind the hooks in place.
LEMMA SkipWatch ==
    ASSUME WatchInv, Installing, Skip
    PROVE  LoadInv'
  <1>1. /\ pc = "init" /\ d \in DOMAIN Table /\ h \in Nat
        /\ pc' = pc /\ d' = d /\ active' = active /\ h' = h + 1
        /\ registered' = registered /\ count' = count /\ count[d] \in Nat
    BY DEF Skip, Installing, WatchInv, WatchTypes, LoadInv
  <1>2. Seen \subseteq Seen' /\ Seen' \subseteq HooksOf(d) /\ Seen \subseteq HooksOf(d)
    <2>1. \A x \in HooksOf(d) : x[2] \in Nat
      BY <1>1, TableShapes DEF HooksOf
    <2> QED BY <1>1, <2>1 DEF Seen, HooksOf
  <1>3. Cardinality(Seen) <= Cardinality(Seen')
    BY <1>1, <1>2, MoreHooks
  <1>4. Cardinality(Seen) \in Nat /\ Cardinality(Seen') \in Nat
    BY <1>1, <1>2, FewHooks
  <1>5. count'[d] <= Cardinality(Seen')
    BY <1>1, <1>3, <1>4 DEF WatchInv, LoadInv
  <1>6. ASSUME NEW i \in DOMAIN Table, i < d PROVE Watches(i)'
    <2>1. Watches(i)
      BY <1>1, <1>6 DEF WatchInv, LoadInv
    <2> QED BY <1>1, <2>1 DEF Watches, HooksOf
  <1> QED BY <1>1, <1>5, <1>6 DEF WatchInv, LoadInv, LoadedMeansWatching

\* An init function that returns success has its minimum of hooks in place.
LEMMA DoneWatch ==
    ASSUME WatchInv, DetectorDone
    PROVE  LoadInv'
  <1>1. /\ pc = "init" /\ d = active + 1 /\ d \in DOMAIN Table /\ active \in Nat
        /\ count[d] \in Nat /\ Table[d].need \in Nat
        /\ registered' = registered /\ count' = count
    BY TableShapes DEF DetectorDone, static, WatchInv, WatchTypes, LoadInv
  <1>2. CASE count[d] < Table[d].need
    BY <1>2 DEF DetectorDone, LoadInv, LoadedMeansWatching
  <1>3. CASE ~(count[d] < Table[d].need)
    <2>1. Watches(d)
      <3>1. Seen \subseteq HooksOf(d) \cap registered
        BY DEF Seen
      <3>2. Cardinality(Seen) <= Cardinality(HooksOf(d) \cap registered)
        BY <1>1, <3>1, MoreHooks
      <3>3. Cardinality(Seen) \in Nat /\ Cardinality(HooksOf(d) \cap registered) \in Nat
        BY <1>1, <3>1, FewHooks
      <3>4. count[d] <= Cardinality(Seen)
        BY <1>1 DEF WatchInv, LoadInv
      <3> QED BY <1>1, <1>3, <3>2, <3>3, <3>4 DEF Watches
    <2>2. ASSUME NEW i \in DOMAIN Table, i <= d PROVE Watches(i)'
      <3>1. Watches(i)
        BY <1>1, <2>1, <2>2, TableShapes DEF WatchInv, LoadInv
      <3> QED BY <1>1, <3>1 DEF Watches, HooksOf
    <2>3. CASE d < Len(Table)
      <3>1. pc' = "init" /\ d' = d + 1 /\ d' \in DOMAIN Table /\ active' = active + 1
        BY <1>1, <1>3, <2>3, TableShapes DEF DetectorDone
      <3>2. \A i \in DOMAIN Table : i >= d + 1 => count[i] = 0
        BY <1>1, TableShapes DEF WatchInv, LoadInv
      <3>3. Cardinality(Seen') \in Nat
        BY <3>1, FewHooks DEF Seen, HooksOf
      <3>4. count'[d'] <= Cardinality(Seen')
        BY <1>1, <3>1, <3>2, <3>3, TableShapes
      <3>5. \A i \in DOMAIN Table : i > d' => count'[i] = 0
        BY <1>1, <3>1, <3>2, TableShapes
      <3>6. \A i \in DOMAIN Table : i < d' => Watches(i)'
        BY <1>1, <2>2, <3>1, TableShapes
      <3> QED BY <1>1, <3>1, <3>4, <3>5, <3>6 DEF LoadInv, LoadedMeansWatching
    <2>4. CASE ~(d < Len(Table))
      <3>1. pc' = "loaded"
        BY <1>3, <2>4 DEF DetectorDone
      <3>2. \A i \in DOMAIN Table : Watches(i)'
        BY <1>1, <2>2, <2>4, TableShapes
      <3> QED BY <3>1, <3>2 DEF LoadInv, LoadedMeansWatching, Watches
    <2> QED BY <2>3, <2>4
  <1> QED BY <1>2, <1>3

LEMMA NextWatch == WatchInv /\ [Next]_vars => WatchInv'
  <1> SUFFICES ASSUME WatchInv, [Next]_vars PROVE LoadInv'
    BY NextWatchTypes DEF WatchInv
  <1>1. CASE Insmod
    BY <1>1 DEF Insmod, LoadInv, LoadedMeansWatching
  <1>2. CASE InfraAcquire
    <2>1. CASE pc' = "init"
      <3>1. /\ d' = 1 /\ active' = active /\ active = 0 /\ count' = count
            /\ \A i \in DOMAIN Table : count[i] = 0
        BY <1>2, <2>1 DEF InfraAcquire, static, WatchInv, LoadInv
      <3>2. 1 \in DOMAIN Table /\ \A i \in DOMAIN Table : i \in Nat /\ ~(i < 1)
        BY TableShapes
      <3>3. Cardinality(Seen') \in Nat
        BY <3>1, <3>2, FewHooks DEF Seen, HooksOf
      <3>4. count'[d'] <= Cardinality(Seen')
        BY <3>1, <3>2, <3>3
      <3> QED BY <2>1, <3>1, <3>2, <3>4 DEF LoadInv, LoadedMeansWatching
    <2>2. CASE pc' # "init"
      BY <1>2, <2>2 DEF InfraAcquire, static, WatchInv, LoadInv, LoadedMeansWatching
    <2> QED BY <2>1, <2>2
  <1>3. CASE InfraFail \/ InfraRelease
    BY <1>3 DEF InfraFail, InfraRelease, WatchInv, LoadInv, LoadedMeansWatching
  <1>4. CASE HookOk
    BY <1>4, HookOkWatch
  <1>5. CASE HookAbsent \/ HookRefused
    <2>1. CASE Abort
      BY <2>1 DEF Abort, LoadInv, LoadedMeansWatching
    <2>2. CASE Skip
      BY <1>5, <2>2, SkipWatch DEF HookAbsent, HookRefused, MayFail
    <2> QED BY <1>5, <2>1, <2>2 DEF HookAbsent, HookRefused
  <1>6. CASE DetectorDone
    BY <1>6, DoneWatch
  <1>7. CASE Rmmod \/ DetectorExit \/ AllDetectorsGone
    BY <1>7 DEF Rmmod, DetectorExit, AllDetectorsGone, LoadInv, LoadedMeansWatching
  <1>8. CASE UNCHANGED vars
    BY <1>8
    DEF vars, static, WatchInv, LoadInv, LoadedMeansWatching, Seen, Watches, HooksOf
  <1> QED BY <1>1, <1>2, <1>3, <1>4, <1>5, <1>6, <1>7, <1>8 DEF Next

\* "All detectors active": whatever was skipped while loading, and whatever
\* earlier loads left behind, a module that reports success has the minimum of
\* hooks of every detector in place.  The table need not be regular.
THEOREM LoadedWatches == Spec => []LoadedMeansWatching
  <1>1. WatchInv => LoadedMeansWatching
    BY DEF WatchInv, LoadInv
  <1> QED BY <1>1, InitWatch, NextWatch, PTL DEF Spec
=============================================================================
