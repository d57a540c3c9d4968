------------------------- MODULE MCModuleLifecycle -------------------------
(* The tables ModuleLifecycle is checked for. *)
EXTENDS ModuleLifecycle, Detectors

\* The tables the theorems of LifecycleProofs apply to.
ASSUME TablesAreRegular ==
    \A T \in {detectors, disabledDetectors} :
        T \in Seq(Shape) /\ \A i \in DOMAIN T : Regular(T[i])
=============================================================================
