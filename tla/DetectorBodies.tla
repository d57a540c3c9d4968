--------------------------- MODULE DetectorBodies ---------------------------
(***************************************************************************)
(* The hook bodies that keep state, together.  The four families share no  *)
(* state and run in different contexts, so their interleavings add         *)
(* nothing: a behaviour follows one of them, picked at the start.          *)
(***************************************************************************)
EXTENDS TaintMonitor, ProbeWatch, ProcWatch, OpenWatch

VARIABLE family   \* the one that is followed

bodyVars == <<family, taintVars, probeVars, procVars, openVars>>

Init ==
    /\ family \in {"taint", "probe", "proc", "open"}
    /\ TaintInit /\ ProbeInit /\ ProcInit /\ OpenInit
    /\ family # "taint" => mask = {} /\ hook /\ work["taint"] = "idle"

Next ==
    /\ UNCHANGED family
    /\ \/ family = "taint" /\ TaintNext /\ UNCHANGED <<probeVars, procVars, openVars>>
       \/ family = "probe" /\ ProbeNext /\ UNCHANGED <<taintVars, procVars, openVars>>
       \/ family = "proc" /\ ProcNext /\ UNCHANGED <<taintVars, probeVars, openVars>>
       \/ family = "open" /\ OpenNext /\ UNCHANGED <<taintVars, probeVars, procVars>>

Spec == Init /\ [][Next]_bodyVars

\* The workqueue runs what is queued and lets it finish.  Nothing is assumed
\* about those who register probes, open files or list processes.
FairSpec ==
    /\ Spec
    /\ \A w \in Work : WF_bodyVars(family = "taint" /\ Worker(w)
                                   /\ UNCHANGED <<family, probeVars, procVars, openVars>>)

TypeOK == TaintTypeOK /\ ProbeTypeOK /\ ProcTypeOK /\ OpenTypeOK
=============================================================================
