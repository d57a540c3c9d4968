----------------------------- MODULE DmesgPath ------------------------------
(***************************************************************************)
(* The second way out of the kernel: detectors print lines, the log keeps  *)
(* the newest, a process may clear it, and the daemon reads it.            *)
(***************************************************************************)
EXTENDS DmesgDaemon

CONSTANT Calls   \* the hooked calls that are made

ASSUME CallsAssumption == Calls \subseteq Call /\ MaxInc \in Nat

VARIABLE clearing    \* a syslog(5) call has passed the detector's handler

pathVars == <<daemonVars, logVars, clearing>>

PathInit == LogInit /\ DaemonInit /\ clearing = FALSE

\* A hooked call is made and its detectors print their lines, whatever the
\* names of those involved.
HookedCall ==
    /\ \E c \in Calls, clean \in BOOLEAN : Printk(Printed(Lines(c), clean))
    /\ UNCHANGED <<daemonVars, clearing>>

\* clear_taint_dmesg_detector's handler runs before do_syslog() clears the log,
\* so the alert about the clearing is among what is cleared.
ClearCalled ==
    /\ ~clearing
    /\ clearing' = TRUE
    /\ \E clean \in BOOLEAN :
         Printk(Printed(Lines([fn |-> "do_syslog", type |-> 5]), clean))
    /\ UNCHANGED daemonVars

ClearDone ==
    /\ clearing
    /\ clearing' = FALSE
    /\ ClearLog
    /\ UNCHANGED daemonVars

Time == Tick /\ UNCHANGED <<daemonVars, clearing>>

PathNext ==
    \/ DaemonNext /\ UNCHANGED clearing
    \/ HookedCall
    \/ ClearCalled
    \/ ClearDone
    \/ Time

PathSpec == PathInit /\ [][PathNext]_pathVars

\* The daemon goes on with its loop, and dmesg does not fail for ever.  Nothing
\* obliges anyone to print a line, clear the log or restart the daemon.
FairPathSpec ==
    /\ PathSpec
    /\ WF_pathVars(Poll /\ UNCHANGED clearing)
    /\ WF_pathVars((Log \/ Index) /\ UNCHANGED clearing)

PathTypeOK == DaemonTypeOK
=============================================================================
