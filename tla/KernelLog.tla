----------------------------- MODULE KernelLog ------------------------------
(***************************************************************************)
(* The kernel's log as the detectors and the dmesg daemon use it: printk   *)
(* appends a line stamped with the time, the oldest lines fall out when    *)
(* the buffer is full, and syslog type 5 empties it.  dmesg shows times    *)
(* in microseconds, so several lines may bear the same one.                *)
(***************************************************************************)
EXTENDS Integers, Sequences

CONSTANTS
    LogCap,     \* lines the buffer holds
    MaxLines,   \* bound: lines printed
    MaxClock    \* bound: microseconds

ASSUME LogAssumption == LogCap \in Nat \ {0} /\ MaxLines \in Nat /\ MaxClock \in Nat

VARIABLES
    klog,      \* the lines in the buffer, oldest first
    emitted,   \* lines printed so far
    clock

logVars == <<klog, emitted, clock>>

LogInit == klog = <<>> /\ emitted = 0 /\ clock = 0

\* The last n elements of s.
Newest(s, n) == IF Len(s) <= n THEN s ELSE SubSeq(s, Len(s) - n + 1, Len(s))

\* printk of the messages ms, in order, by one context.  A line is told apart
\* by nothing but its time and its text.
Printk(ms) ==
    /\ emitted + Len(ms) <= MaxLines
    /\ klog' = Newest(klog \o [i \in 1..Len(ms) |-> [ts |-> clock, msg |-> ms[i]]], LogCap)
    /\ emitted' = emitted + Len(ms)
    /\ UNCHANGED clock

Tick ==
    /\ clock < MaxClock
    /\ clock' = clock + 1
    /\ UNCHANGED <<klog, emitted>>

ClearLog ==
    /\ klog' = <<>>
    /\ UNCHANGED <<emitted, clock>>
=============================================================================
