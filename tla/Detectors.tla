------------------------------ MODULE Detectors ------------------------------
(***************************************************************************)
(* The shape of every detector's init and exit function, as the data the   *)
(* ModuleLifecycle module interprets.  A detector installs its hooks       *)
(* (ftrace functions, kprobes, kretprobes, delayed work) one by one:       *)
(*                                                                         *)
(*   hooks    how many it installs, in order;                              *)
(*   absent   what init does when the target of a hook is not found:       *)
(*            "skip" it or "abort";                                        *)
(*   refused  what init does when the registration itself fails;           *)
(*   sure     how many of the last ones cannot fail (delayed work);        *)
(*   need     how many hooks must be in place for init to return 0;        *)
(*   undo     what exit unregisters: "all" hooks, the hooks with a set     *)
(*            "flag", or, with "count", the first n of them, n being a     *)
(*            count of the hooks installed;                                *)
(*   flagged  when the flag of a hook is set: on "success" or already when *)
(*            the registration is "tried";                                 *)
(*   addr     whether init "sets" the shared address of                    *)
(*            kallsyms_lookup_name, "needs" it, or "none".                 *)
(***************************************************************************)
EXTENDS Naturals, Sequences

\* One hook, unregistered unconditionally by exit.
OneHook ==
    [hooks |-> 1, absent |-> "abort", refused |-> "abort",
     sure |-> 0, need |-> 1, undo |-> "all",
     flagged |-> "success", addr |-> "none"]

\* n hooks of which init wants at least one.
BestEffort(n) ==
    [OneHook EXCEPT !.hooks = n, !.absent = "skip", !.refused = "skip",
                    !.undo = "flag"]

\* n hook groups whose number, not identity, is remembered.
Counted(n) ==
    [OneHook EXCEPT !.hooks = n, !.absent = "skip", !.undo = "count"]

\* kthread hook (kthread_hook_active), taint poll and task scan; init never
\* fails, and cancelling work that was never scheduled does nothing.
reset_tainted_detector == [BestEffort(3) EXCEPT !.sure = 1, !.need = 0]

\* Bootstraps the address of kallsyms_lookup_name, then hooks register_kprobe.
kprobe_detector == [OneHook EXCEPT !.addr = "sets"]

\* teardown_ftrace_hook() tests ops->func, which setup_ftrace_hook() sets
\* before the filter and the registration can fail.
audit_detector == [BestEffort(4) EXCEPT !.flagged = "tried"]

taskstats_detector == [BestEffort(4) EXCEPT !.flagged = "tried"]

tcp_hiding_detector == OneHook

become_root_detector == OneHook

bpf_hook_detector == OneHook

\* Hooks the address that kprobe_detector resolved.
kallsyms_detector == [OneHook EXCEPT !.addr = "needs"]

\* kp.addr is the flag of a probe.
ftrace_direct_detector == BestEffort(3)

\* Hook 2 failing removes hook 1.
kretprobe_detector == [OneHook EXCEPT !.hooks = 2, !.need = 2]

\* stat, fstatat and getpriority groups, counted in hooks_installed.
hiding_stat == Counted(3)

\* getdents and getdents64 groups, counted in dir_hooks_installed.
hiding_directory == Counted(2)

\* vprintk_hook_active and umh_hook_active.
lkrg_bypass_detector == BestEffort(2)

icmp_hook_detector == OneHook

file_access_detector == OneHook

trace_pid_detector == OneHook

hiding_readlink_detector == OneHook

hiding_chdir_detector == OneHook

hooks_write_detector == OneHook

clear_taint_dmesg_detector == OneHook

\* The table of main.c: the entries outside its comments, in their order.
detectors ==
    <<reset_tainted_detector, kprobe_detector, taskstats_detector,
      audit_detector, tcp_hiding_detector, become_root_detector,
      bpf_hook_detector, kallsyms_detector, ftrace_direct_detector>>

\* The entries main.c keeps commented out, without the two counted ones, and
\* kretprobe_detector, which has no entry.
disabledDetectors ==
    <<icmp_hook_detector, file_access_detector, trace_pid_detector,
      hiding_readlink_detector, hiding_chdir_detector, hooks_write_detector,
      clear_taint_dmesg_detector, lkrg_bypass_detector, kretprobe_detector>>
=============================================================================
