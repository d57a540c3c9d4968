--------------------------- MODULE DetectorLines ----------------------------
(***************************************************************************)
(* What the detectors whose hooks keep no state print, as a function of    *)
(* the call that is hooked.  A call is a record with the function's name   *)
(* and what the hook looks at; a line has a kind, named by the text that   *)
(* tells it from the others.  The lines of one call are printed together.  *)
(*                                                                         *)
(* A caller or function printed with %pS reads "symbol+0x1/0x2", followed  *)
(* by " [module]" if it is in a module; such lines are of a kind of their  *)
(* own where the reader cares.  Names (a process, a path, a thread) are    *)
(* printed between quotes as they are: one that is empty or contains the   *)
(* quote makes a line that the reader's expression does not match, and     *)
(* nothing keeps a process from having such a name.                        *)
(***************************************************************************)
EXTENDS Naturals, Sequences

\* The lines that say SUSPICIOUS.
Suspicious ==
    {"bpf_hook", "tcp_hook", "tcp_hook_module", "icmp_hook", "icmp_hook_module", "kthread",
     "kthread_module", "taint_cleared", "hidden_task", "dmesg_clear", "ftrace_write",
     "trace_pid", "chdir", "readlink", "privesc", "kallsyms", "audit"}

\* The others: alerts that do not say so, registrations, audits, messages.
Plain ==
    {"ftrace_filter", "pid_hidden", "file_open", "lkrg", "lkrg_module", "privesc_detail",
     "kprobe_watchlisted", "kretprobe", "ftrace_direct", "status"}

Kind == Suspicious \cup Plain

\* A line's text: its kind, and whether the names in it are non-empty and free
\* of the quote that delimits them.
Msg == [kind : Kind, clean : BOOLEAN]

Printed(kinds, clean) == [i \in 1..Len(kinds) |-> [kind |-> kinds[i], clean |-> clean]]

When(cond, lines) == IF cond THEN lines ELSE <<>>

-----------------------------------------------------------------------------
\* ftrace_set_filter_ip(ops, ip, remove, reset) has three kprobes.  `self' is
\* self_hooking: the detector is registering or removing itself.  The caller
\* that the tcp and icmp lines print is the ops argument.
BpfLines(c) ==
    When(~c.self /\ ~c.remove, IF c.target = "bpf" THEN <<"bpf_hook">> ELSE <<"ftrace_filter">>)

TcpLines(c) ==
    When(~c.self /\ ~c.remove /\ c.target = "tcp",
         IF c.module THEN <<"tcp_hook_module">> ELSE <<"tcp_hook">>)

IcmpLines(c) ==
    When(~c.self /\ ~c.remove /\ c.target = "icmp",
         IF c.module THEN <<"icmp_hook_module">> ELSE <<"icmp_hook">>)

FilterIpLines(c) == BpfLines(c) \o TcpLines(c) \o IcmpLines(c)

\* ftrace_set_filter(), ftrace_set_notrace(): a pattern, NULL to clear; an
\* unnamed callback or a watchlisted pattern is an alert.
SetFilterLines(c) == When(~c.null /\ (c.anon \/ c.watched), <<"ftrace_direct">>)

\* modify_ftrace_direct()
ModifyDirectLines(c) == When(c.anon \/ c.watched, <<"ftrace_direct">>)

\* kallsyms_lookup_name() by others, for a watchlisted name
KallsymsLines(c) == When(~c.own /\ c.watched, <<"kallsyms">>)

\* The stack names a legitimate caller, in the part that fits in the buffer it
\* is rendered to.
LegitimateCaller(c) == c.legit = "rendered"

\* commit_creds()
CredsLines(c) ==
    When(~c.wasRoot /\ c.toRoot /\ ~LegitimateCaller(c), <<"privesc", "privesc_detail">>)

\* tracepoint_probe_register()
TracepointLines(c) == IF c.sched THEN <<"trace_pid">> ELSE <<"status">>

\* sys_chdir(), vfs_write() and vfs_readlink(): the path or the name is one of
\* the listed ones (and could be read).
ChdirLines(c)    == When(c.listed, <<"chdir">>)
WriteLines(c)    == When(c.listed, <<"ftrace_write">>)
ReadlinkLines(c) == When(c.listed, <<"readlink">>)

\* do_syslog(): type 5 clears the log, 2 and 3 read it.
SyslogLines(c) == IF c.type = 5 THEN <<"dmesg_clear">> ELSE When(c.type \in {2, 3}, <<"status">>)

\* vprintk_emit() with an LKRG format, as a rule by the module LKRG itself;
\* call_usermodehelper_exec().
VprintkLines(c) == When(c.lkrg, IF c.module THEN <<"lkrg_module">> ELSE <<"lkrg">>)
UmhLines(c)     == <<"status">>

\* The audit functions: a user message to the audit socket, with the
\* statistics now and then; a record begun by an unknown caller; a record
\* ended; the entry of one of five system calls.
AuditLines(c) ==
    CASE c.of = "unicast" -> When(c.user, <<"audit">>) \o When(c.stats, <<"status">>)
      [] c.of = "start"   -> When(c.unknown, <<"audit">>)
      [] c.of = "end"     -> <<"status">>
      [] c.of = "syscall" -> When(c.listed, <<"status">>)

\* taskstats_hook_detector.c hooks the same functions with the same bodies.
TaskstatsLines(c) == AuditLines(c)

\* The calls that are hooked: with none of the fields missing, Lines is defined.
Call ==
    [fn : {"ftrace_set_filter_ip"}, self : BOOLEAN, remove : BOOLEAN,
     target : {"bpf", "tcp", "icmp", "other"}, module : BOOLEAN]
    \cup [fn : {"ftrace_set_filter"}, null : BOOLEAN, anon : BOOLEAN, watched : BOOLEAN]
    \cup [fn : {"modify_ftrace_direct"}, anon : BOOLEAN, watched : BOOLEAN]
    \cup [fn : {"kallsyms_lookup_name"}, own : BOOLEAN, watched : BOOLEAN]
    \cup [fn : {"commit_creds"}, wasRoot : BOOLEAN, toRoot : BOOLEAN,
          legit : {"none", "rendered", "cut off"}]
    \cup [fn : {"tracepoint_probe_register"}, sched : BOOLEAN]
    \cup [fn : {"chdir", "vfs_write", "vfs_readlink"}, listed : BOOLEAN]
    \cup [fn : {"do_syslog"}, type : 0..10]
    \cup [fn : {"vprintk_emit"}, lkrg : BOOLEAN, module : BOOLEAN]
    \cup [fn : {"call_usermodehelper_exec"}]
    \cup [fn : {"audit"}, of : {"unicast"}, user : BOOLEAN, stats : BOOLEAN]
    \cup [fn : {"audit"}, of : {"start"}, unknown : BOOLEAN]
    \cup [fn : {"audit"}, of : {"end"}]
    \cup [fn : {"audit"}, of : {"syscall"}, listed : BOOLEAN]
    \cup [fn : {"kthread_create", "register_kprobe", "stat", "do_filp_open"}, line : Kind]

Lines(c) ==
    CASE c.fn = "ftrace_set_filter_ip"      -> FilterIpLines(c)
      [] c.fn = "ftrace_set_filter"         -> SetFilterLines(c)
      [] c.fn = "modify_ftrace_direct"      -> ModifyDirectLines(c)
      [] c.fn = "kallsyms_lookup_name"      -> KallsymsLines(c)
      [] c.fn = "commit_creds"              -> CredsLines(c)
      [] c.fn = "tracepoint_probe_register" -> TracepointLines(c)
      [] c.fn = "chdir"                     -> ChdirLines(c)
      [] c.fn = "vfs_write"                 -> WriteLines(c)
      [] c.fn = "vfs_readlink"              -> ReadlinkLines(c)
      [] c.fn = "do_syslog"                 -> SyslogLines(c)
      [] c.fn = "vprintk_emit"              -> VprintkLines(c)
      [] c.fn = "call_usermodehelper_exec"  -> UmhLines(c)
      [] c.fn = "audit"                     -> AuditLines(c) \o TaskstatsLines(c)
      [] OTHER                              -> <<c.line>>   \* a detector modelled elsewhere
=============================================================================
