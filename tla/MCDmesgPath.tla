---------------------------- MODULE MCDmesgPath -----------------------------
EXTENDS DmesgPath

\* A call for every outcome that reaches the reader: each severity, lines the
\* reader's expressions match and do not match, several lines at once, and a
\* line of a detector modelled elsewhere.
MCCalls ==
    {[fn |-> "commit_creds", wasRoot |-> FALSE, toRoot |-> TRUE, legit |-> "none"],
     [fn |-> "ftrace_set_filter_ip", self |-> FALSE, remove |-> FALSE, target |-> "tcp", module |-> TRUE],
     [fn |-> "chdir", listed |-> TRUE],
     [fn |-> "stat", line |-> "pid_hidden"]}

\* LKRG prints, from its module.
LkrgCalls == {[fn |-> "vprintk_emit", lkrg |-> TRUE, module |-> TRUE]}
=============================================================================
