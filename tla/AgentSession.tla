---------------------------- MODULE AgentSession ----------------------------
(***************************************************************************)
(* The way of a frame from the device to the server: photon_agent.c and    *)
(* the connection handler of server.py.  Agents connect, receive the       *)
(* server's master key, hand it to the kernel unless it has one, and relay *)
(* frames until the connection breaks or a signal ends them.  Only one     *)
(* process at a time has /dev/photon_ring open.  Servers crash and come    *)
(* back, with their old key only if it was kept in a file.  The module     *)
(* stays loaded and is keyed at most once.                                 *)
(*                                                                         *)
(* A TLS session is a stream of messages to the server; the server's side  *)
(* of it is its handler thread.  What is in a stream when its handler ends *)
(* is never read.                                                          *)
(***************************************************************************)
EXTENDS Naturals, Sequences, FiniteSets

CONSTANTS
    Agent,      \* agent processes
    Injecting,  \* those started without --no-inject
    NoAgent,    \* nobody has the device open
    RingBound,  \* PHOTON_RING_BUF_FRAMES - 1
    MaxFrame,   \* bound: frames the kernel produces
    MaxSession, \* bound: TLS sessions
    MaxLife     \* bound: times the server is started

ASSUME AgentAssumption ==
    /\ NoAgent \notin Agent /\ Injecting \subseteq Agent
    /\ {RingBound, MaxFrame, MaxSession, MaxLife} \subseteq Nat

VARIABLES
    pc,         \* where each agent is
    running,    \* g_running of each agent
    session,    \* the session an agent has, or 0
    key,        \* master_key in connect_and_run(), 0 when wiped
    hand,       \* the frame in frame_buf, between read() and the send
    device,     \* the agent that has the device open
    kernelKey,  \* g_master_key, 0 when none is set
    ring,       \* g_ring, oldest frame first
    pushed,     \* frames produced so far
    life,       \* times the server was started; names its process
    up,         \* does that process run
    keyfile,    \* is the server started with a key file it also saved
    sessions,   \* TLS sessions so far
    peer,       \* the server process of a session
    handler,    \* its handle_agent() thread
    stream,     \* what the agent sent and the handler has not read
    eof,        \* the agent closed the session before the handler did
    log         \* history: frames handlers received, in order

agentVars == <<pc, running, session, key, hand>>
kernel == <<kernelKey, ring, pushed>>
moduleVars == <<device, kernel>>
serverVars == <<life, up, keyfile>>
sessionVars == <<sessions, peer, handler>>
tlsVars == <<sessionVars, stream, eof>>
elsewhere == <<serverVars, tlsVars, log>>
vars == <<agentVars, moduleVars, serverVars, tlsVars, log>>

Session == 1 .. MaxSession
Message(type, frame) == [type |-> type, frame |-> frame]
NoFrame == 0
Magic == Message("magic", NoFrame)
Ack == Message("ack", NoFrame)

Frames == 0 .. MaxFrame

TypeOK ==
    /\ pc \in [Agent -> {"down", "top", "hello", "await", "inject",
                         "ioctl", "relay", "loop", "read", "blocked", "send",
                         "close"}]
    /\ running \in [Agent -> BOOLEAN]
    /\ session \in [Agent -> 0 .. MaxSession]
    /\ key \in [Agent -> 0 .. MaxLife] /\ hand \in [Agent -> Frames]
    /\ device \in Agent \cup {NoAgent}
    /\ kernelKey \in 0 .. MaxLife
    /\ ring \in Seq(Frames) /\ Len(ring) <= RingBound
    /\ pushed \in 0 .. MaxFrame
    /\ life \in 0 .. MaxLife /\ up \in BOOLEAN /\ keyfile \in BOOLEAN
    /\ sessions \in 0 .. MaxSession
    /\ peer \in [Session -> 0 .. MaxLife]
    /\ handler \in [Session -> {"none", "magic", "offered", "active", "closed"}]
    /\ stream \in [Session -> Seq([type : {"magic", "ack", "frame"}, frame : Frames])]
    /\ eof \in [Session -> BOOLEAN]
    /\ log \in Seq([frame : Frames, session : Session])

Init ==
    /\ pc = [a \in Agent |-> "down"]
    /\ running = [a \in Agent |-> FALSE]
    /\ session = [a \in Agent |-> 0] /\ key = [a \in Agent |-> 0]
    /\ hand = [a \in Agent |-> NoFrame]
    /\ device = NoAgent
    /\ kernelKey = 0 /\ ring = <<>> /\ pushed = 0
    /\ life = 0 /\ up = FALSE /\ keyfile \in BOOLEAN
    /\ sessions = 0 /\ peer = [s \in Session |-> 0]
    /\ handler = [s \in Session |-> "none"]
    /\ stream = [s \in Session |-> <<>>] /\ eof = [s \in Session |-> FALSE]
    /\ log = <<>>

Goto(a, l) == pc' = [pc EXCEPT ![a] = l]

-----------------------------------------------------------------------------
\* The kernel module.

ServerKey_NoFile(l) == l

\* main() of server.py: the key of server process l.  A key file that was saved
\* by the first process is loaded by the others.
ServerKey(l) == IF keyfile THEN 1 ELSE l

PushFrame_Overwrite ==
    /\ pushed' = pushed + 1
    /\ ring' = IF Len(ring) < RingBound
               THEN Append(ring, pushed + 1) ELSE Append(Tail(ring), pushed + 1)

\* An event is encrypted under the kernel's key and pushed; a full ring drops it.
PushFrame ==
    /\ pushed' = pushed + 1
    /\ ring' = IF Len(ring) < RingBound
               THEN Append(ring, pushed + 1) ELSE ring

Detect ==
    /\ kernelKey # 0 /\ pushed < MaxFrame
    /\ PushFrame
    /\ UNCHANGED <<agentVars, device, kernelKey, elsewhere>>

-----------------------------------------------------------------------------
\* server.py.

ServerStart ==
    /\ ~up /\ life < MaxLife
    /\ up' = TRUE /\ life' = life + 1
    /\ UNCHANGED <<agentVars, moduleVars, keyfile, tlsVars, log>>

\* All handler threads are daemon threads and end with the process.
ServerStop ==
    /\ up
    /\ up' = FALSE
    /\ handler' = [s \in Session |-> IF handler[s] = "none" THEN "none" ELSE "closed"]
    /\ stream' = [s \in Session |-> <<>>]
    /\ eof' = [s \in Session |-> FALSE]
    /\ UNCHANGED <<agentVars, moduleVars, life, keyfile, sessions, peer, log>>

\* The connection is reset: recv raises, the thread ends.
Reset(s) ==
    /\ handler[s] \in {"magic", "offered", "active"}
    /\ handler' = [handler EXCEPT ![s] = "closed"]
    /\ stream' = [stream EXCEPT ![s] = <<>>]
    /\ eof' = [eof EXCEPT ![s] = FALSE]
    /\ UNCHANGED <<agentVars, moduleVars, serverVars, sessions, peer, log>>

\* handle_agent() reads the next message: the magic, answered with the key; the
\* acknowledgement; then frames.
Receive(s) ==
    /\ handler[s] \in {"magic", "offered", "active"}
    /\ stream[s] # <<>>
    /\ stream' = [stream EXCEPT ![s] = Tail(@)]
    /\ LET m == Head(stream[s]) IN
         \/ /\ handler[s] = "magic" /\ m = Magic
            /\ handler' = [handler EXCEPT ![s] = "offered"]
            /\ UNCHANGED log
         \/ /\ handler[s] = "offered" /\ m = Ack
            /\ handler' = [handler EXCEPT ![s] = "active"]
            /\ UNCHANGED log
         \/ /\ handler[s] = "active" /\ m.type = "frame"
            /\ log' = Append(log, [frame |-> m.frame, session |-> s])
            /\ UNCHANGED handler
    /\ UNCHANGED <<agentVars, moduleVars, serverVars, sessions, peer, eof>>

\* recv_exactly() returns None at the end of the stream.
EndOfStream(s) ==
    /\ handler[s] \in {"magic", "offered", "active"}
    /\ stream[s] = <<>> /\ eof[s]
    /\ handler' = [handler EXCEPT ![s] = "closed"]
    /\ eof' = [eof EXCEPT ![s] = FALSE]
    /\ UNCHANGED <<agentVars, moduleVars, serverVars, sessions, peer, stream, log>>
-----------------------------------------------------------------------------
\* photon_agent.c.

Alive(a) == session[a] # 0 /\ handler[session[a]] \in {"magic", "offered", "active"}

\* ssl_send_all() returns 0.  The socket of a session whose handler has ended
\* may still accept bytes; nobody reads them.
Send(a, m) ==
    stream' = IF Alive(a) THEN [stream EXCEPT ![session[a]] = Append(@, m)] ELSE stream

CloseDevice(a) == device' = IF device = a THEN NoAgent ELSE device

\* The process is gone, and its variables with it.
Exit(a) ==
    /\ Goto(a, "down")
    /\ running' = [running EXCEPT ![a] = FALSE]
    /\ session' = [session EXCEPT ![a] = 0]
    /\ key' = [key EXCEPT ![a] = 0]
    /\ hand' = [hand EXCEPT ![a] = NoFrame]

\* main().
Start(a) ==
    /\ pc[a] = "down"
    /\ running' = [running EXCEPT ![a] = TRUE]
    /\ Goto(a, "top")
    /\ UNCHANGED <<session, key, hand, moduleVars, elsewhere>>

\* The test of the reconnect loop fails: the agent has been signalled.
Stop(a) ==
    /\ pc[a] = "top" /\ ~running[a]
    /\ Exit(a)
    /\ UNCHANGED <<moduleVars, elsewhere>>

\* The loop goes round and connect_tls() succeeds.  When it fails (name, TCP,
\* TLS, a signal) the agent sleeps and is back at the test: nothing changes.
Connect(a) ==
    /\ pc[a] = "top" /\ running[a]
    /\ up /\ sessions < MaxSession
    /\ sessions' = sessions + 1
    /\ session' = [session EXCEPT ![a] = sessions + 1]
    /\ peer' = [peer EXCEPT ![sessions + 1] = life]
    /\ handler' = [handler EXCEPT ![sessions + 1] = "magic"]
    /\ Goto(a, "hello")
    /\ UNCHANGED <<running, key, hand, moduleVars, serverVars, stream, eof, log>>

\* do_key_exchange() sends the magic.
Hello(a) ==
    /\ pc[a] = "hello"
    /\ Send(a, Magic)
    /\ Goto(a, "await")
    /\ UNCHANGED <<running, session, key, hand, moduleVars, serverVars, sessionVars, eof, log>>

\* It receives the offered key and acknowledges it.
TakeKey(a) ==
    /\ pc[a] = "await"
    /\ handler[session[a]] = "offered"
    /\ key' = [key EXCEPT ![a] = ServerKey(peer[session[a]])]
    /\ Send(a, Ack)
    /\ Goto(a, "inject")
    /\ UNCHANGED <<running, session, hand, moduleVars, serverVars, sessionVars, eof, log>>

\* set_kernel_key() opens the device; -EBUSY or no device ends the session.
\* With --no-inject the key is wiped and the relay starts.
SetKernelKey(a) ==
    /\ pc[a] = "inject"
    /\ IF a \in Injecting /\ device = NoAgent
       THEN device' = a /\ Goto(a, "ioctl") /\ UNCHANGED key
       ELSE /\ Goto(a, IF a \in Injecting THEN "close" ELSE "relay")
            /\ key' = [key EXCEPT ![a] = 0]
            /\ UNCHANGED device
    /\ UNCHANGED <<running, session, hand, kernel, elsewhere>>

\* ioctl(PHOTON_IOC_SET_KEY) on a module without a key: the key is set, and a
\* heartbeat is sent under it.
IoctlKeySet(a) ==
    /\ pc[a] = "ioctl" /\ kernelKey = 0
    /\ kernelKey' = key[a]
    /\ IF pushed < MaxFrame THEN PushFrame ELSE UNCHANGED <<ring, pushed>>
    /\ CloseDevice(a)
    /\ key' = [key EXCEPT ![a] = 0]
    /\ Goto(a, "relay")
    /\ UNCHANGED <<running, session, hand, elsewhere>>

\* -EEXIST: the agent goes on with whatever key the kernel has.
IoctlExists(a) ==
    /\ pc[a] = "ioctl" /\ kernelKey # 0
    /\ CloseDevice(a)
    /\ key' = [key EXCEPT ![a] = 0]
    /\ Goto(a, "relay")
    /\ UNCHANGED <<running, session, hand, kernel, elsewhere>>

\* Derivation or setkey fails in the kernel.
IoctlFail(a) ==
    /\ pc[a] = "ioctl" /\ kernelKey = 0
    /\ CloseDevice(a)
    /\ key' = [key EXCEPT ![a] = 0]
    /\ Goto(a, "close")
    /\ UNCHANGED <<running, session, hand, kernel, elsewhere>>

-----------------------------------------------------------------------------
\* run_relay().

OpenDevice(a) ==
    /\ pc[a] = "relay"
    /\ IF device = NoAgent
       THEN device' = a /\ Goto(a, "loop")
       ELSE UNCHANGED device /\ Goto(a, "close")
    /\ UNCHANGED <<running, session, key, hand, kernel, elsewhere>>

RelayTest_LeaveOpen(a) ==
    /\ pc[a] = "loop"
    /\ Goto(a, IF running[a] THEN "read" ELSE "close")
    /\ UNCHANGED <<running, session, key, hand, moduleVars, elsewhere>>

RelayTest_Never(a) ==
    /\ pc[a] = "loop"
    /\ Goto(a, "read")
    /\ UNCHANGED <<running, session, key, hand, moduleVars, elsewhere>>

\* while (g_running), and the close() behind the loop.
RelayTest(a) ==
    /\ pc[a] = "loop"
    /\ IF running[a] THEN Goto(a, "read") /\ UNCHANGED device
                     ELSE Goto(a, "close") /\ CloseDevice(a)
    /\ UNCHANGED <<running, session, key, hand, kernel, elsewhere>>

\* read() finds no frame and sleeps.
ReadBlock(a) ==
    /\ pc[a] = "read"
    /\ ring = <<>>
    /\ Goto(a, "blocked")
    /\ UNCHANGED <<running, session, key, hand, moduleVars, elsewhere>>

ReadFrame_KeepInRing(a) ==
    /\ pc[a] \in {"read", "blocked"}
    /\ ring # <<>>
    /\ hand' = [hand EXCEPT ![a] = Head(ring)]
    /\ Goto(a, "send")
    /\ UNCHANGED <<running, session, key, moduleVars, elsewhere>>

ReadFrame_NotWoken(a) ==
    /\ pc[a] = "read"
    /\ ring # <<>>
    /\ hand' = [hand EXCEPT ![a] = Head(ring)]
    /\ ring' = Tail(ring)
    /\ Goto(a, "send")
    /\ UNCHANGED <<running, session, key, device, kernelKey, pushed, elsewhere>>

\* read() returns one whole frame, at once or after sleeping.
ReadFrame(a) ==
    /\ pc[a] \in {"read", "blocked"}
    /\ ring # <<>>
    /\ hand' = [hand EXCEPT ![a] = Head(ring)]
    /\ ring' = Tail(ring)
    /\ Goto(a, "send")
    /\ UNCHANGED <<running, session, key, device, kernelKey, pushed, elsewhere>>

\* The frame is forwarded verbatim.
Forward(a) ==
    /\ pc[a] = "send"
    /\ Send(a, Message("frame", hand[a]))
    /\ hand' = [hand EXCEPT ![a] = NoFrame]
    /\ Goto(a, "loop")
    /\ UNCHANGED <<running, session, key, moduleVars, serverVars, sessionVars, eof, log>>

\* SSL_read or SSL_write reports the end of the session: leave the exchange, or
\* the relay with its frame.
SessionFailed(a) ==
    /\ pc[a] \in {"hello", "await", "send"}
    /\ ~Alive(a)
    /\ CloseDevice(a)
    /\ hand' = [hand EXCEPT ![a] = NoFrame]
    /\ Goto(a, "close")
    /\ UNCHANGED <<running, session, key, kernel, elsewhere>>

\* Writing to a socket the peer has closed raises SIGPIPE, which the agent does
\* not handle; the kernel closes its files.
Sigpipe(a) ==
    /\ pc[a] \in {"hello", "send", "close"}
    /\ ~Alive(a)
    /\ CloseDevice(a)
    /\ Exit(a)
    /\ UNCHANGED <<kernel, elsewhere>>

\* The end of connect_and_run(); main() sleeps before it goes round.
CloseSession(a) ==
    /\ pc[a] = "close"
    /\ eof' = [eof EXCEPT ![session[a]] = Alive(a)]
    /\ session' = [session EXCEPT ![a] = 0]
    /\ Goto(a, "top")
    /\ UNCHANGED <<running, key, hand, moduleVars, serverVars, sessionVars, stream, log>>

\* SIGTERM or SIGINT, installed without SA_RESTART: a call that sleeps fails with
\* EINTR.  A signal just before the call leaves no trace but g_running.
Signal(a) ==
    /\ pc[a] # "down" /\ running[a]
    /\ running' = [running EXCEPT ![a] = FALSE]
    /\ \/ pc[a] = "blocked" /\ Goto(a, "loop")
       \/ pc[a] = "await" /\ Goto(a, "close")
       \/ pc[a] # "blocked" /\ UNCHANGED pc
    /\ UNCHANGED <<session, key, hand, moduleVars, elsewhere>>

AgentStep(a) ==
    \/ Stop(a) \/ Hello(a) \/ TakeKey(a) \/ SetKernelKey(a)
    \/ IoctlKeySet(a) \/ IoctlExists(a) \/ IoctlFail(a)
    \/ OpenDevice(a) \/ RelayTest(a) \/ ReadBlock(a) \/ ReadFrame(a)
    \/ Forward(a) \/ SessionFailed(a) \/ Sigpipe(a)
    \/ CloseSession(a)

HandlerStep(s) == Receive(s) \/ EndOfStream(s)

Next ==
    \/ \E a \in Agent : Start(a) \/ Connect(a) \/ AgentStep(a) \/ Signal(a)
    \/ \E s \in Session : HandlerStep(s) \/ Reset(s)
    \/ Detect \/ ServerStart \/ ServerStop

Spec == Init /\ [][Next]_vars

\* An agent that can make a step makes it, and so does a handler thread; a
\* connection attempt need never succeed, and nobody has to start or stop
\* anything.
FairSpec ==
    /\ Spec
    /\ \A a \in Agent : WF_vars(AgentStep(a))
    /\ \A s \in Session : WF_vars(HandlerStep(s))

-----------------------------------------------------------------------------
(***************************************************************************)
(* Properties.                                                             *)
(***************************************************************************)

Relaying(a) == pc[a] \in {"loop", "read", "blocked", "send"}

\* g_is_open follows the agents: whoever injects a key or relays has the device
\* to itself, and every way out of those, death by signal included, returns it.
DeviceHasOneUser ==
    \A a \in Agent : device = a <=> (pc[a] = "ioctl" \/ Relaying(a))

\* A frame is never in two places, over reconnects and restarts: what the
\* server has logged is not in the ring, in an agent's hands, or in a stream
\* any more, and is not logged again.  Within a session frames are logged in
\* the order of the ring.
NoFrameTwice ==
    /\ \A i, j \in DOMAIN log :
        (i < j /\ log[i].session = log[j].session) => log[i].frame < log[j].frame
    /\ \A n \in 1 .. MaxFrame :
        Cardinality({i \in DOMAIN ring : ring[i] = n})
          + Cardinality({a \in Agent : hand[a] = n})
          + Cardinality({x \in Session \X (1 .. MaxFrame) :
                            /\ x[2] \in DOMAIN stream[x[1]]
                            /\ stream[x[1]][x[2]].frame = n})
          + Cardinality({i \in DOMAIN log : log[i].frame = n}) <= 1

\* The ring, the relaying agents and the sessions together deliver a frame at
\* most once, and one that was given up (a full ring, a reset or a server that
\* stopped with it unread, an agent that lost its session or died with it in its
\* buffer) is not delivered later.
OnItsWay ==
    {ring[i] : i \in DOMAIN ring}
      \cup {hand[a] : a \in {b \in Agent : hand[b] # NoFrame}}
      \cup UNION {{stream[s][i].frame : i \in {j \in DOMAIN stream[s] :
                                                stream[s][j].frame # NoFrame}} : s \in Session}
Logged == {log[i].frame : i \in DOMAIN log}
Delivery == INSTANCE AtMostOnce WITH
    produced <- pushed, pending <- OnItsWay, delivered <- Logged
ImplementsAtMostOnce == Delivery!Spec

\* The server can decrypt what it logs, whichever agent injected whichever key
\* and however often it was restarted, if it keeps its key in a file.  Without
\* one only frames under the key of an earlier server process defeat it: the
\* kernel answers -EEXIST to the new key and keeps the old one.
LoggedFramesDecrypt ==
    \A i \in DOMAIN log :
        LET l == peer[log[i].session] IN
            kernelKey = ServerKey(l) \/ (~keyfile /\ kernelKey < l)

\* Once no more events come, an agent that relays empties the ring, unless it
\* loses its session or is stopped.
RelayDrains ==
    \A a \in Agent : Relaying(a) ~> (ring = <<>> \/ ~Relaying(a))

\* After SIGTERM the agent ends, wherever it was, without waiting for a frame.
\* The exception is the window the property leaves out: a signal between the
\* loop's test and its read() is noticed only after the next frame.
SignalEndsAgent ==
    \A a \in Agent :
        (~running[a] /\ pc[a] \notin {"read", "blocked"}) ~> pc[a] = "down"
=============================================================================
