----------------------------- MODULE AgentProofs ------------------------------
(***************************************************************************)
(* The path of a frame from the device to the server, for any number of    *)
(* agents, sessions, frames and server processes.                          *)
(***************************************************************************)
EXTENDS AgentSession, TLAPS, FiniteSetTheorems

Live == {"magic", "offered", "active"}
MessageType == [type : {"magic", "ack", "frame"}, frame : Frames]
Entry == [frame : Frames, session : Session]

-----------------------------------------------------------------------------
\* The inductive invariant, in parts.

\* Handlers run in the present server process, for sessions that exist.
ServerInv ==
    /\ up => life >= 1
    /\ \A s \in Session : peer[s] <= life
    /\ \A s \in Session : handler[s] \in Live => up /\ peer[s] = life
    /\ \A s \in Session : handler[s] # "none" => s <= sessions

\* An agent beyond the connection has a session, and a key when it needs one.
AgentInv ==
    \A a \in Agent :
        /\ pc[a] \notin {"down", "top"} => session[a] # 0
        /\ pc[a] \in {"inject", "ioctl"} => key[a] # 0

\* Every key in use is that of a server process so far; frames exist only under
\* a key.
KeyInv ==
    /\ \A a \in Agent : IF keyfile THEN key[a] \in {0, 1} ELSE key[a] <= life
    /\ IF keyfile THEN kernelKey \in {0, 1} ELSE kernelKey <= life
    /\ pushed > 0 => kernelKey # 0

\* Frame numbers only grow along the path from the log to the ring.
RingInv ==
    /\ \A j \in DOMAIN ring : 1 <= ring[j] /\ ring[j] <= pushed
    /\ \A i, j \in DOMAIN ring : i < j => ring[i] < ring[j]

HandInv ==
    \A a \in Agent :
        /\ hand[a] # NoFrame <=> pc[a] = "send"
        /\ hand[a] <= pushed
        /\ \A j \in DOMAIN ring : hand[a] < ring[j]

StreamBehind ==
    \A s \in Session : \A i \in DOMAIN stream[s] :
        /\ stream[s][i].frame <= pushed
        /\ stream[s][i].type = "frame" => stream[s][i].frame # NoFrame
        /\ \A j \in DOMAIN ring : stream[s][i].frame < ring[j]
        /\ \A a \in Agent : hand[a] # NoFrame => stream[s][i].frame < hand[a]

StreamOrder ==
    \A s \in Session : \A i, j \in DOMAIN stream[s] :
        (i < j /\ stream[s][i].frame # NoFrame /\ stream[s][j].frame # NoFrame)
            => stream[s][i].frame < stream[s][j].frame

\* No frame is in two streams.
StreamApart ==
    \A s, u \in Session : s # u =>
        \A i \in DOMAIN stream[s], j \in DOMAIN stream[u] :
            stream[s][i].frame # NoFrame => stream[u][j].frame # stream[s][i].frame

LogBehind ==
    \A i \in DOMAIN log :
        /\ 1 <= log[i].frame /\ log[i].frame <= pushed /\ log[i].session <= sessions
        /\ \A j \in DOMAIN ring : log[i].frame < ring[j]
        /\ \A a \in Agent : hand[a] # NoFrame => log[i].frame < hand[a]

LogStream ==
    \A i \in DOMAIN log, s \in Session : \A j \in DOMAIN stream[s] :
        /\ stream[s][j].frame # log[i].frame
        /\ (log[i].session = s /\ stream[s][j].frame # NoFrame)
              => log[i].frame < stream[s][j].frame

LogOrder ==
    \A i, j \in DOMAIN log : i < j =>
        /\ log[i].frame # log[j].frame
        /\ log[i].session = log[j].session => log[i].frame < log[j].frame

PathInv == /\ RingInv /\ HandInv /\ StreamBehind /\ StreamOrder /\ StreamApart
           /\ LogBehind /\ LogStream /\ LogOrder

IInv == /\ TypeOK /\ ServerInv /\ AgentInv /\ KeyInv
        /\ DeviceHasOneUser /\ PathInv /\ LoggedFramesDecrypt

-----------------------------------------------------------------------------
\* What the steps do to a sequence.
LEMMA AppendFacts ==
    ASSUME NEW S, NEW q \in Seq(S), NEW x \in S
    PROVE  /\ Append(q, x) \in Seq(S)
           /\ Len(q) \in Nat /\ Len(Append(q, x)) = Len(q) + 1
           /\ DOMAIN Append(q, x) = 1 .. Len(q) + 1 /\ DOMAIN q = 1 .. Len(q)
           /\ \A i \in DOMAIN q : Append(q, x)[i] = q[i]
           /\ Append(q, x)[Len(q) + 1] = x
  OBVIOUS

LEMMA TailFacts ==
    ASSUME NEW S, NEW q \in Seq(S), q # <<>>
    PROVE  /\ Tail(q) \in Seq(S)
           /\ Len(q) \in Nat /\ Len(q) >= 1 /\ Len(Tail(q)) = Len(q) - 1
           /\ DOMAIN Tail(q) = 1 .. Len(q) - 1 /\ DOMAIN q = 1 .. Len(q)
           /\ \A i \in DOMAIN Tail(q) : Tail(q)[i] = q[i + 1]
           /\ Head(q) = q[1] /\ Head(q) \in S
  OBVIOUS

LEMMA Bounds ==
    /\ RingBound \in Nat /\ MaxFrame \in Nat /\ MaxSession \in Nat /\ MaxLife \in Nat
    /\ NoAgent \notin Agent
  BY AgentAssumption

LEMMA InitIInv == Init => IInv
  <1> SUFFICES ASSUME Init PROVE IInv
    OBVIOUS
  <1> USE DEF Init
  <1>1. TypeOK
    <2>1. /\ ring \in Seq(Frames) /\ Len(ring) = 0 /\ log \in Seq(Entry)
          /\ stream \in [Session -> Seq(MessageType)]
      OBVIOUS
    <2>2. /\ 0 \in 0 .. MaxLife /\ 0 \in 0 .. MaxSession /\ 0 \in 0 .. MaxFrame
          /\ 0 <= RingBound
      BY Bounds
    <2> QED BY <2>1, <2>2 DEF TypeOK, Frames, NoFrame, Entry, MessageType
  <1>2. ServerInv /\ AgentInv /\ KeyInv /\ DeviceHasOneUser
    BY Bounds DEF ServerInv, AgentInv, KeyInv, DeviceHasOneUser, Relaying, Live
  <1>3. PathInv /\ LoggedFramesDecrypt
    <2>1. RingInv
      BY DEF RingInv
    <2>2. HandInv
      BY DEF HandInv, NoFrame
    <2>3. StreamBehind /\ StreamOrder /\ StreamApart
      BY DEF StreamBehind, StreamOrder, StreamApart
    <2>4. LogBehind /\ LogStream /\ LogOrder /\ LoggedFramesDecrypt
      BY DEF LogBehind, LogStream, LogOrder, LoggedFramesDecrypt
    <2> QED BY <2>1, <2>2, <2>3, <2>4 DEF PathInv
  <1> QED BY <1>1, <1>2, <1>3 DEF IInv

-----------------------------------------------------------------------------
\* Types of the parts the steps assemble.

LEMMA PushTypes ==
    ASSUME TypeOK, PushFrame, pushed < MaxFrame
    PROVE  /\ ring' \in Seq(Frames) /\ Len(ring') <= RingBound
           /\ pushed' \in 0 .. MaxFrame /\ pushed' = pushed + 1 /\ pushed \in Nat
  <1>1. pushed + 1 \in Frames /\ pushed \in Nat
    BY Bounds DEF TypeOK, Frames
  <1>2. CASE Len(ring) < RingBound
    <2>1. ring' = Append(ring, pushed + 1)
      BY <1>2 DEF PushFrame
    <2>2. ring' \in Seq(Frames) /\ Len(ring') = Len(ring) + 1 /\ Len(ring) \in Nat
      BY <1>1, <2>1, AppendFacts DEF TypeOK
    <2> QED BY <1>1, <1>2, <2>2, Bounds DEF PushFrame, Frames
  <1>3. CASE ~(Len(ring) < RingBound)
    BY <1>1, <1>3, Bounds DEF PushFrame, TypeOK, Frames
  <1> QED BY <1>2, <1>3

LEMMA SendTypes ==
    ASSUME TypeOK, NEW a \in Agent, NEW m \in MessageType, Send(a, m)
    PROVE  /\ stream' \in [Session -> Seq(MessageType)]
           /\ \A s \in Session : \/ stream'[s] = stream[s]
                               \/ /\ stream'[s] = Append(stream[s], m)
                                  /\ s = session[a] /\ Alive(a)
           /\ \A s \in Session : s # session[a] => stream'[s] = stream[s]
  <1>1. stream \in [Session -> Seq(MessageType)]
    BY DEF TypeOK, MessageType
  <1>2. CASE ~Alive(a)
    BY <1>1, <1>2 DEF Send
  <1>3. CASE Alive(a)
    <2>1. session[a] \in Session
      BY <1>3, Bounds DEF Alive, TypeOK, Session
    <2>2. stream' = [stream EXCEPT ![session[a]] = Append(stream[session[a]], m)]
      BY <1>3 DEF Send
    <2>3. Append(stream[session[a]], m) \in Seq(MessageType)
      BY <1>1, <2>1, AppendFacts
    <2> QED BY <1>1, <1>3, <2>1, <2>2, <2>3
  <1> QED BY <1>2, <1>3

LEMMA MessageTypes ==
    /\ Magic \in MessageType /\ Ack \in MessageType
    /\ Magic.frame = NoFrame /\ Ack.frame = NoFrame
    /\ Magic.type # "frame" /\ Ack.type # "frame"
    /\ \A n \in Frames : /\ Message("frame", n) \in MessageType
                         /\ Message("frame", n).frame = n
  <1>1. NoFrame \in Frames
    BY Bounds DEF NoFrame, Frames
  <1>2. \A t \in {"magic", "ack", "frame"}, n \in Frames :
            [type |-> t, frame |-> n] \in MessageType
    BY DEF MessageType
  <1>3. \A t, n : [type |-> t, frame |-> n].frame = n /\ [type |-> t, frame |-> n].type = t
    OBVIOUS
  <1> QED BY <1>1, <1>2, <1>3 DEF Magic, Ack, Message

LEMMA ReceiveTypes ==
    ASSUME TypeOK, NEW s \in Session, Receive(s)
    PROVE  /\ stream' \in [Session -> Seq(MessageType)]
           /\ handler' \in [Session -> {"none", "magic", "offered", "active", "closed"}]
           /\ log' \in Seq(Entry)
  <1>1. /\ stream \in [Session -> Seq(MessageType)] /\ log \in Seq(Entry)
        /\ stream[s] # <<>> /\ stream' = [stream EXCEPT ![s] = Tail(stream[s])]
    BY DEF TypeOK, MessageType, Entry, Receive
  <1>2. Tail(stream[s]) \in Seq(MessageType) /\ Head(stream[s]) \in MessageType
    BY <1>1, TailFacts
  <1>3. stream' \in [Session -> Seq(MessageType)]
    BY <1>1, <1>2
  <1>4. handler' \in [Session -> {"none", "magic", "offered", "active", "closed"}]
    <2>1. \/ handler' = [handler EXCEPT ![s] = "offered"]
          \/ handler' = [handler EXCEPT ![s] = "active"]
          \/ handler' = handler
      BY DEF Receive
    <2>2. handler \in [Session -> {"none", "magic", "offered", "active", "closed"}]
      BY DEF TypeOK
    <2> QED BY <2>1, <2>2
  <1>5. log' = log \/ log' = Append(log, [frame |-> Head(stream[s]).frame, session |-> s])
    BY DEF Receive
  <1>6. [frame |-> Head(stream[s]).frame, session |-> s] \in Entry
    BY <1>2 DEF MessageType, Entry
  <1>7. Append(log, [frame |-> Head(stream[s]).frame, session |-> s]) \in Seq(Entry)
    <2> DEFINE e == [frame |-> Head(stream[s]).frame, session |-> s]
    <2>1. e \in Entry /\ log \in Seq(Entry)
      BY <1>1, <1>6
    <2> HIDE DEF e
    <2>2. Append(log, e) \in Seq(Entry)
      BY <2>1, AppendFacts
    <2> QED BY <2>2 DEF e
  <1>8. log' \in Seq(Entry)
    BY <1>1, <1>5, <1>7
  <1> QED BY <1>3, <1>4, <1>8

\* Where an agent has a session.
LEMMA HasSession ==
    ASSUME TypeOK, AgentInv, NEW a \in Agent, pc[a] \notin {"down", "top"}
    PROVE  session[a] \in Session /\ session[a] # 0
  <1>1. session[a] # 0
    BY DEF AgentInv
  <1>2. session[a] \in 0 .. MaxSession
    BY DEF TypeOK
  <1> QED BY <1>1, <1>2, Bounds DEF Session

\* The key a server process offers.
LEMMA OfferedKey ==
    ASSUME TypeOK, ServerInv, AgentInv, NEW a \in Agent, pc[a] = "await", handler[session[a]] = "offered"
    PROVE  /\ session[a] \in Session /\ peer[session[a]] = life /\ life >= 1
           /\ ServerKey(life) \in 0 .. MaxLife /\ ServerKey(life) # 0
           /\ IF keyfile THEN ServerKey(life) \in {0, 1} ELSE ServerKey(life) <= life
  <1>1. session[a] \in Session
    BY HasSession
  <1>2. peer[session[a]] = life /\ life >= 1
    BY <1>1 DEF ServerInv, Live
  <1>3. life \in 0 .. MaxLife
    BY DEF TypeOK
  <1> QED BY <1>1, <1>2, <1>3, Bounds DEF ServerKey
-----------------------------------------------------------------------------
\* Steps preserve the types, and what relates agents, sessions and keys.

\* The types in parts, for the proofs.
AgentTypes ==
    /\ pc \in [Agent -> {"down", "top", "hello", "await", "inject",
                         "ioctl", "relay", "loop", "read", "blocked", "send",
                         "close"}]
    /\ running \in [Agent -> BOOLEAN]
    /\ session \in [Agent -> 0 .. MaxSession]
    /\ key \in [Agent -> 0 .. MaxLife] /\ hand \in [Agent -> Frames]

ModuleTypes ==
    /\ device \in Agent \cup {NoAgent}
    /\ kernelKey \in 0 .. MaxLife
    /\ ring \in Seq(Frames) /\ Len(ring) <= RingBound
    /\ pushed \in 0 .. MaxFrame

ServerTypes ==
    /\ life \in 0 .. MaxLife /\ up \in BOOLEAN /\ keyfile \in BOOLEAN
    /\ sessions \in 0 .. MaxSession
    /\ peer \in [Session -> 0 .. MaxLife]
    /\ handler \in [Session -> {"none", "magic", "offered", "active", "closed"}]
    /\ eof \in [Session -> BOOLEAN]

PathTypes ==
    stream \in [Session -> Seq(MessageType)] /\ log \in Seq(Entry)

LEMMA TypeStep == TypeOK /\ ServerInv /\ AgentInv /\ [Next]_vars => TypeOK'
  <1> SUFFICES ASSUME TypeOK, ServerInv, AgentInv, [Next]_vars PROVE TypeOK'
    OBVIOUS
  <1>0. (AgentTypes /\ ModuleTypes /\ ServerTypes /\ PathTypes)' => TypeOK'
    BY DEF TypeOK, AgentTypes, ModuleTypes, ServerTypes, PathTypes, MessageType, Entry
  <1>t. AgentTypes /\ ModuleTypes /\ ServerTypes /\ PathTypes
    BY DEF TypeOK, AgentTypes, ModuleTypes, ServerTypes, PathTypes, MessageType, Entry
  <1> USE <1>t, Bounds DEF agentVars, kernel, moduleVars, serverVars, sessionVars,
          tlsVars, elsewhere, Goto
  <1>1. ASSUME NEW a \in Agent, Start(a) PROVE TypeOK'
    <2>1. AgentTypes'
      BY <1>1 DEF AgentTypes, Start
    <2>2. ModuleTypes'
      BY <1>1 DEF ModuleTypes, Start
    <2>3. ServerTypes'
      BY <1>1 DEF ServerTypes, Start
    <2>4. PathTypes'
      BY <1>1 DEF PathTypes, Start
    <2> QED BY <1>0, <2>1, <2>2, <2>3, <2>4
  <1>2. ASSUME NEW a \in Agent, Stop(a) PROVE TypeOK'
    <2>1. AgentTypes'
      BY <1>2 DEF AgentTypes, Stop, Exit, Frames, NoFrame
    <2>2. ModuleTypes'
      BY <1>2 DEF ModuleTypes, Stop, Exit
    <2>3. ServerTypes'
      BY <1>2 DEF ServerTypes, Stop, Exit
    <2>4. PathTypes'
      BY <1>2 DEF PathTypes, Stop, Exit
    <2> QED BY <1>0, <2>1, <2>2, <2>3, <2>4
  <1>3. ASSUME NEW a \in Agent, Connect(a) PROVE TypeOK'
    <2>1. sessions + 1 \in 1 .. MaxSession
      BY <1>3 DEF ServerTypes, Connect
    <2>2. AgentTypes'
      BY <1>3, <2>1 DEF AgentTypes, Connect
    <2>3. ModuleTypes'
      BY <1>3, <2>1 DEF ModuleTypes, Connect
    <2>4. ServerTypes'
      BY <1>3, <2>1 DEF ServerTypes, Connect, Session
    <2>5. PathTypes'
      BY <1>3, <2>1 DEF PathTypes, Connect
    <2> QED BY <1>0, <2>2, <2>3, <2>4, <2>5
  <1>4. ASSUME NEW a \in Agent, Hello(a) PROVE TypeOK'
    <2>1. stream' \in [Session -> Seq(MessageType)]
      BY <1>4, SendTypes, MessageTypes DEF Hello
    <2>2. AgentTypes'
      BY <1>4, <2>1 DEF AgentTypes, Hello
    <2>3. ModuleTypes'
      BY <1>4, <2>1 DEF ModuleTypes, Hello
    <2>4. ServerTypes'
      BY <1>4, <2>1 DEF ServerTypes, Hello
    <2>5. PathTypes'
      BY <1>4, <2>1 DEF PathTypes, Hello
    <2> QED BY <1>0, <2>2, <2>3, <2>4, <2>5
  <1>5. ASSUME NEW a \in Agent, TakeKey(a) PROVE TypeOK'
    <2>1. stream' \in [Session -> Seq(MessageType)]
      BY <1>5, SendTypes, MessageTypes DEF TakeKey
    <2>2. ServerKey(peer[session[a]]) \in 0 .. MaxLife
      BY <1>5, OfferedKey DEF TakeKey
    <2>3. AgentTypes'
      BY <1>5, <2>1, <2>2 DEF AgentTypes, TakeKey
    <2>4. ModuleTypes'
      BY <1>5, <2>1, <2>2 DEF ModuleTypes, TakeKey
    <2>5. ServerTypes'
      BY <1>5, <2>1, <2>2 DEF ServerTypes, TakeKey
    <2>6. PathTypes'
      BY <1>5, <2>1, <2>2 DEF PathTypes, TakeKey
    <2> QED BY <1>0, <2>3, <2>4, <2>5, <2>6
  <1>6. ASSUME NEW a \in Agent, SetKernelKey(a) PROVE TypeOK'
    <2>1. AgentTypes'
      BY <1>6 DEF AgentTypes, SetKernelKey
    <2>2. ModuleTypes'
      BY <1>6 DEF ModuleTypes, SetKernelKey
    <2>3. ServerTypes'
      BY <1>6 DEF ServerTypes, SetKernelKey
    <2>4. PathTypes'
      BY <1>6 DEF PathTypes, SetKernelKey
    <2> QED BY <1>0, <2>1, <2>2, <2>3, <2>4
  <1>7. ASSUME NEW a \in Agent, IoctlKeySet(a) PROVE TypeOK'
    <2>1. /\ ring' \in Seq(Frames) /\ Len(ring') <= RingBound
          /\ pushed' \in 0 .. MaxFrame
      BY <1>7, PushTypes DEF IoctlKeySet, ModuleTypes
    <2>2. kernelKey' \in 0 .. MaxLife
      BY <1>7 DEF IoctlKeySet, AgentTypes
    <2>3. AgentTypes'
      BY <1>7, <2>1, <2>2 DEF AgentTypes, IoctlKeySet, CloseDevice
    <2>4. ModuleTypes'
      BY <1>7, <2>1, <2>2 DEF ModuleTypes, IoctlKeySet, CloseDevice
    <2>5. ServerTypes'
      BY <1>7, <2>1, <2>2 DEF ServerTypes, IoctlKeySet, CloseDevice
    <2>6. PathTypes'
      BY <1>7, <2>1, <2>2 DEF PathTypes, IoctlKeySet, CloseDevice
    <2> QED BY <1>0, <2>3, <2>4, <2>5, <2>6
  <1>8. ASSUME NEW a \in Agent, IoctlExists(a) \/ IoctlFail(a) PROVE TypeOK'
    <2>1. AgentTypes'
      BY <1>8 DEF AgentTypes, IoctlExists, IoctlFail, CloseDevice
    <2>2. ModuleTypes'
      BY <1>8 DEF ModuleTypes, IoctlExists, IoctlFail, CloseDevice
    <2>3. ServerTypes'
      BY <1>8 DEF ServerTypes, IoctlExists, IoctlFail, CloseDevice
    <2>4. PathTypes'
      BY <1>8 DEF PathTypes, IoctlExists, IoctlFail, CloseDevice
    <2> QED BY <1>0, <2>1, <2>2, <2>3, <2>4
  <1>9. ASSUME NEW a \in Agent, OpenDevice(a) \/ RelayTest(a) \/ ReadBlock(a) PROVE TypeOK'
    <2>1. AgentTypes'
      BY <1>9 DEF AgentTypes, OpenDevice, RelayTest, ReadBlock, CloseDevice
    <2>2. ModuleTypes'
      BY <1>9 DEF ModuleTypes, OpenDevice, RelayTest, ReadBlock, CloseDevice
    <2>3. ServerTypes'
      BY <1>9 DEF ServerTypes, OpenDevice, RelayTest, ReadBlock, CloseDevice
    <2>4. PathTypes'
      BY <1>9 DEF PathTypes, OpenDevice, RelayTest, ReadBlock, CloseDevice
    <2> QED BY <1>0, <2>1, <2>2, <2>3, <2>4
  <1>10. ASSUME NEW a \in Agent, ReadFrame(a) PROVE TypeOK'
    <2>1. /\ Tail(ring) \in Seq(Frames) /\ Len(Tail(ring)) <= RingBound
          /\ Head(ring) \in Frames
      BY <1>10, TailFacts DEF ModuleTypes, ReadFrame
    <2>2. AgentTypes'
      BY <1>10, <2>1 DEF AgentTypes, ReadFrame
    <2>3. ModuleTypes'
      BY <1>10, <2>1 DEF ModuleTypes, ReadFrame
    <2>4. ServerTypes'
      BY <1>10, <2>1 DEF ServerTypes, ReadFrame
    <2>5. PathTypes'
      BY <1>10, <2>1 DEF PathTypes, ReadFrame
    <2> QED BY <1>0, <2>2, <2>3, <2>4, <2>5
  <1>11. ASSUME NEW a \in Agent, Forward(a) PROVE TypeOK'
    <2>1. Message("frame", hand[a]) \in MessageType
      BY MessageTypes DEF AgentTypes
    <2>2. stream' \in [Session -> Seq(MessageType)]
      BY <1>11, <2>1, SendTypes DEF Forward
    <2>3. AgentTypes'
      BY <1>11, <2>1, <2>2 DEF AgentTypes, Forward, Frames, NoFrame
    <2>4. ModuleTypes'
      BY <1>11, <2>1, <2>2 DEF ModuleTypes, Forward
    <2>5. ServerTypes'
      BY <1>11, <2>1, <2>2 DEF ServerTypes, Forward
    <2>6. PathTypes'
      BY <1>11, <2>1, <2>2 DEF PathTypes, Forward
    <2> QED BY <1>0, <2>3, <2>4, <2>5, <2>6
  <1>12. ASSUME NEW a \in Agent, SessionFailed(a) PROVE TypeOK'
    <2>1. AgentTypes'
      BY <1>12 DEF AgentTypes, SessionFailed, CloseDevice, Frames, NoFrame
    <2>2. ModuleTypes'
      BY <1>12 DEF ModuleTypes, SessionFailed, CloseDevice
    <2>3. ServerTypes'
      BY <1>12 DEF ServerTypes, SessionFailed, CloseDevice
    <2>4. PathTypes'
      BY <1>12 DEF PathTypes, SessionFailed, CloseDevice
    <2> QED BY <1>0, <2>1, <2>2, <2>3, <2>4
  <1>21. ASSUME NEW a \in Agent, Sigpipe(a) PROVE TypeOK'
    <2>1. AgentTypes'
      BY <1>21 DEF AgentTypes, Sigpipe, Exit, CloseDevice, Frames, NoFrame
    <2>2. ModuleTypes'
      BY <1>21 DEF ModuleTypes, Sigpipe, Exit, CloseDevice
    <2>3. ServerTypes'
      BY <1>21 DEF ServerTypes, Sigpipe, Exit, CloseDevice
    <2>4. PathTypes'
      BY <1>21 DEF PathTypes, Sigpipe, Exit, CloseDevice
    <2> QED BY <1>0, <2>1, <2>2, <2>3, <2>4
  <1>13. ASSUME NEW a \in Agent, CloseSession(a) PROVE TypeOK'
    <2>1. session[a] \in Session /\ Alive(a) \in BOOLEAN
      BY <1>13, HasSession DEF CloseSession, Alive
    <2>2. AgentTypes'
      BY <1>13, <2>1 DEF AgentTypes, CloseSession
    <2>3. ModuleTypes'
      BY <1>13, <2>1 DEF ModuleTypes, CloseSession
    <2>4. ServerTypes'
      BY <1>13, <2>1 DEF ServerTypes, CloseSession
    <2>5. PathTypes'
      BY <1>13, <2>1 DEF PathTypes, CloseSession
    <2> QED BY <1>0, <2>2, <2>3, <2>4, <2>5
  <1>14. ASSUME NEW a \in Agent, Signal(a) PROVE TypeOK'
    <2>1. AgentTypes'
      BY <1>14 DEF AgentTypes, Signal
    <2>2. ModuleTypes'
      BY <1>14 DEF ModuleTypes, Signal
    <2>3. ServerTypes'
      BY <1>14 DEF ServerTypes, Signal
    <2>4. PathTypes'
      BY <1>14 DEF PathTypes, Signal
    <2> QED BY <1>0, <2>1, <2>2, <2>3, <2>4
  <1>15. ASSUME NEW s \in Session, Receive(s) PROVE TypeOK'
    <2>1. /\ stream' \in [Session -> Seq(MessageType)] /\ log' \in Seq(Entry)
          /\ handler' \in [Session -> {"none", "magic", "offered", "active", "closed"}]
      BY <1>15, ReceiveTypes
    <2>2. AgentTypes'
      BY <1>15, <2>1 DEF AgentTypes, Receive
    <2>3. ModuleTypes'
      BY <1>15, <2>1 DEF ModuleTypes, Receive
    <2>4. ServerTypes'
      BY <1>15, <2>1 DEF ServerTypes, Receive
    <2>5. PathTypes'
      BY <1>15, <2>1 DEF PathTypes, Receive
    <2> QED BY <1>0, <2>2, <2>3, <2>4, <2>5
  <1>16. ASSUME NEW s \in Session, EndOfStream(s) \/ Reset(s) PROVE TypeOK'
    <2>1. <<>> \in Seq(MessageType)
      OBVIOUS
    <2>2. AgentTypes'
      BY <1>16, <2>1 DEF AgentTypes, EndOfStream, Reset
    <2>3. ModuleTypes'
      BY <1>16, <2>1 DEF ModuleTypes, EndOfStream, Reset
    <2>4. ServerTypes'
      BY <1>16, <2>1 DEF ServerTypes, EndOfStream, Reset
    <2>5. PathTypes'
      BY <1>16, <2>1 DEF PathTypes, EndOfStream, Reset
    <2> QED BY <1>0, <2>2, <2>3, <2>4, <2>5
  <1>17. ASSUME Detect PROVE TypeOK'
    <2>1. AgentTypes'
      BY <1>17, PushTypes DEF AgentTypes, Detect
    <2>2. ModuleTypes'
      BY <1>17, PushTypes DEF ModuleTypes, Detect
    <2>3. ServerTypes'
      BY <1>17, PushTypes DEF ServerTypes, Detect
    <2>4. PathTypes'
      BY <1>17, PushTypes DEF PathTypes, Detect
    <2> QED BY <1>0, <2>1, <2>2, <2>3, <2>4
  <1>18. ASSUME ServerStart PROVE TypeOK'
    <2>1. AgentTypes'
      BY <1>18 DEF AgentTypes, ServerStart
    <2>2. ModuleTypes'
      BY <1>18 DEF ModuleTypes, ServerStart
    <2>3. ServerTypes'
      BY <1>18 DEF ServerTypes, ServerStart
    <2>4. PathTypes'
      BY <1>18 DEF PathTypes, ServerStart
    <2> QED BY <1>0, <2>1, <2>2, <2>3, <2>4
  <1>19. ASSUME ServerStop PROVE TypeOK'
    <2>1. <<>> \in Seq(MessageType)
      OBVIOUS
    <2>2. AgentTypes'
      BY <1>19, <2>1 DEF AgentTypes, ServerStop
    <2>3. ModuleTypes'
      BY <1>19, <2>1 DEF ModuleTypes, ServerStop
    <2>4. ServerTypes'
      BY <1>19, <2>1 DEF ServerTypes, ServerStop
    <2>5. PathTypes'
      BY <1>19, <2>1 DEF PathTypes, ServerStop
    <2> QED BY <1>0, <2>2, <2>3, <2>4, <2>5
  <1>20. ASSUME UNCHANGED vars PROVE TypeOK'
    <2>1. AgentTypes'
      BY <1>20 DEF AgentTypes, vars
    <2>2. ModuleTypes'
      BY <1>20 DEF ModuleTypes, vars
    <2>3. ServerTypes'
      BY <1>20 DEF ServerTypes, vars
    <2>4. PathTypes'
      BY <1>20 DEF PathTypes, vars
    <2> QED BY <1>0, <2>1, <2>2, <2>3, <2>4
  <1> QED
    BY <1>1, <1>2, <1>3, <1>4, <1>5, <1>6, <1>7, <1>8, <1>9, <1>10, <1>11, <1>12,
       <1>13, <1>14, <1>15, <1>16, <1>17, <1>18, <1>19, <1>20, <1>21 DEF Next, AgentStep, HandlerStep

LEMMA ServerStep == TypeOK /\ ServerInv /\ AgentInv /\ [Next]_vars => ServerInv'
  <1> SUFFICES ASSUME TypeOK, ServerInv, AgentInv, [Next]_vars PROVE ServerInv'
    OBVIOUS
  <1> USE Bounds DEF agentVars, kernel, moduleVars, serverVars, sessionVars, tlsVars, elsewhere, Live
  <1>1. ASSUME NEW a \in Agent, Connect(a) PROVE ServerInv'
    <2>1. sessions + 1 \in Session /\ sessions \in Nat /\ life \in Nat
      BY <1>1 DEF TypeOK, Connect, Session
    <2>2. \A s \in Session : s # sessions + 1 => handler'[s] = handler[s] /\ peer'[s] = peer[s]
      BY <1>1, <2>1 DEF TypeOK, Connect
    <2>3. peer'[sessions + 1] = life /\ handler'[sessions + 1] = "magic"
      BY <1>1, <2>1 DEF TypeOK, Connect
    <2> QED BY <1>1, <2>1, <2>2, <2>3 DEF ServerInv, Connect, Session
  <1>2. ASSUME NEW s \in Session, Receive(s) PROVE ServerInv'
    <2>1. \/ handler' = [handler EXCEPT ![s] = "offered"]
          \/ handler' = [handler EXCEPT ![s] = "active"]
          \/ handler' = handler
      BY <1>2 DEF Receive
    <2>2. handler[s] \in Live /\ UNCHANGED <<up, life, peer, sessions>>
      BY <1>2 DEF Receive
    <2> QED BY <2>1, <2>2 DEF TypeOK, ServerInv
  <1>3. ASSUME NEW s \in Session, EndOfStream(s) \/ Reset(s) PROVE ServerInv'
    BY <1>3 DEF TypeOK, ServerInv, EndOfStream, Reset
  <1>4. ASSUME ServerStart PROVE ServerInv'
    BY <1>4 DEF TypeOK, ServerInv, ServerStart
  <1>5. ASSUME ServerStop PROVE ServerInv'
    BY <1>5 DEF TypeOK, ServerInv, ServerStop
  <1>6. ASSUME UNCHANGED <<up, life, peer, handler, sessions>> PROVE ServerInv'
    BY <1>6 DEF ServerInv
  <1>7. ASSUME NEW a \in Agent, Start(a) \/ AgentStep(a) \/ Signal(a)
        PROVE  UNCHANGED <<up, life, peer, handler, sessions>>
    BY <1>7 DEF Start, AgentStep, Signal, Stop, Hello, TakeKey, SetKernelKey,
       IoctlKeySet, IoctlExists, IoctlFail, OpenDevice, RelayTest, ReadBlock,
       ReadFrame, Forward, SessionFailed, Sigpipe, CloseSession
  <1>8. Detect \/ UNCHANGED vars => UNCHANGED <<up, life, peer, handler, sessions>>
    BY DEF Detect, vars
  <1> QED
    BY <1>1, <1>2, <1>3, <1>4, <1>5, <1>6, <1>7, <1>8 DEF Next, HandlerStep
LEMMA AgentKeyStep ==
    TypeOK /\ ServerInv /\ AgentInv /\ KeyInv /\ [Next]_vars => AgentInv' /\ KeyInv'
  <1> SUFFICES ASSUME TypeOK, ServerInv, AgentInv, KeyInv, [Next]_vars
               PROVE  AgentInv' /\ KeyInv'
    OBVIOUS
  <1>t. /\ AgentTypes /\ kernelKey \in 0 .. MaxLife /\ pushed \in 0 .. MaxFrame
        /\ life \in 0 .. MaxLife /\ sessions \in 0 .. MaxSession
    BY DEF TypeOK, AgentTypes
  <1> USE <1>t, Bounds DEF agentVars, kernel, moduleVars, serverVars, sessionVars,
          tlsVars, elsewhere, Goto, AgentTypes
  <1>1. ASSUME NEW a \in Agent, Start(a) PROVE AgentInv' /\ KeyInv'
    BY <1>1 DEF Start, AgentInv, KeyInv
  <1>2. ASSUME NEW a \in Agent, Stop(a) PROVE AgentInv' /\ KeyInv'
    BY <1>2 DEF Stop, Exit, AgentInv, KeyInv
  <1>3. ASSUME NEW a \in Agent, Connect(a) PROVE AgentInv' /\ KeyInv'
    BY <1>3 DEF Connect, AgentInv, KeyInv
  <1>4. ASSUME NEW a \in Agent, Hello(a) PROVE AgentInv' /\ KeyInv'
    BY <1>4 DEF Hello, AgentInv, KeyInv
  <1>5. ASSUME NEW a \in Agent, TakeKey(a) PROVE AgentInv' /\ KeyInv'
    <2>1. /\ key' = [key EXCEPT ![a] = ServerKey(life)] /\ ServerKey(life) # 0
          /\ IF keyfile THEN ServerKey(life) \in {0, 1} ELSE ServerKey(life) <= life
      BY <1>5, OfferedKey DEF TakeKey
    <2> HIDE DEF ServerKey
    <2>2. AgentInv'
      BY <1>5, <2>1 DEF TakeKey, AgentInv
    <2>3. KeyInv'
      BY <1>5, <2>1 DEF TakeKey, KeyInv
    <2> QED BY <2>2, <2>3
  <1>6. ASSUME NEW a \in Agent, SetKernelKey(a) PROVE AgentInv' /\ KeyInv'
    BY <1>6 DEF SetKernelKey, AgentInv, KeyInv
  <1>7. ASSUME NEW a \in Agent, IoctlKeySet(a) PROVE AgentInv' /\ KeyInv'
    <2>1. key[a] # 0 /\ kernelKey' = key[a]
      BY <1>7 DEF IoctlKeySet, AgentInv
    <2>2. AgentInv'
      BY <1>7 DEF IoctlKeySet, AgentInv
    <2>3. KeyInv'
      BY <1>7, <2>1 DEF IoctlKeySet, KeyInv
    <2> QED BY <2>2, <2>3
  <1>8. ASSUME NEW a \in Agent, IoctlExists(a) \/ IoctlFail(a) PROVE AgentInv' /\ KeyInv'
    BY <1>8 DEF IoctlExists, IoctlFail, AgentInv, KeyInv
  <1>9. ASSUME NEW a \in Agent,
               OpenDevice(a) \/ RelayTest(a) \/ ReadBlock(a) \/ ReadFrame(a) \/ Forward(a)
        PROVE  AgentInv' /\ KeyInv'
    <2>1. UNCHANGED <<session, key, kernelKey, pushed, life, keyfile>>
      BY <1>9 DEF OpenDevice, RelayTest, ReadBlock, ReadFrame, Forward
    <2>2. /\ pc[a] \notin {"down", "top"}
          /\ \E l \in {"loop", "read", "blocked", "send", "close"} : pc' = [pc EXCEPT ![a] = l]
      BY <1>9 DEF OpenDevice, RelayTest, ReadBlock, ReadFrame, Forward
    <2>3. AgentInv'
      BY <2>1, <2>2 DEF AgentInv
    <2>4. KeyInv'
      BY <2>1 DEF KeyInv
    <2> QED BY <2>3, <2>4
  <1>10. ASSUME NEW a \in Agent, SessionFailed(a) PROVE AgentInv' /\ KeyInv'
    BY <1>10 DEF SessionFailed, AgentInv, KeyInv
  <1>11. ASSUME NEW a \in Agent, Sigpipe(a) PROVE AgentInv' /\ KeyInv'
    BY <1>11 DEF Sigpipe, Exit, AgentInv, KeyInv
  <1>12. ASSUME NEW a \in Agent, CloseSession(a) PROVE AgentInv' /\ KeyInv'
    BY <1>12 DEF CloseSession, AgentInv, KeyInv
  <1>13. ASSUME NEW a \in Agent, Signal(a) PROVE AgentInv' /\ KeyInv'
    BY <1>13 DEF Signal, AgentInv, KeyInv
  <1>14. ASSUME NEW s \in Session, HandlerStep(s) \/ Reset(s) PROVE AgentInv' /\ KeyInv'
    <2>1. UNCHANGED <<agentVars, moduleVars, serverVars>>
      BY <1>14 DEF HandlerStep, Receive, EndOfStream, Reset
    <2> QED BY <2>1 DEF AgentInv, KeyInv
  <1>15. ASSUME Detect PROVE AgentInv' /\ KeyInv'
    BY <1>15 DEF Detect, AgentInv, KeyInv
  <1>16. ASSUME ServerStart PROVE AgentInv' /\ KeyInv'
    BY <1>16 DEF ServerStart, AgentInv, KeyInv
  <1>17. ASSUME ServerStop \/ UNCHANGED vars PROVE AgentInv' /\ KeyInv'
    BY <1>17 DEF ServerStop, vars, AgentInv, KeyInv
  <1> QED
    BY <1>1, <1>2, <1>3, <1>4, <1>5, <1>6, <1>7, <1>8, <1>9, <1>10, <1>11,
       <1>12, <1>13, <1>14, <1>15, <1>16, <1>17 DEF Next, AgentStep

LEMMA DeviceStep ==
    TypeOK /\ DeviceHasOneUser /\ [Next]_vars => DeviceHasOneUser'
  <1> SUFFICES ASSUME TypeOK, DeviceHasOneUser, [Next]_vars PROVE DeviceHasOneUser'
    OBVIOUS
  <1>t. AgentTypes /\ device \in Agent \cup {NoAgent}
    BY DEF TypeOK, AgentTypes
  <1> USE <1>t, Bounds DEF agentVars, kernel, moduleVars, elsewhere, Goto,
          AgentTypes, DeviceHasOneUser, Relaying
  <1>1. ASSUME NEW a \in Agent, Start(a) \/ Connect(a) \/ Hello(a) \/ TakeKey(a)
        PROVE  DeviceHasOneUser'
    BY <1>1 DEF Start, Connect, Hello, TakeKey
  <1>2. ASSUME NEW a \in Agent, Stop(a) \/ Sigpipe(a) PROVE DeviceHasOneUser'
    BY <1>2 DEF Stop, Sigpipe, Exit, CloseDevice
  <1>3. ASSUME NEW a \in Agent, SetKernelKey(a) PROVE DeviceHasOneUser'
    BY <1>3 DEF SetKernelKey
  <1>4. ASSUME NEW a \in Agent, IoctlKeySet(a) \/ IoctlExists(a) \/ IoctlFail(a)
        PROVE  DeviceHasOneUser'
    BY <1>4 DEF IoctlKeySet, IoctlExists, IoctlFail, CloseDevice
  <1>5. ASSUME NEW a \in Agent, OpenDevice(a) PROVE DeviceHasOneUser'
    BY <1>5 DEF OpenDevice
  <1>6. ASSUME NEW a \in Agent, RelayTest(a) PROVE DeviceHasOneUser'
    BY <1>6 DEF RelayTest, CloseDevice
  <1>7. ASSUME NEW a \in Agent, ReadBlock(a) \/ ReadFrame(a) \/ Forward(a)
        PROVE  DeviceHasOneUser'
    BY <1>7 DEF ReadBlock, ReadFrame, Forward
  <1>8. ASSUME NEW a \in Agent, SessionFailed(a) PROVE DeviceHasOneUser'
    BY <1>8 DEF SessionFailed, CloseDevice
  <1>9. ASSUME NEW a \in Agent, CloseSession(a) \/ Signal(a) PROVE DeviceHasOneUser'
    BY <1>9 DEF CloseSession, Signal
  <1>10. ASSUME NEW s \in Session, HandlerStep(s) \/ Reset(s) PROVE DeviceHasOneUser'
    <2>1. UNCHANGED <<pc, device>>
      BY <1>10 DEF HandlerStep, Receive, EndOfStream, Reset
    <2> QED BY <2>1
  <1>11. ASSUME Detect \/ ServerStart \/ ServerStop \/ UNCHANGED vars
         PROVE  DeviceHasOneUser'
    <2>1. UNCHANGED <<pc, device>>
      BY <1>11 DEF Detect, ServerStart, ServerStop, vars
    <2> QED BY <2>1
  <1> QED
    BY <1>1, <1>2, <1>3, <1>4, <1>5, <1>6, <1>7, <1>8, <1>9, <1>10, <1>11
       DEF Next, AgentStep
-----------------------------------------------------------------------------
\* Steps preserve the order along the path.

LEMMA Numbers ==
    ASSUME TypeOK
    PROVE  /\ pushed \in Nat /\ sessions \in Nat /\ NoFrame = 0
           /\ DOMAIN ring = 1 .. Len(ring) /\ Len(ring) \in Nat
           /\ \A j \in DOMAIN ring : ring[j] \in Nat
           /\ \A a \in Agent : hand[a] \in Nat
           /\ \A s \in Session : /\ stream[s] \in Seq(MessageType)
                                 /\ DOMAIN stream[s] = 1 .. Len(stream[s])
                                 /\ Len(stream[s]) \in Nat
           /\ \A s \in Session : \A i \in DOMAIN stream[s] : stream[s][i].frame \in Nat
           /\ log \in Seq(Entry) /\ DOMAIN log = 1 .. Len(log) /\ Len(log) \in Nat
           /\ \A i \in DOMAIN log : log[i].frame \in Nat /\ log[i].session \in Session
           /\ \A s \in Session : s \in Nat
  <1>1. Frames \subseteq Nat /\ Session \subseteq Nat /\ NoFrame = 0
    BY Bounds DEF Frames, Session, NoFrame
  <1>2. pushed \in Nat /\ sessions \in Nat /\ \A a \in Agent : hand[a] \in Nat
    <2>1. pushed \in 0 .. MaxFrame /\ sessions \in 0 .. MaxSession /\ hand \in [Agent -> Frames]
      BY DEF TypeOK
    <2>2. \A a \in Agent : hand[a] \in Frames
      BY <2>1
    <2>3. pushed \in Nat /\ sessions \in Nat
      BY <2>1, Bounds
    <2> QED BY <1>1, <2>2, <2>3
  <1>3. /\ ring \in Seq(Frames) /\ log \in Seq(Entry)
        /\ \A s \in Session : stream[s] \in Seq(MessageType)
    BY DEF TypeOK, Entry, MessageType
  <1>4. /\ DOMAIN ring = 1 .. Len(ring) /\ Len(ring) \in Nat
        /\ \A j \in DOMAIN ring : ring[j] \in Frames
    BY <1>3
  <1>5. \A s \in Session :
            /\ DOMAIN stream[s] = 1 .. Len(stream[s]) /\ Len(stream[s]) \in Nat
            /\ \A i \in DOMAIN stream[s] : stream[s][i] \in MessageType
    BY <1>3
  <1>6. /\ DOMAIN log = 1 .. Len(log) /\ Len(log) \in Nat
        /\ \A i \in DOMAIN log : log[i] \in Entry
    BY <1>3
  <1>7. \A s \in Session : \A i \in DOMAIN stream[s] : stream[s][i].frame \in Nat
    BY <1>1, <1>5 DEF MessageType
  <1>8. \A i \in DOMAIN log : log[i].frame \in Nat /\ log[i].session \in Session
    BY <1>1, <1>6 DEF Entry
  <1> QED BY <1>1, <1>2, <1>3, <1>4, <1>5, <1>6, <1>7, <1>8

\* A step that moves no frame, but may lose those in a stream or in a hand.
LEMMA PathLoses ==
    ASSUME TypeOK, PathInv, UNCHANGED <<ring, pushed, log>>,
           sessions' \in Nat, sessions <= sessions',
           \A a \in Agent : /\ hand'[a] = hand[a] \/ hand'[a] = NoFrame
                            /\ hand'[a] # NoFrame <=> pc'[a] = "send",
           \A s \in Session : stream'[s] = stream[s] \/ stream'[s] = <<>>
    PROVE  PathInv'
  <1> USE Numbers
  <1>1. \A s \in Session : \A i \in DOMAIN stream'[s] :
            i \in DOMAIN stream[s] /\ stream'[s] = stream[s]
    OBVIOUS
  <1>2. RingInv'
    BY DEF PathInv, RingInv
  <1>3. HandInv'
    BY DEF PathInv, HandInv, RingInv
  <1>4. StreamBehind'
    <2> SUFFICES ASSUME NEW s \in Session, NEW i \in DOMAIN stream'[s]
                 PROVE  /\ stream'[s][i].frame <= pushed'
                        /\ stream'[s][i].type = "frame" => stream'[s][i].frame # NoFrame
                        /\ \A j \in DOMAIN ring' : stream'[s][i].frame < ring'[j]
                        /\ \A a \in Agent : hand'[a] # NoFrame => stream'[s][i].frame < hand'[a]
      BY DEF StreamBehind
    <2> QED BY <1>1 DEF PathInv, StreamBehind
  <1>5. StreamOrder'
    BY <1>1 DEF PathInv, StreamOrder
  <1>9. StreamApart'
    <2> SUFFICES ASSUME NEW s \in Session, NEW u \in Session, s # u,
                        NEW i \in DOMAIN stream'[s], NEW j \in DOMAIN stream'[u],
                        stream'[s][i].frame # NoFrame
                 PROVE  stream'[u][j].frame # stream'[s][i].frame
      BY DEF StreamApart
    <2>1. /\ i \in DOMAIN stream[s] /\ stream'[s] = stream[s]
          /\ j \in DOMAIN stream[u] /\ stream'[u] = stream[u]
      BY <1>1
    <2>2. StreamApart
      BY DEF PathInv
    <2> HIDE Numbers
    <2> QED BY <2>1, <2>2 DEF StreamApart
  <1>6. LogBehind'
    <2> SUFFICES ASSUME NEW i \in DOMAIN log
                 PROVE  /\ 1 <= log[i].frame /\ log[i].frame <= pushed
                        /\ log[i].session <= sessions'
                        /\ \A j \in DOMAIN ring : log[i].frame < ring[j]
                        /\ \A a \in Agent : hand'[a] # NoFrame => log[i].frame < hand'[a]
      BY DEF LogBehind
    <2>1. /\ log[i].frame \in Nat /\ log[i].session \in Nat /\ sessions \in Nat
          /\ LogBehind
      BY DEF PathInv
    <2> HIDE Numbers
    <2> QED BY <2>1 DEF LogBehind
  <1>7. LogStream'
    BY <1>1 DEF PathInv, LogStream
  <1>8. LogOrder'
    BY DEF PathInv, LogOrder
  <1> QED BY <1>2, <1>3, <1>4, <1>5, <1>6, <1>7, <1>8, <1>9 DEF PathInv

\* A new frame is younger than all others.
LEMMA PathPush ==
    ASSUME TypeOK, PathInv, PushFrame, pushed < MaxFrame,
           UNCHANGED <<hand, stream, log, sessions>>,
           \A a \in Agent : pc'[a] = "send" <=> pc[a] = "send"
    PROVE  PathInv'
  <1> USE Numbers
  <1>1. pushed' = pushed + 1
    BY DEF PushFrame
  <1>2. \A j \in DOMAIN ring' :
            \/ j \in DOMAIN ring /\ ring'[j] = ring[j]
            \/ j = Len(ring) + 1 /\ ring'[j] = pushed + 1
    <2>1. CASE ring' = ring
      BY <2>1
    <2>2. CASE ring' = Append(ring, pushed + 1)
      <3>1. ring \in Seq(Frames) /\ pushed + 1 \in Frames
        BY Bounds DEF TypeOK, Frames
      <3> QED BY <2>2, <3>1, AppendFacts
    <2> QED BY <2>1, <2>2 DEF PushFrame
  <1>3. RingInv'
    BY <1>1, <1>2 DEF PathInv, RingInv
  <1>4. HandInv'
    BY <1>1, <1>2 DEF PathInv, HandInv
  <1>5. StreamBehind'
    <2> SUFFICES ASSUME NEW s \in Session, NEW i \in DOMAIN stream[s]
                 PROVE  /\ stream[s][i].frame <= pushed'
                        /\ stream[s][i].type = "frame" => stream[s][i].frame # NoFrame
                        /\ \A j \in DOMAIN ring' : stream[s][i].frame < ring'[j]
                        /\ \A a \in Agent : hand[a] # NoFrame => stream[s][i].frame < hand[a]
      BY DEF StreamBehind
    <2>1. /\ stream[s][i].frame <= pushed
          /\ stream[s][i].type = "frame" => stream[s][i].frame # NoFrame
          /\ \A j \in DOMAIN ring : stream[s][i].frame < ring[j]
          /\ \A a \in Agent : hand[a] # NoFrame => stream[s][i].frame < hand[a]
      BY DEF PathInv, StreamBehind
    <2>2. stream[s][i].frame \in Nat /\ pushed \in Nat
      OBVIOUS
    <2> HIDE Numbers
    <2> QED BY <1>1, <1>2, <2>1, <2>2
  <1>6. StreamOrder' /\ StreamApart'
    BY DEF PathInv, StreamOrder, StreamApart
  <1>7. LogBehind'
    <2> SUFFICES ASSUME NEW i \in DOMAIN log
                 PROVE  /\ 1 <= log[i].frame /\ log[i].frame <= pushed'
                        /\ log[i].session <= sessions
                        /\ \A j \in DOMAIN ring' : log[i].frame < ring'[j]
                        /\ \A a \in Agent : hand[a] # NoFrame => log[i].frame < hand[a]
      BY DEF LogBehind
    <2>1. /\ 1 <= log[i].frame /\ log[i].frame <= pushed /\ log[i].session <= sessions
          /\ \A j \in DOMAIN ring : log[i].frame < ring[j]
          /\ \A a \in Agent : hand[a] # NoFrame => log[i].frame < hand[a]
      BY DEF PathInv, LogBehind
    <2>2. log[i].frame \in Nat /\ pushed \in Nat
      OBVIOUS
    <2> HIDE Numbers
    <2> QED BY <1>1, <1>2, <2>1, <2>2
  <1>8. LogStream' /\ LogOrder'
    BY DEF PathInv, LogStream, LogOrder
  <1> QED BY <1>3, <1>4, <1>5, <1>6, <1>7, <1>8 DEF PathInv

\* The oldest frame of the ring is younger than all that left it, and the reader
\* is the only agent that has the device.
LEMMA PathRead ==
    ASSUME TypeOK, PathInv, DeviceHasOneUser, NEW a \in Agent, ReadFrame(a)
    PROVE  PathInv'
  <1> USE Numbers
  <1>1. /\ UNCHANGED <<pushed, stream, log, sessions>>
        /\ hand' = [hand EXCEPT ![a] = Head(ring)] /\ pc' = [pc EXCEPT ![a] = "send"]
        /\ ring # <<>> /\ ring' = Tail(ring)
    BY DEF ReadFrame, Goto, elsewhere, tlsVars, sessionVars
  <1>2. /\ 1 \in DOMAIN ring /\ Head(ring) = ring[1]
        /\ \A j \in DOMAIN ring' : j + 1 \in DOMAIN ring /\ ring'[j] = ring[j + 1] /\ j \in Nat /\ 1 < j + 1
    <2>1. ring \in Seq(Frames)
      BY DEF TypeOK
    <2> QED BY <1>1, <2>1, TailFacts
  <1>3. \A b \in Agent : hand'[b] = IF b = a THEN ring[1] ELSE hand[b]
    BY <1>1, <1>2 DEF TypeOK
  <1>4. \A b \in Agent : pc'[b] = IF b = a THEN "send" ELSE pc[b]
    BY <1>1 DEF TypeOK
  <1>5. \A b \in Agent : b # a => hand[b] = NoFrame /\ pc[b] # "send"
    BY DEF DeviceHasOneUser, Relaying, ReadFrame, PathInv, HandInv
  <1>6. RingInv'
    <2>1. RingInv /\ \A j \in DOMAIN ring' : j \in Nat
      BY <1>2 DEF PathInv
    <2> HIDE Numbers
    <2>2. \A j \in DOMAIN ring' : 1 <= ring'[j] /\ ring'[j] <= pushed'
      BY <1>1, <1>2, <2>1 DEF RingInv
    <2>3. ASSUME NEW i \in DOMAIN ring', NEW j \in DOMAIN ring', i < j
          PROVE  ring'[i] < ring'[j]
      <3>1. i + 1 < j + 1
        BY <2>1, <2>3
      <3> QED BY <1>2, <2>1, <3>1 DEF RingInv
    <2> QED BY <2>2, <2>3 DEF RingInv
  <1>7. HandInv'
    <2>1. RingInv /\ HandInv /\ \A j \in DOMAIN ring : ring[j] \in Nat
      BY DEF PathInv
    <2>2. NoFrame = 0
      OBVIOUS
    <2> HIDE Numbers
    <2>3. \A b \in Agent : hand'[b] # NoFrame <=> pc'[b] = "send"
      BY <1>2, <1>3, <1>4, <1>5, <2>1, <2>2 DEF RingInv
    <2>4. \A b \in Agent : hand'[b] <= pushed'
      BY <1>1, <1>2, <1>3, <2>1 DEF RingInv, HandInv
    <2>5. \A b \in Agent : \A j \in DOMAIN ring' : hand'[b] < ring'[j]
      BY <1>2, <1>3, <2>1 DEF RingInv, HandInv
    <2> QED BY <2>3, <2>4, <2>5 DEF HandInv
  <1>8. StreamBehind'
    <2> SUFFICES ASSUME NEW s \in Session, NEW i \in DOMAIN stream[s]
                 PROVE  /\ stream[s][i].frame <= pushed
                        /\ stream[s][i].type = "frame" => stream[s][i].frame # NoFrame
                        /\ \A j \in DOMAIN ring' : stream[s][i].frame < ring'[j]
                        /\ \A b \in Agent : hand'[b] # NoFrame => stream[s][i].frame < hand'[b]
      BY <1>1 DEF StreamBehind
    <2>1. StreamBehind
      BY DEF PathInv
    <2> HIDE Numbers
    <2> QED BY <1>2, <1>3, <1>5, <2>1 DEF StreamBehind
  <1>9. StreamOrder' /\ StreamApart'
    BY <1>1 DEF PathInv, StreamOrder, StreamApart
  <1>10. LogBehind'
    BY <1>1, <1>2, <1>3, <1>5 DEF PathInv, LogBehind
  <1>11. LogStream' /\ LogOrder'
    BY <1>1 DEF PathInv, LogStream, LogOrder
  <1> QED BY <1>6, <1>7, <1>8, <1>9, <1>10, <1>11 DEF PathInv

\* A message goes to the end of a stream: without a frame, or with the one in
\* the sender's hand, which is younger than all in streams and in the log.
LEMMA PathSend ==
    ASSUME TypeOK, PathInv, NEW a \in Agent, NEW m \in MessageType, Send(a, m),
           UNCHANGED <<ring, pushed, log, sessions>>,
           \A b \in Agent : /\ hand'[b] = hand[b] \/ hand'[b] = NoFrame
                            /\ hand'[b] # NoFrame <=> pc'[b] = "send",
           m.type = "frame" => m.frame # NoFrame,
           m.frame # NoFrame => /\ m.frame = hand[a]
                                /\ \A b \in Agent : hand'[b] = NoFrame
    PROVE  PathInv'
  <1> USE Numbers
  <1>1. m.frame \in Nat
    BY Bounds DEF MessageType, Frames
  <1>2. \A s \in Session : \A i \in DOMAIN stream'[s] :
            \/ i \in DOMAIN stream[s] /\ stream'[s][i] = stream[s][i]
            \/ i = Len(stream[s]) + 1 /\ stream'[s][i] = m /\ s = session[a]
    <2> TAKE s \in Session
    <2>1. CASE stream'[s] = stream[s]
      BY <2>1
    <2>2. CASE stream'[s] = Append(stream[s], m) /\ s = session[a]
      BY <2>2, AppendFacts
    <2> QED BY <2>1, <2>2, SendTypes
  <1>3. m.frame # NoFrame =>
            /\ m.frame <= pushed
            /\ \A j \in DOMAIN ring : m.frame < ring[j]
            /\ \A s \in Session : \A i \in DOMAIN stream[s] : stream[s][i].frame < m.frame
            /\ \A i \in DOMAIN log : log[i].frame < m.frame
    BY DEF PathInv, HandInv, StreamBehind, LogBehind
  <1>4. RingInv' /\ LogOrder'
    BY DEF PathInv, RingInv, LogOrder
  <1>5. HandInv'
    BY DEF PathInv, HandInv, RingInv
  <1>6. StreamBehind'
    <2> SUFFICES ASSUME NEW s \in Session, NEW i \in DOMAIN stream'[s]
                 PROVE  /\ stream'[s][i].frame <= pushed'
                        /\ stream'[s][i].type = "frame" => stream'[s][i].frame # NoFrame
                        /\ \A j \in DOMAIN ring' : stream'[s][i].frame < ring'[j]
                        /\ \A b \in Agent : hand'[b] # NoFrame => stream'[s][i].frame < hand'[b]
      BY DEF StreamBehind
    <2>1. CASE i \in DOMAIN stream[s] /\ stream'[s][i] = stream[s][i]
      BY <2>1 DEF PathInv, StreamBehind
    <2>2. CASE stream'[s][i] = m
      <3>1. \A j \in DOMAIN ring : 1 <= ring[j]
        BY DEF PathInv, RingInv
      <3>2. CASE m.frame = NoFrame
        <4>1. NoFrame = 0 /\ pushed \in Nat /\ \A b \in Agent : hand'[b] # NoFrame => 0 < hand'[b]
          OBVIOUS
        <4>2. \A j \in DOMAIN ring : ring[j] \in Nat
          OBVIOUS
        <4> HIDE Numbers
        <4> QED BY <2>2, <3>1, <3>2, <4>1, <4>2
      <3>3. CASE m.frame # NoFrame
        <4> HIDE Numbers
        <4> QED BY <1>3, <2>2, <3>3
      <3> QED BY <3>2, <3>3
    <2> QED BY <1>2, <2>1, <2>2
  <1>7. StreamOrder'
    <2> SUFFICES ASSUME NEW s \in Session, NEW i \in DOMAIN stream'[s], NEW j \in DOMAIN stream'[s],
                        i < j, stream'[s][i].frame # NoFrame, stream'[s][j].frame # NoFrame
                 PROVE  stream'[s][i].frame < stream'[s][j].frame
      BY DEF StreamOrder
    <2>1. /\ \/ i \in DOMAIN stream[s] /\ stream'[s][i] = stream[s][i]
             \/ i = Len(stream[s]) + 1 /\ stream'[s][i] = m
          /\ \/ j \in DOMAIN stream[s] /\ stream'[s][j] = stream[s][j]
             \/ j = Len(stream[s]) + 1 /\ stream'[s][j] = m
          /\ \A k \in DOMAIN stream[s] : k < Len(stream[s]) + 1 /\ k \in Nat
          /\ Len(stream[s]) \in Nat
      BY <1>2
    <2>2. i \in DOMAIN stream[s] /\ stream'[s][i] = stream[s][i]
      <3> HIDE Numbers
      <3> QED BY <2>1
    <2>3. StreamOrder
      BY DEF PathInv
    <2>4. CASE j \in DOMAIN stream[s] /\ stream'[s][j] = stream[s][j]
      <3> HIDE Numbers
      <3> QED BY <2>2, <2>3, <2>4 DEF StreamOrder
    <2>5. CASE stream'[s][j] = m
      BY <1>3, <2>2, <2>5
    <2> QED BY <2>1, <2>4, <2>5
  <1>8. StreamApart'
    <2> SUFFICES ASSUME NEW s \in Session, NEW u \in Session, s # u,
                        NEW i \in DOMAIN stream'[s], NEW j \in DOMAIN stream'[u],
                        stream'[s][i].frame # NoFrame
                 PROVE  stream'[u][j].frame # stream'[s][i].frame
      BY DEF StreamApart
    <2>1. /\ \/ i \in DOMAIN stream[s] /\ stream'[s][i] = stream[s][i]
             \/ stream'[s][i] = m /\ s = session[a]
          /\ \/ j \in DOMAIN stream[u] /\ stream'[u][j] = stream[u][j]
             \/ stream'[u][j] = m /\ u = session[a]
      BY <1>2
    <2>2. CASE stream'[s][i] = m /\ s = session[a]
      <3>1. j \in DOMAIN stream[u] /\ stream'[u][j] = stream[u][j]
        BY <2>1, <2>2
      <3>2. stream[u][j].frame < m.frame /\ stream[u][j].frame \in Nat
        BY <1>3, <2>2, <3>1
      <3> HIDE Numbers
      <3> QED BY <1>1, <2>2, <3>1, <3>2
    <2>3. CASE stream'[u][j] = m /\ u = session[a]
      <3>1. i \in DOMAIN stream[s] /\ stream'[s][i] = stream[s][i]
        BY <2>1, <2>3
      <3>2. CASE m.frame = NoFrame
        BY <2>3, <3>2
      <3>3. CASE m.frame # NoFrame
        <4>1. stream[s][i].frame < m.frame /\ stream[s][i].frame \in Nat
          BY <1>3, <3>1, <3>3
        <4> HIDE Numbers
        <4> QED BY <1>1, <2>3, <3>1, <4>1
      <3> QED BY <3>2, <3>3
    <2>4. CASE /\ i \in DOMAIN stream[s] /\ stream'[s][i] = stream[s][i]
               /\ j \in DOMAIN stream[u] /\ stream'[u][j] = stream[u][j]
      <3>1. StreamApart
        BY DEF PathInv
      <3> HIDE Numbers
      <3> QED BY <2>4, <3>1 DEF StreamApart
    <2> QED BY <2>1, <2>2, <2>3, <2>4
  <1>9. LogBehind'
    BY DEF PathInv, LogBehind
  <1>10. LogStream'
    <2> SUFFICES ASSUME NEW i \in DOMAIN log', NEW s \in Session, NEW j \in DOMAIN stream'[s]
                 PROVE  /\ stream'[s][j].frame # log'[i].frame
                        /\ (log'[i].session = s /\ stream'[s][j].frame # NoFrame)
                              => log'[i].frame < stream'[s][j].frame
      BY DEF LogStream
    <2>1. CASE j \in DOMAIN stream[s] /\ stream'[s][j] = stream[s][j]
      BY <2>1 DEF PathInv, LogStream
    <2>2. CASE stream'[s][j] = m
      <3>1. 1 <= log[i].frame /\ log[i].frame \in Nat
        BY DEF PathInv, LogBehind
      <3>2. m.frame # NoFrame => log[i].frame < m.frame
        BY <1>3
      <3> QED BY <1>1, <2>2, <3>1, <3>2
    <2> QED BY <1>2, <2>1, <2>2
  <1> QED BY <1>4, <1>5, <1>6, <1>7, <1>8, <1>9, <1>10 DEF PathInv

\* What a handler reads is the oldest of its stream.
LEMMA PathReceive ==
    ASSUME TypeOK, PathInv, ServerInv, NEW s \in Session, Receive(s)
    PROVE  PathInv'
  <1> USE Numbers
  <1>1. UNCHANGED <<pc, hand, ring, pushed, sessions>>
    BY DEF Receive, agentVars, moduleVars, kernel
  <1>2. /\ 1 \in DOMAIN stream[s] /\ Head(stream[s]) = stream[s][1]
        /\ \A u \in Session : u # s => stream'[u] = stream[u]
        /\ \A i \in DOMAIN stream'[s] :
              i + 1 \in DOMAIN stream[s] /\ stream'[s][i] = stream[s][i + 1] /\ i \in Nat /\ 1 < i + 1
    <2>1. /\ stream \in [Session -> Seq(MessageType)]
          /\ stream[s] # <<>> /\ stream' = [stream EXCEPT ![s] = Tail(stream[s])]
      BY DEF TypeOK, MessageType, Receive
    <2>2. stream'[s] = Tail(stream[s]) /\ \A u \in Session : u # s => stream'[u] = stream[u]
      BY <2>1
    <2> QED BY <2>1, <2>2, TailFacts
  <1>3. \A u \in Session : \A i \in DOMAIN stream'[u] :
            \E k \in DOMAIN stream[u] : stream'[u][i] = stream[u][k]
    <2> HIDE Numbers
    <2> SUFFICES ASSUME NEW u \in Session, NEW i \in DOMAIN stream'[u]
                 PROVE  \E k \in DOMAIN stream[u] : stream'[u][i] = stream[u][k]
      OBVIOUS
    <2>1. CASE u = s
      BY <1>2, <2>1
    <2>2. CASE u # s
      BY <1>2, <2>2
    <2> QED BY <2>1, <2>2
  <1>4. RingInv' /\ HandInv'
    BY <1>1 DEF PathInv, RingInv, HandInv
  <1>5. StreamBehind'
    <2>1. StreamBehind
      BY DEF PathInv
    <2> HIDE Numbers
    <2> QED BY <1>1, <1>3, <2>1 DEF StreamBehind
  <1>6. StreamOrder'
    <2> SUFFICES ASSUME NEW u \in Session, NEW i \in DOMAIN stream'[u], NEW j \in DOMAIN stream'[u],
                        i < j, stream'[u][i].frame # NoFrame, stream'[u][j].frame # NoFrame
                 PROVE  stream'[u][i].frame < stream'[u][j].frame
      BY DEF StreamOrder
    <2>1. CASE u = s
      <3>1. i + 1 < j + 1
        BY <1>2, <2>1
      <3>2. /\ i + 1 \in DOMAIN stream[s] /\ stream'[s][i] = stream[s][i + 1]
            /\ j + 1 \in DOMAIN stream[s] /\ stream'[s][j] = stream[s][j + 1]
        BY <1>2, <2>1
      <3>3. StreamOrder
        BY DEF PathInv
      <3> HIDE Numbers
      <3> QED BY <2>1, <3>1, <3>2, <3>3 DEF StreamOrder
    <2>2. CASE u # s
      BY <1>2, <2>2 DEF PathInv, StreamOrder
    <2> QED BY <2>1, <2>2
  <1>7. StreamApart'
    <2> SUFFICES ASSUME NEW v \in Session, NEW u \in Session, v # u,
                        NEW i \in DOMAIN stream'[v], NEW j \in DOMAIN stream'[u],
                        stream'[v][i].frame # NoFrame
                 PROVE  stream'[u][j].frame # stream'[v][i].frame
      BY DEF StreamApart
    <2>1. PICK k \in DOMAIN stream[v] : stream'[v][i] = stream[v][k]
      BY <1>3
    <2>2. PICK n \in DOMAIN stream[u] : stream'[u][j] = stream[u][n]
      BY <1>3
    <2>3. StreamApart
      BY DEF PathInv
    <2> HIDE Numbers
    <2> QED BY <2>1, <2>2, <2>3 DEF StreamApart
  <1>8. CASE log' = log
    <2>1. LogBehind' /\ LogOrder'
      BY <1>1, <1>8 DEF PathInv, LogBehind, LogOrder
    <2>2. LogStream'
      BY <1>3, <1>8 DEF PathInv, LogStream
    <2> QED BY <1>4, <1>5, <1>6, <1>7, <2>1, <2>2 DEF PathInv
  <1>9. CASE log' # log
    <2> DEFINE f == stream[s][1].frame
               e == [frame |-> f, session |-> s]
    <2>1. handler[s] = "active" /\ stream[s][1].type = "frame" /\ log' = Append(log, e)
      BY <1>2, <1>9 DEF Receive
    <2>2. f \in Nat /\ f # NoFrame /\ s <= sessions /\ f <= pushed
      BY <1>2, <2>1 DEF PathInv, StreamBehind, ServerInv
    <2>3. e \in Entry /\ e.frame = f /\ e.session = s
      <3>1. stream[s][1] \in MessageType
        BY <1>2
      <3> QED BY <3>1 DEF MessageType, Entry
    <2>4. /\ \A j \in DOMAIN ring : f < ring[j]
          /\ \A a \in Agent : hand[a] # NoFrame => f < hand[a]
      BY <1>2 DEF PathInv, StreamBehind
    <2>5. \A u \in Session : \A j \in DOMAIN stream'[u] :
              /\ stream'[u][j].frame # f
              /\ (u = s /\ stream'[u][j].frame # NoFrame) => f < stream'[u][j].frame
      <3> SUFFICES ASSUME NEW u \in Session, NEW j \in DOMAIN stream'[u]
                   PROVE  /\ stream'[u][j].frame # f
                          /\ (u = s /\ stream'[u][j].frame # NoFrame) => f < stream'[u][j].frame
        OBVIOUS
      <3>0. StreamOrder /\ StreamApart
        BY DEF PathInv
      <3>1. CASE u = s
        <4>1. /\ j + 1 \in DOMAIN stream[s] /\ stream'[s][j] = stream[s][j + 1] /\ 1 < j + 1
              /\ stream[s][j + 1].frame \in Nat
          BY <1>2, <3>1
        <4> HIDE Numbers
        <4>2. stream[s][j + 1].frame # NoFrame => f < stream[s][j + 1].frame
          BY <1>2, <2>2, <3>0, <4>1 DEF StreamOrder
        <4> QED BY <2>2, <3>1, <4>1, <4>2
      <3>2. CASE u # s
        <4>1. j \in DOMAIN stream[u] /\ stream'[u] = stream[u]
          BY <1>2, <3>2
        <4> HIDE Numbers
        <4> QED BY <1>2, <2>2, <3>0, <3>2, <4>1 DEF StreamApart
      <3> QED BY <3>1, <3>2
    <2>6. \A i \in DOMAIN log : log[i].frame # f /\ (log[i].session = s => log[i].frame < f)
      BY <1>2, <2>2 DEF PathInv, LogStream
    <2> HIDE DEF f, e
    <2>7. \A i \in DOMAIN log' :
              \/ i \in DOMAIN log /\ log'[i] = log[i]
              \/ i = Len(log) + 1 /\ log'[i] = e
      BY <2>1, <2>3, AppendFacts
    <2>8. LogBehind'
      BY <1>1, <2>2, <2>3, <2>4, <2>7 DEF PathInv, LogBehind
    <2>9. LogStream'
      <3> SUFFICES ASSUME NEW i \in DOMAIN log', NEW u \in Session, NEW j \in DOMAIN stream'[u]
                   PROVE  /\ stream'[u][j].frame # log'[i].frame
                          /\ (log'[i].session = u /\ stream'[u][j].frame # NoFrame)
                                => log'[i].frame < stream'[u][j].frame
        BY DEF LogStream
      <3>1. CASE i \in DOMAIN log /\ log'[i] = log[i]
        <4>1. PICK k \in DOMAIN stream[u] : stream'[u][j] = stream[u][k]
          BY <1>3
        <4>2. LogStream
          BY DEF PathInv
        <4> HIDE Numbers
        <4> QED BY <3>1, <4>1, <4>2 DEF LogStream
      <3>2. CASE log'[i] = e
        BY <2>3, <2>5, <3>2
      <3> QED BY <2>7, <3>1, <3>2
    <2>10. LogOrder'
      <3>1. /\ LogOrder /\ Len(log) \in Nat
            /\ \A i \in DOMAIN log : i \in Nat /\ i < Len(log) + 1
        BY DEF PathInv
      <3> HIDE Numbers
      <3> SUFFICES ASSUME NEW i \in DOMAIN log', NEW j \in DOMAIN log', i < j
                   PROVE  /\ log'[i].frame # log'[j].frame
                          /\ log'[i].session = log'[j].session => log'[i].frame < log'[j].frame
        BY DEF LogOrder
      <3>2. i \in DOMAIN log /\ log'[i] = log[i]
        BY <2>7, <3>1
      <3>3. CASE j \in DOMAIN log /\ log'[j] = log[j]
        BY <3>1, <3>2, <3>3 DEF LogOrder
      <3>4. CASE log'[j] = e
        BY <2>3, <2>6, <3>2, <3>4
      <3> QED BY <2>7, <3>3, <3>4
    <2> QED BY <1>4, <1>5, <1>6, <1>7, <2>8, <2>9, <2>10 DEF PathInv
  <1> QED BY <1>8, <1>9
LEMMA PathStep == IInv /\ [Next]_vars => PathInv'
  <1> SUFFICES ASSUME IInv, [Next]_vars PROVE PathInv'
    OBVIOUS
  <1>t. /\ TypeOK /\ AgentTypes /\ PathInv /\ HandInv /\ sessions \in Nat
        /\ ServerInv /\ AgentInv /\ DeviceHasOneUser
    BY Numbers DEF IInv, PathInv, TypeOK, AgentTypes
  <1>h. \A a \in Agent : hand[a] # NoFrame <=> pc[a] = "send"
    BY <1>t DEF HandInv
  <1> USE <1>t DEF agentVars, kernel, moduleVars, serverVars, sessionVars, tlsVars,
          elsewhere, Goto, AgentTypes
  <1>1. ASSUME NEW a \in Agent,
               \/ Start(a) \/ Connect(a) \/ SetKernelKey(a) \/ IoctlExists(a) \/ IoctlFail(a)
               \/ OpenDevice(a) \/ RelayTest(a) \/ ReadBlock(a) \/ CloseSession(a) \/ Signal(a)
        PROVE  PathInv'
    <2>1. UNCHANGED <<hand, stream, ring, pushed, log>>
      BY <1>1 DEF Start, Connect, SetKernelKey, IoctlExists, IoctlFail, OpenDevice,
         RelayTest, ReadBlock, CloseSession, Signal
    <2>2. sessions' = sessions \/ sessions' = sessions + 1
      BY <1>1 DEF Start, Connect, SetKernelKey, IoctlExists, IoctlFail, OpenDevice,
         RelayTest, ReadBlock, CloseSession, Signal
    <2>3. \A b \in Agent : pc'[b] = "send" <=> pc[b] = "send"
      <3>1. CASE Start(a) \/ Connect(a) \/ SetKernelKey(a)
        BY <3>1 DEF Start, Connect, SetKernelKey
      <3>2. CASE IoctlExists(a) \/ IoctlFail(a) \/ OpenDevice(a)
        BY <3>2 DEF IoctlExists, IoctlFail, OpenDevice
      <3>3. CASE RelayTest(a) \/ ReadBlock(a) \/ CloseSession(a)
        BY <3>3 DEF RelayTest, ReadBlock, CloseSession
      <3>4. CASE Signal(a)
        BY <3>4 DEF Signal
      <3> QED BY <1>1, <3>1, <3>2, <3>3, <3>4
    <2>4. sessions' \in Nat /\ sessions <= sessions'
      BY <2>2
    <2>5. \A b \in Agent : /\ hand'[b] = hand[b] \/ hand'[b] = NoFrame
                           /\ hand'[b] # NoFrame <=> pc'[b] = "send"
      BY <1>h, <2>1, <2>3
    <2> QED BY <2>1, <2>4, <2>5, PathLoses
  <1>2. ASSUME NEW a \in Agent, Stop(a) \/ SessionFailed(a) \/ Sigpipe(a) PROVE PathInv'
    <2>1. /\ UNCHANGED <<sessions, stream, ring, pushed, log>>
          /\ hand' = [hand EXCEPT ![a] = NoFrame]
          /\ \E l \in {"down", "close"} : pc' = [pc EXCEPT ![a] = l]
      BY <1>2 DEF Stop, SessionFailed, Sigpipe, Exit
    <2>2. \A b \in Agent : /\ hand'[b] = hand[b] \/ hand'[b] = NoFrame
                           /\ hand'[b] # NoFrame <=> pc'[b] = "send"
      BY <1>h, <2>1
    <2> QED BY <2>1, <2>2, PathLoses
  <1>3. ASSUME NEW a \in Agent, Hello(a) \/ TakeKey(a) PROVE PathInv'
    <2>1. /\ UNCHANGED <<hand, ring, pushed, log, sessions>>
          /\ Send(a, Magic) \/ Send(a, Ack)
          /\ pc[a] # "send" /\ \E l \in {"await", "inject"} : pc' = [pc EXCEPT ![a] = l]
      BY <1>3 DEF Hello, TakeKey
    <2>2. \A b \in Agent : /\ hand'[b] = hand[b] \/ hand'[b] = NoFrame
                           /\ hand'[b] # NoFrame <=> pc'[b] = "send"
      BY <1>h, <2>1
    <2> QED BY <2>1, <2>2, PathSend, MessageTypes
  <1>4. ASSUME NEW a \in Agent, Forward(a) PROVE PathInv'
    <2> DEFINE m == Message("frame", hand[a])
    <2>1. m \in MessageType /\ m.frame = hand[a]
      BY MessageTypes
    <2>2. /\ UNCHANGED <<ring, pushed, log, sessions>> /\ Send(a, m)
          /\ hand' = [hand EXCEPT ![a] = NoFrame] /\ pc[a] = "send"
          /\ pc' = [pc EXCEPT ![a] = "loop"]
      BY <1>4 DEF Forward
    <2>3. \A b \in Agent : b # a => pc[b] # "send"
      BY <2>2 DEF DeviceHasOneUser, Relaying
    <2>4. \A b \in Agent : hand'[b] = NoFrame /\ pc'[b] # "send"
      BY <1>h, <2>2, <2>3
    <2>5. m.frame # NoFrame
      BY <1>h, <2>1, <2>2
    <2> HIDE DEF m
    <2> QED BY <2>1, <2>2, <2>4, <2>5, PathSend
  <1>5. ASSUME NEW a \in Agent, IoctlKeySet(a) PROVE PathInv'
    <2>1. /\ UNCHANGED <<hand, stream, log, sessions>>
          /\ pc[a] = "ioctl" /\ pc' = [pc EXCEPT ![a] = "relay"]
      BY <1>5 DEF IoctlKeySet
    <2>2. \A b \in Agent : pc'[b] = "send" <=> pc[b] = "send"
      BY <2>1
    <2>3. CASE pushed < MaxFrame
      BY <1>5, <2>1, <2>2, <2>3, PathPush DEF IoctlKeySet
    <2>4. CASE ~(pushed < MaxFrame)
      <3>1. UNCHANGED <<ring, pushed>>
        BY <1>5, <2>4 DEF IoctlKeySet
      <3>2. \A b \in Agent : /\ hand'[b] = hand[b] \/ hand'[b] = NoFrame
                             /\ hand'[b] # NoFrame <=> pc'[b] = "send"
        BY <1>h, <2>1, <2>2
      <3> QED BY <2>1, <3>1, <3>2, PathLoses
    <2> QED BY <2>3, <2>4
  <1>6. ASSUME NEW a \in Agent, ReadFrame(a) PROVE PathInv'
    BY <1>6, PathRead
  <1>7. ASSUME NEW s \in Session, Receive(s) PROVE PathInv'
    BY <1>7, PathReceive
  <1>8. ASSUME NEW s \in Session, EndOfStream(s) \/ Reset(s) PROVE PathInv'
    <2>1. /\ UNCHANGED <<pc, hand, sessions, ring, pushed, log>>
          /\ stream' = stream \/ stream' = [stream EXCEPT ![s] = <<>>]
      BY <1>8 DEF EndOfStream, Reset
    <2>2. \A u \in Session : stream'[u] = stream[u] \/ stream'[u] = <<>>
      BY <2>1 DEF TypeOK
    <2> QED BY <1>h, <2>1, <2>2, PathLoses
  <1>9. ASSUME Detect PROVE PathInv'
    BY <1>9, PathPush DEF Detect
  <1>10. ASSUME ServerStart \/ ServerStop \/ UNCHANGED vars PROVE PathInv'
    <2>1. /\ UNCHANGED <<pc, hand, sessions, ring, pushed, log>>
          /\ stream' = stream \/ stream' = [s \in Session |-> <<>>]
      BY <1>10 DEF ServerStart, ServerStop, vars
    <2>2. \A u \in Session : stream'[u] = stream[u] \/ stream'[u] = <<>>
      BY <2>1
    <2> QED BY <1>h, <2>1, <2>2, PathLoses
  <1> QED
    BY <1>1, <1>2, <1>3, <1>4, <1>5, <1>6, <1>7, <1>8, <1>9, <1>10
       DEF Next, AgentStep, HandlerStep

-----------------------------------------------------------------------------
\* A frame in the log means the kernel has its key for good; a new entry is read
\* by a handler of the present server process.
LEMMA DecryptStep == IInv /\ [Next]_vars => LoggedFramesDecrypt'
  <1> SUFFICES ASSUME IInv, [Next]_vars, NEW i \in DOMAIN log'
               PROVE  \/ kernelKey' = IF keyfile' THEN 1 ELSE peer'[log'[i].session]
                      \/ ~keyfile' /\ kernelKey' < peer'[log'[i].session]
    BY DEF LoggedFramesDecrypt, ServerKey
  <1> USE DEF agentVars, kernel, moduleVars, serverVars, sessionVars, tlsVars, elsewhere
  <1>t. /\ TypeOK /\ PathInv /\ KeyInv /\ ServerInv /\ LoggedFramesDecrypt
    BY DEF IInv
  <1>k. keyfile' = keyfile
    BY DEF Next, AgentStep, HandlerStep, vars, Start, Connect, Signal, Stop, Hello,
       TakeKey, SetKernelKey, IoctlKeySet, IoctlExists, IoctlFail, OpenDevice, RelayTest,
       ReadBlock, ReadFrame, Forward, SessionFailed, Sigpipe, CloseSession, Receive,
       EndOfStream, Reset, Detect, ServerStart, ServerStop
  <1>1. ASSUME i \in DOMAIN log, log'[i] = log[i],
               kernelKey = 0 \/ kernelKey' = kernelKey,
               \A s \in Session : s <= sessions => peer'[s] = peer[s]
        PROVE  \/ kernelKey' = IF keyfile' THEN 1 ELSE peer'[log'[i].session]
               \/ ~keyfile' /\ kernelKey' < peer'[log'[i].session]
    <2>1. log[i].session \in Session /\ log[i].session <= sessions /\ pushed > 0
      BY <1>t, <1>1, Numbers DEF PathInv, LogBehind
    <2>2. kernelKey' = kernelKey /\ peer'[log'[i].session] = peer[log[i].session]
      BY <1>t, <1>1, <2>1 DEF KeyInv
    <2> QED BY <1>t, <1>k, <1>1, <2>2 DEF LoggedFramesDecrypt, ServerKey
  <1>2. ASSUME NEW a \in Agent, Connect(a)
        PROVE  /\ UNCHANGED <<log, kernelKey>>
               /\ \A s \in Session : s <= sessions => peer'[s] = peer[s]
    BY <1>t, <1>2, Numbers DEF Connect, TypeOK
  <1>3. ASSUME NEW a \in Agent, Start(a) \/ AgentStep(a) \/ Signal(a)
        PROVE  UNCHANGED <<log, peer>> /\ (kernelKey = 0 \/ kernelKey' = kernelKey)
    BY <1>3 DEF Start, AgentStep, Signal, Stop, Hello, TakeKey, SetKernelKey,
       IoctlKeySet, IoctlExists, IoctlFail, OpenDevice, RelayTest, ReadBlock,
       ReadFrame, Forward, SessionFailed, Sigpipe, CloseSession
  <1>4. ASSUME NEW s \in Session, EndOfStream(s) \/ Reset(s)
        PROVE  UNCHANGED <<log, peer, kernelKey>>
    BY <1>4 DEF EndOfStream, Reset
  <1>5. ASSUME Detect \/ ServerStart \/ ServerStop \/ UNCHANGED vars
        PROVE  UNCHANGED <<log, peer, kernelKey>>
    BY <1>5 DEF Detect, ServerStart, ServerStop, vars
  <1>6. ASSUME NEW s \in Session, Receive(s)
        PROVE  \/ kernelKey' = IF keyfile' THEN 1 ELSE peer'[log'[i].session]
               \/ ~keyfile' /\ kernelKey' < peer'[log'[i].session]
    <2> DEFINE e == [frame |-> Head(stream[s]).frame, session |-> s]
    <2>1. /\ UNCHANGED <<kernelKey, peer>> /\ handler[s] \in Live
          /\ \/ log' = log
             \/ log' = Append(log, e) /\ Head(stream[s]).type = "frame"
      BY <1>6 DEF Receive, Live
    <2>2. e.session = s
      OBVIOUS
    <2>3. \/ i \in DOMAIN log /\ log'[i] = log[i]
          \/ log'[i] = e /\ Head(stream[s]).type = "frame"
      <3>1. CASE log' = log
        BY <3>1
      <3>2. CASE log' = Append(log, e) /\ Head(stream[s]).type = "frame"
        <4>1. e \in Entry /\ log \in Seq(Entry)
          <5>1. stream[s] # <<>> /\ stream[s] \in Seq(MessageType)
            BY <1>6, <1>t, Numbers DEF Receive
          <5>2. Head(stream[s]) \in MessageType
            BY <5>1, TailFacts
          <5> QED BY <5>2, <1>t, Numbers DEF MessageType, Entry
        <4> HIDE DEF e
        <4> QED BY <3>2, <4>1, AppendFacts
      <3> QED BY <2>1, <3>1, <3>2
    <2>4. CASE i \in DOMAIN log /\ log'[i] = log[i]
      BY <1>1, <2>1, <2>4
    <2>5. CASE log'[i] = e /\ Head(stream[s]).type = "frame"
      <3>1. peer'[log'[i].session] = life
        BY <1>t, <2>1, <2>2, <2>5 DEF ServerInv
      <3>2. kernelKey # 0
        <4>1. stream[s] # <<>> /\ stream[s] \in Seq(MessageType)
          BY <1>6, <1>t, Numbers DEF Receive
        <4>2. 1 \in DOMAIN stream[s] /\ Head(stream[s]) = stream[s][1]
          BY <4>1, TailFacts
        <4>3. stream[s][1].frame <= pushed /\ stream[s][1].frame # NoFrame
          BY <1>t, <2>5, <4>2 DEF PathInv, StreamBehind
        <4> QED BY <1>t, <4>2, <4>3, Numbers DEF KeyInv
      <3>3. kernelKey \in Nat /\ life \in Nat
        BY <1>t, Bounds DEF TypeOK
      <3>4. IF keyfile THEN kernelKey = 1 ELSE kernelKey <= life
        BY <1>t, <3>2, <3>3 DEF KeyInv
      <3> QED BY <1>k, <2>1, <3>1, <3>3, <3>4 DEF ServerKey
    <2> QED BY <2>3, <2>4, <2>5
  <1> QED BY <1>1, <1>2, <1>3, <1>4, <1>5, <1>6 DEF Next, HandlerStep

-----------------------------------------------------------------------------
LEMMA Invariance == Spec => []IInv
  <1>1. IInv /\ [Next]_vars => IInv'
    BY TypeStep, ServerStep, AgentKeyStep, DeviceStep, PathStep, DecryptStep DEF IInv
  <1> QED BY <1>1, InitIInv, PTL DEF Spec

(***************************************************************************)
(* Whatever the agents, their signals and deaths: the device is open for   *)
(* exactly the agent that injects a key or relays (g_is_open).             *)
(***************************************************************************)
THEOREM DeviceIsExclusive == Spec => []DeviceHasOneUser
  <1>1. IInv => DeviceHasOneUser
    BY DEF IInv
  <1> QED BY <1>1, Invariance, PTL

(***************************************************************************)
(* Every frame a server process logs was encrypted under its key, or, with *)
(* no key file, under that of an earlier process.                          *)
(***************************************************************************)
THEOREM LogsDecrypt == Spec => []LoggedFramesDecrypt
  <1>1. IInv => LoggedFramesDecrypt
    BY DEF IInv
  <1> QED BY <1>1, Invariance, PTL

\* A set with no two elements.
LEMMA AtMostOne ==
    ASSUME NEW S, \A x, y \in S : x = y
    PROVE  /\ Cardinality(S) \in Nat /\ Cardinality(S) <= 1
           /\ S = {} => Cardinality(S) = 0
  <1>1. CASE S = {}
    BY <1>1, FS_EmptySet
  <1>2. CASE S # {}
    <2>1. PICK x \in S : TRUE
      BY <1>2
    <2>2. S = {x}
      BY <2>1
    <2>3. Cardinality({x}) = 1
      BY FS_Singleton
    <2> QED BY <1>2, <2>2, <2>3
  <1> QED BY <1>1, <1>2

(***************************************************************************)
(* No frame is in two of the ring, the agents' hands, the streams and the  *)
(* log, nor twice in one of them; a session's frames are logged in order.  *)
(***************************************************************************)
THEOREM FramesAreNotRepeated == Spec => []NoFrameTwice
  <1>1. IInv => NoFrameTwice
    <2> SUFFICES ASSUME IInv PROVE NoFrameTwice
      OBVIOUS
    <2>t. TypeOK /\ PathInv /\ DeviceHasOneUser
      BY DEF IInv
    <2>1. \A i, j \in DOMAIN log :
             (i < j /\ log[i].session = log[j].session) => log[i].frame < log[j].frame
      BY <2>t DEF PathInv, LogOrder
    <2>2. ASSUME NEW n \in 1 .. MaxFrame
          PROVE  Cardinality({i \in DOMAIN ring : ring[i] = n})
                   + Cardinality({a \in Agent : hand[a] = n})
                   + Cardinality({x \in Session \X (1 .. MaxFrame) :
                                     /\ x[2] \in DOMAIN stream[x[1]]
                                     /\ stream[x[1]][x[2]].frame = n})
                   + Cardinality({i \in DOMAIN log : log[i].frame = n}) <= 1
      <3> DEFINE R == {i \in DOMAIN ring : ring[i] = n}
                 H == {a \in Agent : hand[a] = n}
                 T == {x \in Session \X (1 .. MaxFrame) :
                          /\ x[2] \in DOMAIN stream[x[1]]
                          /\ stream[x[1]][x[2]].frame = n}
                 L == {i \in DOMAIN log : log[i].frame = n}
      <3>0. n \in Nat /\ n # NoFrame
        BY Bounds DEF NoFrame
      <3>1. \A x, y \in R : x = y
        <4>1. RingInv /\ \A i \in DOMAIN ring : i \in Nat /\ ring[i] \in Nat
          BY <2>t, Numbers DEF PathInv
        <4> QED BY <4>1 DEF RingInv
      <3>2. \A x, y \in H : x = y
        <4>1. \A a \in H : device = a
          BY <2>t, <3>0 DEF PathInv, HandInv, DeviceHasOneUser, Relaying
        <4> QED BY <4>1
      <3>3. \A x, y \in T : x = y
        <4> SUFFICES ASSUME NEW x \in T, NEW y \in T PROVE x = y
          OBVIOUS
        <4>1. /\ x[1] \in Session /\ x[2] \in DOMAIN stream[x[1]] /\ stream[x[1]][x[2]].frame = n
              /\ y[1] \in Session /\ y[2] \in DOMAIN stream[y[1]] /\ stream[y[1]][y[2]].frame = n
              /\ x = <<x[1], x[2]>> /\ y = <<y[1], y[2]>>
          OBVIOUS
        <4>2. x[1] = y[1]
          BY <2>t, <3>0, <4>1 DEF PathInv, StreamApart
        <4>3. ~(x[2] < y[2]) /\ ~(y[2] < x[2])
          BY <2>t, <3>0, <4>1, <4>2 DEF PathInv, StreamOrder
        <4>4. x[2] \in Nat /\ y[2] \in Nat
          BY Bounds
        <4>5. x[2] = y[2]
          BY <4>3, <4>4
        <4> QED BY <4>1, <4>2, <4>5
      <3>4. \A x, y \in L : x = y
        BY <2>t, Numbers DEF PathInv, LogOrder
      <3>5. R # {} => H = {} /\ T = {} /\ L = {}
        <4> SUFFICES ASSUME NEW i \in R PROVE H = {} /\ T = {} /\ L = {}
          OBVIOUS
        <4>1. H = {}
          BY <2>t, <3>0 DEF PathInv, HandInv
        <4>2. T = {}
          BY <2>t, <3>0 DEF PathInv, StreamBehind
        <4>3. L = {}
          BY <2>t, <3>0 DEF PathInv, LogBehind
        <4> QED BY <4>1, <4>2, <4>3
      <3>6. H # {} => T = {} /\ L = {}
        <4> SUFFICES ASSUME NEW a \in H PROVE T = {} /\ L = {}
          OBVIOUS
        <4>1. T = {}
          BY <2>t, <3>0 DEF PathInv, StreamBehind
        <4>2. L = {}
          BY <2>t, <3>0 DEF PathInv, LogBehind
        <4> QED BY <4>1, <4>2
      <3>7. T # {} => L = {}
        BY <2>t DEF PathInv, LogStream
      <3> HIDE DEF R, H, T, L
      <3>8. /\ Cardinality(R) \in Nat /\ Cardinality(R) <= 1 /\ (R = {} => Cardinality(R) = 0)
            /\ Cardinality(H) \in Nat /\ Cardinality(H) <= 1 /\ (H = {} => Cardinality(H) = 0)
        BY <3>1, <3>2, AtMostOne
      <3>9. /\ Cardinality(T) \in Nat /\ Cardinality(T) <= 1 /\ (T = {} => Cardinality(T) = 0)
            /\ Cardinality(L) \in Nat /\ Cardinality(L) <= 1 /\ (L = {} => Cardinality(L) = 0)
        BY <3>3, <3>4, AtMostOne
      <3>10. Cardinality(R) + Cardinality(H) + Cardinality(T) + Cardinality(L) <= 1
        BY <3>5, <3>6, <3>7, <3>8, <3>9
      <3> QED BY <3>10 DEF R, H, T, L
    <2> QED BY <2>1, <2>2 DEF NoFrameTwice
  <1> QED BY <1>1, Invariance, PTL
-----------------------------------------------------------------------------
\* The refinement.  Which frames are on their way, and which are logged, place
\* by place, before and after a step.
InStream(n) == \E s \in Session : \E i \in DOMAIN stream[s] : stream[s][i].frame = n

LEMMA WayFacts ==
    ASSUME NEW n
    PROVE  /\ n \in OnItsWay <=> \/ \E i \in DOMAIN ring : ring[i] = n
                                 \/ n # NoFrame /\ \E a \in Agent : hand[a] = n
                                 \/ n # NoFrame /\ InStream(n)
           /\ n \in OnItsWay' <=> \/ \E i \in DOMAIN ring' : ring'[i] = n
                                  \/ n # NoFrame /\ \E a \in Agent : hand'[a] = n
                                  \/ n # NoFrame /\ InStream(n)'
  BY DEF OnItsWay, InStream, NoFrame

\* Whatever a step moves, as long as it logs nothing and no frame that was gone
\* is back, it is a loss of the frames that are missing afterwards.
LEMMA Loss ==
    ASSUME UNCHANGED <<pushed, log>>, OnItsWay' \subseteq OnItsWay
    PROVE  Delivery!Next
  <1>1. Logged' = Logged
    BY DEF Logged
  <1> QED BY <1>1 DEF Delivery!Next, Delivery!Lose

\* Steps that empty streams or hands.
LEMMA LossOfPlaces ==
    ASSUME UNCHANGED <<ring, pushed, log>>,
           \A a \in Agent : hand'[a] = hand[a] \/ hand'[a] = NoFrame,
           \A s \in Session : stream'[s] = stream[s] \/ stream'[s] = <<>>
    PROVE  Delivery!Next
  <1>1. ASSUME NEW n, n \in OnItsWay' PROVE n \in OnItsWay
    <2>1. \A s \in Session : \A i \in DOMAIN stream'[s] :
              i \in DOMAIN stream[s] /\ stream'[s] = stream[s]
      OBVIOUS
    <2>2. InStream(n)' => InStream(n)
      BY <2>1 DEF InStream
    <2>3. n # NoFrame /\ (\E a \in Agent : hand'[a] = n) => \E a \in Agent : hand[a] = n
      OBVIOUS
    <2> QED BY <1>1, <2>2, <2>3, WayFacts
  <1> QED BY <1>1, Loss

\* A frame, or a message without one, goes into a stream.
LEMMA SendRefines ==
    ASSUME TypeOK, NEW a \in Agent, NEW m \in MessageType, Send(a, m),
           m.frame \in {NoFrame, hand[a]}, UNCHANGED <<ring, pushed, log>>,
           \A b \in Agent : hand'[b] = hand[b] \/ hand'[b] = NoFrame
    PROVE  Delivery!Next
  <1>1. \A s \in Session : stream'[s] = stream[s] \/ stream'[s] = Append(stream[s], m)
    BY SendTypes
  <1>2. \A s \in Session : stream[s] \in Seq(MessageType)
    BY Numbers
  <1>3. ASSUME NEW s \in Session, NEW i \in DOMAIN stream'[s]
        PROVE  \/ i \in DOMAIN stream[s] /\ stream'[s][i] = stream[s][i]
               \/ stream'[s][i] = m
    <2>1. CASE stream'[s] = stream[s]
      BY <2>1
    <2>2. CASE stream'[s] = Append(stream[s], m)
      <3>1. i \in 1 .. Len(stream[s]) + 1 /\ DOMAIN stream[s] = 1 .. Len(stream[s])
            /\ Len(stream[s]) \in Nat
        BY <1>2, <2>2, AppendFacts
      <3>2. i \in DOMAIN stream[s] \/ i = Len(stream[s]) + 1
        BY <3>1
      <3> QED BY <1>2, <2>2, <3>2, AppendFacts
    <2> QED BY <1>1, <2>1, <2>2
  <1>4. ASSUME NEW n, n \in OnItsWay' PROVE n \in OnItsWay
    <2>1. CASE \E i \in DOMAIN ring' : ring'[i] = n
      BY <2>1, WayFacts
    <2>2. CASE n # NoFrame /\ \E b \in Agent : hand'[b] = n
      BY <2>2, WayFacts
    <2>3. CASE n # NoFrame /\ InStream(n)'
      <3>1. InStream(n) \/ n = m.frame
        BY <1>3, <2>3 DEF InStream
      <3> QED BY <2>3, <3>1, WayFacts
    <2> QED BY <1>4, <2>1, <2>2, <2>3, WayFacts
  <1> QED BY <1>4, Loss

\* The head of the ring goes into a hand.
LEMMA ReadRefines ==
    ASSUME TypeOK, NEW a \in Agent, ReadFrame(a)
    PROVE  Delivery!Next
  <1>1. /\ ring \in Seq(Frames) /\ ring # <<>> /\ ring' = Tail(ring)
        /\ hand \in [Agent -> Frames] /\ hand' = [hand EXCEPT ![a] = Head(ring)]
        /\ UNCHANGED <<pushed, log, stream>>
    BY DEF TypeOK, ReadFrame, elsewhere, tlsVars
  <1>2. /\ Len(ring) \in Nat /\ Len(ring) >= 1 /\ DOMAIN ring = 1 .. Len(ring)
        /\ DOMAIN ring' = 1 .. Len(ring) - 1 /\ Head(ring) = ring[1]
        /\ \A i \in DOMAIN ring' : ring'[i] = ring[i + 1]
    BY <1>1, TailFacts
  <1>3. 1 \in DOMAIN ring /\ \A i \in DOMAIN ring' : i + 1 \in DOMAIN ring
    BY <1>2
  <1>4. ASSUME NEW n, n \in OnItsWay' PROVE n \in OnItsWay
    <2>1. CASE \E i \in DOMAIN ring' : ring'[i] = n
      BY <1>2, <1>3, <2>1, WayFacts
    <2>2. CASE n # NoFrame /\ \E b \in Agent : hand'[b] = n
      <3>1. n = ring[1] \/ \E b \in Agent : hand[b] = n
        BY <1>1, <1>2, <2>2
      <3> QED BY <1>3, <2>2, <3>1, WayFacts
    <2>3. CASE n # NoFrame /\ InStream(n)'
      BY <1>1, <2>3, WayFacts DEF InStream
    <2> QED BY <1>4, <2>1, <2>2, <2>3, WayFacts
  <1> QED BY <1>1, <1>4, Loss

\* A frame is produced, into the ring or into nothing.
LEMMA PushRefines ==
    ASSUME TypeOK, PushFrame, UNCHANGED <<hand, stream, log>>
    PROVE  Delivery!Next
  <1>1. pushed' = pushed + 1 /\ Logged' = Logged /\ ring \in Seq(Frames)
    BY DEF PushFrame, Logged, TypeOK
  <1>2. CASE ring' = ring
    <2>1. OnItsWay' = OnItsWay
      BY <1>2 DEF OnItsWay
    <2> QED BY <1>1, <2>1 DEF Delivery!Next, Delivery!Produce
  <1>3. CASE ring' = Append(ring, pushed + 1)
    <2>1. /\ Len(ring) \in Nat /\ DOMAIN ring = 1 .. Len(ring)
          /\ DOMAIN ring' = 1 .. Len(ring) + 1
          /\ \A i \in DOMAIN ring : ring'[i] = ring[i]
          /\ ring'[Len(ring) + 1] = pushed + 1
      BY <1>1, <1>3
    <2>2. /\ Len(ring) + 1 \in DOMAIN ring'
          /\ \A i \in DOMAIN ring : i \in DOMAIN ring'
          /\ \A i \in DOMAIN ring' : i \in DOMAIN ring \/ i = Len(ring) + 1
      BY <2>1
    <2>3. ASSUME NEW n
          PROVE  (\E i \in DOMAIN ring' : ring'[i] = n)
                   <=> (\E i \in DOMAIN ring : ring[i] = n) \/ n = pushed + 1
      BY <2>1, <2>2
    <2>4. ASSUME NEW n PROVE n \in OnItsWay' <=> n \in OnItsWay \/ n = pushed + 1
      BY <2>3, WayFacts DEF InStream
    <2>5. OnItsWay' = OnItsWay \cup {pushed + 1}
      BY <2>4
    <2> QED BY <1>1, <2>5 DEF Delivery!Next, Delivery!Produce
  <1> QED BY <1>2, <1>3 DEF PushFrame

\* A handler takes a message; a frame among them goes into the log, and no copy
\* of it is left behind.
LEMMA ReceiveRefines ==
    ASSUME TypeOK, PathInv, NEW s \in Session, Receive(s)
    PROVE  Delivery!Next
  <1>n. PICK n : n = stream[s][1].frame
    OBVIOUS
  <1> USE <1>n
  <1>1. /\ stream[s] \in Seq(MessageType) /\ stream[s] # <<>>
        /\ stream \in [Session -> Seq(MessageType)]
        /\ stream' = [stream EXCEPT ![s] = Tail(stream[s])]
        /\ UNCHANGED <<hand, ring, pushed>>
    BY Numbers DEF Receive, TypeOK, MessageType, agentVars, moduleVars, kernel
  <1>2. /\ Len(stream[s]) \in Nat /\ Len(stream[s]) >= 1 /\ DOMAIN stream[s] = 1 .. Len(stream[s])
        /\ DOMAIN stream'[s] = 1 .. Len(stream[s]) - 1 /\ Head(stream[s]) = stream[s][1]
        /\ \A i \in DOMAIN stream'[s] : stream'[s][i] = stream[s][i + 1]
        /\ \A u \in Session : u # s => stream'[u] = stream[u]
    BY <1>1, TailFacts
  <1>3. /\ 1 \in DOMAIN stream[s]
        /\ \A i \in DOMAIN stream'[s] : i + 1 \in DOMAIN stream[s] /\ 1 < i + 1
        /\ \A i \in DOMAIN stream[s] : i # 1 => i - 1 \in DOMAIN stream'[s] /\ (i - 1) + 1 = i
    BY <1>2
  <1>4. ASSUME NEW x, InStream(x)' PROVE InStream(x)
    <2>1. PICK u \in Session : \E i \in DOMAIN stream'[u] : stream'[u][i].frame = x
      BY <1>4 DEF InStream
    <2>2. CASE u = s
      BY <1>2, <1>3, <2>1, <2>2 DEF InStream
    <2>3. CASE u # s
      BY <1>2, <2>1, <2>3 DEF InStream
    <2> QED BY <2>2, <2>3
  <1>5. ASSUME NEW x, x \in OnItsWay' PROVE x \in OnItsWay
    BY <1>1, <1>4, <1>5, WayFacts
  <1>6. CASE log' = log
    BY <1>1, <1>5, <1>6, Loss
  <1>7. CASE log' # log
    <2>1. /\ stream[s][1].type = "frame" /\ log \in Seq(Entry)
          /\ log' = Append(log, [frame |-> n, session |-> s])
      BY <1>2, <1>7, Numbers DEF Receive
    <2>2. n # NoFrame /\ n \in Nat
      BY <1>3, <2>1, Numbers DEF PathInv, StreamBehind
    <2>3. /\ \A j \in DOMAIN ring : n < ring[j] /\ ring[j] \in Nat
          /\ \A a \in Agent : hand[a] # NoFrame => n < hand[a] /\ hand[a] \in Nat
      BY <1>3, Numbers DEF PathInv, StreamBehind
    <2>4. \A u \in Session : u # s => \A j \in DOMAIN stream[u] : stream[u][j].frame # n
      <3>1. StreamApart
        BY DEF PathInv
      <3> QED BY <1>3, <2>2, <3>1 DEF StreamApart
    <2>5. ASSUME NEW j \in DOMAIN stream'[s] PROVE stream'[s][j].frame # n
      <3>1. StreamOrder
        BY DEF PathInv
      <3>2. stream[s][j + 1].frame # NoFrame => n < stream[s][j + 1].frame
        BY <1>3, <2>2, <3>1 DEF StreamOrder
      <3>3. stream[s][j + 1].frame \in Nat
        BY <1>3, Numbers
      <3> QED BY ONLY <1>2, <2>2, <3>2, <3>3
    <2>6. InStream(n) /\ n \in OnItsWay
      BY <1>3, <2>2, WayFacts DEF InStream
    <2>7. ~InStream(n)'
      BY <1>2, <2>4, <2>5 DEF InStream
    <2>8. n \notin OnItsWay'
      <3>1. ~(\E j \in DOMAIN ring : ring[j] = n) /\ ~(n # NoFrame /\ \E a \in Agent : hand[a] = n)
        BY ONLY <2>2, <2>3
      <3> QED BY <1>1, <2>7, <3>1, WayFacts
    <2>9. ASSUME NEW x, x # n, InStream(x) PROVE InStream(x)'
      <3>1. PICK u \in Session : \E i \in DOMAIN stream[u] : stream[u][i].frame = x
        BY <2>9 DEF InStream
      <3>2. CASE u = s
        <4>1. PICK i \in DOMAIN stream[s] : stream[s][i].frame = x
          BY <3>1, <3>2
        <4>2. i # 1
          BY <2>9, <4>1
        <4>3. i - 1 \in DOMAIN stream'[s] /\ stream'[s][i - 1] = stream[s][i]
          BY <1>2, <1>3, <4>2
        <4> QED BY <4>1, <4>3 DEF InStream
      <3>3. CASE u # s
        BY <1>2, <3>1, <3>3 DEF InStream
      <3> QED BY <3>2, <3>3
    <2>10. OnItsWay' = OnItsWay \ {n}
      <3>1. ASSUME NEW x, x # n, x \in OnItsWay PROVE x \in OnItsWay'
        BY <1>1, <2>9, <3>1, WayFacts
      <3> QED BY <1>5, <2>8, <3>1
    <2>11. Logged' = Logged \cup {n}
      <3> DEFINE e == [frame |-> n, session |-> s]
      <3>1. e \in Entry /\ e.frame = n
        <4>1. stream[s][1] \in MessageType
          BY <1>1, <1>3
        <4> QED BY <4>1 DEF Entry, MessageType
      <3>2. log' = Append(log, e)
        BY <2>1
      <3> HIDE DEF e
      <3>3. /\ Len(log) \in Nat /\ DOMAIN log = 1 .. Len(log) /\ DOMAIN log' = 1 .. Len(log) + 1
            /\ \A i \in DOMAIN log : log'[i] = log[i]
            /\ log'[Len(log) + 1] = e
        BY <2>1, <3>1, <3>2, AppendFacts
      <3>4. /\ Len(log) + 1 \in DOMAIN log' /\ \A i \in DOMAIN log : i \in DOMAIN log'
            /\ \A i \in DOMAIN log' : i \in DOMAIN log \/ i = Len(log) + 1
        BY <3>3
      <3>5. \A x : x \in Logged' <=> x \in Logged \/ x = n
        BY <3>1, <3>3, <3>4 DEF Logged
      <3> QED BY <3>5
    <2> QED BY <1>1, <2>6, <2>10, <2>11 DEF Delivery!Next, Delivery!Deliver
  <1> QED BY <1>6, <1>7

LEMMA StepRefines == IInv /\ [Next]_vars => [Delivery!Next]_(Delivery!vars)
  <1> SUFFICES ASSUME IInv, [Next]_vars PROVE Delivery!Next
    OBVIOUS
  <1>t. TypeOK /\ PathInv /\ hand \in [Agent -> Frames] /\ stream \in [Session -> Seq(MessageType)]
    BY DEF IInv, TypeOK, MessageType
  <1> USE DEF agentVars, kernel, moduleVars, serverVars, sessionVars, tlsVars, elsewhere
  <1>1. ASSUME NEW a \in Agent,
               \/ Start(a) \/ Connect(a) \/ SetKernelKey(a) \/ IoctlExists(a) \/ IoctlFail(a)
               \/ OpenDevice(a) \/ RelayTest(a) \/ ReadBlock(a) \/ CloseSession(a) \/ Signal(a)
        PROVE  Delivery!Next
    <2>1. UNCHANGED <<hand, stream, ring, pushed, log>>
      BY <1>1 DEF Start, Connect, SetKernelKey, IoctlExists, IoctlFail, OpenDevice,
         RelayTest, ReadBlock, CloseSession, Signal
    <2> QED BY <2>1, LossOfPlaces
  <1>2. ASSUME NEW a \in Agent, Stop(a) \/ SessionFailed(a) \/ Sigpipe(a) PROVE Delivery!Next
    <2>1. UNCHANGED <<stream, ring, pushed, log>> /\ hand' = [hand EXCEPT ![a] = NoFrame]
      BY <1>2 DEF Stop, SessionFailed, Sigpipe, Exit
    <2>2. \A b \in Agent : hand'[b] = hand[b] \/ hand'[b] = NoFrame
      BY <1>t, <2>1
    <2> QED BY <2>1, <2>2, LossOfPlaces
  <1>3. ASSUME NEW a \in Agent, Hello(a) \/ TakeKey(a) PROVE Delivery!Next
    <2>1. UNCHANGED <<hand, ring, pushed, log>> /\ (Send(a, Magic) \/ Send(a, Ack))
      BY <1>3 DEF Hello, TakeKey
    <2> QED BY <1>t, <2>1, SendRefines, MessageTypes
  <1>4. ASSUME NEW a \in Agent, Forward(a) PROVE Delivery!Next
    <2> DEFINE m == Message("frame", hand[a])
    <2>1. m \in MessageType /\ m.frame = hand[a]
      BY <1>t, MessageTypes
    <2>2. /\ UNCHANGED <<ring, pushed, log>> /\ Send(a, m)
          /\ hand' = [hand EXCEPT ![a] = NoFrame]
      BY <1>4 DEF Forward
    <2>3. \A b \in Agent : hand'[b] = hand[b] \/ hand'[b] = NoFrame
      BY <1>t, <2>2
    <2> HIDE DEF m
    <2> QED BY <1>t, <2>1, <2>2, <2>3, SendRefines
  <1>5. ASSUME NEW a \in Agent, IoctlKeySet(a) PROVE Delivery!Next
    <2>1. UNCHANGED <<hand, stream, log>> /\ (PushFrame \/ UNCHANGED <<ring, pushed>>)
      BY <1>5 DEF IoctlKeySet
    <2> QED BY <1>t, <2>1, PushRefines, LossOfPlaces
  <1>6. ASSUME NEW a \in Agent, ReadFrame(a) PROVE Delivery!Next
    BY <1>t, <1>6, ReadRefines
  <1>7. ASSUME NEW s \in Session, Receive(s) PROVE Delivery!Next
    BY <1>t, <1>7, ReceiveRefines
  <1>8. ASSUME NEW s \in Session, EndOfStream(s) \/ Reset(s) PROVE Delivery!Next
    <2>1. /\ UNCHANGED <<hand, ring, pushed, log>>
          /\ stream' = stream \/ stream' = [stream EXCEPT ![s] = <<>>]
      BY <1>8 DEF EndOfStream, Reset
    <2>2. \A u \in Session : stream'[u] = stream[u] \/ stream'[u] = <<>>
      BY <1>t, <2>1
    <2> QED BY <2>1, <2>2, LossOfPlaces
  <1>9. ASSUME Detect PROVE Delivery!Next
    BY <1>t, <1>9, PushRefines DEF Detect
  <1>10. ASSUME ServerStart \/ ServerStop \/ UNCHANGED vars PROVE Delivery!Next
    <2>1. /\ UNCHANGED <<hand, ring, pushed, log>>
          /\ stream' = stream \/ stream' = [s \in Session |-> <<>>]
      BY <1>10 DEF ServerStart, ServerStop, vars
    <2>2. \A u \in Session : stream'[u] = stream[u] \/ stream'[u] = <<>>
      BY <2>1
    <2> QED BY <2>1, <2>2, LossOfPlaces
  <1> QED
    BY <1>1, <1>2, <1>3, <1>4, <1>5, <1>6, <1>7, <1>8, <1>9, <1>10
       DEF Next, AgentStep, HandlerStep

(***************************************************************************)
(* Ring, agents and sessions implement AtMostOnce, for any number of       *)
(* agents and any succession of signals, resets and restarts: the server   *)
(* logs a frame at most once, and none that was lost on the way.           *)
(***************************************************************************)
THEOREM SessionsDeliverAtMostOnce == Spec => ImplementsAtMostOnce
  <1>1. Init => Delivery!Init
    <2> SUFFICES ASSUME Init PROVE Delivery!Init
      OBVIOUS
    <2>1. pushed = 0 /\ Logged = {}
      BY DEF Init, Logged
    <2>2. ASSUME NEW n PROVE n \notin OnItsWay
      BY WayFacts DEF Init, InStream
    <2> QED BY <2>1, <2>2 DEF Delivery!Init
  <1> QED BY <1>1, StepRefines, Invariance, PTL
         DEF Spec, ImplementsAtMostOnce, Delivery!Spec

=============================================================================
