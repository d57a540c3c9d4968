---------------------------- MODULE ServerFrames ----------------------------
(***************************************************************************)
(* The telemetry server's receiving side (python_tools/server.py): the     *)
(* accept loop, which performs every TLS handshake itself, one handler     *)
(* thread per agent, the session key cache they share, and the             *)
(* Elasticsearch writer.  How agents obtain sessions and keys is the       *)
(* subject of AgentSession; here a session is a stream of bytes.           *)
(*                                                                         *)
(* A stream is the frames a peer sent with the offset at which each        *)
(* begins; the handler has a position in it.  Four bytes read at the       *)
(* beginning of a frame are its length; read anywhere else they may be     *)
(* anything.  A session key is the rotation number it is derived from      *)
(* (HKDF taken to be injective), so decryption under another key fails.    *)
(***************************************************************************)
EXTENDS Integers, Sequences, FiniteSets, FiniteSetsExt

CONSTANTS
    Conn,        \* connections
    Rot,         \* the rotation numbers frames are labelled with
    Foreign,     \* the session key of another master key
    Frames,      \* the frames peers may send
    LenSize,     \* bytes of the length prefix (4)
    EncHdrSize,  \* ENC_HDR_SIZE (46)
    EventSize,   \* PHOTON_EVENT_SIZE (538)
    KprobeSize,  \* _KPROBE_DATA_SIZE (77)
    MaxBody,     \* the largest plausible body_len (65536)
    CacheMax,    \* SessionKeyCache max_entries (1024)
    MaxSent      \* bound: frames in the open sessions

\* A frame: its length prefix (the bytes that follow are as many), the header
\* fields encrypted_len and rotation_num, the key it was sealed with, and of
\* the event inside its type, data_len and whether its payload is flagged
\* (is_suspicious, or the symbol is kallsyms_lookup_name).
Frame ==
    [len : Nat, enc : Nat, rot : Rot, key : Rot \cup {Foreign},
     type : Nat, dlen : Nat, sus : BOOLEAN]

ASSUME ServerAssumption ==
    /\ Rot \subseteq Nat /\ Rot # {} /\ Foreign \notin Rot
    /\ Frames \subseteq Frame
    /\ {LenSize, EncHdrSize, EventSize, MaxBody, CacheMax, MaxSent} \subseteq Nat \ {0}
    /\ KprobeSize \in Nat
    /\ Conn \cap {"listen", "down"} = {}

VARIABLES
    acceptor,  \* "listen", the connection being wrapped, or "down"
    conn,      \* per connection: its stream and its handler thread
    cache,     \* SessionKeyCache._cache
    enabled    \* PhotonESWriter._enabled

shared == <<cache, enabled>>
vars   == <<acceptor, conn, shared>>

Loop == {"len", "body", "key", "decrypt", "index"}

\* A connection before its first frame, and after the thread and the stream are
\* gone.  The stream: frames with the offset `at' of their prefix, bytes sent,
\* whether the peer has closed.  The thread: bytes consumed, the frame being
\* handled (0: garbage), body_len, frame.rotation_num, session_key, the
\* counters of `stats', and what became of each body read (history).
Fresh(where) ==
    [pc |-> where,
     sent |-> <<>>, total |-> 0, eof |-> FALSE,
     pos |-> 0, cur |-> 0, want |-> 0, rot |-> Foreign, key |-> Foreign,
     frames |-> 0, errors |-> 0, bytes |-> 0, out |-> <<>>]

TypeOK ==
    /\ acceptor \in Conn \cup {"listen", "down"}
    /\ \A c \in Conn :
        /\ conn[c].pc \in Loop \cup {"none", "tls", "magic", "ack", "closed"}
        /\ conn[c].pos \in 0..conn[c].total
        /\ conn[c].cur \in 0..Len(conn[c].sent)
        /\ conn[c].want \in 0..MaxBody
    /\ enabled \in BOOLEAN

\* main() builds the writer before it listens: a service that does not answer
\* then, a missing client library or --no-es disable indexing for good.
Init ==
    /\ acceptor = "listen"
    /\ conn = [c \in Conn |-> Fresh("none")]
    /\ cache = <<>>
    /\ enabled \in BOOLEAN

Goto(c, l) == conn' = [conn EXCEPT ![c].pc = l]

\* finally: conn.close().
End(c) == conn' = [conn EXCEPT ![c] = Fresh("closed")]

-----------------------------------------------------------------------------
(***************************************************************************)
(* run_server(): accept, handshake in the accepting thread, one thread for *)
(* each agent.                                                             *)
(***************************************************************************)

\* accept() returns a connection that has reached the backlog.
Accept(c) ==
    /\ acceptor = "listen" /\ conn[c].pc = "none"
    /\ acceptor' = c
    /\ Goto(c, "tls")
    /\ UNCHANGED shared

TlsDone(c) ==
    /\ acceptor = c
    /\ acceptor' = "listen"
    /\ Goto(c, "magic")
    /\ UNCHANGED shared

\* ssl.SSLError is caught: the loop goes on.
TlsFailed(c) ==
    /\ acceptor = c
    /\ acceptor' = "listen"
    /\ End(c)
    /\ UNCHANGED shared

\* A reset during the handshake is a plain OSError, which the loop does not
\* catch; Ctrl-C leaves it too.  The handlers are daemon threads.
ServerEnds ==
    /\ acceptor # "down"
    /\ acceptor' = "down"
    /\ conn' = [c \in Conn |-> Fresh("closed")]
    /\ UNCHANGED shared

-----------------------------------------------------------------------------
(***************************************************************************)
(* The peer and the network.                                               *)
(***************************************************************************)

\* The frames in the open sessions.
Backlog == MapThenSumSet(LAMBDA c : Len(conn[c].sent), Conn)

\* An agent forwards whole frames, once it has acknowledged the key.
Send(c, f) ==
    /\ conn[c].pc \in Loop /\ ~conn[c].eof
    /\ Backlog < MaxSent
    /\ conn' = [conn EXCEPT ![c].sent = Append(@, [frame |-> f, at |-> conn[c].total]),
                            ![c].total = @ + LenSize + f.len]
    /\ UNCHANGED <<acceptor, shared>>

\* The peer closes or dies.
Close(c) ==
    /\ conn[c].pc \in Loop \cup {"magic", "ack"} /\ ~conn[c].eof
    /\ conn' = [conn EXCEPT ![c].eof = TRUE]
    /\ UNCHANGED <<acceptor, shared>>

\* A socket error in the handler: caught outside the loop, the session ends.
SocketError(c) ==
    /\ conn[c].pc \in {"magic", "ack", "len", "body"}
    /\ End(c)
    /\ UNCHANGED <<acceptor, shared>>

-----------------------------------------------------------------------------
(***************************************************************************)
(* handle_agent().                                                         *)
(***************************************************************************)

\* The magic is right and the key goes out, or the peer is dropped (also when
\* it closed).
Magic(c) ==
    /\ conn[c].pc = "magic"
    /\ (~conn[c].eof /\ Goto(c, "ack")) \/ End(c)
    /\ UNCHANGED <<acceptor, shared>>

Ack(c) ==
    /\ conn[c].pc = "ack"
    /\ (~conn[c].eof /\ Goto(c, "len")) \/ End(c)
    /\ UNCHANGED <<acceptor, shared>>

\* recv_exactly(n) can return n bytes.
CanRead(c, n) == conn[c].pos + n <= conn[c].total

\* The frames whose prefix begins at the handler's position.
Here(c) == {i \in 1..Len(conn[c].sent) : conn[c].sent[i].at = conn[c].pos}

\* The frame being handled.
Current(c) == conn[c].sent[conn[c].cur].frame

\* What unpacking the four bytes at the handler's position can give.
Lengths(c) ==
    IF Here(c) # {} THEN {conn[c].sent[i].frame.len : i \in Here(c)} ELSE 0..MaxBody + 1

Plausible(n) == n # 0 /\ n <= MaxBody

ReadLen_CountsPrefix(c) ==
    /\ conn[c].pc = "len" /\ CanRead(c, LenSize)
    /\ \E n \in Lengths(c) :
        conn' = IF Plausible(n)
                THEN [conn EXCEPT ![c].pos = @ + LenSize,
                                  ![c].want = n + LenSize,
                                  ![c].cur = Max(Here(c) \cup {0}),
                                  ![c].pc = "body"]
                ELSE [conn EXCEPT ![c].pos = @ + LenSize]
    /\ UNCHANGED <<acceptor, shared>>

\* An implausible length is skipped: the four bytes are consumed and nothing
\* else, whatever follows them.
ReadLen(c) ==
    /\ conn[c].pc = "len" /\ CanRead(c, LenSize)
    /\ \E n \in Lengths(c) :
        conn' = IF Plausible(n)
                THEN [conn EXCEPT ![c].pos = @ + LenSize,
                                  ![c].want = n,
                                  ![c].cur = Max(Here(c) \cup {0}),
                                  ![c].pc = "body"]
                ELSE [conn EXCEPT ![c].pos = @ + LenSize]
    /\ UNCHANGED <<acceptor, shared>>

\* recv_exactly() returns None: the session ends, with or without a warning.
\* What the peer sent last may have been lost with it, at any byte.
ReadEof(c) ==
    /\ conn[c].pc \in {"len", "body"} /\ conn[c].eof
    /\ End(c)
    /\ UNCHANGED <<acceptor, shared>>

\* The end of an iteration with session s: its locals are assigned anew in the
\* next one.
NextFrame(s, what) ==
    [s EXCEPT !.pc = "len", !.cur = 0, !.want = 0, !.rot = Foreign, !.key = Foreign,
              !.errors = IF what = "error" THEN @ + 1 ELSE @,
              !.out = Append(@, <<s.cur, what>>)]

\* parse_encrypted_frame() accepts a body of n bytes with this encrypted_len.
ParseEncryptedFrame(n, enc) == n >= EncHdrSize /\ n >= EncHdrSize + enc

\* The body is consumed before anything in it is looked at, so a frame that is
\* rejected leaves the position at the next prefix.
ReadBody(c) ==
    /\ conn[c].pc = "body" /\ CanRead(c, conn[c].want)
    /\ \E enc \in IF conn[c].cur = 0 THEN {0, MaxBody} ELSE {Current(c).enc},
          r \in IF conn[c].cur = 0 THEN Rot ELSE {Current(c).rot} :
        LET s == [conn[c] EXCEPT !.pos = @ + conn[c].want,
                                 !.bytes = @ + LenSize + conn[c].want]
        IN  conn' = [conn EXCEPT ![c] =
                        IF ParseEncryptedFrame(s.want, enc)
                        THEN [s EXCEPT !.rot = r, !.pc = "key"]
                        ELSE NextFrame(s, "error")]
    /\ UNCHANGED <<acceptor, shared>>

\* derive_session_key(): HKDF with the rotation number as salt and info.
DeriveSessionKey(r) == r

Without(f, r) == [x \in DOMAIN f \ {r} |-> f[x]]
With(f, r)    == [x \in DOMAIN f \cup {r} |-> IF x = r THEN DeriveSessionKey(r) ELSE f[x]]

CacheWith_EvictAfter(r) ==
    IF r \in DOMAIN cache THEN cache
    ELSE LET f == With(cache, r)
         IN  IF Cardinality(DOMAIN f) > CacheMax THEN Without(f, Min(DOMAIN f)) ELSE f

CacheWith_OffByOne(r) ==
    IF r \in DOMAIN cache THEN cache
    ELSE IF Cardinality(DOMAIN cache) > CacheMax
         THEN With(Without(cache, Min(DOMAIN cache)), r)
         ELSE With(cache, r)

\* SessionKeyCache.get() with its lock held throughout.
CacheWith(r) ==
    IF r \in DOMAIN cache THEN cache
    ELSE IF Cardinality(DOMAIN cache) >= CacheMax
         THEN With(Without(cache, Min(DOMAIN cache)), r)
         ELSE With(cache, r)

\* An exception out of the cache costs the frame.
GetKey(c) ==
    /\ conn[c].pc = "key"
    /\ cache' = CacheWith(conn[c].rot)
    /\ conn' = [conn EXCEPT ![c] =
                    IF @.rot \in DOMAIN cache'
                    THEN [@ EXCEPT !.key = cache'[conn[c].rot], !.pc = "decrypt"]
                    ELSE NextFrame(@, "error")]
    /\ UNCHANGED <<acceptor, enabled>>

\* AES-GCM authenticates: only the right key opens a frame, garbage never does.
Opens(c) == conn[c].cur # 0 /\ Current(c).key = conn[c].key

\* The plaintext is as long as the ciphertext; parse_photon_event() refuses a
\* short one.
ParsePhotonEvent(n) == n >= EventSize

Decrypt(c) ==
    /\ conn[c].pc = "decrypt"
    /\ conn' = [conn EXCEPT ![c] =
                    IF Opens(c) /\ ParsePhotonEvent(Current(c).enc)
                    THEN [@ EXCEPT !.frames = conn[c].frames + 1, !.pc = "index"]
                    ELSE NextFrame(@, "error")]
    /\ UNCHANGED <<acceptor, shared>>

\* _EVENT_SEVERITY with its default.
EventSeverity(type) ==
    CASE type \in {2, 3, 4} -> "critical"
      [] type \in {1, 5}    -> "high"
      [] OTHER              -> "info"

\* _event_to_doc(): a kprobe payload that is long enough to hold is_suspicious
\* raises the severity (_parse_event_payload).
Severity(f) ==
    IF f.type = 1 /\ f.dlen >= KprobeSize /\ f.sus THEN "critical"
    ELSE EventSeverity(f.type)

\* _log_event() and PhotonESWriter.index_event(): the event is printed in any
\* case; a request Elasticsearch refuses or does not answer is logged and
\* forgotten.
IndexEvent(c) ==
    /\ conn[c].pc = "index"
    /\ \/ enabled /\ conn' = [conn EXCEPT ![c] = NextFrame(@, Severity(Current(c)))]
       \/ conn' = [conn EXCEPT ![c] = NextFrame(@, "logged")]
    /\ UNCHANGED <<acceptor, shared>>

Handler(c) ==
    \/ Magic(c) \/ Ack(c)
    \/ ReadLen(c) \/ ReadEof(c) \/ ReadBody(c)
    \/ GetKey(c) \/ Decrypt(c) \/ IndexEvent(c)

Next ==
    \/ \E c \in Conn :
        \/ Accept(c) \/ TlsDone(c) \/ TlsFailed(c)
        \/ \E f \in Frames : Send(c, f)
        \/ Close(c) \/ SocketError(c)
        \/ Handler(c)
    \/ ServerEnds

Spec == Init /\ [][Next]_vars

\* A handler thread with bytes to read keeps running.  Nothing is assumed of
\* peers, of the network, or of the accepting thread, which waits for the peer
\* of the handshake as long as that peer likes.
FairSpec == Spec /\ \A c \in Conn : WF_vars(Handler(c))

-----------------------------------------------------------------------------
(***************************************************************************)
(* Properties.                                                             *)
(***************************************************************************)

\* No prefix sent so far announces more than MaxBody bytes.
Clean(c) == \A i \in 1..Len(conn[c].sent) : conn[c].sent[i].frame.len <= MaxBody

\* What a frame deserves, whatever came before it in this or another session:
\* an error, or to be logged and, if Elasticsearch takes it, to become a
\* document.  A kprobe event the kernel flagged becomes a critical one; what
\* is not a detection (a heartbeat, a key rotation, a type the server does not
\* know) is never an alert.
Deserves(f) ==
    IF f.enc + EncHdrSize > f.len \/ f.key # f.rot \/ f.enc < EventSize
    THEN {"error"}
    ELSE {"logged"} \cup
         (IF ~enabled THEN {}
          ELSE IF f.type = 1 /\ f.sus /\ f.dlen >= KprobeSize THEN {"critical"}
          ELSE IF f.type \in 1..5 THEN {"high", "critical"}
          ELSE {"info"})

\* The indices of the frames with a body whose last byte is consumed.
Finished(c) ==
    {i \in 1..Len(conn[c].sent) :
        LET s == conn[c].sent[i]
        IN  s.frame.len # 0 /\ s.at + LenSize + s.frame.len <= conn[c].pos}

\* The figures of the "Session closed" line: every body read is counted once,
\* as a frame or as an error, and the bytes are those of the stream less the
\* prefixes that were skipped.
StatsAddUp(c) ==
    LET s    == conn[c]
        zero == {i \in 1..Len(s.sent) : s.sent[i].frame.len = 0 /\ s.sent[i].at < s.pos}
    IN  /\ s.frames + s.errors = Cardinality(Finished(c))
        /\ s.bytes = s.pos - LenSize * Cardinality(zero)

\* One bad frame costs nothing but itself: between frames, each frame read so
\* far has had exactly one outcome, in order and the one it deserves, although
\* other sessions fill and evict the shared key cache, late frames bear evicted
\* rotation numbers, and frames with a zero length, a truncated body, a foreign
\* key or a short event come in between; and the counters agree.  (A prefix
\* above MaxBody does cost the frames after it: handle_agent skips the prefix
\* and not its body.)
VerdictPerFrame ==
    \A c \in Conn :
        (conn[c].pc = "len" /\ Clean(c)) =>
            LET out == conn[c].out
            IN  /\ Finished(c) = {out[i][1] : i \in 1..Len(out)}
                /\ \A i \in 1..Len(out) :
                    /\ out[i][2] \in Deserves(conn[c].sent[out[i][1]].frame)
                    /\ \A j \in 1..(i - 1) : out[j][1] < out[i][1]
                /\ StatsAddUp(c)

\* The cache shared by all handlers stays within max_entries and never answers
\* with the key of another rotation, whichever labels the sessions ask for.
CacheSound ==
    /\ Cardinality(DOMAIN cache) <= CacheMax
    /\ \A c \in Conn : conn[c].pc = "decrypt" => conn[c].key = DeriveSessionKey(conn[c].rot)

\* A handler keeps up with its agent: the frames of a clean session are all
\* dealt with or the session is over, even while the accepting thread is stuck
\* in another peer's handshake.
SessionDrains ==
    \A c \in Conn :
        (conn[c].pc \in Loop /\ Clean(c)) ~>
            (conn[c].pc = "closed" \/ conn[c].pos = conn[c].total \/ ~Clean(c))

\* server.py: "Index every decrypted event into Elasticsearch".  Violated by
\* the sizes of the code: what the kernel sends is shorter than what the server
\* unpacks, so a frame that decrypts is still an error.
DecryptedIsIndexed ==
    \A c \in Conn : \A i \in 1..Len(conn[c].out) :
        LET n == conn[c].out[i][1]
            f == conn[c].sent[n].frame
        IN  (n # 0 /\ f.key = f.rot) => conn[c].out[i][2] # "error"
=============================================================================
