---------------------------- MODULE ServerProofs ----------------------------
(***************************************************************************)
(* For any number of agents, whatever frames they send and however they    *)
(* interleave: the key cache all handlers share stays within its bound and *)
(* answers with the right key, and every frame of a clean session has      *)
(* exactly one outcome, in order, the one it deserves.                     *)
(***************************************************************************)
EXTENDS ServerFrames, FiniteSetTheorems, WellFoundedInduction, TLAPS

Verdict == {"error", "logged", "info", "high", "critical"}
Keyed   == Rot \cup {Foreign}
Sent    == [frame : Frame, at : Nat]

Session ==
    [pc : Loop \cup {"none", "tls", "magic", "ack", "closed"},
     sent : Seq(Sent), total : Nat, eof : BOOLEAN,
     pos : Nat, cur : Nat, want : Nat, rot : Keyed, key : Keyed,
     frames : Nat, errors : Nat, bytes : Nat, out : Seq(Nat \X Verdict)]

\* The operators of ServerFrames, of a session.
At(s, i)       == s.sent[i].at
Body(s, i)     == s.sent[i].frame.len
EndOf(s, i)    == s.sent[i].at + LenSize + s.sent[i].frame.len
CleanOf(s)     == \A i \in DOMAIN s.sent : Body(s, i) <= MaxBody
FinishedOf(s)  == {i \in DOMAIN s.sent : Body(s, i) # 0 /\ EndOf(s, i) <= s.pos}
ZeroOf(s)      == {i \in DOMAIN s.sent : Body(s, i) = 0 /\ At(s, i) < s.pos}

-----------------------------------------------------------------------------
\* The inductive invariant of a session, in parts.

\* A prefix may be read at position p: a frame begins there, or nothing is yet.
Boundary(s, p) == p = s.total \/ \E i \in DOMAIN s.sent : At(s, i) = p

\* The frames lie in the stream one behind the other, without a gap.
StreamInv(s) ==
    /\ \A i \in DOMAIN s.sent : EndOf(s, i) <= s.total /\ Boundary(s, EndOf(s, i))
    /\ \A i, j \in DOMAIN s.sent : i < j => EndOf(s, i) <= At(s, j)
    /\ Boundary(s, 0)

\* Before its loop a handler has read nothing.
StartInv(s) ==
    s.pc \notin Loop =>
        /\ s.sent = <<>> /\ s.total = 0 /\ s.pos = 0 /\ s.out = <<>>
        /\ s.frames = 0 /\ s.errors = 0 /\ s.bytes = 0

Opened == {"key", "decrypt", "index"}

\* What the handler knows of the frame it is handling.
HandInv(s) ==
    /\ s.pos <= s.total
    /\ s.cur # 0 => s.cur \in DOMAIN s.sent
    /\ s.pc = "len" => s.cur = 0
    /\ s.pc = "body" => s.want # 0
    /\ (s.pc = "body" /\ s.cur # 0) =>
          s.pos = At(s, s.cur) + LenSize /\ s.want = Body(s, s.cur)
    /\ (s.pc \in Opened /\ s.cur # 0) =>
          /\ s.pos = EndOf(s, s.cur) /\ Body(s, s.cur) # 0
          /\ EncHdrSize + s.sent[s.cur].frame.enc <= Body(s, s.cur)
          /\ s.rot = s.sent[s.cur].frame.rot
    /\ s.pc = "key" => s.rot \in Rot
    /\ s.pc = "decrypt" => s.key = s.rot
    /\ s.pc = "index" =>
          /\ s.cur # 0 /\ s.sent[s.cur].frame.key = s.sent[s.cur].frame.rot
          /\ s.sent[s.cur].frame.enc >= EventSize

\* Outcomes so far, of clean and of other sessions.
VerdictInv(s) ==
    \A i \in DOMAIN s.out : s.out[i][1] # 0 =>
        /\ s.out[i][1] \in DOMAIN s.sent
        /\ s.out[i][2] \in Deserves(s.sent[s.out[i][1]].frame)

\* The frames with an outcome.
Judged(s) == IF s.pc \in Opened THEN FinishedOf(s) \ {s.cur} ELSE FinishedOf(s)

OrderInv(s) ==
    /\ \A i \in DOMAIN s.out : s.out[i][1] \in Judged(s)
    /\ \A n \in Judged(s) : \E i \in DOMAIN s.out : s.out[i][1] = n
    /\ \A i, j \in DOMAIN s.out : i < j => s.out[i][1] < s.out[j][1]

CountInv(s) ==
    /\ s.frames + s.errors + (IF s.pc \in {"key", "decrypt"} THEN 1 ELSE 0)
          = Cardinality(FinishedOf(s))
    /\ s.bytes + (IF s.pc = "body" THEN LenSize ELSE 0) + LenSize * Cardinality(ZeroOf(s))
          = s.pos

\* A clean session stays in step with its stream.
CleanInv(s) ==
    (CleanOf(s) /\ s.pc \in Loop) =>
        /\ s.pc = "len" => Boundary(s, s.pos)
        /\ s.pc # "len" => s.cur # 0
        /\ OrderInv(s)
        /\ CountInv(s)

SessionInv(s) ==
    /\ StreamInv(s) /\ StartInv(s) /\ HandInv(s) /\ VerdictInv(s) /\ CleanInv(s)

\* The cache: finitely many rotation numbers, each with its own key.
CacheInv ==
    /\ DOMAIN cache \subseteq Rot /\ IsFiniteSet(DOMAIN cache)
    /\ Cardinality(DOMAIN cache) <= CacheMax
    /\ cache = [r \in DOMAIN cache |-> r]

\* The accepting thread is in the handshake of the connection it has accepted.
AcceptInv == acceptor \in Conn => conn[acceptor].pc = "tls"

IInv ==
    /\ acceptor \in Conn \cup {"listen", "down"} /\ enabled \in BOOLEAN
    /\ conn \in [Conn -> Session]
    /\ CacheInv /\ AcceptInv
    /\ \A c \in Conn : SessionInv(conn[c])

-----------------------------------------------------------------------------
\* Facts about the operators.

LEMMA Sizes ==
    /\ LenSize \in Nat \ {0} /\ EncHdrSize \in Nat \ {0} /\ EventSize \in Nat \ {0}
    /\ MaxBody \in Nat \ {0} /\ CacheMax \in Nat \ {0} /\ KprobeSize \in Nat
    /\ Rot \subseteq Nat /\ Foreign \notin Rot /\ Frames \subseteq Frame
  BY ServerAssumption

\* The smallest of some numbers is one of them.
LEMMA MinIsIn == ASSUME NEW S, S \subseteq Nat, S # {} PROVE Min(S) \in S
  <1>1. PICK m \in S : \A y \in S : ~(<<y, m>> \in OpToRel(<, Nat))
    BY NatLessThanWellFounded, WFMin
  <1>2. \A y \in S : ~(y < m)
    BY <1>1 DEF OpToRel
  <1>3. \A y \in S : m =< y
    BY <1>2
  <1> QED BY <1>3 DEF Min

LEMMA MaxIs == ASSUME NEW S, S \subseteq Nat, NEW m \in S, \A y \in S : m >= y
               PROVE  Max(S) = m
  <1>1. Max(S) \in S /\ \A y \in S : Max(S) >= y
    BY DEF Max
  <1>2. Max(S) >= m /\ m >= Max(S) /\ Max(S) \in Nat /\ m \in Nat
    BY <1>1
  <1> QED BY <1>2

\* get() keeps the cache sound and answers for the rotation asked for.
LEMMA CacheAnswers ==
    ASSUME CacheInv, NEW r \in Rot, NEW f, f = CacheWith(r)
    PROVE  /\ r \in DOMAIN f /\ DOMAIN f \subseteq Rot /\ IsFiniteSet(DOMAIN f)
           /\ Cardinality(DOMAIN f) <= CacheMax
           /\ f = [x \in DOMAIN f |-> x]
  <1> DEFINE D == DOMAIN cache
             n == Cardinality(D)
  <1>0. /\ D \subseteq Rot /\ D \subseteq Nat /\ IsFiniteSet(D) /\ n \in Nat /\ n <= CacheMax
        /\ CacheMax \in Nat \ {0} /\ \A x \in D : cache[x] = x
    BY Sizes, FS_CardinalityType DEF CacheInv
  <1>1. CASE r \in D
    BY <1>1 DEF CacheWith, CacheInv
  <1>2. CASE r \notin D /\ ~(n >= CacheMax)
    <2>1. f = With(cache, r)
      BY <1>2 DEF CacheWith
    <2>2. DOMAIN f = D \cup {r} /\ f = [x \in D \cup {r} |-> x]
      BY <1>0, <2>1 DEF With, DeriveSessionKey
    <2>3. IsFiniteSet(D \cup {r}) /\ Cardinality(D \cup {r}) = n + 1
      BY <1>0, <1>2, FS_AddElement
    <2>4. n + 1 <= CacheMax
      BY <1>0, <1>2
    <2> QED BY <1>0, <2>2, <2>3, <2>4
  <1>3. CASE r \notin D /\ n >= CacheMax
    <2>1. D # {}
      BY <1>0, <1>3, FS_EmptySet
    <2> DEFINE m == Min(D)
               E == D \ {m}
    <2>2. m \in D
      BY <1>0, <2>1, MinIsIn
    <2>3. f = With(Without(cache, m), r)
      BY <1>3 DEF CacheWith
    <2>4. DOMAIN f = E \cup {r} /\ f = [x \in E \cup {r} |-> x]
      BY <1>0, <2>3 DEF With, Without, DeriveSessionKey
    <2>5. IsFiniteSet(E) /\ Cardinality(E) = n - 1
      BY <1>0, <2>2, FS_RemoveElement
    <2>6. IsFiniteSet(E \cup {r}) /\ Cardinality(E \cup {r}) = n - 1 + 1
      BY <1>3, <2>5, FS_AddElement
    <2>7. n - 1 + 1 <= CacheMax
      BY <1>0
    <2> QED BY <1>0, <2>4, <2>6, <2>7
  <1> QED BY <1>1, <1>2, <1>3

-----------------------------------------------------------------------------
\* Frames and where they lie.

LEMMA SentFacts ==
    ASSUME NEW s \in Session
    PROVE  /\ Len(s.sent) \in Nat /\ DOMAIN s.sent = 1..Len(s.sent)
           /\ s.pos \in Nat /\ s.total \in Nat /\ s.cur \in Nat /\ s.want \in Nat
           /\ \A i \in DOMAIN s.sent :
                /\ i \in Nat \ {0} /\ At(s, i) \in Nat /\ Body(s, i) \in Nat
                /\ EndOf(s, i) \in Nat /\ EndOf(s, i) = At(s, i) + LenSize + Body(s, i)
                /\ At(s, i) < EndOf(s, i)
  <1>1. /\ s.sent \in Seq(Sent) /\ s.pos \in Nat /\ s.total \in Nat
        /\ s.cur \in Nat /\ s.want \in Nat
    BY DEF Session
  <1>2. Len(s.sent) \in Nat /\ DOMAIN s.sent = 1..Len(s.sent)
    BY <1>1
  <1>3. \A i \in DOMAIN s.sent : s.sent[i] \in Sent
    BY <1>1, <1>2
  <1>4. \A i \in DOMAIN s.sent : At(s, i) \in Nat /\ Body(s, i) \in Nat
    BY <1>3 DEF Sent, Frame, At, Body
  <1>5. \A i \in DOMAIN s.sent : EndOf(s, i) = At(s, i) + LenSize + Body(s, i)
    BY DEF EndOf, At, Body
  <1> QED BY <1>1, <1>2, <1>4, <1>5, Sizes

\* Only one frame begins at a position.
LEMMA OneHere ==
    ASSUME NEW s \in Session, StreamInv(s), NEW i \in DOMAIN s.sent, NEW j \in DOMAIN s.sent,
           At(s, i) = At(s, j)
    PROVE  i = j
  <1>1. (i < j => EndOf(s, i) <= At(s, j)) /\ (j < i => EndOf(s, j) <= At(s, i))
    BY DEF StreamInv
  <1>2. /\ i \in Nat /\ j \in Nat /\ At(s, i) \in Nat /\ EndOf(s, i) \in Nat
        /\ EndOf(s, j) \in Nat /\ At(s, i) < EndOf(s, i) /\ At(s, j) < EndOf(s, j)
    BY SentFacts
  <1> QED BY <1>1, <1>2

Full(s, k)  == {i \in DOMAIN s.sent : i < k /\ Body(s, i) # 0}
Empty(s, k) == {i \in DOMAIN s.sent : i < k /\ Body(s, i) = 0}

\* What is finished, by the frame k at which the position is.
LEMMA Passed ==
    ASSUME NEW s \in Session, StreamInv(s), NEW k \in DOMAIN s.sent
    PROVE  /\ s.pos = At(s, k) =>
                FinishedOf(s) = Full(s, k) /\ ZeroOf(s) = Empty(s, k)
           /\ s.pos = At(s, k) + LenSize =>
                FinishedOf(s) = Full(s, k) /\ ZeroOf(s) = Empty(s, k + 1)
           /\ s.pos = EndOf(s, k) =>
                FinishedOf(s) = Full(s, k + 1) /\ ZeroOf(s) = Empty(s, k + 1)
  <1> DEFINE a(i) == At(s, i)
             b(i) == Body(s, i)
             e(i) == EndOf(s, i)
             p == s.pos
  <1>1. /\ k \in Nat /\ LenSize \in Nat \ {0} /\ p \in Nat
        /\ \A i \in DOMAIN s.sent : /\ i \in Nat /\ a(i) \in Nat /\ b(i) \in Nat /\ e(i) \in Nat
                                    /\ e(i) = a(i) + LenSize + b(i)
    BY SentFacts, Sizes
  <1>2. \A i, j \in DOMAIN s.sent : i < j => e(i) <= a(j)
    BY DEF StreamInv
  <1>3. /\ FinishedOf(s) = {i \in DOMAIN s.sent : b(i) # 0 /\ e(i) <= p}
        /\ ZeroOf(s) = {i \in DOMAIN s.sent : b(i) = 0 /\ a(i) < p}
    BY DEF FinishedOf, ZeroOf
  <1>4. /\ \A n : Full(s, n) = {i \in DOMAIN s.sent : i < n /\ b(i) # 0}
        /\ \A n : Empty(s, n) = {i \in DOMAIN s.sent : i < n /\ b(i) = 0}
    BY DEF Full, Empty
  <1> HIDE DEF a, b, e, p
  <1>5. \A i \in DOMAIN s.sent : /\ i < k => e(i) <= a(k) /\ a(i) < a(k)
                                 /\ k < i => e(k) <= a(i) /\ a(k) < a(i) /\ e(k) < e(i)
                                 /\ i < k \/ i = k \/ k < i
    BY <1>1, <1>2
  <1>6. ASSUME p = a(k) PROVE FinishedOf(s) = Full(s, k) /\ ZeroOf(s) = Empty(s, k)
    <2>1. \A i \in DOMAIN s.sent : (e(i) <= p <=> i < k) /\ (a(i) < p <=> i < k)
      BY <1>1, <1>5, <1>6
    <2> QED BY <1>3, <1>4, <2>1
  <1>7. ASSUME p = a(k) + LenSize
        PROVE  FinishedOf(s) = Full(s, k) /\ ZeroOf(s) = Empty(s, k + 1)
    <2>1. \A i \in DOMAIN s.sent : /\ b(i) # 0 => (e(i) <= p <=> i < k)
                                   /\ a(i) < p <=> i < k + 1
      BY <1>1, <1>5, <1>7
    <2> QED BY <1>3, <1>4, <2>1
  <1>8. ASSUME p = e(k)
        PROVE  FinishedOf(s) = Full(s, k + 1) /\ ZeroOf(s) = Empty(s, k + 1)
    <2>1. \A i \in DOMAIN s.sent : (e(i) <= p <=> i < k + 1) /\ (a(i) < p <=> i < k + 1)
      BY <1>1, <1>5, <1>8
    <2> QED BY <1>3, <1>4, <2>1
  <1> QED BY <1>6, <1>7, <1>8 DEF a, e, p

\* One frame more.
LEMMA OneMore ==
    ASSUME NEW s \in Session, NEW k \in DOMAIN s.sent
    PROVE  /\ Full(s, k + 1) = IF Body(s, k) # 0 THEN Full(s, k) \cup {k} ELSE Full(s, k)
           /\ Empty(s, k + 1) = IF Body(s, k) = 0 THEN Empty(s, k) \cup {k} ELSE Empty(s, k)
           /\ k \notin Full(s, k) /\ k \notin Empty(s, k)
           /\ \A n : /\ IsFiniteSet(Full(s, n)) /\ Cardinality(Full(s, n)) \in Nat
                     /\ IsFiniteSet(Empty(s, n)) /\ Cardinality(Empty(s, n)) \in Nat
           /\ Cardinality(Full(s, k) \cup {k}) = Cardinality(Full(s, k)) + 1
           /\ Cardinality(Empty(s, k) \cup {k}) = Cardinality(Empty(s, k)) + 1
  <1>1. \A i \in DOMAIN s.sent : i \in Nat
    BY SentFacts
  <1>2. \A i \in DOMAIN s.sent : i < k + 1 <=> i < k \/ i = k
    BY <1>1
  <1>3. /\ Full(s, k + 1) = IF Body(s, k) # 0 THEN Full(s, k) \cup {k} ELSE Full(s, k)
        /\ Empty(s, k + 1) = IF Body(s, k) = 0 THEN Empty(s, k) \cup {k} ELSE Empty(s, k)
    BY <1>2 DEF Full, Empty
  <1>4. k \notin Full(s, k) /\ k \notin Empty(s, k)
    BY <1>1 DEF Full, Empty
  <1>5. IsFiniteSet(DOMAIN s.sent)
    BY SentFacts, FS_Interval
  <1>6. \A n : /\ IsFiniteSet(Full(s, n)) /\ Cardinality(Full(s, n)) \in Nat
               /\ IsFiniteSet(Empty(s, n)) /\ Cardinality(Empty(s, n)) \in Nat
    BY <1>5, FS_Subset, FS_CardinalityType DEF Full, Empty
  <1>7. /\ Cardinality(Full(s, k) \cup {k}) = Cardinality(Full(s, k)) + 1
        /\ Cardinality(Empty(s, k) \cup {k}) = Cardinality(Empty(s, k)) + 1
    BY <1>4, <1>6, FS_AddElement
  <1> QED BY <1>3, <1>4, <1>6, <1>7

-----------------------------------------------------------------------------
\* One lemma for each kind of step of a session, from s to t.

\* What the invariant says of the stream and of the outcomes depends on nothing
\* but the frames, the position and the outcomes.
LEMMA SameStream ==
    ASSUME NEW s, NEW t, t.sent = s.sent, t.total = s.total
    PROVE  /\ DOMAIN t.sent = DOMAIN s.sent
           /\ \A i : At(t, i) = At(s, i) /\ Body(t, i) = Body(s, i) /\ EndOf(t, i) = EndOf(s, i)
           /\ \A p : Boundary(t, p) <=> Boundary(s, p)
           /\ StreamInv(s) => StreamInv(t)
           /\ CleanOf(t) <=> CleanOf(s)
           /\ t.pos = s.pos => FinishedOf(t) = FinishedOf(s) /\ ZeroOf(t) = ZeroOf(s)
           /\ (t.out = s.out /\ VerdictInv(s)) => VerdictInv(t)
  <1>1. /\ DOMAIN t.sent = DOMAIN s.sent
        /\ \A i : At(t, i) = At(s, i) /\ Body(t, i) = Body(s, i) /\ EndOf(t, i) = EndOf(s, i)
    BY DEF At, Body, EndOf
  <1>2. \A p : Boundary(t, p) <=> Boundary(s, p)
    BY <1>1 DEF Boundary
  <1>3. StreamInv(s) => StreamInv(t)
    BY <1>1, <1>2 DEF StreamInv
  <1>4. CleanOf(t) <=> CleanOf(s)
    BY <1>1 DEF CleanOf
  <1>5. t.pos = s.pos => FinishedOf(t) = FinishedOf(s) /\ ZeroOf(t) = ZeroOf(s)
    BY <1>1 DEF FinishedOf, ZeroOf
  <1>6. (t.out = s.out /\ VerdictInv(s)) => VerdictInv(t)
    BY DEF VerdictInv
  <1> QED BY <1>1, <1>2, <1>3, <1>4, <1>5, <1>6

\* A session before its first frame and after its end.
LEMMA FreshSession ==
    ASSUME NEW w \in {"none", "tls", "magic", "ack", "closed"}
    PROVE  Fresh(w) \in Session /\ SessionInv(Fresh(w))
  <1> DEFINE s == Fresh(w)
  <1>1. /\ s.pc = w /\ s.sent = <<>> /\ s.total = 0 /\ s.pos = 0 /\ s.cur = 0 /\ s.out = <<>>
        /\ s.frames = 0 /\ s.errors = 0 /\ s.bytes = 0
    BY DEF Fresh
  <1>2. s \in Session
    <2>1. <<>> \in Seq(Sent) /\ <<>> \in Seq(Nat \X Verdict)
      OBVIOUS
    <2>2. Foreign \in Keyed /\ 0 \in Nat /\ FALSE \in BOOLEAN
      BY DEF Keyed
    <2> QED BY <2>1, <2>2 DEF Fresh, Session
  <1> HIDE DEF s
  <1>3. StreamInv(s) /\ StartInv(s)
    BY <1>1 DEF StreamInv, StartInv, Boundary
  <1>4. HandInv(s)
    BY <1>1 DEF HandInv, Opened
  <1>5. VerdictInv(s)
    BY <1>1 DEF VerdictInv
  <1>6. CleanInv(s)
    BY <1>1 DEF CleanInv, Loop
  <1> QED BY <1>2, <1>3, <1>4, <1>5, <1>6 DEF SessionInv, s

\* Until the loop begins only the program counter changes.
LEMMA BeforeLoop ==
    ASSUME NEW s \in Session, SessionInv(s), s.pc \in {"none", "tls", "magic", "ack"},
           NEW w \in {"tls", "magic", "ack", "len"}
    PROVE  [s EXCEPT !.pc = w] \in Session /\ SessionInv([s EXCEPT !.pc = w])
  <1> DEFINE t == [s EXCEPT !.pc = w]
  <1>1. t \in Session
    BY DEF Session, Loop
  <1>2. /\ t.pc = w /\ t.sent = s.sent /\ t.total = s.total /\ t.pos = s.pos /\ t.out = s.out
        /\ t.cur = s.cur /\ t.frames = s.frames /\ t.errors = s.errors /\ t.bytes = s.bytes
    BY DEF Session
  <1>3. /\ s.sent = <<>> /\ s.total = 0 /\ s.pos = 0 /\ s.out = <<>> /\ s.cur = 0
        /\ s.frames = 0 /\ s.errors = 0 /\ s.bytes = 0
    BY DEF SessionInv, StartInv, HandInv, Loop
  <1> HIDE DEF t
  <1>4. StreamInv(t) /\ StartInv(t)
    BY <1>2, <1>3 DEF StreamInv, StartInv, Boundary
  <1>5. HandInv(t)
    BY <1>2, <1>3 DEF HandInv, Opened
  <1>6. VerdictInv(t)
    BY <1>2, <1>3 DEF VerdictInv
  <1>7. CleanInv(t)
    <2>1. CASE w # "len"
      BY <1>2, <2>1 DEF CleanInv, Loop
    <2>2. CASE w = "len"
      <3>1. Boundary(t, t.pos)
        BY <1>2, <1>3 DEF Boundary
      <3>2. FinishedOf(t) = {} /\ ZeroOf(t) = {}
        BY <1>2, <1>3 DEF FinishedOf, ZeroOf
      <3>3. OrderInv(t)
        BY <1>2, <1>3, <2>2, <3>2 DEF OrderInv, Judged, Opened
      <3>4. CountInv(t)
        BY <1>2, <1>3, <2>2, <3>2, FS_EmptySet, Sizes DEF CountInv
      <3> QED BY <1>2, <2>2, <3>1, <3>3, <3>4 DEF CleanInv
    <2> QED BY <2>1, <2>2
  <1> QED BY <1>1, <1>4, <1>5, <1>6, <1>7 DEF SessionInv, t

\* The peer closes: nothing the invariant speaks of.
LEMMA PeerCloses ==
    ASSUME NEW s \in Session, SessionInv(s)
    PROVE  [s EXCEPT !.eof = TRUE] \in Session /\ SessionInv([s EXCEPT !.eof = TRUE])
  <1> DEFINE t == [s EXCEPT !.eof = TRUE]
  <1>1. t \in Session
    BY DEF Session
  <1>2. /\ t.pc = s.pc /\ t.sent = s.sent /\ t.total = s.total /\ t.pos = s.pos
        /\ t.out = s.out /\ t.cur = s.cur /\ t.frames = s.frames /\ t.errors = s.errors
        /\ t.bytes = s.bytes /\ t.want = s.want /\ t.rot = s.rot /\ t.key = s.key
    BY DEF Session
  <1> HIDE DEF t
  <1>3. StreamInv(t) /\ VerdictInv(t)
    BY <1>2, SameStream DEF SessionInv
  <1>4. StartInv(t)
    BY <1>2 DEF SessionInv, StartInv
  <1>5. HandInv(t)
    BY <1>2, SameStream DEF SessionInv, HandInv
  <1>6. CleanInv(t)
    <2>1. Judged(t) = Judged(s)
      BY <1>2, SameStream DEF Judged
    <2>2. OrderInv(s) => OrderInv(t)
      BY <1>2, <2>1 DEF OrderInv
    <2>3. CountInv(s) => CountInv(t)
      BY <1>2, SameStream DEF CountInv
    <2> QED BY <1>2, <2>2, <2>3, SameStream DEF SessionInv, CleanInv
  <1> QED BY <1>1, <1>3, <1>4, <1>5, <1>6 DEF SessionInv, t

\* An agent sends a frame: it lies beyond the position.
LEMMA FrameSent ==
    ASSUME NEW s \in Session, SessionInv(s), s.pc \in Loop, NEW f \in Frame,
           NEW t, t = [s EXCEPT !.sent = Append(@, [frame |-> f, at |-> s.total]),
                                !.total = @ + LenSize + f.len]
    PROVE  t \in Session /\ SessionInv(t)
  <1> DEFINE x == [frame |-> f, at |-> s.total]
             k == Len(s.sent) + 1
  <1>0. /\ s.sent \in Seq(Sent) /\ s.total \in Nat /\ f.len \in Nat /\ LenSize \in Nat \ {0}
        /\ x \in Sent /\ x.at = s.total /\ x.frame = f
    BY Sizes DEF Session, Sent, Frame
  <1>1. t \in Session
    <2>1. Append(s.sent, x) \in Seq(Sent) /\ s.total + LenSize + f.len \in Nat
      BY <1>0
    <2> HIDE DEF x
    <2> QED BY <2>1 DEF Session, x
  <1>2. /\ t.pc = s.pc /\ t.sent = Append(s.sent, x) /\ t.total = s.total + LenSize + f.len
        /\ t.pos = s.pos /\ t.out = s.out /\ t.cur = s.cur /\ t.frames = s.frames
        /\ t.errors = s.errors /\ t.bytes = s.bytes /\ t.want = s.want /\ t.rot = s.rot
        /\ t.key = s.key
    BY DEF Session
  <1> HIDE DEF x
  <1>3. /\ DOMAIN s.sent \subseteq DOMAIN t.sent /\ k \in DOMAIN t.sent
        /\ \A i \in DOMAIN t.sent : i \in DOMAIN s.sent \/ i = k
        /\ \A i \in DOMAIN s.sent : i < k /\ ~(k < i) /\ t.sent[i] = s.sent[i]
        /\ t.sent[k] = x /\ k \notin DOMAIN s.sent /\ ~(k < k)
    BY <1>0, <1>2
  <1> HIDE DEF k
  <1>4. /\ \A i \in DOMAIN s.sent : /\ At(t, i) = At(s, i) /\ Body(t, i) = Body(s, i)
                                    /\ EndOf(t, i) = EndOf(s, i)
        /\ At(t, k) = s.total /\ Body(t, k) = f.len /\ EndOf(t, k) = t.total
    BY <1>0, <1>2, <1>3 DEF At, Body, EndOf
  <1>5. \A p : Boundary(s, p) => Boundary(t, p)
    BY <1>3, <1>4 DEF Boundary
  <1>6. StreamInv(t)
    <2>1. \A i \in DOMAIN t.sent : EndOf(t, i) <= t.total /\ Boundary(t, EndOf(t, i))
      <3>1. ASSUME NEW i \in DOMAIN s.sent
            PROVE  EndOf(t, i) <= t.total /\ Boundary(t, EndOf(t, i))
        <4>1. EndOf(s, i) <= s.total /\ Boundary(s, EndOf(s, i)) /\ EndOf(s, i) \in Nat
          BY SentFacts DEF SessionInv, StreamInv
        <4>2. Boundary(t, EndOf(t, i))
          BY <1>4, <1>5, <4>1
        <4> QED BY <1>0, <1>2, <1>4, <4>1, <4>2
      <3>2. EndOf(t, k) <= t.total /\ Boundary(t, EndOf(t, k))
        BY <1>0, <1>2, <1>4 DEF Boundary
      <3> QED BY <1>3, <3>1, <3>2
    <2>2. \A i, j \in DOMAIN t.sent : i < j => EndOf(t, i) <= At(t, j)
      BY <1>3, <1>4 DEF SessionInv, StreamInv
    <2>3. Boundary(t, 0)
      BY <1>5 DEF SessionInv, StreamInv
    <2> QED BY <2>1, <2>2, <2>3 DEF StreamInv
  <1>7. StartInv(t)
    BY <1>2 DEF StartInv
  <1>8. HandInv(t)
    <2>1. s.pos <= s.total /\ s.pos \in Nat
      BY SentFacts DEF SessionInv, HandInv
    <2>2. t.pos <= t.total
      BY <1>0, <1>2, <2>1
    <2>3. HandInv(s)
      BY DEF SessionInv
    <2>4. s.cur # 0 => s.cur \in DOMAIN s.sent /\ t.sent[s.cur] = s.sent[s.cur]
      BY <1>3, <2>3 DEF HandInv
    <2> QED BY <1>2, <1>3, <1>4, <2>2, <2>3, <2>4 DEF HandInv
  <1>9. VerdictInv(t)
    BY <1>2, <1>3 DEF SessionInv, VerdictInv
  <1>10. CleanInv(t)
    <2> SUFFICES ASSUME CleanOf(t) PROVE CleanInv(t)
      BY DEF CleanInv
    <2>1. CleanOf(s)
      BY <1>3, <1>4 DEF CleanOf
    <2>2. FinishedOf(t) = FinishedOf(s) /\ ZeroOf(t) = ZeroOf(s)
      <3>1. s.pos <= s.total /\ s.pos \in Nat /\ f.len \in Nat
        BY <1>0, SentFacts DEF SessionInv, HandInv
      <3>2. ~(EndOf(t, k) <= t.pos) /\ ~(At(t, k) < t.pos)
        <4>1. LenSize \in Nat \ {0} /\ s.total \in Nat
          BY <1>0
        <4>2. ~(s.total + LenSize + f.len <= s.pos) /\ ~(s.total < s.pos)
          BY <3>1, <4>1
        <4> QED BY <1>2, <1>4, <4>2
      <3> QED BY <1>2, <1>3, <1>4, <3>2 DEF FinishedOf, ZeroOf
    <2>3. Judged(t) = Judged(s)
      BY <1>2, <2>2 DEF Judged
    <2>4. OrderInv(s) => OrderInv(t)
      BY <1>2, <2>3 DEF OrderInv
    <2>5. CountInv(s) => CountInv(t)
      BY <1>2, <2>2 DEF CountInv
    <2> QED BY <1>2, <1>5, <2>1, <2>4, <2>5 DEF SessionInv, CleanInv
  <1> QED BY <1>1, <1>6, <1>7, <1>8, <1>9, <1>10 DEF SessionInv

-----------------------------------------------------------------------------
\* Reading the prefix.

HereOf(s) == {i \in DOMAIN s.sent : At(s, i) = s.pos}

\* A prefix that can be read in a clean session is that of exactly one frame.
LEMMA PrefixOfOne ==
    ASSUME NEW s \in Session, SessionInv(s), s.pc = "len", s.pos + LenSize <= s.total
    PROVE  /\ CleanOf(s) => HereOf(s) # {}
           /\ \A i \in HereOf(s) : i \in DOMAIN s.sent /\ HereOf(s) = {i} /\ Max(HereOf(s) \cup {0}) = i
           /\ HereOf(s) = {} => Max(HereOf(s) \cup {0}) = 0
  <1>1. CleanOf(s) => HereOf(s) # {}
    <2>1. s.pos # s.total
      BY SentFacts, Sizes
    <2> QED BY <2>1 DEF SessionInv, CleanInv, Loop, Boundary, HereOf
  <1>2. ASSUME NEW i \in HereOf(s)
        PROVE  i \in DOMAIN s.sent /\ HereOf(s) = {i} /\ Max(HereOf(s) \cup {0}) = i
    <2>1. i \in DOMAIN s.sent /\ i \in Nat
      BY SentFacts DEF HereOf
    <2>2. HereOf(s) = {i}
      BY <2>1, OneHere DEF HereOf, SessionInv
    <2>3. Max({i} \cup {0}) = i
      BY <2>1, MaxIs
    <2> QED BY <2>1, <2>2, <2>3
  <1>3. Max({} \cup {0}) = 0
    BY MaxIs
  <1> QED BY <1>1, <1>2, <1>3

\* The product of the byte count.
LEMMA TimesNext == ASSUME NEW a \in Nat, NEW n \in Nat
                   PROVE  a * n \in Nat /\ a * (n + 1) = a * n + a
  OBVIOUS

\* The prefix is skipped: zero, or too large.
LEMMA PrefixSkipped ==
    ASSUME NEW s \in Session, SessionInv(s), s.pc = "len", s.pos + LenSize <= s.total,
           NEW n, ~Plausible(n),
           HereOf(s) # {} => \E i \in HereOf(s) : n = Body(s, i),
           NEW t \in Session, t.pc = s.pc, t.sent = s.sent, t.total = s.total,
           t.pos = s.pos + LenSize, t.out = s.out, t.cur = s.cur, t.frames = s.frames,
           t.errors = s.errors, t.bytes = s.bytes
    PROVE  SessionInv(t)
  <1>0. LenSize \in Nat \ {0} /\ s.pos \in Nat /\ s.pos + LenSize \in Nat
    BY Sizes, SentFacts
  <1>s. /\ DOMAIN t.sent = DOMAIN s.sent
        /\ \A i : At(t, i) = At(s, i) /\ Body(t, i) = Body(s, i) /\ EndOf(t, i) = EndOf(s, i)
        /\ \A p : Boundary(t, p) <=> Boundary(s, p)
        /\ StreamInv(s) => StreamInv(t)
        /\ CleanOf(t) <=> CleanOf(s)
        /\ (t.out = s.out /\ VerdictInv(s)) => VerdictInv(t)
    BY SameStream
  <1>3. StreamInv(t) /\ VerdictInv(t)
    BY <1>s DEF SessionInv
  <1>4. StartInv(t)
    BY DEF StartInv, Loop
  <1>5. HandInv(t)
    BY DEF SessionInv, HandInv, Opened
  <1>6. CleanInv(t)
    <2> SUFFICES ASSUME CleanOf(t) PROVE CleanInv(t)
      BY DEF CleanInv
    <2>1. CleanOf(s)
      BY <1>s
    <2>2. PICK k \in HereOf(s) : n = Body(s, k)
      BY <2>1, PrefixOfOne
    <2>3. /\ k \in DOMAIN s.sent /\ At(s, k) = s.pos /\ Body(s, k) = 0
          /\ k \in DOMAIN t.sent /\ At(t, k) = At(s, k) /\ EndOf(t, k) = EndOf(s, k)
          /\ Body(t, k) = Body(s, k)
      BY <2>1, <2>2, <1>s DEF HereOf, Plausible, CleanOf
    <2>4. t.pos = EndOf(s, k) /\ t.pos = At(t, k) + LenSize
      BY <1>0, <2>3, SentFacts
    <2>5. Boundary(t, t.pos)
      BY <2>3, <2>4, <1>s DEF SessionInv, StreamInv
    <2>6. FinishedOf(t) = FinishedOf(s) /\ ZeroOf(s) = Empty(s, k) /\ ZeroOf(t) = Empty(s, k + 1)
      <3>1. FinishedOf(s) = Full(s, k) /\ ZeroOf(s) = Empty(s, k)
        BY <2>3, Passed DEF SessionInv
      <3>2. FinishedOf(t) = Full(t, k) /\ ZeroOf(t) = Empty(t, k + 1)
        BY <1>3, <2>3, <2>4, Passed
      <3>3. \A m : Full(t, m) = Full(s, m) /\ Empty(t, m) = Empty(s, m)
        BY <1>s DEF Full, Empty
      <3> QED BY <3>1, <3>2, <3>3
    <2>7. Cardinality(ZeroOf(t)) = Cardinality(ZeroOf(s)) + 1 /\ Cardinality(ZeroOf(s)) \in Nat
      <3>1. /\ Empty(s, k + 1) = Empty(s, k) \cup {k} /\ Cardinality(Empty(s, k)) \in Nat
            /\ Cardinality(Empty(s, k) \cup {k}) = Cardinality(Empty(s, k)) + 1
        BY <2>3, OneMore
      <3> QED BY <2>6, <3>1
    <2>8. OrderInv(t)
      BY <2>1, <2>6 DEF SessionInv, CleanInv, Loop, OrderInv, Judged, Opened
    <2>9. CountInv(t)
      <3> DEFINE z == Cardinality(ZeroOf(s))
      <3>1. s.bytes + LenSize * z = s.pos /\ s.bytes \in Nat
        BY <2>1, <2>7, Sizes, TimesNext DEF SessionInv, CleanInv, CountInv, Loop, Session
      <3>2. LenSize * (z + 1) = LenSize * z + LenSize /\ LenSize * z \in Nat
        BY <1>0, <2>7, TimesNext
      <3>3. s.bytes + LenSize * (z + 1) = s.pos + LenSize
        BY <1>0, <3>1, <3>2
      <3>4. t.bytes + 0 + LenSize * Cardinality(ZeroOf(t)) = t.pos
        BY <1>0, <2>7, <3>1, <3>3
      <3>5. t.frames + t.errors + 0 = Cardinality(FinishedOf(t))
        BY <2>1, <2>6 DEF SessionInv, CleanInv, CountInv, Loop
      <3> QED BY <3>4, <3>5 DEF CountInv
    <2> QED BY <2>5, <2>8, <2>9 DEF CleanInv
  <1> QED BY <1>3, <1>4, <1>5, <1>6 DEF SessionInv

\* The prefix announces a body.
LEMMA PrefixTaken ==
    ASSUME NEW s \in Session, SessionInv(s), s.pc = "len", s.pos + LenSize <= s.total,
           NEW n \in Nat, Plausible(n),
           HereOf(s) # {} => \E i \in HereOf(s) : n = Body(s, i),
           NEW k, k = Max(HereOf(s) \cup {0}),
           NEW t \in Session, t.pc = "body", t.sent = s.sent, t.total = s.total,
           t.pos = s.pos + LenSize, t.out = s.out, t.cur = k, t.want = n,
           t.frames = s.frames, t.errors = s.errors, t.bytes = s.bytes
    PROVE  SessionInv(t)
  <1>0. LenSize \in Nat \ {0} /\ s.pos \in Nat /\ s.pos + LenSize \in Nat
    BY Sizes, SentFacts
  <1>k. /\ k \in Nat /\ CleanOf(s) => k # 0
        /\ k # 0 => /\ k \in DOMAIN s.sent /\ At(s, k) = s.pos /\ Body(s, k) = n
    <2>1. CASE HereOf(s) = {}
      BY <2>1, PrefixOfOne
    <2>2. CASE HereOf(s) # {}
      <3>1. PICK i \in HereOf(s) : n = Body(s, i)
        BY <2>2
      <3>2. k = i /\ i \in DOMAIN s.sent
        BY <3>1, PrefixOfOne
      <3> QED BY <3>1, <3>2, SentFacts DEF HereOf
    <2> QED BY <2>1, <2>2
  <1>s. /\ DOMAIN t.sent = DOMAIN s.sent
        /\ \A i : At(t, i) = At(s, i) /\ Body(t, i) = Body(s, i) /\ EndOf(t, i) = EndOf(s, i)
        /\ \A p : Boundary(t, p) <=> Boundary(s, p)
        /\ StreamInv(s) => StreamInv(t)
        /\ CleanOf(t) <=> CleanOf(s)
        /\ (t.out = s.out /\ VerdictInv(s)) => VerdictInv(t)
    BY SameStream
  <1>n. n # 0
    BY DEF Plausible
  <1>3. StreamInv(t) /\ VerdictInv(t)
    BY <1>s DEF SessionInv
  <1>4. StartInv(t)
    BY DEF StartInv, Loop
  <1>5. HandInv(t)
    BY <1>k, <1>n, <1>s DEF HandInv, Opened
  <1>6. CleanInv(t)
    <2> SUFFICES ASSUME CleanOf(t) PROVE CleanInv(t)
      BY DEF CleanInv
    <2>1. CleanOf(s) /\ k # 0
      BY <1>k, <1>s
    <2>3. /\ k \in DOMAIN s.sent /\ At(s, k) = s.pos /\ Body(s, k) # 0
          /\ k \in DOMAIN t.sent /\ t.pos = At(t, k) + LenSize
      BY <1>k, <1>n, <2>1, <1>s
    <2>4. FinishedOf(t) = FinishedOf(s) /\ ZeroOf(t) = ZeroOf(s)
      <3>1. FinishedOf(s) = Full(s, k) /\ ZeroOf(s) = Empty(s, k)
        BY <2>3, Passed DEF SessionInv
      <3>2. FinishedOf(t) = Full(t, k) /\ ZeroOf(t) = Empty(t, k + 1)
        BY <1>3, <2>3, Passed
      <3>3. \A m : Full(t, m) = Full(s, m) /\ Empty(t, m) = Empty(s, m)
        BY <1>s DEF Full, Empty
      <3>4. Empty(s, k + 1) = Empty(s, k)
        BY <2>3, OneMore
      <3> QED BY <3>1, <3>2, <3>3, <3>4
    <2>5. OrderInv(t)
      BY <2>1, <2>4 DEF SessionInv, CleanInv, Loop, OrderInv, Judged, Opened
    <2>6. CountInv(t)
      <3> DEFINE z == LenSize * Cardinality(ZeroOf(s))
      <3>0. Cardinality(ZeroOf(s)) \in Nat
        BY <2>3, Passed, OneMore DEF SessionInv
      <3>1. s.bytes + 0 + z = s.pos /\ s.frames + s.errors + 0 = Cardinality(FinishedOf(s))
        BY <2>1 DEF SessionInv, CleanInv, CountInv, Loop
      <3>2. z \in Nat /\ s.bytes \in Nat
        BY <1>0, <3>0, TimesNext DEF Session
      <3>3. z = LenSize * Cardinality(ZeroOf(t))
        BY <2>4
      <3> HIDE DEF z
      <3>4. t.bytes + LenSize + z = t.pos
        BY <1>0, <3>1, <3>2
      <3> QED BY <2>4, <3>1, <3>3, <3>4 DEF CountInv
    <2> QED BY <2>1, <2>5, <2>6 DEF CleanInv
  <1> QED BY <1>3, <1>4, <1>5, <1>6 DEF SessionInv

-----------------------------------------------------------------------------
\* From the body to the outcome.

\* The body of the current frame is consumed and its outcome is still to come.
Consumed(s) ==
    /\ StreamInv(s) /\ VerdictInv(s) /\ s.pos <= s.total
    /\ s.cur # 0 => s.cur \in DOMAIN s.sent /\ s.pos = EndOf(s, s.cur) /\ Body(s, s.cur) # 0
    /\ CleanOf(s) =>
         /\ s.cur # 0
         /\ \A i \in DOMAIN s.out : s.out[i][1] \in FinishedOf(s) \ {s.cur}
         /\ \A n \in FinishedOf(s) \ {s.cur} : \E i \in DOMAIN s.out : s.out[i][1] = n
         /\ \A i, j \in DOMAIN s.out : i < j => s.out[i][1] < s.out[j][1]
         /\ s.bytes + LenSize * Cardinality(ZeroOf(s)) = s.pos

LEMMA OpenedIsConsumed ==
    ASSUME NEW s \in Session, SessionInv(s), s.pc \in Opened
    PROVE  Consumed(s)
  <1>1. s.pc \in Loop /\ s.pc # "len" /\ s.pc # "body"
    BY DEF Opened, Loop
  <1>2. CleanOf(s) => /\ s.cur # 0 /\ OrderInv(s) /\ CountInv(s)
                      /\ Judged(s) = FinishedOf(s) \ {s.cur}
    BY <1>1 DEF SessionInv, CleanInv, Judged
  <1>3. CleanOf(s) => s.bytes + LenSize * Cardinality(ZeroOf(s)) = s.pos
    <2> SUFFICES ASSUME CleanOf(s)
                 PROVE  s.bytes + LenSize * Cardinality(ZeroOf(s)) = s.pos
      OBVIOUS
    <2>1. s.bytes + 0 + LenSize * Cardinality(ZeroOf(s)) = s.pos /\ s.bytes \in Nat
      BY <1>1, <1>2 DEF CountInv, Session
    <2> QED BY <2>1
  <1> QED BY <1>2, <1>3 DEF SessionInv, HandInv, OrderInv, Consumed

\* Reading the body.
LEMMA BodyConsumed ==
    ASSUME NEW s \in Session, SessionInv(s), s.pc = "body", s.pos + s.want <= s.total,
           NEW t \in Session, t.sent = s.sent, t.total = s.total, t.cur = s.cur,
           t.out = s.out, t.pos = s.pos + s.want, t.bytes = s.bytes + LenSize + s.want
    PROVE  /\ Consumed(t)
           /\ CleanOf(t) => s.frames + s.errors + 1 = Cardinality(FinishedOf(t))
  <1> DEFINE k == s.cur
  <1>s. /\ DOMAIN t.sent = DOMAIN s.sent
        /\ \A i : At(t, i) = At(s, i) /\ Body(t, i) = Body(s, i) /\ EndOf(t, i) = EndOf(s, i)
        /\ StreamInv(s) => StreamInv(t)
        /\ CleanOf(t) <=> CleanOf(s)
        /\ VerdictInv(s) => VerdictInv(t)
    BY SameStream
  <1>1. StreamInv(s) /\ StreamInv(t) /\ VerdictInv(t)
    BY <1>s DEF SessionInv
  <1>2. k # 0 => /\ k \in DOMAIN s.sent /\ s.pos = At(s, k) + LenSize /\ s.want = Body(s, k)
                 /\ Body(s, k) # 0
    BY DEF SessionInv, HandInv
  <1>3. k # 0 => t.pos = EndOf(t, k)
    BY <1>2, <1>s, SentFacts
  <1>4. ASSUME CleanOf(t)
        PROVE  /\ k # 0
               /\ FinishedOf(t) = FinishedOf(s) \cup {k} /\ k \notin FinishedOf(s)
               /\ Cardinality(FinishedOf(t)) = Cardinality(FinishedOf(s)) + 1
               /\ ZeroOf(t) = ZeroOf(s) /\ Cardinality(ZeroOf(s)) \in Nat
               /\ OrderInv(s) /\ CountInv(s)
    <2>1. k # 0 /\ OrderInv(s) /\ CountInv(s)
      BY <1>s, <1>4 DEF SessionInv, CleanInv, Loop
    <2>2. FinishedOf(s) = Full(s, k) /\ ZeroOf(s) = Empty(s, k + 1)
      BY <1>1, <1>2, <2>1, Passed
    <2>3. FinishedOf(t) = Full(t, k + 1) /\ ZeroOf(t) = Empty(t, k + 1)
      BY <1>1, <1>2, <1>3, <1>s, <2>1, Passed
    <2>4. \A m : Full(t, m) = Full(s, m) /\ Empty(t, m) = Empty(s, m)
      BY <1>s DEF Full, Empty
    <2>5. /\ Full(s, k + 1) = Full(s, k) \cup {k} /\ k \notin Full(s, k)
          /\ Cardinality(Full(s, k) \cup {k}) = Cardinality(Full(s, k)) + 1
          /\ Cardinality(Empty(s, k + 1)) \in Nat
      BY <1>2, <2>1, OneMore
    <2> QED BY <2>1, <2>2, <2>3, <2>4, <2>5
  <1>5. ASSUME CleanOf(t)
        PROVE  /\ s.frames + s.errors + 1 = Cardinality(FinishedOf(t))
               /\ t.bytes + LenSize * Cardinality(ZeroOf(t)) = t.pos
    <2> DEFINE z == LenSize * Cardinality(ZeroOf(s))
    <2>1. s.frames + s.errors + 0 = Cardinality(FinishedOf(s)) /\ s.bytes + LenSize + z = s.pos
      BY <1>4, <1>5 DEF CountInv
    <2>2. /\ z \in Nat /\ LenSize \in Nat /\ s.bytes \in Nat /\ s.frames \in Nat
          /\ s.errors \in Nat /\ s.want \in Nat
      BY <1>4, <1>5, Sizes, TimesNext DEF Session
    <2>3. z = LenSize * Cardinality(ZeroOf(t))
      BY <1>4, <1>5
    <2>4. Cardinality(FinishedOf(t)) = Cardinality(FinishedOf(s)) + 1
      BY <1>4, <1>5
    <2> HIDE DEF z
    <2>5. s.bytes + LenSize + s.want + z = s.pos + s.want
      BY <2>1, <2>2
    <2>6. s.frames + s.errors + 1 = Cardinality(FinishedOf(s)) + 1
      BY <2>1, <2>2
    <2> QED BY <2>3, <2>4, <2>5, <2>6
  <1>6. ASSUME CleanOf(t)
        PROVE  /\ \A i \in DOMAIN t.out : t.out[i][1] \in FinishedOf(t) \ {t.cur}
               /\ \A n \in FinishedOf(t) \ {t.cur} : \E i \in DOMAIN t.out : t.out[i][1] = n
               /\ \A i, j \in DOMAIN t.out : i < j => t.out[i][1] < t.out[j][1]
    <2>1. OrderInv(s) /\ FinishedOf(t) \ {t.cur} = FinishedOf(s) /\ Judged(s) = FinishedOf(s)
      BY <1>4, <1>6 DEF Judged, Opened
    <2> QED BY <2>1 DEF OrderInv
  <1>7. t.cur # 0 => t.cur \in DOMAIN t.sent /\ t.pos = EndOf(t, t.cur) /\ Body(t, t.cur) # 0
    BY <1>2, <1>3, <1>s
  <1>8. CleanOf(t) => t.cur # 0
    BY <1>4
  <1> QED BY <1>1, <1>5, <1>6, <1>7, <1>8 DEF Consumed

\* The body parses: on to the key.
LEMMA BodyParses ==
    ASSUME NEW s \in Session, SessionInv(s), s.pc = "body", s.pos + s.want <= s.total,
           NEW r \in Rot, s.cur # 0 => /\ r = s.sent[s.cur].frame.rot
                                       /\ EncHdrSize + s.sent[s.cur].frame.enc <= s.want,
           NEW t \in Session, t.sent = s.sent, t.total = s.total, t.cur = s.cur,
           t.out = s.out, t.pos = s.pos + s.want, t.bytes = s.bytes + LenSize + s.want,
           t.pc = "key", t.rot = r, t.frames = s.frames, t.errors = s.errors
    PROVE  SessionInv(t)
  <1>1. /\ Consumed(t)
        /\ CleanOf(t) => s.frames + s.errors + 1 = Cardinality(FinishedOf(t))
    BY BodyConsumed
  <1>2. StreamInv(t) /\ VerdictInv(t)
    BY <1>1 DEF Consumed
  <1>3. StartInv(t)
    BY DEF StartInv, Loop
  <1>4. HandInv(t)
    <2>1. s.cur # 0 => s.want = Body(t, t.cur)
      BY DEF SessionInv, HandInv, Body
    <2> QED BY <1>1, <2>1 DEF Consumed, HandInv, Opened
  <1>5. CleanInv(t)
    <2> SUFFICES ASSUME CleanOf(t) PROVE CleanInv(t)
      BY DEF CleanInv
    <2>1. OrderInv(t)
      <3>1. Judged(t) = FinishedOf(t) \ {t.cur}
        BY DEF Judged, Opened
      <3> QED BY <1>1, <3>1 DEF Consumed, OrderInv
    <2>2. CountInv(t)
      <3>1. t.bytes + LenSize * Cardinality(ZeroOf(t)) = t.pos /\ t.bytes \in Nat
        BY <1>1 DEF Consumed, Session
      <3>2. t.bytes + 0 + LenSize * Cardinality(ZeroOf(t)) = t.pos
        BY <3>1
      <3> QED BY <1>1, <3>2 DEF CountInv
    <2> QED BY <1>1, <2>1, <2>2 DEF Consumed, CleanInv
  <1> QED BY <1>2, <1>3, <1>4, <1>5 DEF SessionInv

LEMMA AppendFacts ==
    ASSUME NEW S, NEW q \in Seq(S), NEW x, NEW r, r = Append(q, x),
           NEW m, m = Len(q) + 1
    PROVE  /\ \A i \in DOMAIN r : i \in DOMAIN q \/ i = m
           /\ DOMAIN q \subseteq DOMAIN r /\ m \in DOMAIN r
           /\ \A i \in DOMAIN q : r[i] = q[i] /\ i < m /\ ~(m < i)
           /\ r[m] = x /\ ~(m < m)
  OBVIOUS

\* The outcome of the current frame.
LEMMA FrameJudged ==
    ASSUME NEW s \in Session, Consumed(s), NEW v \in Verdict,
           s.cur # 0 => v \in Deserves(s.sent[s.cur].frame),
           NEW t \in Session, t.pc = "len", t.sent = s.sent, t.total = s.total, t.cur = 0,
           t.pos = s.pos, t.bytes = s.bytes, t.out = Append(s.out, <<s.cur, v>>),
           CleanOf(t) => t.frames + t.errors = Cardinality(FinishedOf(t))
    PROVE  SessionInv(t)
  <1> DEFINE m == Len(s.out) + 1
  <1>s. /\ DOMAIN t.sent = DOMAIN s.sent
        /\ \A i : EndOf(t, i) = EndOf(s, i)
        /\ \A p : Boundary(t, p) <=> Boundary(s, p)
        /\ StreamInv(s) => StreamInv(t)
        /\ CleanOf(t) <=> CleanOf(s)
        /\ FinishedOf(t) = FinishedOf(s) /\ ZeroOf(t) = ZeroOf(s)
    BY SameStream
  <1>1. StreamInv(s) /\ StreamInv(t)
    BY <1>s DEF Consumed
  <1>2. /\ \A i \in DOMAIN t.out : i \in DOMAIN s.out \/ i = m
        /\ DOMAIN s.out \subseteq DOMAIN t.out /\ m \in DOMAIN t.out
        /\ \A i \in DOMAIN s.out : t.out[i] = s.out[i] /\ i < m /\ ~(m < i)
        /\ t.out[m] = <<s.cur, v>> /\ ~(m < m)
    <2>1. s.out \in Seq(Nat \X Verdict)
      BY DEF Session
    <2> QED BY <2>1, AppendFacts
  <1> HIDE DEF m
  <1>3. t.out[m][1] = s.cur /\ t.out[m][2] = v
    BY <1>2
  <1>4. VerdictInv(t)
    <2>1. ASSUME NEW i \in DOMAIN s.out, t.out[i][1] # 0
          PROVE  /\ t.out[i][1] \in DOMAIN t.sent
                 /\ t.out[i][2] \in Deserves(t.sent[t.out[i][1]].frame)
      BY <1>2, <2>1 DEF Consumed, VerdictInv
    <2>2. t.out[m][1] # 0 => /\ t.out[m][1] \in DOMAIN t.sent
                             /\ t.out[m][2] \in Deserves(t.sent[t.out[m][1]].frame)
      BY <1>3 DEF Consumed
    <2> QED BY <1>2, <2>1, <2>2 DEF VerdictInv
  <1>5. StartInv(t)
    BY DEF StartInv, Loop
  <1>6. HandInv(t)
    BY DEF Consumed, HandInv, Opened
  <1>7. CleanInv(t)
    <2> SUFFICES ASSUME CleanOf(t) PROVE CleanInv(t)
      BY DEF CleanInv
    <2> DEFINE k == s.cur
    <2>1. /\ CleanOf(s) /\ k # 0 /\ k \in DOMAIN s.sent /\ s.pos = EndOf(s, k)
          /\ Body(s, k) # 0
          /\ \A i \in DOMAIN s.out : s.out[i][1] \in FinishedOf(s) \ {k}
          /\ \A n \in FinishedOf(s) \ {k} : \E i \in DOMAIN s.out : s.out[i][1] = n
          /\ \A i, j \in DOMAIN s.out : i < j => s.out[i][1] < s.out[j][1]
          /\ s.bytes + LenSize * Cardinality(ZeroOf(s)) = s.pos
      BY <1>s DEF Consumed
    <2>2. FinishedOf(s) = Full(s, k) \cup {k} /\ k \notin Full(s, k)
      <3>1. FinishedOf(s) = Full(s, k + 1)
        BY <1>1, <2>1, Passed
      <3>2. Full(s, k + 1) = Full(s, k) \cup {k} /\ k \notin Full(s, k)
        BY <2>1, OneMore
      <3> QED BY <3>1, <3>2
    <2>3. \A n \in FinishedOf(s) \ {k} : n < k
      BY <2>2 DEF Full
    <2>4. Boundary(t, t.pos)
      BY <1>s, <1>1, <2>1 DEF StreamInv
    <2>5. OrderInv(t)
      <3>1. Judged(t) = FinishedOf(s)
        BY <1>s DEF Judged, Opened
      <3>2. \A i \in DOMAIN t.out : t.out[i][1] \in FinishedOf(s)
        BY <1>2, <1>3, <2>1, <2>2
      <3>3. \A n \in FinishedOf(s) : \E i \in DOMAIN t.out : t.out[i][1] = n
        BY <1>2, <1>3, <2>1
      <3>4. \A i, j \in DOMAIN t.out : i < j => t.out[i][1] < t.out[j][1]
        <4> SUFFICES ASSUME NEW i \in DOMAIN t.out, NEW j \in DOMAIN t.out, i < j
                     PROVE  t.out[i][1] < t.out[j][1]
          OBVIOUS
        <4>1. CASE j \in DOMAIN s.out
          <5>1. i \in DOMAIN s.out
            BY <1>2, <4>1
          <5> QED BY <1>2, <2>1, <4>1, <5>1
        <4>2. CASE j = m
          <5>1. i \in DOMAIN s.out
            BY <1>2, <4>2
          <5> QED BY <1>2, <1>3, <2>1, <2>3, <4>2, <5>1
        <4> QED BY <1>2, <4>1, <4>2
      <3> QED BY <3>1, <3>2, <3>3, <3>4 DEF OrderInv
    <2>6. CountInv(t)
      <3>1. t.bytes + 0 + LenSize * Cardinality(ZeroOf(t)) = t.pos
        <4>1. t.bytes \in Nat
          BY DEF Session
        <4> QED BY <1>s, <2>1, <4>1
      <3>2. t.frames + t.errors + 0 = Cardinality(FinishedOf(t))
        <4>1. t.frames \in Nat /\ t.errors \in Nat
          BY DEF Session
        <4> QED BY <4>1
      <3> QED BY <3>1, <3>2 DEF CountInv
    <2> QED BY <2>4, <2>5, <2>6 DEF CleanInv
  <1> QED BY <1>1, <1>4, <1>5, <1>6, <1>7 DEF SessionInv

\* The steps between the body and the outcome change only what is known of the
\* frame; the last one counts it.
LEMMA KeyAndDecrypt ==
    ASSUME NEW s \in Session, SessionInv(s), s.pc \in {"key", "decrypt"},
           NEW t \in Session, t.sent = s.sent, t.total = s.total, t.cur = s.cur, t.pos = s.pos,
           t.out = s.out, t.bytes = s.bytes, t.errors = s.errors, t.rot = s.rot,
           \/ t.pc = "decrypt" /\ t.key = t.rot /\ t.frames = s.frames
           \/ /\ t.pc = "index" /\ t.frames = s.frames + 1 /\ s.cur # 0
              /\ s.sent[s.cur].frame.key = s.sent[s.cur].frame.rot
              /\ s.sent[s.cur].frame.enc >= EventSize
    PROVE  SessionInv(t)
  <1>s. /\ DOMAIN t.sent = DOMAIN s.sent
        /\ \A i : At(t, i) = At(s, i) /\ Body(t, i) = Body(s, i) /\ EndOf(t, i) = EndOf(s, i)
        /\ StreamInv(s) => StreamInv(t)
        /\ CleanOf(t) <=> CleanOf(s)
        /\ VerdictInv(s) => VerdictInv(t)
        /\ FinishedOf(t) = FinishedOf(s) /\ ZeroOf(t) = ZeroOf(s)
    BY SameStream
  <1>1. StreamInv(t) /\ VerdictInv(t)
    BY <1>s DEF SessionInv
  <1>2. StartInv(t)
    BY DEF StartInv, Loop
  <1>3. HandInv(t)
    BY <1>s DEF SessionInv, HandInv, Opened
  <1>4. CleanInv(t)
    <2> SUFFICES ASSUME CleanOf(t) PROVE CleanInv(t)
      BY DEF CleanInv
    <2>1. s.cur # 0 /\ OrderInv(s) /\ CountInv(s)
      BY <1>s DEF SessionInv, CleanInv, Loop
    <2>2. Judged(t) = Judged(s)
      BY <1>s DEF Judged, Opened
    <2>3. OrderInv(t)
      BY <2>1, <2>2 DEF OrderInv
    <2>4. s.frames \in Nat /\ s.errors \in Nat
      BY DEF Session
    <2>5. s.frames + s.errors + 1 = Cardinality(FinishedOf(t))
      BY <1>s, <2>1 DEF CountInv
    <2>6. t.frames + t.errors + (IF t.pc \in {"key", "decrypt"} THEN 1 ELSE 0)
             = Cardinality(FinishedOf(t))
      BY <2>4, <2>5
    <2>7. CountInv(t)
      BY <1>s, <2>1, <2>6 DEF CountInv
    <2> QED BY <2>1, <2>3, <2>7 DEF CleanInv
  <1> QED BY <1>1, <1>2, <1>3, <1>4 DEF SessionInv

-----------------------------------------------------------------------------
\* The specification.

\* The operators of ServerFrames are those of the session.
LEMMA OfSession ==
    ASSUME IInv, NEW c \in Conn
    PROVE  /\ conn[c] \in Session /\ SessionInv(conn[c])
           /\ Here(c) = HereOf(conn[c])
           /\ Finished(c) = FinishedOf(conn[c])
           /\ Clean(c) <=> CleanOf(conn[c])
           /\ \A i \in DOMAIN conn[c].sent : conn[c].sent[i].frame.len = Body(conn[c], i)
  <1>1. conn[c] \in Session /\ SessionInv(conn[c])
    BY DEF IInv
  <1>2. 1..Len(conn[c].sent) = DOMAIN conn[c].sent
    BY <1>1, SentFacts
  <1>3. Here(c) = HereOf(conn[c])
    BY <1>2 DEF Here, HereOf, At
  <1>4. Finished(c) = FinishedOf(conn[c])
    BY <1>2 DEF Finished, FinishedOf, Body, EndOf
  <1>5. Clean(c) <=> CleanOf(conn[c])
    BY <1>2 DEF Clean, CleanOf, Body
  <1> QED BY <1>1, <1>3, <1>4, <1>5 DEF Body

\* A step of one session that keeps its invariant keeps everybody's.
LEMMA OneMoves ==
    ASSUME IInv, NEW c \in Conn, NEW t \in Session, SessionInv(t),
           conn' = [conn EXCEPT ![c] = t], enabled' = enabled
    PROVE  conn' \in [Conn -> Session] /\ \A x \in Conn : SessionInv(conn[x])'
  <1>1. conn' \in [Conn -> Session]
    BY DEF IInv
  <1>2. \A x \in Conn : conn'[x] = IF x = c THEN t ELSE conn[x]
    BY DEF IInv
  <1>3. \A x \in Conn : SessionInv(conn'[x])
    BY <1>2 DEF IInv
  <1>4. \A f : Deserves(f)' = Deserves(f)
    BY DEF Deserves
  <1>5. ASSUME NEW x \in Conn PROVE SessionInv(conn[x])'
    <2> DEFINE t1 == conn'[x]
    <2>1. StreamInv(t1) /\ StartInv(t1) /\ HandInv(t1) /\ VerdictInv(t1) /\ CleanInv(t1)
      BY <1>3 DEF SessionInv
    <2>2. StreamInv(conn[x])'
      BY <2>1 DEF StreamInv, Boundary, At, EndOf
    <2>3. StartInv(conn[x])'
      BY <2>1 DEF StartInv, Loop
    <2>4. HandInv(conn[x])'
      BY <2>1 DEF HandInv, Opened, At, Body, EndOf
    <2>5. VerdictInv(conn[x])'
      BY <1>4, <2>1 DEF VerdictInv
    <2>6. CleanInv(conn[x])'
      <3>1. CleanOf(conn[x])' <=> CleanOf(t1)
        BY DEF CleanOf, Body
      <3>2. FinishedOf(conn[x])' = FinishedOf(t1) /\ ZeroOf(conn[x])' = ZeroOf(t1)
        BY DEF FinishedOf, ZeroOf, At, Body, EndOf
      <3>3. Boundary(conn[x], conn[x].pos)' <=> Boundary(t1, t1.pos)
        BY DEF Boundary, At
      <3>4. Judged(conn[x])' = Judged(t1)
        BY <3>2 DEF Judged, Opened
      <3>5. OrderInv(conn[x])' <=> OrderInv(t1)
        BY <3>4 DEF OrderInv
      <3>6. CountInv(conn[x])' <=> CountInv(t1)
        BY <3>2 DEF CountInv
      <3> QED BY <2>1, <3>1, <3>3, <3>5, <3>6 DEF CleanInv, Loop
    <2> QED BY <2>2, <2>3, <2>4, <2>5, <2>6 DEF SessionInv
  <1> QED BY <1>1, <1>5

LEMMA InitIInv == Init => IInv
  <1> SUFFICES ASSUME Init PROVE IInv
    OBVIOUS
  <1>1. conn \in [Conn -> Session] /\ \A c \in Conn : SessionInv(conn[c])
    BY FreshSession DEF Init
  <1>2. CacheInv
    <2>1. DOMAIN cache = {} /\ cache = [r \in {} |-> r]
      BY DEF Init
    <2> QED BY <2>1, FS_EmptySet, Sizes DEF CacheInv
  <1>3. AcceptInv
    BY ServerAssumption DEF Init, AcceptInv
  <1> QED BY <1>1, <1>2, <1>3 DEF Init, IInv

\* Whoever closes a session.
LEMMA EndMoves ==
    ASSUME IInv, NEW c \in Conn, End(c), enabled' = enabled
    PROVE  conn' \in [Conn -> Session] /\ \A x \in Conn : SessionInv(conn[x])'
  <1>1. Fresh("closed") \in Session /\ SessionInv(Fresh("closed"))
    BY FreshSession
  <1> QED BY <1>1, OneMoves DEF End

\* Steps before the loop.
LEMMA GotoMoves ==
    ASSUME IInv, NEW c \in Conn, conn[c].pc \in {"none", "tls", "magic", "ack"},
           NEW w \in {"tls", "magic", "ack", "len"}, Goto(c, w), enabled' = enabled
    PROVE  conn' \in [Conn -> Session] /\ \A x \in Conn : SessionInv(conn[x])'
  <1> DEFINE t == [conn[c] EXCEPT !.pc = w]
  <1>1. conn[c] \in Session /\ SessionInv(conn[c])
    BY OfSession
  <1>2. t \in Session /\ SessionInv(t)
    BY <1>1, BeforeLoop
  <1>3. conn' = [conn EXCEPT ![c] = t]
    BY DEF Goto
  <1> HIDE DEF t
  <1> QED BY <1>2, <1>3, OneMoves

LEMMA SendMoves ==
    ASSUME IInv, NEW c \in Conn, NEW f \in Frames, Send(c, f)
    PROVE  conn' \in [Conn -> Session] /\ \A x \in Conn : SessionInv(conn[x])'
  <1> DEFINE s == conn[c]
             t == [s EXCEPT !.sent = Append(@, [frame |-> f, at |-> s.total]),
                            !.total = @ + LenSize + f.len]
  <1>1. s \in Session /\ SessionInv(s) /\ f \in Frame
    BY OfSession, Sizes
  <1>2. s.pc \in Loop /\ conn' = [conn EXCEPT ![c] = t] /\ enabled' = enabled
    BY DEF Send, shared
  <1>3. t \in Session /\ SessionInv(t)
    BY <1>1, <1>2, FrameSent
  <1> HIDE DEF t
  <1> QED BY <1>2, <1>3, OneMoves

LEMMA CloseMoves ==
    ASSUME IInv, NEW c \in Conn, Close(c)
    PROVE  conn' \in [Conn -> Session] /\ \A x \in Conn : SessionInv(conn[x])'
  <1> DEFINE t == [conn[c] EXCEPT !.eof = TRUE]
  <1>1. t \in Session /\ SessionInv(t)
    BY OfSession, PeerCloses
  <1>2. conn' = [conn EXCEPT ![c] = t] /\ enabled' = enabled
    BY DEF Close, shared
  <1> HIDE DEF t
  <1> QED BY <1>1, <1>2, OneMoves

LEMMA ReadLenMoves ==
    ASSUME IInv, NEW c \in Conn, ReadLen(c)
    PROVE  conn' \in [Conn -> Session] /\ \A x \in Conn : SessionInv(conn[x])'
  <1> DEFINE s == conn[c]
             k == Max(HereOf(s) \cup {0})
  <1>1. s \in Session /\ SessionInv(s) /\ Here(c) = HereOf(s)
    BY OfSession
  <1>2. s.pc = "len" /\ s.pos + LenSize <= s.total /\ enabled' = enabled
    BY DEF ReadLen, CanRead, shared
  <1>3. PICK n \in Lengths(c) :
          conn' = IF Plausible(n)
                  THEN [conn EXCEPT ![c].pos = @ + LenSize, ![c].want = n,
                                    ![c].cur = Max(Here(c) \cup {0}), ![c].pc = "body"]
                  ELSE [conn EXCEPT ![c].pos = @ + LenSize]
    BY DEF ReadLen
  <1>4. HereOf(s) # {} => \E i \in HereOf(s) : n = Body(s, i)
    BY <1>1, <1>3 DEF Lengths, Body
  <1>5. n \in Nat
    <2>1. CASE HereOf(s) # {}
      BY <1>1, <1>4, <2>1, SentFacts DEF HereOf
    <2>2. CASE HereOf(s) = {}
      BY <1>1, <1>3, <2>2, Sizes DEF Lengths
    <2> QED BY <2>1, <2>2
  <1>6. s.pos + LenSize \in Nat /\ k \in Nat
    <2>1. s.pos + LenSize \in Nat
      BY <1>1, SentFacts, Sizes
    <2>2. CASE HereOf(s) = {}
      BY <1>1, <1>2, <2>1, <2>2, PrefixOfOne
    <2>3. CASE HereOf(s) # {}
      <3>1. PICK i \in HereOf(s) : TRUE
        BY <2>3
      <3>2. k = i /\ i \in DOMAIN s.sent
        BY <1>1, <1>2, <3>1, PrefixOfOne
      <3> QED BY <1>1, <2>1, <3>2, SentFacts
    <2> QED BY <2>2, <2>3
  <1>7. CASE ~Plausible(n)
    <2> DEFINE t == [s EXCEPT !.pos = s.pos + LenSize]
    <2>1. conn' = [conn EXCEPT ![c] = t]
      BY <1>3, <1>7
    <2>2. t \in Session
      BY <1>1, <1>6 DEF Session
    <2>3. /\ t.pc = s.pc /\ t.sent = s.sent /\ t.total = s.total /\ t.pos = s.pos + LenSize
          /\ t.out = s.out /\ t.cur = s.cur /\ t.frames = s.frames /\ t.errors = s.errors
          /\ t.bytes = s.bytes
      BY <1>1 DEF Session
    <2> HIDE DEF t, s
    <2>4. SessionInv(t)
      BY <1>1, <1>2, <1>4, <1>7, <2>2, <2>3, PrefixSkipped
    <2> QED BY <1>2, <2>1, <2>2, <2>4, OneMoves
  <1>8. CASE Plausible(n)
    <2> DEFINE t == [s EXCEPT !.pos = s.pos + LenSize, !.want = n, !.cur = k, !.pc = "body"]
    <2>1. conn' = [conn EXCEPT ![c] = t]
      BY <1>1, <1>3, <1>8
    <2> HIDE DEF k
    <2>2. t \in Session
      BY <1>1, <1>5, <1>6 DEF Session, Loop
    <2>3. /\ t.pc = "body" /\ t.sent = s.sent /\ t.total = s.total /\ t.pos = s.pos + LenSize
          /\ t.out = s.out /\ t.cur = k /\ t.want = n /\ t.frames = s.frames
          /\ t.errors = s.errors /\ t.bytes = s.bytes
      BY <1>1 DEF Session
    <2>5. k = Max(HereOf(s) \cup {0})
      BY DEF k
    <2> HIDE DEF t, s
    <2>4. SessionInv(t)
      BY <1>1, <1>2, <1>4, <1>5, <1>8, <2>2, <2>3, <2>5, PrefixTaken
    <2> QED BY <1>2, <2>1, <2>2, <2>4, OneMoves
  <1> QED BY <1>7, <1>8

\* The end of an iteration, as a record.
LEMMA NextFrameIs ==
    ASSUME NEW s \in Session, NEW v \in Verdict
    PROVE  LET t == NextFrame(s, v)
           IN  /\ t \in Session
               /\ t.pc = "len" /\ t.sent = s.sent /\ t.total = s.total /\ t.cur = 0
               /\ t.pos = s.pos /\ t.bytes = s.bytes /\ t.out = Append(s.out, <<s.cur, v>>)
               /\ t.frames = s.frames
               /\ t.errors = IF v = "error" THEN s.errors + 1 ELSE s.errors
  <1> DEFINE o == Append(s.out, <<s.cur, v>>)
             e == IF v = "error" THEN s.errors + 1 ELSE s.errors
             t == [s EXCEPT !.pc = "len", !.cur = 0, !.want = 0, !.rot = Foreign,
                            !.key = Foreign, !.errors = e, !.out = o]
  <1>1. s.out \in Seq(Nat \X Verdict) /\ s.cur \in Nat /\ s.errors \in Nat
    BY DEF Session
  <1>2. o \in Seq(Nat \X Verdict) /\ e \in Nat
    BY <1>1
  <1>3. NextFrame(s, v) = t
    BY DEF NextFrame
  <1> HIDE DEF o, e
  <1>4. t \in Session
    BY <1>2 DEF Session, Loop, Keyed
  <1>5. /\ t.pc = "len" /\ t.sent = s.sent /\ t.total = s.total /\ t.cur = 0
        /\ t.pos = s.pos /\ t.bytes = s.bytes /\ t.out = o /\ t.frames = s.frames
        /\ t.errors = e
    BY DEF Session
  <1> QED BY <1>3, <1>4, <1>5 DEF o, e

\* The current frame is one.
LEMMA CurrentIs ==
    ASSUME NEW s \in Session, SessionInv(s), s.cur # 0
    PROVE  LET f == s.sent[s.cur].frame
           IN  /\ f.len \in Nat /\ f.enc \in Nat /\ f.rot \in Rot /\ f.type \in Nat
               /\ f.dlen \in Nat /\ f.sus \in BOOLEAN
  <1>1. s.cur \in DOMAIN s.sent /\ s.sent \in Seq(Sent)
    BY DEF SessionInv, HandInv, Session
  <1>2. s.sent[s.cur] \in Sent
    BY <1>1
  <1> QED BY <1>2 DEF Sent, Frame

LEMMA ReadBodyMoves ==
    ASSUME IInv, NEW c \in Conn, ReadBody(c)
    PROVE  conn' \in [Conn -> Session] /\ \A x \in Conn : SessionInv(conn[x])'
  <1> DEFINE s == conn[c]
             f == s.sent[s.cur].frame
             u == [s EXCEPT !.pos = s.pos + s.want, !.bytes = s.bytes + LenSize + s.want]
  <1>1. s \in Session /\ SessionInv(s)
    BY OfSession
  <1>2. s.pc = "body" /\ s.pos + s.want <= s.total /\ enabled' = enabled
    BY DEF ReadBody, CanRead, shared
  <1>3. PICK enc \in (IF s.cur = 0 THEN {0, MaxBody} ELSE {f.enc}),
             r \in (IF s.cur = 0 THEN Rot ELSE {f.rot}) :
          conn' = [conn EXCEPT ![c] = IF ParseEncryptedFrame(u.want, enc)
                                      THEN [u EXCEPT !.rot = r, !.pc = "key"]
                                      ELSE NextFrame(u, "error")]
    BY DEF ReadBody, Current
  <1>4. /\ s.cur # 0 => enc = f.enc /\ r = f.rot /\ f.enc \in Nat
        /\ enc \in Nat /\ r \in Rot
    BY <1>1, <1>3, CurrentIs, Sizes
  <1>5. u \in Session
    <2>1. s.pos + s.want \in Nat /\ s.bytes + LenSize + s.want \in Nat
      <3>1. s.pos \in Nat /\ s.want \in Nat /\ s.bytes \in Nat /\ LenSize \in Nat
        BY <1>1, Sizes DEF Session
      <3> QED BY <3>1
    <2> QED BY <1>1, <2>1 DEF Session
  <1>6. /\ u.sent = s.sent /\ u.total = s.total /\ u.cur = s.cur /\ u.out = s.out
        /\ u.pos = s.pos + s.want /\ u.bytes = s.bytes + LenSize + s.want
        /\ u.frames = s.frames /\ u.errors = s.errors /\ u.want = s.want
    BY <1>1 DEF Session
  <1>7. CASE ParseEncryptedFrame(u.want, enc)
    <2> DEFINE t == [u EXCEPT !.rot = r, !.pc = "key"]
    <2>1. conn' = [conn EXCEPT ![c] = t]
      BY <1>3, <1>7
    <2> HIDE DEF u
    <2>2. t \in Session
      BY <1>4, <1>5 DEF Session, Loop, Keyed
    <2>3. /\ t.sent = u.sent /\ t.total = u.total /\ t.cur = u.cur /\ t.out = u.out
          /\ t.pos = u.pos /\ t.bytes = u.bytes /\ t.frames = u.frames /\ t.errors = u.errors
          /\ t.pc = "key" /\ t.rot = r
      BY <1>5 DEF Session
    <2>4. s.cur # 0 => r = f.rot /\ EncHdrSize + f.enc <= s.want
      BY <1>4, <1>6, <1>7, Sizes DEF ParseEncryptedFrame
    <2> HIDE DEF t, s
    <2>5. SessionInv(t)
      BY <1>1, <1>2, <1>4, <1>6, <2>2, <2>3, <2>4, BodyParses
    <2> QED BY <1>2, <2>1, <2>2, <2>5, OneMoves
  <1>8. CASE ~ParseEncryptedFrame(u.want, enc)
    <2> DEFINE t == NextFrame(u, "error")
    <2>1. conn' = [conn EXCEPT ![c] = t]
      BY <1>3, <1>8
    <2> HIDE DEF u
    <2>2. "error" \in Verdict
      BY DEF Verdict
    <2>3. /\ t \in Session /\ t.pc = "len" /\ t.sent = u.sent /\ t.total = u.total
          /\ t.cur = 0 /\ t.pos = u.pos /\ t.bytes = u.bytes
          /\ t.out = Append(u.out, <<u.cur, "error">>) /\ t.frames = u.frames
          /\ t.errors = u.errors + 1
      BY <1>5, <2>2, NextFrameIs
    <2>4. /\ Consumed(u)
          /\ CleanOf(u) => s.frames + s.errors + 1 = Cardinality(FinishedOf(u))
      BY <1>1, <1>2, <1>5, <1>6, BodyConsumed
    <2>5. u.cur # 0 => "error" \in Deserves(u.sent[u.cur].frame)
      <3> SUFFICES ASSUME s.cur # 0 PROVE "error" \in Deserves(f)
        BY <1>6
      <3>1. f.enc \in Nat /\ f.len \in Nat /\ enc = f.enc
        BY <1>1, <1>4, CurrentIs
      <3>2. s.want = f.len
        BY <1>1, <1>2 DEF SessionInv, HandInv, Body
      <3>3. f.enc + EncHdrSize > f.len
        BY <1>6, <1>8, <3>1, <3>2, Sizes DEF ParseEncryptedFrame
      <3> QED BY <3>3 DEF Deserves
    <2> HIDE DEF t
    <2>6. CleanOf(t) => t.frames + t.errors = Cardinality(FinishedOf(t))
      <3>1. (CleanOf(t) <=> CleanOf(u)) /\ FinishedOf(t) = FinishedOf(u)
        BY <2>3, SameStream
      <3>2. s.frames \in Nat /\ s.errors \in Nat
        BY <1>1 DEF Session
      <3>3. s.frames + (s.errors + 1) = s.frames + s.errors + 1
        BY <3>2
      <3> QED BY <1>6, <2>3, <2>4, <3>1, <3>3
    <2>7. SessionInv(t)
      BY <1>5, <2>2, <2>3, <2>4, <2>5, <2>6, FrameJudged
    <2> QED BY <1>2, <2>1, <2>3, <2>7, OneMoves
  <1> QED BY <1>7, <1>8

LEMMA GetKeyMoves ==
    ASSUME IInv, NEW c \in Conn, GetKey(c)
    PROVE  /\ conn' \in [Conn -> Session] /\ \A x \in Conn : SessionInv(conn[x])'
           /\ CacheInv'
  <1> DEFINE s == conn[c]
             t == [s EXCEPT !.key = cache'[s.rot], !.pc = "decrypt"]
  <1>1. s \in Session /\ SessionInv(s) /\ CacheInv
    BY OfSession DEF IInv
  <1>2. s.pc = "key" /\ enabled' = enabled /\ cache' = CacheWith(s.rot)
    BY DEF GetKey
  <1>3. s.rot \in Rot
    BY <1>1, <1>2 DEF SessionInv, HandInv
  <1>4. /\ s.rot \in DOMAIN cache' /\ DOMAIN cache' \subseteq Rot /\ IsFiniteSet(DOMAIN cache')
        /\ Cardinality(DOMAIN cache') <= CacheMax
        /\ cache' = [x \in DOMAIN cache' |-> x]
    BY <1>1, <1>2, <1>3, CacheAnswers
  <1>5. cache'[s.rot] = s.rot
    BY <1>4
  <1>6. conn' = [conn EXCEPT ![c] = t]
    BY <1>4 DEF GetKey
  <1>7. t \in Session
    BY <1>1, <1>3, <1>5 DEF Session, Loop, Keyed
  <1>8. /\ t.sent = s.sent /\ t.total = s.total /\ t.cur = s.cur /\ t.pos = s.pos
        /\ t.out = s.out /\ t.bytes = s.bytes /\ t.errors = s.errors /\ t.rot = s.rot
        /\ t.pc = "decrypt" /\ t.key = s.rot /\ t.frames = s.frames
    BY <1>1, <1>5 DEF Session
  <1> HIDE DEF t, s
  <1>9. SessionInv(t)
    BY <1>1, <1>2, <1>7, <1>8, KeyAndDecrypt
  <1>10. CacheInv'
    BY <1>4 DEF CacheInv
  <1> QED BY <1>2, <1>6, <1>7, <1>9, <1>10, OneMoves

\* The outcome of a session with an opened frame.
LEMMA OutcomeMoves ==
    ASSUME IInv, NEW c \in Conn, NEW v \in Verdict,
           \/ conn[c].pc \in {"key", "decrypt"} /\ v = "error"
           \/ conn[c].pc = "index" /\ v # "error",
           conn[c].cur # 0 => v \in Deserves(conn[c].sent[conn[c].cur].frame),
           conn' = [conn EXCEPT ![c] = NextFrame(conn[c], v)], enabled' = enabled
    PROVE  conn' \in [Conn -> Session] /\ \A x \in Conn : SessionInv(conn[x])'
  <1> DEFINE s == conn[c]
             t == NextFrame(s, v)
  <1>1. s \in Session /\ SessionInv(s) /\ s.pc \in Opened
    BY OfSession DEF Opened
  <1>2. Consumed(s)
    BY <1>1, OpenedIsConsumed
  <1>3. /\ t \in Session /\ t.pc = "len" /\ t.sent = s.sent /\ t.total = s.total
        /\ t.cur = 0 /\ t.pos = s.pos /\ t.bytes = s.bytes
        /\ t.out = Append(s.out, <<s.cur, v>>) /\ t.frames = s.frames
        /\ t.errors = IF v = "error" THEN s.errors + 1 ELSE s.errors
    BY <1>1, NextFrameIs
  <1>4. conn' = [conn EXCEPT ![c] = t]
    OBVIOUS
  <1> HIDE DEF t
  <1>5. CleanOf(t) => t.frames + t.errors = Cardinality(FinishedOf(t))
    <2>1. (CleanOf(t) <=> CleanOf(s)) /\ FinishedOf(t) = FinishedOf(s)
      BY <1>3, SameStream
    <2>2. s.frames \in Nat /\ s.errors \in Nat
      BY <1>1 DEF Session
    <2>3. CleanOf(s) => CountInv(s)
      BY <1>1 DEF SessionInv, CleanInv, Loop, Opened
    <2>4. CASE s.pc \in {"key", "decrypt"} /\ v = "error"
      <3>1. CleanOf(s) => s.frames + s.errors + 1 = Cardinality(FinishedOf(s))
        BY <2>3, <2>4 DEF CountInv
      <3>2. s.frames + (s.errors + 1) = s.frames + s.errors + 1
        BY <2>2
      <3> QED BY <1>3, <2>1, <2>4, <3>1, <3>2
    <2>5. CASE s.pc = "index" /\ v # "error"
      <3>1. CleanOf(s) => s.frames + s.errors + 0 = Cardinality(FinishedOf(s))
        BY <2>3, <2>5 DEF CountInv
      <3>2. s.frames + s.errors + 0 = s.frames + s.errors
        BY <2>2
      <3> QED BY <1>3, <2>1, <2>5, <3>1, <3>2
    <2> QED BY <2>4, <2>5
  <1>6. s.cur # 0 => v \in Deserves(s.sent[s.cur].frame)
    OBVIOUS
  <1> HIDE DEF s
  <1>7. SessionInv(t)
    BY <1>1, <1>2, <1>3, <1>5, <1>6, FrameJudged
  <1> QED BY <1>3, <1>4, <1>7, OneMoves

LEMMA DecryptMoves ==
    ASSUME IInv, NEW c \in Conn, Decrypt(c)
    PROVE  conn' \in [Conn -> Session] /\ \A x \in Conn : SessionInv(conn[x])'
  <1> DEFINE s == conn[c]
             f == s.sent[s.cur].frame
             t == [s EXCEPT !.frames = s.frames + 1, !.pc = "index"]
  <1>1. s \in Session /\ SessionInv(s)
    BY OfSession
  <1>2. s.pc = "decrypt" /\ enabled' = enabled
    BY DEF Decrypt, shared
  <1>3. s.key = s.rot /\ (s.cur # 0 => s.rot = f.rot)
    BY <1>1, <1>2 DEF SessionInv, HandInv, Opened
  <1>4. CASE Opens(c) /\ ParsePhotonEvent(f.enc)
    <2>1. conn' = [conn EXCEPT ![c] = t]
      BY <1>4 DEF Decrypt, Current
    <2>2. s.cur # 0 /\ f.key = f.rot /\ f.enc >= EventSize
      BY <1>3, <1>4 DEF Opens, Current, ParsePhotonEvent
    <2>3. s.frames + 1 \in Nat
      BY <1>1 DEF Session
    <2>4. t \in Session
      BY <1>1, <2>3 DEF Session, Loop
    <2>5. /\ t.sent = s.sent /\ t.total = s.total /\ t.cur = s.cur /\ t.pos = s.pos
          /\ t.out = s.out /\ t.bytes = s.bytes /\ t.errors = s.errors /\ t.rot = s.rot
          /\ t.pc = "index" /\ t.frames = s.frames + 1
      BY <1>1 DEF Session
    <2> HIDE DEF t, s
    <2>6. SessionInv(t)
      BY <1>1, <1>2, <2>2, <2>4, <2>5, KeyAndDecrypt DEF f
    <2> QED BY <1>2, <2>1, <2>4, <2>6, OneMoves
  <1>5. CASE ~(Opens(c) /\ ParsePhotonEvent(f.enc))
    <2>1. conn' = [conn EXCEPT ![c] = NextFrame(conn[c], "error")]
      BY <1>5 DEF Decrypt, Current
    <2>2. s.cur # 0 => "error" \in Deserves(f)
      <3> SUFFICES ASSUME s.cur # 0 PROVE "error" \in Deserves(f)
        OBVIOUS
      <3>1. f.enc \in Nat
        BY <1>1, CurrentIs
      <3>2. f.key # f.rot \/ f.enc < EventSize
        BY <1>3, <1>5, <3>1, Sizes DEF Opens, Current, ParsePhotonEvent
      <3> QED BY <3>2 DEF Deserves
    <2>3. "error" \in Verdict
      BY DEF Verdict
    <2> QED BY <1>2, <2>1, <2>2, <2>3, OutcomeMoves
  <1> QED BY <1>4, <1>5

LEMMA IndexMoves ==
    ASSUME IInv, NEW c \in Conn, IndexEvent(c)
    PROVE  conn' \in [Conn -> Session] /\ \A x \in Conn : SessionInv(conn[x])'
  <1> DEFINE s == conn[c]
             f == s.sent[s.cur].frame
  <1>1. s \in Session /\ SessionInv(s) /\ enabled \in BOOLEAN
    BY OfSession DEF IInv
  <1>2. s.pc = "index" /\ enabled' = enabled
    BY DEF IndexEvent, shared
  <1>3. /\ s.cur # 0 /\ f.key = f.rot /\ f.enc >= EventSize
        /\ EncHdrSize + f.enc <= f.len
    BY <1>1, <1>2 DEF SessionInv, HandInv, Opened, Body
  <1>4. f.enc \in Nat /\ f.len \in Nat /\ f.type \in Nat /\ f.dlen \in Nat
    BY <1>1, <1>3, CurrentIs
  <1>5. ~(f.enc + EncHdrSize > f.len \/ f.key # f.rot \/ f.enc < EventSize)
    BY <1>3, <1>4, Sizes
  <1>6. "logged" \in Deserves(f)
    BY <1>5 DEF Deserves
  <1>7. enabled => Severity(f) \in Deserves(f)
    <2>1. CASE f.type = 1 /\ f.dlen >= KprobeSize /\ f.sus
      BY <1>5, <2>1 DEF Deserves, Severity
    <2>2. CASE ~(f.type = 1 /\ f.dlen >= KprobeSize /\ f.sus)
      <3>1. CASE f.type \in 1..5
        <4>1. f.type \in {2, 3, 4} \/ f.type \in {1, 5}
          BY <3>1
        <4>2. EventSeverity(f.type) \in {"high", "critical"}
          BY <4>1 DEF EventSeverity
        <4> QED BY <1>5, <2>2, <3>1, <4>2 DEF Deserves, Severity
      <3>2. CASE f.type \notin 1..5
        <4>1. f.type \notin {2, 3, 4} /\ f.type \notin {1, 5}
          BY <3>2
        <4>2. EventSeverity(f.type) = "info"
          BY <4>1 DEF EventSeverity
        <4> QED BY <1>5, <2>2, <3>2, <4>2 DEF Deserves, Severity
      <3> QED BY <3>1, <3>2
    <2> QED BY <2>1, <2>2
  <1>8. Severity(f) \in Verdict /\ Severity(f) # "error" /\ "logged" \in Verdict
    BY DEF Severity, EventSeverity, Verdict
  <1>9. CASE enabled /\ conn' = [conn EXCEPT ![c] = NextFrame(conn[c], Severity(f))]
    BY <1>2, <1>7, <1>8, <1>9, OutcomeMoves
  <1>10. CASE conn' = [conn EXCEPT ![c] = NextFrame(conn[c], "logged")]
    BY <1>2, <1>6, <1>8, <1>10, OutcomeMoves
  <1> QED BY <1>9, <1>10 DEF IndexEvent, Current

\* Nobody but the accepting thread touches a connection in its handshake.
LEMMA AcceptStays ==
    ASSUME IInv, NEW c \in Conn, conn[c].pc # "tls", NEW t, conn' = [conn EXCEPT ![c] = t],
           acceptor' = acceptor
    PROVE  AcceptInv'
  <1>1. \A x \in Conn : x # c => conn'[x] = conn[x]
    BY DEF IInv
  <1> QED BY <1>1 DEF IInv, AcceptInv

LEMMA NextIInv == IInv /\ [Next]_vars => IInv'
  <1> SUFFICES ASSUME IInv, [Next]_vars PROVE IInv'
    OBVIOUS
  <1> DEFINE Moved == conn' \in [Conn -> Session] /\ \A x \in Conn : SessionInv(conn[x])'
             Accepting == acceptor' \in Conn \cup {"listen", "down"}
  <1>1. Accepting /\ AcceptInv' /\ enabled' \in BOOLEAN /\ CacheInv' /\ Moved => IInv'
    BY DEF IInv
  <1>2. /\ acceptor \in Conn \cup {"listen", "down"} /\ enabled \in BOOLEAN /\ CacheInv
        /\ cache' = cache => CacheInv'
        /\ acceptor' \in {"listen", "down"} => AcceptInv'
    BY ServerAssumption DEF IInv, CacheInv, AcceptInv
  <1>3. ASSUME NEW c \in Conn, Accept(c) PROVE IInv'
    <2>1. conn[c].pc = "none" /\ Goto(c, "tls") /\ UNCHANGED <<cache, enabled>> /\ acceptor' = c
      BY <1>3 DEF Accept, shared
    <2>2. Moved
      BY <2>1, GotoMoves
    <2>3. AcceptInv'
      BY <2>1 DEF Goto, AcceptInv, IInv, Session
    <2> QED BY <1>1, <1>2, <2>1, <2>2, <2>3
  <1>4. ASSUME NEW c \in Conn, TlsDone(c) PROVE IInv'
    <2>1. /\ acceptor = c /\ Goto(c, "magic") /\ UNCHANGED <<cache, enabled>>
          /\ acceptor' = "listen"
      BY <1>4 DEF TlsDone, shared
    <2>2. Moved
      <3>1. conn[c].pc = "tls"
        BY <2>1 DEF IInv, AcceptInv
      <3> QED BY <2>1, <3>1, GotoMoves
    <2> QED BY <1>1, <1>2, <2>1, <2>2
  <1>5. ASSUME NEW c \in Conn, TlsFailed(c) PROVE IInv'
    <2>1. End(c) /\ UNCHANGED <<cache, enabled>> /\ acceptor' = "listen"
      BY <1>5 DEF TlsFailed, shared
    <2>2. Moved
      BY <2>1, EndMoves
    <2> QED BY <1>1, <1>2, <2>1, <2>2
  <1>6. ASSUME NEW c \in Conn, \E f \in Frames : Send(c, f) PROVE IInv'
    <2>1. UNCHANGED <<acceptor, cache, enabled>>
      BY <1>6 DEF Send, shared
    <2>2. Moved
      BY <1>6, SendMoves
    <2>3. AcceptInv'
      <3>1. PICK f \in Frames : Send(c, f)
        BY <1>6
      <3> DEFINE t == [conn[c] EXCEPT !.sent = Append(@, [frame |-> f, at |-> conn[c].total]),
                                      !.total = @ + LenSize + f.len]
      <3>2. conn' = [conn EXCEPT ![c] = t] /\ conn[c].pc # "tls"
        BY <3>1 DEF Send, Loop
      <3> HIDE DEF t
      <3> QED BY <2>1, <3>2, AcceptStays
    <2> QED BY <1>1, <1>2, <2>1, <2>2, <2>3
  <1>7. ASSUME NEW c \in Conn, Close(c) PROVE IInv'
    <2>1. UNCHANGED <<acceptor, cache, enabled>>
      BY <1>7 DEF Close, shared
    <2>2. Moved
      BY <1>7, CloseMoves
    <2>3. AcceptInv'
      BY <1>7, <2>1, AcceptStays DEF Close, Loop
    <2> QED BY <1>1, <1>2, <2>1, <2>2, <2>3
  <1>8. ASSUME NEW c \in Conn, SocketError(c) \/ ReadEof(c) PROVE IInv'
    <2>1. End(c) /\ UNCHANGED <<acceptor, cache, enabled>> /\ conn[c].pc # "tls"
      BY <1>8 DEF SocketError, ReadEof, shared
    <2>2. Moved
      BY <2>1, EndMoves
    <2>3. AcceptInv'
      BY <2>1, AcceptStays DEF End
    <2> QED BY <1>1, <1>2, <2>1, <2>2, <2>3
  <1>9. ASSUME NEW c \in Conn, Magic(c) \/ Ack(c) PROVE IInv'
    <2>1. UNCHANGED <<acceptor, cache, enabled>> /\ conn[c].pc \in {"magic", "ack"}
      BY <1>9 DEF Magic, Ack, shared
    <2>2. Goto(c, "ack") \/ Goto(c, "len") \/ End(c)
      BY <1>9 DEF Magic, Ack
    <2>3. Moved
      BY <2>1, <2>2, EndMoves, GotoMoves
    <2>4. AcceptInv'
      BY <2>1, <2>2, AcceptStays DEF End, Goto
    <2> QED BY <1>1, <1>2, <2>1, <2>3, <2>4
  <1>10. ASSUME NEW c \in Conn, ReadLen(c) \/ ReadBody(c) \/ Decrypt(c) \/ IndexEvent(c)
         PROVE  IInv'
    <2>1. UNCHANGED <<acceptor, cache, enabled>>
      BY <1>10 DEF ReadLen, ReadBody, Decrypt, IndexEvent, shared
    <2>2. Moved
      BY <1>10, ReadLenMoves, ReadBodyMoves, DecryptMoves, IndexMoves
    <2>3. conn[c].pc # "tls"
      BY <1>10 DEF ReadLen, ReadBody, Decrypt, IndexEvent
    <2>4. \E t : conn' = [conn EXCEPT ![c] = t]
      <3>1. CASE ReadLen(c)
        BY <3>1 DEF ReadLen
      <3>2. CASE ReadBody(c)
        BY <3>2 DEF ReadBody
      <3>3. CASE Decrypt(c)
        BY <3>3 DEF Decrypt
      <3>4. CASE IndexEvent(c)
        BY <3>4 DEF IndexEvent
      <3> QED BY <1>10, <3>1, <3>2, <3>3, <3>4
    <2>5. AcceptInv'
      BY <2>1, <2>3, <2>4, AcceptStays
    <2> QED BY <1>1, <1>2, <2>1, <2>2, <2>5
  <1>11. ASSUME NEW c \in Conn, GetKey(c) PROVE IInv'
    <2>1. UNCHANGED <<acceptor, enabled>>
      BY <1>11 DEF GetKey
    <2>2. Moved /\ CacheInv'
      BY <1>11, GetKeyMoves
    <2>3. conn[c].pc # "tls" /\ \E t : conn' = [conn EXCEPT ![c] = t]
      BY <1>11 DEF GetKey
    <2>4. AcceptInv'
      BY <2>1, <2>3, AcceptStays
    <2> QED BY <1>1, <1>2, <2>1, <2>2, <2>4
  <1>12. CASE ServerEnds
    <2>1. /\ acceptor' = "down" /\ UNCHANGED <<cache, enabled>>
          /\ conn' = [c \in Conn |-> Fresh("closed")]
      BY <1>12 DEF ServerEnds, shared
    <2>2. Moved
      <3>1. Fresh("closed") \in Session /\ SessionInv(Fresh("closed"))
        BY FreshSession
      <3>2. ASSUME NEW x \in Conn PROVE SessionInv(conn[x])'
        <4>1. conn'[x] = Fresh("closed")
          BY <2>1
        <4> QED BY <3>1, <4>1
            DEF SessionInv, StreamInv, StartInv, HandInv, VerdictInv, CleanInv, Fresh, Loop,
                Boundary, Opened
      <3> QED BY <2>1, <3>1, <3>2
    <2> QED BY <1>1, <1>2, <2>1, <2>2
  <1>13. CASE UNCHANGED vars
    <2>0. AcceptInv'
      BY <1>13 DEF vars, IInv, AcceptInv
    <2>1. UNCHANGED <<acceptor, conn, cache, enabled>>
      BY <1>13 DEF vars, shared
    <2>2. CASE Conn = {}
      BY <1>1, <1>2, <2>0, <2>1, <2>2 DEF IInv
    <2>3. CASE Conn # {}
      <3>1. PICK c \in Conn : TRUE
        BY <2>3
      <3>2. conn' = [conn EXCEPT ![c] = conn[c]]
        BY <2>1 DEF IInv
      <3>3. conn[c] \in Session /\ SessionInv(conn[c])
        BY OfSession
      <3>4. Moved
        BY <2>1, <3>2, <3>3, OneMoves
      <3> QED BY <1>1, <1>2, <2>0, <2>1, <3>4
    <2> QED BY <2>2, <2>3
  <1> QED
    BY <1>3, <1>4, <1>5, <1>6, <1>7, <1>8, <1>9, <1>10, <1>11, <1>12, <1>13
    DEF Next, Handler

\* The cache that all handlers share stays within max_entries, evicts before it
\* adds, and never answers with the key of another rotation.
THEOREM CacheIsSound == Spec => []CacheSound
  <1>1. IInv => CacheSound
    <2> SUFFICES ASSUME IInv PROVE CacheSound
      OBVIOUS
    <2>1. \A c \in Conn : conn[c].pc = "decrypt" => conn[c].key = conn[c].rot
      BY DEF IInv, SessionInv, HandInv
    <2> QED BY <2>1 DEF IInv, CacheInv, CacheSound, DeriveSessionKey
  <1> QED BY <1>1, InitIInv, NextIInv, PTL DEF Spec

\* One bad frame costs nothing but itself, in any interleaving of any number of
\* sessions: between frames, every frame of a clean session that was read has
\* had exactly one outcome, in order and the one it deserves, and the figures of
\* the session agree.
THEOREM VerdictsAreDeserved == Spec => []VerdictPerFrame
  <1>1. IInv => VerdictPerFrame
    <2> SUFFICES ASSUME IInv, NEW c \in Conn, conn[c].pc = "len", Clean(c)
                 PROVE  LET out == conn[c].out
                        IN  /\ Finished(c) = {out[i][1] : i \in 1..Len(out)}
                            /\ \A i \in 1..Len(out) :
                                /\ out[i][2] \in Deserves(conn[c].sent[out[i][1]].frame)
                                /\ \A j \in 1..(i - 1) : out[j][1] < out[i][1]
                            /\ StatsAddUp(c)
      BY DEF VerdictPerFrame
    <2> DEFINE s == conn[c]
               out == s.out
    <2>1. /\ s \in Session /\ SessionInv(s) /\ Finished(c) = FinishedOf(s) /\ CleanOf(s)
      BY OfSession
    <2>2. OrderInv(s) /\ CountInv(s) /\ VerdictInv(s) /\ Judged(s) = FinishedOf(s)
      BY <2>1 DEF SessionInv, CleanInv, Loop, Judged, Opened
    <2>3. DOMAIN out = 1..Len(out) /\ Len(out) \in Nat
      BY <2>1 DEF Session
    <2>4. Finished(c) = {out[i][1] : i \in 1..Len(out)}
      BY <2>1, <2>2, <2>3 DEF OrderInv
    <2>5. ASSUME NEW i \in 1..Len(out)
          PROVE  /\ out[i][2] \in Deserves(s.sent[out[i][1]].frame)
                 /\ \A j \in 1..(i - 1) : out[j][1] < out[i][1]
      <3>1. out[i][1] \in DOMAIN s.sent /\ out[i][1] # 0
        BY <2>1, <2>2, <2>3, SentFacts DEF OrderInv, FinishedOf
      <3>2. out[i][2] \in Deserves(s.sent[out[i][1]].frame)
        BY <2>2, <2>3, <3>1 DEF VerdictInv
      <3>3. \A j \in 1..(i - 1) : j \in DOMAIN out /\ j < i
        BY <2>3
      <3> QED BY <2>2, <2>3, <3>2, <3>3 DEF OrderInv
    <2>6. StatsAddUp(c)
      <3> DEFINE zero == {i \in 1..Len(s.sent) : s.sent[i].frame.len = 0 /\ s.sent[i].at < s.pos}
                 z == LenSize * Cardinality(ZeroOf(s))
      <3>1. zero = ZeroOf(s)
        BY <2>1, SentFacts DEF ZeroOf, At, Body
      <3>2. s.frames + s.errors + 0 = Cardinality(FinishedOf(s)) /\ s.bytes + 0 + z = s.pos
        BY <2>2 DEF CountInv
      <3>3. z \in Nat
        <4>1. IsFiniteSet(DOMAIN s.sent)
          BY <2>1, SentFacts, FS_Interval
        <4>2. Cardinality(ZeroOf(s)) \in Nat
          BY <4>1, FS_Subset, FS_CardinalityType DEF ZeroOf
        <4> QED BY <4>2, Sizes, TimesNext
      <3>4. s.frames \in Nat /\ s.errors \in Nat /\ s.bytes \in Nat /\ s.pos \in Nat
        BY <2>1 DEF Session
      <3>5. z = LenSize * Cardinality(zero)
        BY <3>1
      <3> HIDE DEF z
      <3>6. s.frames + s.errors = Cardinality(FinishedOf(s)) /\ s.bytes = s.pos - z
        BY <3>2, <3>3, <3>4
      <3> QED BY <2>1, <3>5, <3>6 DEF StatsAddUp
    <2> QED BY <2>4, <2>5, <2>6
  <1> QED BY <1>1, InitIInv, NextIInv, PTL DEF Spec
=============================================================================
