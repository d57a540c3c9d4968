----------------------------- MODULE CryptoProofs -----------------------------
(***************************************************************************)
(* The key state of comms/crypto.c for every number of threads and keys.   *)
(***************************************************************************)
EXTENDS CryptoLayer, TLAPS, FiniteSetTheorems

Keyer == Setter \cup Rotator

-----------------------------------------------------------------------------
\* The inductive invariant, in parts.

\* Who may hold crypto_mutex between two steps, and where: a thread that
\* installs a key, or a rotator that is undoing a failed installation.
HolderInv ==
    \A t \in Thread : mutex = t =>
        \/ t \in Setter /\ pc[t] = "setkey"
        \/ t \in Rotator /\ pc[t] \in {"setkey", "dcheck", "derive", "dfail"}

\* A thread that is about to install a key, or is installing or undoing one,
\* has a derived key on its stack.
DerivedInv ==
    \A t \in Keyer :
        (pc[t] \in {"install", "setkey"} \/ mutex = t) => derived[t] \in SessionKey

IInv == TypeOK /\ HolderInv /\ DerivedInv /\ InstallExclusive /\ CounterDebt

-----------------------------------------------------------------------------
\* Zero is a rotation number and the session keys are pairs.
LEMMA RotFacts ==
    /\ Cardinality(Rotator) \in Nat
    /\ 0 \in Rot
    /\ Rot = {i \in Int : -Cardinality(Rotator) <= i /\ i <= MaxRot}
    /\ \A k \in Key \cup {Zero}, r \in Rot : <<k, r>> \in SessionKey
  <1>1. Cardinality(Rotator) \in Nat /\ MaxRot \in Nat
    BY CryptoAssumption, FS_CardinalityType
  <1> QED BY <1>1 DEF Rot, SessionKey

LEMMA PendingFacts ==
    /\ IsFiniteSet(Pending)
    /\ Cardinality(Pending) \in Nat
    /\ Cardinality(Pending) <= Cardinality(Rotator)
  <1>1. Pending \subseteq Rotator
    BY DEF Pending
  <1> QED BY <1>1, CryptoAssumption, FS_Subset, FS_CardinalityType

LEMMA InitIInv == Init \/ InitInService => IInv
  <1> SUFFICES ASSUME Init \/ InitInService PROVE IInv
    OBVIOUS
  <1>1. TypeOK
    <2> USE RotFacts DEF ThreadsIdle, TypeOK, PC
    <2>1. CASE Init
      BY <2>1 DEF Init
    <2>2. CASE InitInService
      BY <2>2 DEF InitInService
    <2> QED BY <2>1, <2>2
  <1>2. HolderInv /\ DerivedInv /\ InstallExclusive
    BY CryptoAssumption
    DEF Init, InitInService, ThreadsIdle, HolderInv, DerivedInv, InstallExclusive,
        Keyer, Thread
  <1>3. Pending = {}
    BY DEF Init, InitInService, ThreadsIdle, Pending, Thread
  <1>4. Cardinality(Pending) = 0
    BY <1>3, FS_EmptySet
  <1>5. counter = 0
    BY DEF Init, InitInService
  <1>6. CounterDebt
    BY <1>4, <1>5, RotFacts DEF CounterDebt
  <1> QED BY <1>1, <1>2, <1>6 DEF IInv

\* What an installing thread holds.
LEMMA InstallerFacts ==
    ASSUME IInv, NEW t \in Keyer, pc[t] = "setkey" \/ mutex = t
    PROVE  mutex = t /\ session = derived[t] /\ session \in SessionKey
  BY DEF IInv, DerivedInv, InstallExclusive, Keyer

-----------------------------------------------------------------------------
\* The parts of the invariant, one step per action.

LEMMA SetterTypes ==
    ASSUME IInv, NEW t \in Setter, SetterStep(t)
    PROVE  TypeOK'
  <1> USE RotFacts DEF TypeOK, global, local, Goto, PC
  <1> t \in Thread /\ t \in Keyer
    BY DEF Thread, Keyer
  <1> TypeOK
    BY DEF IInv
  <1>1. CASE \E k \in Key : IoctlSetKey(t, k)
    BY <1>1 DEF IoctlSetKey
  <1>2. CASE StoreMaster(t)
    BY <1>2 DEF StoreMaster
  <1>3. CASE DeriveCheck(t)
    BY <1>3 DEF DeriveCheck
  <1>4. CASE Derive(t)
    BY <1>4 DEF Derive
  <1>5. CASE DeriveFail(t)
    BY <1>5 DEF DeriveFail
  <1>6. CASE SetKeyDeriveFailed(t)
    BY <1>6 DEF SetKeyDeriveFailed, Wipe
  <1>7. CASE Install(t)
    <2>1. derived[t] \in SessionKey
      BY <1>7 DEF Install, IInv, DerivedInv
    <2> QED BY <1>7, <2>1 DEF Install, Acquire
  <1>8. CASE SetKeyDone(t)
    <2>1. session \in SessionKey
      BY <1>8, InstallerFacts DEF SetKeyDone
    <2> QED BY <1>8, <2>1 DEF SetKeyDone
  <1>9. CASE SetKeyFailed(t)
    BY <1>9 DEF SetKeyFailed, Wipe
  <1> QED BY <1>1, <1>2, <1>3, <1>4, <1>5, <1>6, <1>7, <1>8, <1>9 DEF SetterStep

\* A rotator that may still move the counter down finds it above its lower bound.
LEMMA RoomToRollBack ==
    ASSUME IInv, NEW t \in Pending
    PROVE  counter - 1 \in Rot
  <1>1. Cardinality(Pending) # 0
    BY PendingFacts, FS_EmptySet
  <1>2. counter \in Rot /\ counter >= Cardinality(Pending) - Cardinality(Rotator)
    BY DEF IInv, TypeOK, CounterDebt
  <1> QED BY <1>1, <1>2, PendingFacts, RotFacts, CryptoAssumption

LEMMA RotatorTypes ==
    ASSUME IInv, NEW t \in Rotator, RotatorStep(t)
    PROVE  TypeOK'
  <1> USE RotFacts DEF TypeOK, global, local, Goto, PC
  <1> t \in Thread /\ t \in Keyer
    BY DEF Thread, Keyer
  <1> TypeOK
    BY DEF IInv
  <1>1. CASE RotateBegin(t)
    <2>1. counter + 1 \in Rot
      BY <1>1, CryptoAssumption DEF RotateBegin
    <2> QED BY <1>1, <2>1 DEF RotateBegin
  <1>2. CASE DeriveCheck(t)
    BY <1>2 DEF DeriveCheck
  <1>3. CASE Derive(t)
    BY <1>3 DEF Derive
  <1>4. CASE DeriveFail(t)
    BY <1>4 DEF DeriveFail
  <1>5. CASE RotateDeriveFailed(t)
    <2>1. t \in Pending
      BY <1>5 DEF RotateDeriveFailed, Pending
    <2>2. counter - 1 \in Rot
      BY <2>1, RoomToRollBack
    <2> QED BY <1>5, <2>2 DEF RotateDeriveFailed
  <1>6. CASE Install(t)
    <2>1. derived[t] \in SessionKey
      BY <1>6 DEF Install, IInv, DerivedInv
    <2> QED BY <1>6, <2>1 DEF Install, Acquire
  <1>7. CASE RotateDone(t)
    <2>1. session \in SessionKey
      BY <1>7, InstallerFacts DEF RotateDone
    <2> QED BY <1>7, <2>1 DEF RotateDone
  <1>8. CASE RotateSetkeyFailed(t)
    <2>1. t \in Pending
      BY <1>8 DEF RotateSetkeyFailed, Pending
    <2>2. counter - 1 \in Rot
      BY <2>1, RoomToRollBack
    <2> QED BY <1>8, <2>2 DEF RotateSetkeyFailed
  <1>9. CASE RestoreSetkey(t)
    <2>1. session \in SessionKey
      BY <1>9, InstallerFacts DEF RestoreSetkey
    <2> QED BY <1>9, <2>1 DEF RestoreSetkey
  <1> QED BY <1>1, <1>2, <1>3, <1>4, <1>5, <1>6, <1>7, <1>8, <1>9 DEF RotatorStep

\* A sender's steps leave the key state and every other thread alone; the
\* thread itself stays within the send path.
SendPath == {"idle", "send", "label", "verify", "encrypt"}

LEMMA SendSteps ==
    ASSUME TypeOK, NEW t \in Thread, SendStep(t) \/ SendBegin(t)
    PROVE  /\ UNCHANGED <<global, arg, derived>>
           /\ pc[t] \in SendPath
           /\ \E l \in SendPath : pc' = [pc EXCEPT ![t] = l]
           /\ num' \in [Thread -> Rot]
           /\ frame' \in [rot : Rot, key : SessionKey \cup {Torn}] \cup {NoFrame}
           /\ \A u \in Thread : u # t => num'[u] = num[u]
  <1> USE DEF global, local, Goto, SendPath, TypeOK
  <1>1. CASE SendBegin(t)
    BY <1>1 DEF SendBegin
  <1>2. CASE SendCheck(t)
    BY <1>2 DEF SendCheck
  <1>3. CASE SendLabel(t)
    BY <1>3 DEF SendLabel
  <1>4. CASE EncryptVerify(t)
    BY <1>4 DEF EncryptVerify
  <1>5. CASE Encrypt(t)
    BY <1>5 DEF Encrypt
  <1>6. CASE EncryptFail(t)
    BY <1>6 DEF EncryptFail
  <1> QED BY <1>1, <1>2, <1>3, <1>4, <1>5, <1>6 DEF SendStep

LEMMA SenderTypes ==
    ASSUME IInv, NEW t \in Thread, SendStep(t) \/ SendBegin(t)
    PROVE  TypeOK'
  <1>1. TypeOK
    BY DEF IInv
  <1> QED BY <1>1, SendSteps DEF TypeOK, global, PC, SendPath

\* Mutual exclusion between installations, and what the holder has.
LEMMA SetterHolds ==
    ASSUME IInv, NEW t \in Setter, SetterStep(t)
    PROVE  (HolderInv /\ DerivedInv /\ InstallExclusive)'
  <1> USE CryptoAssumption, RotFacts
      DEF IInv, TypeOK, HolderInv, DerivedInv, InstallExclusive, Keyer, Thread,
          global, local, Goto
  <1>1. CASE \E k \in Key : IoctlSetKey(t, k)
    BY <1>1 DEF IoctlSetKey
  <1>2. CASE StoreMaster(t)
    BY <1>2 DEF StoreMaster
  <1>3. CASE DeriveCheck(t)
    BY <1>3 DEF DeriveCheck
  <1>4. CASE Derive(t)
    BY <1>4 DEF Derive
  <1>5. CASE DeriveFail(t)
    BY <1>5 DEF DeriveFail
  <1>6. CASE SetKeyDeriveFailed(t)
    BY <1>6 DEF SetKeyDeriveFailed
  <1>7. CASE Install(t)
    BY <1>7 DEF Install, Acquire
  <1>8. CASE SetKeyDone(t)
    BY <1>8 DEF SetKeyDone
  <1>9. CASE SetKeyFailed(t)
    BY <1>9 DEF SetKeyFailed
  <1> QED BY <1>1, <1>2, <1>3, <1>4, <1>5, <1>6, <1>7, <1>8, <1>9 DEF SetterStep

LEMMA RotatorHolds ==
    ASSUME IInv, NEW t \in Rotator, RotatorStep(t)
    PROVE  (HolderInv /\ DerivedInv /\ InstallExclusive)'
  <1> USE CryptoAssumption, RotFacts
      DEF IInv, TypeOK, HolderInv, DerivedInv, InstallExclusive, Keyer, Thread,
          global, local, Goto
  <1>1. CASE RotateBegin(t)
    BY <1>1 DEF RotateBegin
  <1>2. CASE DeriveCheck(t)
    BY <1>2 DEF DeriveCheck
  <1>3. CASE Derive(t)
    BY <1>3 DEF Derive
  <1>4. CASE DeriveFail(t)
    BY <1>4 DEF DeriveFail
  <1>5. CASE RotateDeriveFailed(t)
    BY <1>5 DEF RotateDeriveFailed
  <1>6. CASE Install(t)
    BY <1>6 DEF Install, Acquire
  <1>7. CASE RotateDone(t)
    BY <1>7 DEF RotateDone
  <1>8. CASE RotateSetkeyFailed(t)
    BY <1>8 DEF RotateSetkeyFailed
  <1>9. CASE RestoreSetkey(t)
    BY <1>9 DEF RestoreSetkey
  <1> QED BY <1>1, <1>2, <1>3, <1>4, <1>5, <1>6, <1>7, <1>8, <1>9 DEF RotatorStep

LEMMA SenderHolds ==
    ASSUME IInv, NEW t \in Thread, SendStep(t) \/ SendBegin(t)
    PROVE  (HolderInv /\ DerivedInv /\ InstallExclusive)'
  <1>1. TypeOK
    BY DEF IInv
  <1> QED
    BY <1>1, SendSteps
    DEF IInv, TypeOK, HolderInv, DerivedInv, InstallExclusive, Keyer, global,
        SendPath, Thread

-----------------------------------------------------------------------------
\* The counter's lower bound: a step leaves it, resets it, or moves it together
\* with the set of the rotators in flight.
LEMMA CountMoves ==
    ASSUME IInv, counter' \in Int,
           \/ Pending' \subseteq Pending /\ counter' = counter
           \/ counter' = 0
           \/ \E t \in Rotator : Pending' = Pending \cup {t} /\ counter' = counter + 1
           \/ \E t \in Pending : Pending' = Pending \ {t} /\ counter' = counter - 1
    PROVE  CounterDebt'
  <1> DEFINE P == Pending
             Q == Pending'
             N == Cardinality(Rotator)
  <1>1. /\ IsFiniteSet(P) /\ IsFiniteSet(Q)
        /\ Cardinality(P) \in Nat /\ Cardinality(Q) \in Nat /\ N \in Nat
        /\ Cardinality(Q) <= N
    <2>1. Q \subseteq Rotator
      BY DEF Pending
    <2> QED BY <2>1, PendingFacts, RotFacts, CryptoAssumption, FS_Subset, FS_CardinalityType
  <1>2. counter \in Int /\ counter >= Cardinality(P) - N
    BY RotFacts DEF IInv, TypeOK, CounterDebt
  <1> HIDE DEF P, Q, N
  <1>3. counter' >= Cardinality(Q) - N
    <2>1. CASE Q \subseteq P /\ counter' = counter
      <3>1. Cardinality(Q) <= Cardinality(P)
        BY <1>1, <2>1, FS_Subset
      <3> QED BY <3>1, <1>1, <1>2, <2>1
    <2>2. CASE counter' = 0
      BY <2>2, <1>1
    <2>3. CASE \E t \in Rotator : Q = P \cup {t} /\ counter' = counter + 1
      <3>1. PICK t \in Rotator : Q = P \cup {t}
        BY <2>3
      <3>2. Cardinality(Q) = Cardinality(P) \/ Cardinality(Q) = Cardinality(P) + 1
        BY <1>1, <3>1, FS_AddElement
      <3> QED BY <3>2, <1>1, <1>2, <2>3
    <2>4. CASE \E t \in P : Q = P \ {t} /\ counter' = counter - 1
      <3>1. Cardinality(Q) = Cardinality(P) - 1
        BY <1>1, <2>4, FS_RemoveElement
      <3> QED BY <3>1, <1>1, <1>2, <2>4
    <2> QED BY <2>1, <2>2, <2>3, <2>4 DEF P, Q
  <1> QED BY <1>3 DEF CounterDebt, Q, N

LEMMA SetterCounts ==
    ASSUME IInv, NEW t \in Setter, SetterStep(t)
    PROVE  CounterDebt'
  <1>1. counter' \in Int
    BY SetterTypes, RotFacts DEF TypeOK
  <1>2. t \in Thread /\ t \notin Rotator
    BY CryptoAssumption DEF Thread
  <1>3. \/ UNCHANGED counter
        \/ counter' = 0
    BY DEF SetterStep, IoctlSetKey, StoreMaster, DeriveCheck, Derive, DeriveFail,
           SetKeyDeriveFailed, Install, SetKeyDone, SetKeyFailed, global
  <1>4. \A u \in Rotator : pc'[u] = pc[u] /\ (mutex = u => mutex' = u)
    <2> USE <1>2, CryptoAssumption DEF IInv, TypeOK, InstallExclusive, Goto, Thread, Acquire, global
    <2>1. CASE \/ \E k \in Key : IoctlSetKey(t, k)
               \/ StoreMaster(t) \/ DeriveCheck(t) \/ Derive(t) \/ DeriveFail(t)
               \/ SetKeyDeriveFailed(t) \/ Install(t)
      BY <2>1 DEF IoctlSetKey, StoreMaster, DeriveCheck, Derive, DeriveFail,
                  SetKeyDeriveFailed, Install
    <2>2. CASE SetKeyDone(t) \/ SetKeyFailed(t)
      BY <2>2 DEF SetKeyDone, SetKeyFailed
    <2> QED BY <2>1, <2>2 DEF SetterStep
  <1>5. Pending' \subseteq Pending
    BY <1>4 DEF Pending
  <1> QED BY <1>1, <1>3, <1>5, CountMoves

LEMMA RotatorCounts ==
    ASSUME IInv, NEW t \in Rotator, RotatorStep(t)
    PROVE  CounterDebt'
  <1>1. counter' \in Int
    BY RotatorTypes, RotFacts DEF TypeOK
  <1> USE CryptoAssumption
      DEF IInv, TypeOK, HolderInv, InstallExclusive, Goto, Thread, global, Pending
  <1>2. CASE RotateBegin(t)
    <2>1. Pending' = Pending \cup {t} /\ counter' = counter + 1
      BY <1>2 DEF RotateBegin
    <2> QED BY <1>1, <2>1, CountMoves
  <1>3. CASE DeriveCheck(t) \/ Derive(t) \/ DeriveFail(t)
    <2>1. Pending' \subseteq Pending /\ counter' = counter
      BY <1>3 DEF DeriveCheck, Derive, DeriveFail
    <2> QED BY <1>1, <2>1, CountMoves
  <1>4. CASE RotateDeriveFailed(t)
    <2>1. t \in Pending /\ Pending' = Pending \ {t} /\ counter' = counter - 1
      BY <1>4 DEF RotateDeriveFailed
    <2> QED BY <1>1, <2>1, CountMoves
  <1>5. CASE Install(t)
    <2>1. Pending' \subseteq Pending /\ counter' = counter
      BY <1>5 DEF Install, Acquire
    <2> QED BY <1>1, <2>1, CountMoves
  <1>6. CASE RotateDone(t) \/ RestoreSetkey(t)
    <2>1. Pending' \subseteq Pending /\ counter' = counter
      BY <1>6 DEF RotateDone, RestoreSetkey
    <2> QED BY <1>1, <2>1, CountMoves
  <1>7. CASE RotateSetkeyFailed(t)
    <2>1. t \in Pending /\ Pending' = Pending \ {t} /\ counter' = counter - 1
      BY <1>7 DEF RotateSetkeyFailed
    <2> QED BY <1>1, <2>1, CountMoves
  <1> QED BY <1>2, <1>3, <1>4, <1>5, <1>6, <1>7 DEF RotatorStep

LEMMA SenderCounts ==
    ASSUME IInv, NEW t \in Thread, SendStep(t) \/ SendBegin(t)
    PROVE  CounterDebt'
  <1>1. TypeOK
    BY DEF IInv
  <1>2. Pending' \subseteq Pending /\ counter' = counter
    BY <1>1, SendSteps DEF Pending, TypeOK, SendPath, Thread, global
  <1>3. counter' \in Int
    BY <1>1, <1>2, RotFacts DEF TypeOK
  <1> QED BY <1>2, <1>3, CountMoves

LEMMA IInvInductive == IInv /\ [Next]_vars => IInv'
  <1> SUFFICES ASSUME IInv, [Next]_vars PROVE IInv'
    OBVIOUS
  <1>1. CASE UNCHANGED vars
    BY <1>1 DEF vars, global, local, IInv, TypeOK, HolderInv, DerivedInv,
                InstallExclusive, CounterDebt, Pending
  <1>2. ASSUME NEW t \in Setter, SetterStep(t) PROVE IInv'
    BY <1>2, SetterTypes, SetterHolds, SetterCounts DEF IInv
  <1>3. ASSUME NEW t \in Rotator, RotatorStep(t) PROVE IInv'
    BY <1>3, RotatorTypes, RotatorHolds, RotatorCounts DEF IInv
  <1>4. ASSUME NEW t \in Thread, SendStep(t) \/ SendBegin(t) PROVE IInv'
    BY <1>4, SenderTypes, SenderHolds, SenderCounts DEF IInv
  <1> QED BY <1>1, <1>2, <1>3, <1>4 DEF Next, Step

\* The types: in particular, rotations in flight across a SET_KEY's reset of
\* g_rotation_counter take it below zero by at most one each.
THEOREM Types == SpecAny => []TypeOK
  <1>1. IInv => TypeOK
    BY DEF IInv
  <1> QED BY <1>1, InitIInv, IInvInductive, PTL DEF SpecAny

\* For any number of setters and rotators, from either initial state: from the
\* copy to g_session_key to the crypto_aead_setkey that reads it, and on the
\* path that undoes a failed rotation, crypto_mutex is held by the installing
\* thread and g_session_key is its derived key.
THEOREM OneInstallerAtATime == SpecAny => []InstallExclusive
  <1>1. IInv => InstallExclusive
    BY DEF IInv
  <1> QED BY <1>1, InitIInv, IInvInductive, PTL DEF SpecAny

\* For any number of setters and rotators: a reset of g_rotation_counter by
\* SET_KEY takes it below zero by at most one for each rotator that has left,
\* on every failure path of photon_rotate_key().
THEOREM DebtIsBounded == SpecAny => []CounterDebt
  <1>1. IInv => CounterDebt
    BY DEF IInv
  <1> QED BY <1>1, InitIInv, IInvInductive, PTL DEF SpecAny

-----------------------------------------------------------------------------
\* The restore path of photon_rotate_key().

\* A step that leaves thread r waiting for the mutex it holds.
StillWaiting(r) == mutex' = r /\ pc'[r] = "derive" /\ aead' = aead

LEMMA WaitingStays ==
    ASSUME IInv, [Next]_vars, NEW r \in Rotator, mutex = r, pc[r] = "derive"
    PROVE  StillWaiting(r)
  <1> USE CryptoAssumption
      DEF IInv, TypeOK, HolderInv, InstallExclusive, StillWaiting, Thread, Goto, global, local
  <1>1. CASE UNCHANGED vars
    BY <1>1 DEF vars
  <1>2. ASSUME NEW t \in Setter, SetterStep(t) PROVE StillWaiting(r)
    <2>1. CASE \/ \E k \in Key : IoctlSetKey(t, k)
               \/ StoreMaster(t) \/ DeriveCheck(t) \/ Derive(t) \/ DeriveFail(t)
               \/ SetKeyDeriveFailed(t)
      BY <1>2, <2>1 DEF IoctlSetKey, StoreMaster, DeriveCheck, Derive, DeriveFail,
                        SetKeyDeriveFailed
    <2>2. CASE Install(t)
      BY <1>2, <2>2 DEF Install, Acquire
    <2>3. CASE SetKeyDone(t) \/ SetKeyFailed(t)
      BY <1>2, <2>3 DEF SetKeyDone, SetKeyFailed
    <2> QED BY <1>2, <2>1, <2>2, <2>3 DEF SetterStep
  <1>3. ASSUME NEW t \in Rotator, RotatorStep(t) PROVE StillWaiting(r)
    <2>1. CASE RotateBegin(t) \/ DeriveCheck(t) \/ Derive(t) \/ DeriveFail(t)
      BY <1>3, <2>1 DEF RotateBegin, DeriveCheck, Derive, DeriveFail
    <2>2. CASE RotateDeriveFailed(t) \/ Install(t)
      BY <1>3, <2>2 DEF RotateDeriveFailed, Install, Acquire
    <2>3. CASE RotateDone(t) \/ RotateSetkeyFailed(t) \/ RestoreSetkey(t)
      BY <1>3, <2>3 DEF RotateDone, RotateSetkeyFailed, RestoreSetkey
    <2> QED BY <1>3, <2>1, <2>2, <2>3 DEF RotatorStep
  <1>4. ASSUME NEW t \in Thread, SendStep(t) \/ SendBegin(t) PROVE StillWaiting(r)
    BY <1>4, SendSteps DEF SendPath
  <1> QED BY <1>1, <1>2, <1>3, <1>4 DEF Next, Step

\* A rotation that has come to derive the previous key with crypto_mutex held
\* never gets any further, nobody else gets the mutex and the transform is not
\* re-keyed any more, whatever the other threads do.
THEOREM RestoreWaitsForItself ==
    SpecAny => \A r \in Rotator :
                 [][(mutex = r /\ pc[r] = "derive") => StillWaiting(r)]_vars
  <1> SUFFICES ASSUME NEW r \in Rotator
               PROVE  SpecAny => [][(mutex = r /\ pc[r] = "derive") => StillWaiting(r)]_vars
    OBVIOUS
  <1>1. IInv /\ [Next]_vars => [(mutex = r /\ pc[r] = "derive") => StillWaiting(r)]_vars
    BY WaitingStays
  <1> QED BY <1>1, InitIInv, IInvInductive, PTL DEF SpecAny

-----------------------------------------------------------------------------
\* One rotation at a time.

OneRotator == \A r, s \in Rotator : r = s

-----------------------------------------------------------------------------
\* No SET_KEY, one rotation at a time: where the key schedule is relative to
\* the counter at each point of a rotation.

InFlight(r) == pc[r] \in {"dcheck", "derive", "dfail", "install"} /\ mutex # r

RotationInv ==
    /\ \A s \in Setter : pc[s] = "idle"
    /\ ~keySet => aead = NoKey /\ \A r \in Rotator : pc[r] \in SendPath
    /\ \A r \in Rotator :
         /\ pc[r] # "store"
         /\ InFlight(r) => num[r] = counter /\ aead = <<master, counter - 1>>
         /\ pc[r] = "install" => derived[r] = <<master, num[r]>>
         /\ pc[r] = "setkey" =>
              num[r] = counter /\ derived[r] = <<master, num[r]>> /\ aead = Torn
         /\ (mutex = r /\ pc[r] # "setkey") =>
              aead = NoKey /\ pc[r] \in {"dcheck", "derive"}
    /\ KeyMatchesCounterAtRest

\* How far a label read by a thread on its way to the encryption may be ahead.
LabelInv ==
    \A t \in Thread : pc[t] \in {"verify", "encrypt"} =>
        /\ (\A r \in Rotator : pc[r] \in SendPath) => num[t] <= counter + 1
        /\ \A r \in Rotator : (InFlight(r) \/ pc[r] = "setkey") => num[t] <= counter

QuietInv ==
    Undisturbed => RotationInv /\ LabelInv /\ LabelAtMostOneAhead

LEMMA QuietInit == Init \/ InitInService => QuietInv
  <1> SUFFICES ASSUME Init \/ InitInService PROVE QuietInv
    OBVIOUS
  <1>1. RotationInv
    BY CryptoAssumption
    DEF Init, InitInService, ThreadsIdle, RotationInv, KeyMatchesCounterAtRest,
        InFlight, SendPath, Thread
  <1>2. LabelInv /\ LabelAtMostOneAhead
    BY DEF Init, InitInService, ThreadsIdle, LabelInv, LabelAtMostOneAhead
  <1> QED BY <1>1, <1>2 DEF QuietInv

\* arg is written by SET_KEY alone, and never with a wiped key.
LEMMA Disturbs ==
    ASSUME IInv, QuietInv, Undisturbed, NEW t \in Setter, SetterStep(t)
    PROVE  ~Undisturbed'
  <1> USE DEF QuietInv, RotationInv
  <1>1. \E k \in Key : IoctlSetKey(t, k)
    BY DEF SetterStep, StoreMaster, DeriveCheck, Derive, DeriveFail,
           SetKeyDeriveFailed, Install, SetKeyDone, SetKeyFailed
  <1> QED BY <1>1, CryptoAssumption DEF IoctlSetKey, Undisturbed, IInv, TypeOK, Thread

LEMMA QuietRotator ==
    ASSUME OneRotator, IInv, QuietInv, Undisturbed, NEW t \in Rotator, RotatorStep(t)
    PROVE  (RotationInv /\ LabelInv)' /\ UNCHANGED frame
  <1> RotationInv /\ LabelInv
    BY DEF QuietInv
  <1> t \in Thread /\ t \in Keyer /\ t \notin Setter /\ \A r \in Rotator : r = t
    BY CryptoAssumption DEF Thread, Keyer, OneRotator
  <1> /\ counter \in Int /\ num \in [Thread -> Int] /\ keySet \in BOOLEAN
      /\ pc \in [Thread -> PC] /\ derived \in [Thread -> SessionKey \cup {Zero}]
    BY RotFacts DEF IInv, TypeOK
  <1> \A u \in Setter : u \in Thread
    BY DEF Thread
  <1> USE CryptoAssumption
      DEF RotationInv, KeyMatchesCounterAtRest, LabelInv, InFlight, SendPath,
          Goto, global, local
  <1>1. CASE RotateBegin(t)
    BY <1>1 DEF RotateBegin, IInv, HolderInv
  <1>2. CASE DeriveCheck(t)
    BY <1>2 DEF DeriveCheck
  <1>3. CASE Derive(t)
    BY <1>3 DEF Derive
  <1>4. CASE DeriveFail(t)
    BY <1>4 DEF DeriveFail
  <1>5. CASE RotateDeriveFailed(t)
    BY <1>5 DEF RotateDeriveFailed
  <1>6. CASE Install(t)
    <2>1. t \in Pending /\ InFlight(t)
      BY <1>6 DEF Install, Acquire, Pending, Thread
    <2>2. <<master, counter - 1>> \in SessionKey
      BY <2>1, RoomToRollBack, RotFacts DEF IInv, TypeOK
    <2>3. aead # NoKey
      BY <2>1, <2>2
    <2> QED BY <1>6, <2>1, <2>3 DEF Install, Acquire
  <1>7. CASE RotateDone(t)
    <2>1. session = <<master, counter>>
      BY <1>7, InstallerFacts DEF RotateDone
    <2> QED BY <1>7, <2>1 DEF RotateDone
  <1>8. CASE RotateSetkeyFailed(t)
    <2>1. mutex = t
      BY <1>8, InstallerFacts DEF RotateSetkeyFailed
    <2> QED BY <1>8, <2>1 DEF RotateSetkeyFailed
  <1>9. CASE RestoreSetkey(t)
    BY <1>9 DEF RestoreSetkey
  <1> QED BY <1>1, <1>2, <1>3, <1>4, <1>5, <1>6, <1>7, <1>8, <1>9 DEF RotatorStep

LEMMA QuietSender ==
    ASSUME OneRotator, IInv, QuietInv, Undisturbed,
           NEW t \in Thread, SendStep(t) \/ SendBegin(t), t \notin Setter
    PROVE  (RotationInv /\ LabelInv /\ LabelAtMostOneAhead)'
  <1> RotationInv /\ LabelInv /\ LabelAtMostOneAhead
    BY DEF QuietInv
  <1> TypeOK /\ counter \in Int /\ num \in [Thread -> Int] /\ pc \in [Thread -> PC]
    BY RotFacts DEF IInv, TypeOK
  <1>1. /\ UNCHANGED <<global, arg, derived>>
        /\ pc[t] \in SendPath
        /\ \E l \in SendPath : pc' = [pc EXCEPT ![t] = l]
        /\ \A u \in Thread : u # t => num'[u] = num[u]
    BY SendSteps
  <1>2. mutex # t
    BY <1>1 DEF IInv, HolderInv, SendPath
  <1>3. RotationInv'
    BY <1>1, <1>2 DEF RotationInv, KeyMatchesCounterAtRest, InFlight, SendPath,
                      global, Thread
  <1>4. LabelInv'
    <2> USE DEF LabelInv, InFlight, SendPath, global, local, Goto, Thread
    <2>1. CASE SendLabel(t)
      BY <2>1 DEF SendLabel
    <2>2. CASE SendBegin(t) \/ SendCheck(t) \/ EncryptVerify(t) \/ Encrypt(t) \/ EncryptFail(t)
      BY <2>2 DEF SendBegin, SendCheck, EncryptVerify, Encrypt, EncryptFail
    <2> QED BY <2>1, <2>2 DEF SendStep
  <1>5. LabelAtMostOneAhead'
    <2>1. CASE Encrypt(t)
      <3>1. /\ frame'.rot = num[t] /\ frame'.key = aead /\ aead # NoKey
            /\ num[t] \in Int
        BY <2>1 DEF Encrypt
      <3>2. SUFFICES ASSUME aead # Torn PROVE num[t] <= aead[2] + 1
        BY <3>1 DEF LabelAtMostOneAhead
      <3>3. keySet
        BY <3>1 DEF RotationInv
      <3>4. CASE \A r \in Rotator : pc[r] \in SendPath
        <4>1. aead = <<master, counter>>
          BY <3>3, <3>4 DEF RotationInv, KeyMatchesCounterAtRest, SendPath
        <4>2. num[t] <= counter + 1
          BY <2>1, <3>4 DEF Encrypt, LabelInv
        <4> QED BY <4>1, <4>2
      <3>5. CASE \E r \in Rotator : pc[r] \notin SendPath
        <4>1. PICK r \in Rotator : pc[r] \notin SendPath
          BY <3>5
        <4>2. pc[r] \in PC /\ pc[r] # "store"
          <5>1. pc[r] \in PC
            BY DEF Thread
          <5> QED BY <5>1 DEF RotationInv
        <4>3. InFlight(r)
          BY <3>1, <3>2, <4>1, <4>2 DEF RotationInv, InFlight, SendPath, PC
        <4>4. aead = <<master, counter - 1>> /\ num[t] <= counter
          BY <2>1, <4>3 DEF RotationInv, LabelInv, Encrypt
        <4> QED BY <3>1, <4>4
      <3> QED BY <3>4, <3>5
    <2>2. CASE UNCHANGED frame
      BY <1>1, <2>2 DEF LabelAtMostOneAhead, Undisturbed
    <2> QED BY <2>1, <2>2 DEF SendStep, SendBegin, SendCheck, SendLabel, EncryptVerify, EncryptFail
  <1> QED BY <1>3, <1>4, <1>5

LEMMA QuietInductive ==
    ASSUME OneRotator, IInv, QuietInv, [Next]_vars
    PROVE  QuietInv'
  <1> SUFFICES ASSUME Undisturbed'
               PROVE  (RotationInv /\ LabelInv /\ LabelAtMostOneAhead)'
    BY DEF QuietInv
  <1>1. CASE UNCHANGED vars
    BY <1>1 DEF vars, global, local, QuietInv, RotationInv, LabelInv, InFlight,
                LabelAtMostOneAhead, KeyMatchesCounterAtRest, Undisturbed
  <1>2. ASSUME NEW t \in Setter, SetterStep(t) PROVE FALSE
    <2>1. Undisturbed
      <3>1. \A u \in Setter : arg'[u] # arg[u] => arg'[u] \in Key
        <4> USE DEF IInv, TypeOK, Thread, local
        <4>1. CASE \E k \in Key : IoctlSetKey(t, k)
          BY <1>2, <4>1 DEF IoctlSetKey
        <4>2. CASE UNCHANGED arg
          BY <4>2
        <4> QED
          BY <1>2, <4>1, <4>2
          DEF SetterStep, StoreMaster, DeriveCheck, Derive, DeriveFail,
              SetKeyDeriveFailed, Install, SetKeyDone, SetKeyFailed
      <3>2. \A u \in Setter : arg'[u] = Zero
        BY DEF Undisturbed
      <3> QED BY <3>1, <3>2, CryptoAssumption DEF Undisturbed
    <2> QED BY <1>2, <2>1, Disturbs
  <1>3. ASSUME NEW t \in Rotator, RotatorStep(t)
        PROVE  (RotationInv /\ LabelInv /\ LabelAtMostOneAhead)'
    <2>1. UNCHANGED arg
      BY <1>3 DEF RotatorStep, RotateBegin, DeriveCheck, Derive, DeriveFail,
                  RotateDeriveFailed, Install, RotateDone, RotateSetkeyFailed,
                  RestoreSetkey, local
    <2>2. Undisturbed
      BY <2>1 DEF Undisturbed
    <2>3. (RotationInv /\ LabelInv)' /\ UNCHANGED frame
      BY <1>3, <2>2, QuietRotator
    <2> QED BY <2>2, <2>3 DEF LabelAtMostOneAhead, QuietInv
  <1>4. ASSUME NEW t \in Thread, SendStep(t) \/ (t \in Sender /\ SendBegin(t))
        PROVE  (RotationInv /\ LabelInv /\ LabelAtMostOneAhead)'
    <2>1. TypeOK
      BY DEF IInv
    <2>2. Undisturbed
      BY <1>4, <2>1, SendSteps DEF Undisturbed
    <2>3. CASE t \in Setter
      <3>1. pc[t] = "idle"
        BY <2>2, <2>3 DEF QuietInv, RotationInv
      <3>2. FALSE
        BY <1>4, <2>3, <3>1, CryptoAssumption
        DEF SendStep, SendCheck, SendLabel, EncryptVerify, Encrypt, EncryptFail
      <3> QED BY <3>2
    <2> QED BY <1>4, <2>2, <2>3, QuietSender
  <1> QED BY <1>1, <1>2, <1>3, <1>4 DEF Next, Step

\* With one rotation at a time and no SET_KEY, whatever fails on the way: at
\* rest the transform holds the session key the counter names.
THEOREM RotationsKeepStep ==
    ASSUME OneRotator
    PROVE  SpecAny => []RotationKeepsStep
  <1>1. QuietInv => RotationKeepsStep
    BY DEF QuietInv, RotationInv, RotationKeepsStep
  <1>2. IInv /\ QuietInv /\ [Next]_vars => (IInv /\ QuietInv)'
    BY IInvInductive, QuietInductive
  <1> QED BY <1>1, <1>2, InitIInv, QuietInit, PTL DEF SpecAny

\* Under the same conditions, whoever read the rotation number early and
\* encrypts late: the label of a frame is at most one ahead of its key.
THEOREM LabelsOneAhead ==
    ASSUME OneRotator
    PROVE  SpecAny => []LabelAtMostOneAhead
  <1>1. QuietInv => LabelAtMostOneAhead
    BY DEF QuietInv, LabelAtMostOneAhead
  <1>2. IInv /\ QuietInv /\ [Next]_vars => (IInv /\ QuietInv)'
    BY IInvInductive, QuietInductive
  <1> QED BY <1>1, <1>2, InitIInv, QuietInit, PTL DEF SpecAny

-----------------------------------------------------------------------------
\* The shipped configuration: one process sets the key, nobody rotates it.

ShippedUse == Rotator = {} /\ \A s, t \in Setter : s = t

\* Where the one SET_KEY is, and what the transform holds meanwhile.
SetterInv ==
    /\ \A s \in Setter :
         /\ pc[s] = "store" => ~keySet
         /\ pc[s] \in {"dcheck", "derive", "install", "setkey"} => keySet /\ master = arg[s]
         /\ pc[s] \in PC \ SendPath => aead = NoKey /\ num[s] = 0
         /\ pc[s] \in {"install", "setkey"} => derived[s] = <<arg[s], 0>>
         /\ pc[s] # "idle" => arg[s] \in Key
         /\ (pc[s] \in SendPath /\ keySet) => aead # NoKey
    /\ aead # NoKey => keySet /\ master \in Key /\ aead = <<master, 0>>
    /\ frame # NoFrame => aead # NoKey /\ frame.key[1] = master

ShippedInv == SetterInv /\ AcceptedKeyInForce

LEMMA ShippedInit == Init => ShippedInv
  BY DEF Init, ThreadsIdle, ShippedInv, SetterInv, AcceptedKeyInForce, SendPath, Thread, PC

LEMMA ShippedSetter ==
    ASSUME ShippedUse, IInv, ShippedInv, NEW t \in Setter, SetterStep(t)
    PROVE  ShippedInv' /\ UNCHANGED frame
  <1> t \in Thread /\ t \in Keyer /\ \A s \in Setter : s = t
    BY DEF Thread, Keyer, ShippedUse
  <1> TypeOK
    BY DEF IInv
  <1> USE CryptoAssumption
      DEF ShippedInv, SetterInv, AcceptedKeyInForce, SendPath, PC, TypeOK, Goto, global, local
  <1>1. CASE \E k \in Key : IoctlSetKey(t, k)
    BY <1>1 DEF IoctlSetKey
  <1>2. CASE StoreMaster(t)
    BY <1>2 DEF StoreMaster
  <1>3. CASE DeriveCheck(t)
    BY <1>3 DEF DeriveCheck
  <1>4. CASE Derive(t)
    BY <1>4 DEF Derive
  <1>5. CASE DeriveFail(t)
    BY <1>5 DEF DeriveFail
  <1>6. CASE SetKeyDeriveFailed(t)
    BY <1>6 DEF SetKeyDeriveFailed, Wipe
  <1>7. CASE Install(t)
    BY <1>7 DEF Install, Acquire
  <1>8. CASE SetKeyDone(t)
    <2>1. session = <<arg[t], 0>> /\ session \in SessionKey
      BY <1>8, InstallerFacts DEF SetKeyDone
    <2>2. session # NoKey
      BY <2>1
    <2> QED BY <1>8, <2>1, <2>2 DEF SetKeyDone
  <1>9. CASE SetKeyFailed(t)
    BY <1>9 DEF SetKeyFailed, Wipe
  <1> QED BY <1>1, <1>2, <1>3, <1>4, <1>5, <1>6, <1>7, <1>8, <1>9 DEF SetterStep

\* What a frame is encrypted under, in the shipped configuration.
LEMMA ShippedSender ==
    ASSUME ShippedUse, IInv, ShippedInv,
           NEW t \in Thread, SendStep(t) \/ (t \in Sender /\ SendBegin(t))
    PROVE  /\ ShippedInv'
           /\ frame' # frame => aead # NoKey /\ frame'.key = aead
  <1> TypeOK
    BY DEF IInv
  <1> USE CryptoAssumption
      DEF ShippedInv, SetterInv, AcceptedKeyInForce, SendPath, PC, TypeOK, Goto,
          global, local, Thread
  <1>1. CASE t \in Sender /\ SendBegin(t)
    BY <1>1 DEF SendBegin
  <1>2. CASE SendCheck(t)
    BY <1>2 DEF SendCheck
  <1>3. CASE SendLabel(t)
    BY <1>3 DEF SendLabel
  <1>4. CASE EncryptVerify(t)
    BY <1>4 DEF EncryptVerify
  <1>5. CASE Encrypt(t)
    BY <1>5 DEF Encrypt
  <1>6. CASE EncryptFail(t)
    BY <1>6 DEF EncryptFail
  <1> QED BY <1>1, <1>2, <1>3, <1>4, <1>5, <1>6 DEF SendStep

\* A step of the shipped configuration keeps the invariant and the promise.
LEMMA ShippedStep ==
    ASSUME ShippedUse, IInv, ShippedInv, [Next]_vars
    PROVE  /\ ShippedInv'
           /\ frame' # frame => aead # NoKey /\ frame'.key = aead
  <1>1. CASE UNCHANGED vars
    BY <1>1 DEF vars, global, local, ShippedInv, SetterInv, AcceptedKeyInForce
  <1>2. ASSUME NEW t \in Setter, SetterStep(t) PROVE ShippedInv' /\ UNCHANGED frame
    BY <1>2, ShippedSetter
  <1>3. Rotator = {}
    BY DEF ShippedUse
  <1> QED BY <1>1, <1>2, <1>3, ShippedSender DEF Next, Step

\* With one setter and no rotator: when SET_KEY returns success, its key is the
\* one in force.  With two setters it need not be.
THEOREM AcceptedKeyStays ==
    ASSUME ShippedUse
    PROVE  Spec => []AcceptedKeyInForce
  <1>1. IInv /\ ShippedInv /\ [Next]_vars => (IInv /\ ShippedInv)'
    BY IInvInductive, ShippedStep
  <1>2. ShippedInv => AcceptedKeyInForce
    BY DEF ShippedInv
  <1> QED BY <1>1, <1>2, InitIInv, ShippedInit, PTL DEF Spec

\* No frame is encrypted under a half-written key schedule or a wiped key, and
\* all frames descend from the same master key.
THEOREM FramesShareTheMaster ==
    ASSUME ShippedUse
    PROVE  Spec => OneMaster
  <1>1. IInv /\ ShippedInv /\ [Next]_vars => (IInv /\ ShippedInv)'
    BY IInvInductive, ShippedStep
  <1>2. IInv /\ ShippedInv /\ [Next]_vars =>
          [frame' # frame =>
             /\ frame'.key # Torn /\ frame'.key[1] \in Key
             /\ frame # NoFrame => frame'.key[1] = frame.key[1]]_vars
    <2> SUFFICES ASSUME IInv, ShippedInv, [Next]_vars, frame' # frame
                 PROVE  /\ frame'.key # Torn /\ frame'.key[1] \in Key
                        /\ frame # NoFrame => frame'.key[1] = frame.key[1]
      OBVIOUS
    <2>1. aead # NoKey /\ frame'.key = aead
      BY ShippedStep
    <2>2. aead = <<master, 0>> /\ master \in Key
      BY <2>1 DEF ShippedInv, SetterInv
    <2>3. aead \in SessionKey
      BY <2>2, RotFacts
    <2> QED BY <2>1, <2>2, <2>3, CryptoAssumption DEF ShippedInv, SetterInv
  <1> QED BY <1>1, <1>2, InitIInv, ShippedInit, PTL DEF Spec, OneMaster
=============================================================================
