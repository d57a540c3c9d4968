----------------------------- MODULE CryptoLayer -----------------------------
(***************************************************************************)
(* The key state of comms/crypto.c, driven by the three callers it has:    *)
(* threads inside ioctl(PHOTON_IOC_SET_KEY), threads inside                *)
(* photon_rotate_key() and threads inside photon_send_encrypted_event().   *)
(*                                                                         *)
(* A session key is <<master, rotation>>: HKDF is modelled as an injective *)
(* function of the two.  g_key_set and g_rotation_counter are read without *)
(* crypto_mutex, and crypto_aead_encrypt runs under crypto_enc_lock while  *)
(* crypto_aead_setkey runs under crypto_mutex, so the two may overlap.     *)
(***************************************************************************)
EXTENDS Integers, FiniteSets

CONSTANTS
    Setter,     \* threads that issue PHOTON_IOC_SET_KEY
    Rotator,    \* threads that call photon_rotate_key()
    Sender,     \* threads that send an event
    Key,        \* the master keys user space may supply
    Zero,       \* the content of a wiped key buffer
    NoKey,      \* the AEAD transform has no key (CRYPTO_TFM_NEED_KEY)
    Torn,       \* the AEAD transform is half way through a re-keying
    NoOne,      \* crypto_mutex is free
    NoFrame,    \* no frame has been produced yet
    MaxRot      \* bound on g_rotation_counter

Thread == Setter \cup Rotator \cup Sender

VARIABLES
    master,     \* g_master_key
    keySet,     \* g_key_set
    counter,    \* g_rotation_counter
    session,    \* g_session_key
    aead,       \* the key schedule inside g_tfm
    mutex,      \* the holder of crypto_mutex
    pc,         \* where each thread is
    arg,        \* the master key a setter copied from user space
    num,        \* rotation number a thread works for, or its frame's label
    derived,    \* derived_key / new_session_key on the thread's stack
    frame       \* the last frame handed to the ring

global == <<master, keySet, counter, session, aead, mutex>>
local == <<arg, num, derived>>
vars == <<global, pc, local, frame>>

PC == {"idle", "store", "dcheck", "derive", "dfail", "install", "setkey",
       "send", "label", "verify", "encrypt"}

\* The counter: atomic64_dec() by rotators in flight across a SET_KEY's reset
\* takes it below zero.
Rot == -Cardinality(Rotator) .. MaxRot

SessionKey == (Key \cup {Zero}) \X Rot

ASSUME CryptoAssumption ==
    /\ MaxRot \in Nat /\ IsFiniteSet(Rotator)
    /\ Setter \cap Rotator = {} /\ Setter \cap Sender = {} /\ Rotator \cap Sender = {}
    /\ Zero \notin Key /\ NoOne \notin Thread
    /\ NoKey # Torn /\ {NoKey, Torn} \cap SessionKey = {}

TypeOK ==
    /\ master \in Key \cup {Zero}
    /\ keySet \in BOOLEAN
    /\ counter \in Rot
    /\ session \in SessionKey \cup {Zero}
    /\ aead \in SessionKey \cup {NoKey, Torn}
    /\ mutex \in Thread \cup {NoOne}
    /\ pc \in [Thread -> PC]
    /\ arg \in [Thread -> Key \cup {Zero}]
    /\ num \in [Thread -> Rot]
    /\ derived \in [Thread -> SessionKey \cup {Zero}]
    /\ frame \in [rot : Rot, key : SessionKey \cup {Torn}] \cup {NoFrame}

ThreadsIdle ==
    /\ pc = [t \in Thread |-> "idle"]
    /\ arg = [t \in Thread |-> Zero]
    /\ num = [t \in Thread |-> 0]
    /\ derived = [t \in Thread |-> Zero]
    /\ mutex = NoOne
    /\ frame = NoFrame

\* The module has been loaded (photon_crypto_init) and has no key.
Init ==
    /\ ThreadsIdle
    /\ master = Zero /\ keySet = FALSE /\ counter = 0
    /\ session = Zero /\ aead = NoKey

\* SET_KEY has succeeded once and the setter has gone: the module in service.
InitInService ==
    /\ ThreadsIdle
    /\ master \in Key /\ keySet = TRUE /\ counter = 0
    /\ session = <<master, 0>> /\ aead = <<master, 0>>

Goto(t, l) == pc' = [pc EXCEPT ![t] = l]

Acquire(t) == mutex = NoOne /\ mutex' = t

-----------------------------------------------------------------------------
\* photon_derive_session_key(): an unlocked test of g_key_set, then HKDF over
\* g_master_key under crypto_mutex.  "dfail" is its error return.

DeriveCheck(t) ==
    /\ pc[t] = "dcheck"
    /\ Goto(t, IF keySet THEN "derive" ELSE "dfail")
    /\ UNCHANGED <<global, local, frame>>

Derive(t) ==
    /\ pc[t] = "derive"
    /\ mutex = NoOne
    /\ derived' = [derived EXCEPT ![t] = <<master, num[t]>>]
    /\ Goto(t, "install")
    /\ UNCHANGED <<global, arg, num, frame>>

\* hkdf_extract or hkdf_expand fails (allocation or hash error).
DeriveFail(t) ==
    /\ pc[t] = "derive"
    /\ mutex = NoOne
    /\ Goto(t, "dfail")
    /\ UNCHANGED <<global, local, frame>>

Install_NoLock(t) ==
    /\ pc[t] = "install"
    /\ mutex' = t
    /\ session' = derived[t]
    /\ aead' = IF aead = NoKey THEN NoKey ELSE Torn
    /\ Goto(t, "setkey")
    /\ UNCHANGED <<master, keySet, counter, local, frame>>

\* Both callers take crypto_mutex, copy the derived key to g_session_key and
\* call crypto_aead_setkey.  While a keyed transform is being re-keyed its key
\* schedule is neither the old key nor the new one; a transform that had no key
\* keeps refusing requests until setkey has succeeded.
Install(t) ==
    /\ pc[t] = "install"
    /\ Acquire(t)
    /\ session' = derived[t]
    /\ aead' = IF aead = NoKey THEN NoKey ELSE Torn
    /\ Goto(t, "setkey")
    /\ UNCHANGED <<master, keySet, counter, local, frame>>

-----------------------------------------------------------------------------
\* photon_cdev_ioctl(PHOTON_IOC_SET_KEY) and photon_set_encryption_key().

Wipe == master' = Zero /\ keySet' = FALSE

IoctlSetKey_NoTest(t, k) ==
    /\ pc[t] = "idle"
    /\ arg' = [arg EXCEPT ![t] = k]
    /\ num' = [num EXCEPT ![t] = 0]
    /\ Goto(t, "store")
    /\ UNCHANGED <<global, derived, frame>>

\* photon_has_key() is tested without a lock; -EEXIST leaves everything alone.
IoctlSetKey(t, k) ==
    /\ pc[t] = "idle"
    /\ ~keySet
    /\ arg' = [arg EXCEPT ![t] = k]
    /\ num' = [num EXCEPT ![t] = 0]
    /\ Goto(t, "store")
    /\ UNCHANGED <<global, derived, frame>>

\* Under crypto_mutex: the master key is stored and g_key_set becomes true,
\* before any session key exists.
StoreMaster(t) ==
    /\ pc[t] = "store"
    /\ mutex = NoOne
    /\ master' = arg[t]
    /\ keySet' = TRUE
    /\ Goto(t, "dcheck")
    /\ UNCHANGED <<counter, session, aead, mutex, local, frame>>

SetKeyDeriveFailed(t) ==
    /\ pc[t] = "dfail"
    /\ mutex = NoOne
    /\ Wipe
    /\ Goto(t, "idle")
    /\ UNCHANGED <<counter, session, aead, mutex, local, frame>>

\* setkey and setauthsize succeed (gcm(aes) accepts every 16-byte tag, so the
\* error branch of setauthsize is dead); the ioctl goes on to send a heartbeat.
SetKeyDone(t) ==
    /\ pc[t] = "setkey"
    /\ aead' = session
    /\ counter' = 0
    /\ mutex' = NoOne
    /\ derived' = [derived EXCEPT ![t] = Zero]
    /\ Goto(t, "send")
    /\ UNCHANGED <<master, keySet, session, arg, num, frame>>

SetKeyFailed_NoUnlock(t) ==
    /\ pc[t] = "setkey"
    /\ aead' = NoKey
    /\ session' = Zero
    /\ Wipe
    /\ derived' = [derived EXCEPT ![t] = Zero]
    /\ Goto(t, "idle")
    /\ UNCHANGED <<mutex, counter, arg, num, frame>>

\* The error path of setkey; that of setauthsize has the same effects.
SetKeyFailed(t) ==
    /\ pc[t] = "setkey"
    /\ aead' = NoKey
    /\ session' = Zero
    /\ Wipe
    /\ derived' = [derived EXCEPT ![t] = Zero]
    /\ mutex' = NoOne
    /\ Goto(t, "idle")
    /\ UNCHANGED <<counter, arg, num, frame>>

SetterStep(t) ==
    \/ \E k \in Key : IoctlSetKey(t, k)
    \/ StoreMaster(t)
    \/ DeriveCheck(t)
    \/ Derive(t)
    \/ DeriveFail(t)
    \/ SetKeyDeriveFailed(t)
    \/ Install(t)
    \/ SetKeyDone(t)
    \/ SetKeyFailed(t)

-----------------------------------------------------------------------------
\* photon_rotate_key().

\* The counter moves before the new key exists, and outside crypto_mutex.
RotateBegin(t) ==
    /\ pc[t] = "idle"
    /\ keySet
    /\ counter < MaxRot
    /\ counter' = counter + 1
    /\ num' = [num EXCEPT ![t] = counter + 1]
    /\ Goto(t, "dcheck")
    /\ UNCHANGED <<master, keySet, session, aead, mutex, arg, derived, frame>>

RotateDeriveFailed_KeepCounter(t) ==
    /\ pc[t] = "dfail"
    /\ Goto(t, "idle")
    /\ UNCHANGED <<global, local, frame>>

RotateDeriveFailed(t) ==
    /\ pc[t] = "dfail"
    /\ mutex # t
    /\ counter' = counter - 1
    /\ Goto(t, "idle")
    /\ UNCHANGED <<master, keySet, session, aead, mutex, local, frame>>

\* The key is active; the function goes on to log KEY_ROTATION.
RotateDone(t) ==
    /\ pc[t] = "setkey"
    /\ aead' = session
    /\ mutex' = NoOne
    /\ derived' = [derived EXCEPT ![t] = Zero]
    /\ Goto(t, "send")
    /\ UNCHANGED <<master, keySet, counter, session, arg, num, frame>>

\* setkey failed: the counter is rolled back and photon_derive_session_key()
\* is called again, with crypto_mutex still held by this thread.
RotateSetkeyFailed(t) ==
    /\ pc[t] = "setkey"
    /\ aead' = NoKey
    /\ counter' = counter - 1
    /\ num' = [num EXCEPT ![t] = counter - 1]
    /\ Goto(t, "dcheck")
    /\ UNCHANGED <<master, keySet, session, mutex, arg, derived, frame>>

RestoreSetkey_DecAgain(t) ==
    /\ pc[t] = "dfail"
    /\ mutex = t
    /\ aead' \in {session, NoKey}
    /\ counter' = counter - 1
    /\ mutex' = NoOne
    /\ derived' = [derived EXCEPT ![t] = Zero]
    /\ Goto(t, "idle")
    /\ UNCHANGED <<master, keySet, session, arg, num, frame>>

\* The nested call failed; its result is ignored and the second setkey uses
\* whatever g_session_key holds.
RestoreSetkey(t) ==
    /\ pc[t] = "dfail"
    /\ mutex = t
    /\ aead' \in {session, NoKey}
    /\ mutex' = NoOne
    /\ derived' = [derived EXCEPT ![t] = Zero]
    /\ Goto(t, "idle")
    /\ UNCHANGED <<master, keySet, counter, session, arg, num, frame>>

RotatorStep(t) ==
    \/ RotateBegin(t)
    \/ DeriveCheck(t)
    \/ Derive(t)
    \/ DeriveFail(t)
    \/ RotateDeriveFailed(t)
    \/ Install(t)
    \/ RotateDone(t)
    \/ RotateSetkeyFailed(t)
    \/ RestoreSetkey(t)

-----------------------------------------------------------------------------
\* photon_send_encrypted_event() up to the ring push, by every kind of thread.

SendBegin(t) ==
    /\ pc[t] = "idle"
    /\ Goto(t, "send")
    /\ UNCHANGED <<global, local, frame>>

\* photon_has_key(): without a key the event is dropped.
SendCheck(t) ==
    /\ pc[t] = "send"
    /\ Goto(t, IF keySet THEN "label" ELSE "idle")
    /\ UNCHANGED <<global, local, frame>>

SendLabel_Next(t) ==
    /\ pc[t] = "label"
    /\ num' = [num EXCEPT ![t] = counter + 1]
    /\ Goto(t, "verify")
    /\ UNCHANGED <<global, arg, derived, frame>>

\* enc->rotation_num = photon_get_rotation_number(), before the encryption.
SendLabel(t) ==
    /\ pc[t] = "label"
    /\ num' = [num EXCEPT ![t] = counter]
    /\ Goto(t, "verify")
    /\ UNCHANGED <<global, arg, derived, frame>>

\* verify_crypto_transform().
EncryptVerify(t) ==
    /\ pc[t] = "verify"
    /\ Goto(t, IF keySet THEN "encrypt" ELSE "idle")
    /\ UNCHANGED <<global, local, frame>>

\* crypto_aead_encrypt() under crypto_enc_lock, with whatever key schedule the
\* transform holds at that moment.
Encrypt(t) ==
    /\ pc[t] = "encrypt"
    /\ aead # NoKey
    /\ frame' = [rot |-> num[t], key |-> aead]
    /\ Goto(t, "idle")
    /\ UNCHANGED <<global, local>>

\* An allocation fails, or the transform has no key (-ENOKEY).
EncryptFail(t) ==
    /\ pc[t] = "encrypt"
    /\ Goto(t, "idle")
    /\ UNCHANGED <<global, local, frame>>

SendStep(t) ==
    \/ SendCheck(t)
    \/ SendLabel(t)
    \/ EncryptVerify(t)
    \/ Encrypt(t)
    \/ EncryptFail(t)

Step(t) ==
    \/ t \in Setter /\ SetterStep(t)
    \/ t \in Rotator /\ RotatorStep(t)
    \/ t \in Sender /\ SendBegin(t)
    \/ SendStep(t)

Next == \E t \in Thread : Step(t)

Spec == Init /\ [][Next]_vars

\* A thread inside a kernel call keeps running, and waiters of a kernel mutex
\* are served in order.  Nobody is obliged to enter a call.
Fairness == \A t \in Thread : SF_vars(pc[t] # "idle" /\ Step(t))

FairSpec == Spec /\ Fairness

\* Both kinds of initial state: a module without a key, and one in service.
SpecAny == (Init \/ InitInService) /\ [][Next]_vars

FairSpecAny == SpecAny /\ Fairness

-----------------------------------------------------------------------------
(***************************************************************************)
(* Properties.                                                             *)
(***************************************************************************)

\* Every frame is encrypted under a whole session key derived from a master key
\* user space supplied, never from a wiped buffer, and all frames descend from
\* the same master key.
OneMaster ==
    [][frame' # frame =>
         /\ frame'.key # Torn /\ frame'.key[1] \in Key
         /\ frame # NoFrame => frame'.key[1] = frame.key[1]]_vars

\* cdev_ch.h:27 "returns -EEXIST if the key has already been set (one-time
\* operation)": when a SET_KEY has succeeded with key k (the thread is about to
\* send the heartbeat), k is the master key and frames are encrypted under it.
\* The code keeps this with one setter; two that share the open file may both
\* pass the unlocked test, and the second replaces the key of the first.
AcceptedKeyInForce ==
    \A t \in Setter :
        pc[t] \in {"send", "label", "verify", "encrypt"} =>
            keySet /\ master = arg[t] /\ aead = <<arg[t], 0>>

\* While no thread is inside SET_KEY or a rotation, the transform holds exactly
\* the session key the counter names, or refuses to encrypt because no key is
\* set.
KeyMatchesCounterAtRest ==
    (\A t \in Setter \cup Rotator :
        pc[t] \in {"idle", "send", "label", "verify", "encrypt"})
      => IF keySet THEN aead = <<master, counter>> ELSE aead = NoKey

\* g_session_key is never overwritten between the moment a thread copies its
\* derived key there and the setkey that reads it, even on the path of a
\* rotation that failed and is being undone.
InstallExclusive ==
    \A t \in Setter \cup Rotator :
        (pc[t] = "setkey" \/ mutex = t) => (mutex = t /\ session = derived[t])

\* No SET_KEY has got past its test since the behaviour began: so it is, for
\* ever, in a module that starts in service.
Undisturbed == \A t \in Setter : arg[t] = Zero

\* Rotations alone, on all their failure paths, leave the transform with the
\* key the counter names.
RotationKeepsStep == Undisturbed => KeyMatchesCounterAtRest

\* With one rotator and no SET_KEY under way, a frame's label is at most one
\* rotation ahead of its key: a reader that keeps the previous session key can
\* decrypt a frame whose label was read early in a rotation.
LabelAtMostOneAhead ==
    (Undisturbed /\ frame # NoFrame /\ frame.key # Torn)
        => frame.rot <= frame.key[2] + 1

\* Rotators that have moved the counter up and may still move it down.
Pending ==
    {t \in Rotator : /\ pc[t] \in {"dcheck", "derive", "dfail", "install", "setkey"}
                     /\ mutex = t => pc[t] = "setkey"}

\* SET_KEY resets the counter under the feet of rotations in flight, which then
\* take back an increment that is gone.  The counter falls below zero by at most
\* one for each rotator that has left, never by a rotation taking its increment
\* back twice, so a rotation in flight can always be rolled back.
CounterDebt == counter >= Cardinality(Pending) - Cardinality(Rotator)

\* crypto.c:354 "try to restore previous key": a rotation whose setkey failed
\* makes its second attempt, gives crypto_mutex back and returns the error.
\* The code derives the previous key with the mutex held, which is not
\* recursive, so the thread waits for itself.
RestoreReturns ==
    \A t \in Rotator : (mutex = t /\ pc[t] = "dcheck") ~> (mutex # t /\ pc[t] = "idle")

\* Every thread inside SET_KEY, a rotation or a send eventually returns.
CallsReturn == \A t \in Thread : pc[t] # "idle" ~> pc[t] = "idle"
=============================================================================
