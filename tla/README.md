# Photon Ring: TLA+ models and proofs

Photon Ring (`src/lksm/`) is a Linux kernel module that watches for rootkit
behaviour, an agent that carries its encrypted events over TLS, and a Python
server that decrypts and indexes them. This directory holds the specification
of its core: TLA+ modules translated from the C code, TLC configurations, and
theorems checked by TLAPS. `PROJECT.json` is the index: which definition models
which lines, which run checks what, which hazard each property is for.

Run a model with `tlc -workers 2 -config Events.cfg EventManager` (the module of
each configuration is in the table of runs below), a proof with
`tlapm LifecycleProofs.tla`.

## 1. The system

```
 detector hooks --photon_log_event--> per-CPU event_buffer
       (any context)                        | flush_all_buffers (same caller)
                                            v
                            photon_send_encrypted_event
                              has key? label, encrypt  <-- crypto.c key state
                                            | ring_buf_push, wake_up
                                            v
 insmod/rmmod --> main.c             g_ring (256 slots) --read()--> photon_agent
                                            ^                          | TLS
                                   ioctl SET_KEY <--- master key ---  server.py --> Elasticsearch
 printk --> kernel log --> dmesg_reader.py --> JSONL file, Elasticsearch
```

| Component | State it keeps | Operations | Talks to | Modelled in |
|---|---|---|---|---|
| rings (`comms/cdev_ch.c:39-130`, `comms/event_manager.c:18-132`) | slots, head, tail, dropped | init, push, pop with wipe | called under a spinlock | `RingBuffer`, `BoundedQueue` |
| event manager (`comms/event_manager.c`) | sequence counter, one ring per CPU, statistics | `photon_log_event`, enqueue, flush, heartbeat, init, exit | detectors call it; it calls the send path | `EventManager`; init and exit in `ModuleLifecycle` |
| character device (`comms/cdev_ch.c`) | `g_ring`, `g_is_open`, staging buffer, `g_shutting_down` | open, release, read, ioctl, send, exit | wakes readers; ioctl calls the crypto layer | `CdevChannel`; ioctl in `CryptoLayer` |
| crypto layer (`comms/crypto.c`) | master key, `g_key_set`, rotation counter, session key, AEAD transform, mutex | set key, rotate, derive, encrypt, decrypt | three kinds of concurrent callers | `CryptoLayer` |
| load and unload (`main.c`) | `active_detectors`, the table | `photon_ring_init`, `photon_ring_exit` | event manager, then detectors | `ModuleLifecycle` |
| 20 detectors (`modules/*.c`) | registered hooks, flags or counts, shared kallsyms address; taint baseline, work items, rate limiters, probe instances | init, exit, hook bodies, periodic checks | hooks call `photon_log_event` or `printk` | init and exit: `Detectors`; bodies with state: `TaintMonitor`, `ProbeWatch`, `ProcWatch`, `OpenWatch`, together in `DetectorBodies`; the others: `DetectorLines` |
| agent (`photon_agent.c`) | session, device fd, `g_running` | connect, key exchange, inject, relay, reconnect | device, server | `AgentSession` |
| server (`python_tools/server.py`) | key cache, counters, writer | accept, handshake, receive, parse, decrypt, index | agent, Elasticsearch | sessions and keys in `AgentSession`, the receiving side in `ServerFrames` |
| dmesg daemon (`python_tools/main.py`, `core/`, `output/`) | `_seen`, `_seq`, `enabled`; the file and the index survive it | start, poll, write, index, end | kernel log, outputs | `DmesgDaemon`; with the detectors and the log in `DmesgPath` |

What is hard about it:

* `photon_log_event` runs in any context on any CPU and flushes *every* CPU's
  ring, popping under the lock and sending without it. No timer or worker stands
  behind the rings.
* `g_key_set` and `g_rotation_counter` are read without the mutex that guards
  the keys, and encryption takes a different lock than re-keying.
* Sleeping and waking readers race two producers, signals and the shutdown. The
  device is usable while the module is still loading, and loading may fail.
* Loading acquires seven resources and then up to three or four hooks for each
  of nine detectors; each acquisition may fail and has its own undo.
* Two work items queue themselves again while the exit function wants them gone.
* Hooks read the task list and the file system one after the other, keep data in
  instances that are reused, look at a batch only up to a cap, and share rate
  limits.
* Agents and servers come and go independently of the kernel's key, which is set
  once; a frame that was read is in nobody's buffer but the agent's.
* The server's handlers share one bounded key cache and must stay in step with a
  byte stream that contains frames they reject.
* The daemon re-reads the whole kernel log at every poll and keeps what it has
  read in memory only; it can die between reading, writing and indexing.

What makes each part correct: a ring is a FIFO that hands out only what was
pushed; the event manager leaves no event behind and accounts for each of them;
the device delivers in order, to one reader process, and never sleeps over a
frame; the server gets each frame at most once, in order, can decrypt it, and
gives each the verdict it deserves whatever came before; a frame's label names
its key and SET_KEY happens once; no hook and no work item outlives the module;
a detector reports what its lists name, once and about the right call; and the
daemon writes every line it marks as seen, with the documented severity.

## 2. The modules

**RingBuffer** models both rings: slots, `head`, `tail`, and the modular
arithmetic as written (`(head + 1) % Capacity = tail` is full). Operations are
single steps because the code holds the spinlock throughout. `WipeOnPop`
distinguishes the frame ring, which zeroes a slot after reading, from the event
rings, which do not. `dropped` is a `u32`, so it counts modulo `DropMod`.
`RingBuffer` refines **BoundedQueue**, a FIFO with `Capacity - 1` places; the
other modules use such queues (`BufBound`, `RingBound` are the sizes minus one).

**EventManager** has one process per caller of `photon_log_event`. An event is
its sequence number. The steps of a caller are those another caller can come
between: number the event, enqueue (with one flush and one retry when the ring
is full), then for each CPU pop, test for a key, encrypt, push, count. The
ioctl that sets the key appears with its intermediate state (`"pending"`:
`g_key_set` is true, the transform has no key) and its heartbeat. `fate` is a
history variable: how an event ended. Which CPU a caller runs on is chosen
freely at each enqueue.

**CdevChannel** has producer contexts, user threads grouped in processes, and
the module's own life. `read()` is split where the code can be overtaken: the
wait condition, going to sleep, waking, pop into the static staging buffer
under the lock, copy to user space after it. `cdev_channel_exit` is two steps
(announce and wake; free). rmmod reaches it only with no file open
(`fops.owner`); the error path of `photon_ring_init` reaches it always.
Frames are numbered in push order.

**CryptoLayer** models the key state. A session key is the pair of master key
and rotation number: HKDF is taken to be injective. Taking `crypto_mutex` for a
few assignments is one step with the guard that nobody holds it; the stretch
from `memcpy(g_session_key)` to the end of `crypto_aead_setkey` is two steps
with the mutex held, and since encryption takes another lock, a frame may be
encrypted while the transform is half re-keyed (`Torn`). A transform that never
had a key refuses (`NoKey`). `photon_rotate_key` has no caller in the
repository; `Rotator` is empty in the run of the module as shipped, and the
runs with rotators show what the exported function does.

**Detectors** is data: the shape of each detector's init and exit function (how
many hooks; what a missing target or a refused registration does; the minimum
init insists on; whether exit goes by all hooks, flags or a count).
**ModuleLifecycle** interprets a table of them: `event_manager_init` resource by
resource, the detectors hook by hook, every failure, the rollback of
`photon_ring_init` and the loop of `photon_ring_exit`. A reload is part of the
model. `Regular` singles out the detectors that remember which hooks they
installed: all but `hiding_stat` and `hiding_directory`.

**AgentSession** composes agents, the device and key as the agent sees them, TLS
sessions and server processes. Each session is a stream of messages that its
handler thread reads; when the handler ends, because the server stops, the
connection is reset, or the agent has closed, the rest of the stream is gone. A
send into such a session may succeed, fail, or kill the agent: SIGPIPE is not
handled. `read()` is split into entering, sleeping and returning, because a
signal interrupts only a sleeping call. A failed connection attempt changes
nothing and is a stuttering step. Master keys are numbered by the server process
that generated them; `keyfile` says whether `--keyfile` and `--save-key` name the
same file.

**ServerFrames** models the receiving side of `server.py`. A session is a stream
of bytes: the frames that were sent with the offset of each, and the position of
the handler. Read at the beginning of a frame, four bytes are its length; read
anywhere else they may be anything, which is how a skipped prefix without its
body shows. A handler's iteration is split where other handlers can come between
(prefix, body, key, decryption, document), the shared `SessionKeyCache` is one
step because its lock is held throughout. The accepting thread performs TLS
handshakes itself; a `ConnectionResetError` there is not an `SSLError` and ends
the server.

**DetectorLines** gives, for the detectors whose hooks keep no state, the lines a
hooked call makes them print: guards, lists and early returns of each handler.
A line has a kind, named by the text that tells it from others (a caller in a
module makes another kind), and its names are quotable or not. All detectors of the
source are covered, also those that `main.c` keeps commented out. `Call` is the
set of all hooked calls, described by what the handlers ask about them.

**TaintMonitor** is `reset_tainted_detector.c`: the taint baseline, two
self-requeueing work items (`pending`, `running`, `ending`), the kthread hook and
the four steps of the exit function, with `cancel_delayed_work_sync` split into
its beginning and its return. **ProbeWatch** follows a probe registration through
the hooks it passes: the kernel's `register_kretprobe` and `register_kprobes`
call `register_kprobe` for each probe, so the first hook sees them with the
kernel as the caller. **ProcWatch** has the two reads of `analyze_stat_path` as
two steps and the four rate limiters. **OpenWatch** has the pool of return-probe
instances and the data each keeps. **DetectorBodies** puts the four together; they
share no state, so a behaviour follows one of them (`family`).

**KernelLog** is the log of the kernel (external): bounded, stamped, cleared by
syslog type 5. **DmesgDaemon** is `run_daemon` with reader, registry and the two
writers: poll, append to the file, index, and an end at any point in which a
batch may be half written, in the middle of a line too (`torn`). The batch of a poll is described by the positions in
the log that are new (`Fresh`), taken in ascending order (`Nth`). **DmesgPath** composes log, `DetectorLines` and daemon.

**AtMostOnce** is an abstract specification: items are produced, may be lost at
any time, and are delivered at most once and never after they were lost. Each
stage on the way of an event implements it: `EventManager` (produced when
numbered, delivered when read from the frame ring), `CdevChannel` (from the push
to the `read()` that returns the frame) and `AgentSession` (from the push to the
server's log; a frame is on its way in the ring, in an agent's buffer and in a
stream that is still read).

`MCCdevChannel`, `MCModuleLifecycle`, `MCServerFrames` and `MCDmesgPath` supply
constants for TLC. Operators
whose names carry a suffix (`Enqueue_SkipFlush`, `Install_NoLock`, ...) are
mutants: each changes an action the way a plausible mistake would, and under it
the property paired with it in `PROJECT.json` fails.

## 3. The runs

| Run | Module, configuration | Checks | Distinct states |
|---|---|---|---|
| ring | RingBuffer, Ring | `DeadSlotsAreWiped`; `ImplementsBoundedQueue` (refinement) | 2.6 k |
| events | EventManager, Events | `NoStrandedEvent`; `ExactlyOnePlace`; `StatsAddUp`; `EventuallyOutOfBuffers` | 167 k |
| cdev | MCCdevChannel, Cdev | `OnlyHolderReads`; `InPushOrder`; `NoLostWakeup`; `SleeperWakes` | 92 k |
| crypto | CryptoLayer, Crypto | `OneMaster`; `CallsReturn` | 4 k |
| crypto_rotate | CryptoLayer, CryptoRotate | `InstallExclusive`; `RotationKeepsStep`; `LabelAtMostOneAhead`; `CounterDebt` | 374 k |
| agent | AgentSession, Agent | `DeviceHasOneUser`; `NoFrameTwice`; `LoggedFramesDecrypt`; `ImplementsAtMostOnce` (refinement); `RelayDrains`; `SignalEndsAgent` | 303 k |
| lifecycle | MCModuleLifecycle, Lifecycle | `NothingOutlivesModule`; `HooksNeedManager`; `LoadedMeansWatching` | 1.0 M |
| server | MCServerFrames, Server | `VerdictPerFrame`; `CacheSound`; `SessionDrains` | 563 k |
| hooks | DetectorBodies, Hooks | `NoWorkAfterUnload`; `NoRepeatedAlert`; `TamperingIsNoticed`; `ReportsFollowProbes`; `HiddenIsReported`; `CriticalHasCause`; `OpensAreReported` | 560 k |
| dmesg | MCDmesgPath, Dmesg | `OncePerRun`; `SeenIsWritten`; `OneEntryPerTear`; `SeverityFallback`; `CaughtUp` | 1.7 M |

Every module has a type invariant. It is, as far as a proof needs it, part of the
inductive invariant there, documents the state and can be added to a
configuration. `CryptoLayer`'s, where the range of the rotation counter is in
question, is a theorem of its own (`Types`).

Two more runs state what a comment says and end in a counterexample:

| Run | The claim | What the code does |
|---|---|---|
| cdev_exit_race | `cdev_ch.c:447` woken readers see the shutdown "and exit" | when loading fails, the ring is freed under a reader that has not left yet |
| server_layout | `server.py:10` "Index every decrypted event into Elasticsearch" | the server unpacks 538 bytes, the kernel sends 306: every decrypted event is refused |

Three further configurations, which are not in the list of runs, reproduce other
disagreements of this kind (each ends in a counterexample too):

| Configuration (module) | The claim | What the code does |
|---|---|---|
| CryptoTwoSetters (`CryptoLayer`) | `include/cdev_ch.h:27` SET_KEY "returns -EEXIST  if the key has already been set (one-time operation)" (`AcceptedKeyInForce`) | two threads that share the open file both pass the unlocked test of `cdev_ch.c:259`, both are told success, and the key of the first is replaced |
| CryptoRestore (`CryptoLayer`, with fairness) | `crypto.c:354` "try to restore previous key" (`RestoreReturns`) | `crypto.c:356` derives the key with `crypto_mutex` held, and the derivation takes it: the thread waits for itself for ever (also the theorem `RestoreWaitsForItself`) |
| DmesgSeverity (`MCDmesgPath`) | `es_payload_structure.md:84` "`lkrg_bypass_attempt`" is "`high`" (`SeverityDocumented`) | a caller in a module is printed as "symbol [module]", which `dmesg_reader.py:95` does not match: the alert is written as info |

What some of the properties say, and where they stop:

* `VerdictPerFrame`: a bad frame costs only itself, except that a length above
  65536 makes the server skip the prefix and not the body, so what follows is
  garbage until the session ends. The property is stated for sessions without
  such a prefix.
* `ReportsFollowProbes` has three parts. `WatchedIsSeen` covers the probes past
  the 64 of a batch, because the hook of the inner `register_kprobe` sees them;
  `AnonymousIsSeen` holds up to the cap only; `NoBorrowedFlags` keeps the reports
  of a batch apart.
* `OpensAreReported`: a report is about the call it names (`ReportIsOwn`), and a
  sensitive file that was opened goes unreported only when all instances were in
  use or its path did not fit the 512-byte buffer, so that `d_path` failed
  (`UnreportedHasReason`).
* `CriticalHasCause` admits paths *below* `/proc/<pid>`: any such path that is
  missing, or closed to the caller, is reported as a hidden process.
* `CounterDebt`: a SET_KEY resets the rotation counter under rotations that have
  incremented it and will take that back if they fail, so it may fall below zero;
  the property bounds by how much, and says that no rotation takes its increment
  back twice.
* `RotationKeepsStep` says nothing about a rotation whose setkey failed, because its
  thread hangs in the restore (see above); the failing derivation is covered.
* `LoggedFramesDecrypt` exempts a server restarted without its key file,
  `SignalEndsAgent` an agent that was past its loop test when the signal came, and
  `TamperingIsNoticed` bits that were set after the module was loaded.
* `OneEntryPerTear`: a daemon that dies while it writes leaves half a line in the
  file. Nothing ends that line, so the next run appends its first entry to it, and
  neither can be read; the property says that this is all.
* `SeverityFallback` compares with the table of `es_payload_structure.md`. A line
  gets another severity than its row if its caller is in a module
  (`CallerInModule`), if the text is not the one the reader expects (`OtherText`),
  or if a name in it is empty or contains the quote (`clean` is FALSE). It is then
  high if it says SUSPICIOUS, and info if it does not: the alerts `pid_hidden`,
  `file_open` and `lkrg` do not.

Bounds, and why they suffice (the theorems of section 4 hold without them):

* Ring: 4 slots, 3 frames, drop counter modulo 3; head, tail and the counter
  wrap, full and empty are reached at every position.
* Events: 2 callers, 2 CPUs, 3 events, rings that hold one element. Two callers
  give every overtaking between pop and push; with capacity 1 the full ring, the
  flush and retry, and the second refusal all occur.
* Cdev: 2 processes of one thread, 2 producers, 3 pushes, a ring of 2: two
  pushes before one wakeup, a push that finds the ring full, a pop that finds
  it emptied. `results` is a history, bounded by `MaxPush`.
* Crypto: one setter and 3 senders (shipped use); 1 setter, 1 rotator, 1 sender
  and 2 rotations (the races between the two writers). `MaxRot` bounds
  `RotateBegin`. With more than one rotator the counter can fall below zero by
  at most their number, which `Rot` allows for.
* Agent: 2 agents of which one injects keys, 2 frames, a frame ring of 1, 2
  sessions, 2 server processes: a reconnect, a restart between two sessions, two
  agents competing for the device, a dropped frame. Keys and frames are bounded
  by the number of server processes and `MaxFrame`.
* Lifecycle: the real table, unbounded except that a resource fails as a whole.
* Server: 2 sessions, 2 frames in the open ones, 2 rotations over a cache of one
  entry: every look-up of the other rotation evicts. One frame kind for each
  branch of `handle_agent`; sizes are scaled down so that garbage lengths can be
  enumerated. `server_layout` has the real sizes.
* Hooks: 2 taint bits (one cleared, one set at the same time); a cap of 2 and
  batches of up to 3 probes; 2 threads, 1 process and a burst of 2; 2 tasks and
  1 instance, so that the pool is empty and an instance is reused; a path that is
  listed, one below a home directory that is watched and one that is not.
* Dmesg: a log of 2 lines, 3 lines printed, 2 times, 2 starts of the daemon: a
  line is overwritten before it is read, two lines bear the same time, the
  second run meets lines of the first. `MCCalls` has a call for each severity and
  for each kind of mismatch between printer and reader, and every line is printed
  with quotable and with unquotable names.

Deadlock is checked in the ring, crypto and lifecycle runs. It is off for the
others, which end when the bounds on events, pushes, sessions, frames or lines are
used up, or the module or daemon is gone, and nobody has anything left to do.

Fairness: kernel code that was entered runs on (`WF` on a caller's next step,
on the wakeup after a push, on a runnable reader, on an agent, on a handler
thread of the server, on a queued work item, on the daemon's loop); waiters of `crypto_mutex`
are served in order, so `SF` on a thread inside a crypto call. Nothing is
assumed of what starts a call: no detector must fire, nobody must read, load,
rotate, set a key or start an agent, a server or the daemon, no connection need
succeed, and the server's accepting thread may wait for ever in a handshake.

`InPushOrder` is checked where the code supports it, with single-threaded
reader processes: it includes that a read returns the frame it popped.

## 4. The proofs

All 29 invariants the runs check, the action property `OneMaster` and the
refinements `ImplementsBoundedQueue` and `ImplementsAtMostOnce` are theorems, for
every value of the constants; so are the refinements of `AtMostOnce` by
`EventManager` and `CdevChannel`, the type invariants of `RingBuffer`,
`EventManager` and `CryptoLayer`, and five more facts (`LiveSlotsCorrect`,
`IdleMeansDrained`, `RegularExitReversesInit`, `RestoreWaitsForItself`,
`AcceptedKeyStays`).

Assumptions about the constants are named and stand in the module that declares
them; TLC evaluates them on every run. They say that sizes are natural numbers
(positive where the code divides by them or indexes with them), that sets which
name different things are disjoint, and that the distinguished values
(`Nobody`, `NoKey`, `Torn`, `"listen"`, ...) are none of the things they
stand beside; `CallsAssumption` of `DmesgPath` says that the calls explored are
hooked calls (`Call`). Nothing else is assumed of the environment, except in the
theorems that say so in an `ASSUME`:

| Hypothesis | Where | Why it is what the code supports |
|---|---|---|
| `OneRotator`: no two rotators | `RotationsKeepStep`, `LabelsOneAhead` | `photon_rotate_key` increments the counter and installs the key in two critical sections; two rotations that cross leave the older key in place |
| `ShippedUse`: no rotator, one setter | `AcceptedKeyStays`, `FramesShareTheMaster` | the ioctl tests for a key without a lock (section 5) |
| `SingleThreaded`: no process with two threads in `read()` | `FramesInPushOrder`, `DeviceDeliversAtMostOnce` | the staging buffer is shared and copied without the lock; the agent has one thread |
| `RegularTable`: detectors remember their hooks | `NothingOutlives`, `HooksHaveManager`, `RegularExitReversesInit` | `hiding_stat` and `hiding_directory` take a count for the identity of hooks (section 5) |

**RingBufferProofs.** `RingTypeCorrect`; `LiveSlotsCorrect` and
`ReadFramesAreWiped`, by induction over the live window
`{(tail + k) % Capacity}`; `RingIsBoundedQueue`, the refinement: a push appends
to `Contents`, a pop takes its head. The modular arithmetic is dealt with once,
in the lemmas that say what `%` does to a position at most one lap ahead and
what push and pop do to `Count`.

**EventManagerProofs.** `TypeCorrect` needs `InHand`: the event a caller is
about to enqueue or send is a real sequence number. `NoEventStranded`: an event
in CPU c's ring always has some caller that has not passed c in its walk. It is
inductive given the types: the step that fills a ring sets its caller to the
start of a walk, and a walk passes c only when c's ring is empty.
`IdleMeansDrained` follows. `EveryEventHasOnePlace` goes by `PlaceInv`, which says
without counting what the sum of five cardinalities says: every number up to the
counter is somewhere (`CoverInv`), and no two of the places hold the same one
(`CarryInv`, `BufInv`, `HoldInv`, `FrameInv`); each step moves one event from one
place to another. A flusher keeps the number of its event until the outcome is
counted, longer than the event is in its hand, which is why `Holding` and `Sending`
differ. `StatisticsAddUp` adds the equation itself (`Sums`) to `PlaceInv`: a step
that moves an event out of `UnderWay` changes one counter, and that the event was
in no other place is what makes the cardinality go down by exactly one.
`ManagerDeliversAtMostOnce` is the refinement of `AtMostOnce`. What is on its way is
defined by the places; by `PlaceInv` these are the numbered events without a
recorded end (`WayIsOpen`), and every step is then one of numbering, ending or
reading an event that had not ended.

**LifecycleProofs.** For every table of `Regular` detectors:
`NothingOutlives`, `HooksHaveManager` and `RegularExitReversesInit`. The
properties are not inductive; `IInv` adds which resources are up at each point
(`InfraInv`), which detectors may have hooks (`ScopeInv`), that the flags tell
the truth about registered hooks (`FlagInv`), and what the count says about the
detector being initialised (`CountInv`), which is what makes a too-small count
mean that nothing is left behind. The hypothesis is evaluated on the tables of
`main.c` by the assumption `TablesAreRegular`, so the theorems cover the
detectors that `main.c` keeps commented out too. `LoadedWatches` needs no
hypothesis: `WatchInv` says that a detector's count never exceeds the hooks it has
in place behind the position of its loop, whichever way its exit function goes by.

**CdevProofs.** `HolderReads` and `WakeupsAreNotLost` are inductive together, given
the types and that a thread about to copy has popped something (`CopyInv`): a
thread falls asleep only over an empty ring, and the step that puts the first
frame into it leaves a producer on its way to `wake_up`. `FramesInPushOrder` adds
`OrderInv`: frame numbers grow from the results over the staging buffer to the ring.
`DeviceDeliversAtMostOnce` follows from it step by step: a copy that succeeds
returns a frame that is then neither in the ring nor with another thread.

**CryptoProofs.** `Types` and `OneInstallerAtATime`, for any number of threads and
from both initial states: `HolderInv` says at which points a thread may hold
`crypto_mutex`, `DerivedInv` that such a thread has a derived key, and `CounterDebt`
bounds the counter from below by the rotators that are still to finish, since each
of them takes it down at most once (`DebtIsBounded`). `RestoreWaitsForItself`: a
rotator that has come to derive a key with the mutex held is there after every
step of any thread, still holds it, and the transform is not re-keyed any more.
`RotationsKeepStep` and `LabelsOneAhead` follow from
`QuietInv`: where transform, counter and a rotator's number are relative to each
other at each point of a rotation, and how far ahead a label read early may be at
that point. `AcceptedKeyStays` and `FramesShareTheMaster` follow from `SetterInv`,
the same for the one SET_KEY.

**DetectorProofs.** A behaviour of `DetectorBodies` follows one family of hooks and
leaves the others alone, so it is one of each family (`FamiliesImplemented`); each
family then has its own invariant.
`NoWorkOutlives`: `ExitInv`, what each stage of the exit function says about the two
work items (an item being cancelled is never pending again, one whose cancellation
has returned stays idle). `AlertsAreNotRepeated`: `ToldInv`, that no reported bit is
in the baseline. `ProbesAreReported`: `StageInv`, which loop a registration is in
and how far, and the property so far in that loop. `HiddenProcessReported` and
`CriticalReportHasCause`: `CallInv`, that what a call read of the task list is true
now or explained by what happened since. `OpenReportsAreOwn`: `InstanceInv`, that an
instance in use belongs to one call and holds that call's data, although instances
are reused without being cleared.

The second half of the module is about `DmesgPath`, for every set of hooked calls,
every size of the log and any number of restarts: `LinesOncePerRun`,
`SeenLinesAreWritten` and `SeveritiesFallBack`. They hold together by `DmesgInv`. Its
heart is `SeenInv`: a poll reads the whole log, and the log is in the order of its
times (`LogInv`), so a line that is in the log and not seen is at least as young as
everything seen, whatever was overwritten or cleared in between; that makes a new
batch continue the file in order (`BatchInv`). `RestInv` says that outside a write
all that was seen is written, and that what is being indexed is in the file already,
which is what an end in the middle of a batch must not disturb (`WriteKeeps`). A
batch is an enumeration of a set of positions; that `Nth` hits every element once
and in ascending order (`NthCounts`) is the one fact about it that the proofs use.
`SeveritiesFallBack` rests on `SeverityFacts`, a comparison of the reader's
classification with the table of the document, line by line. `TearsCostOneEntry`
goes by `TornInv`: a half line at the end of the file was left by an earlier run, as
long as this one has written nothing, and the number of the next entry is then 0.

**AgentProofs.** `DeviceIsExclusive`, `LogsDecrypt` and `FramesAreNotRepeated`, for any
number of agents, sessions, frames and server processes. `PathInv` orders the whole
path: frame numbers grow from the log over the streams and the agents' hands to the
ring, so that no frame can be in two places. `KeyInv` and `ServerInv` tie every key
in use to a server process so far, and handlers to the present one.
`SessionsDeliverAtMostOnce` is the refinement of `AtMostOnce`: a step that moves
a frame along the path, or loses some, leaves nothing on its way that was not
(`Loss`); the one that logs a frame takes it out of all places at once, because
by `PathInv` it was in the one stream only.

**ServerProofs.** `CacheIsSound` and `VerdictsAreDeserved`, for any number of
sessions, any frames and sizes. A handler never writes another session, so the
invariant is one per session. `StreamInv` says that frames lie in the stream one
behind the other, `HandInv` what the handler knows of the frame it is at,
`VerdictInv` that outcomes so far are deserved, and `CleanInv` that in a session
without an oversized prefix the handler is at the beginning of a frame whenever it
reads a prefix (`Boundary`), the outcomes are those of the frames before it, in
order, and frames, errors and bytes add up. Without `CleanInv` the property is not
inductive: what is read between two boundaries is not a length.

Only model-checked:

* the liveness properties (`EventuallyOutOfBuffers`, `SleeperWakes`, `CallsReturn`,
  `RelayDrains`, `SignalEndsAgent`, `SessionDrains`, `TamperingIsNoticed`,
  `CaughtUp`): fairness and ENABLED are out of the prover's reach;
* the claims of the runs and configurations that end in a counterexample are false,
  and their negation is what these show.

## 5. Not modelled

* In the agent: command line, certificates, the EIO branch of the relay (the
  module cannot be removed while the agent has the device open).
* Decoding of registers and arguments in hook bodies, the entries of the watch
  lists, the fields of event payloads, the wording of lines beyond what the
  reader's expressions tell apart. The statistics counters of the audit detectors
  only appear in a line of their own.
* The server's and the daemon's command lines, certificates and configuration
  file; the date in the name of the JSONL file; the single-event variants of the
  writers, which nothing calls.
* `photon_decrypt_event`, which nothing calls; a hash collision or a nonce
  repetition.
* Architecture macros (register access, no state), Kibana setup, the deprecated
  Flask dashboard, shell scripts: no behaviour of the system.
* Linux itself (wait queues, mutexes, ftrace, module reference counts) is
  external and modelled by the behaviour the code relies on.

Simplifications inside the modelled parts, none of which a property depends on:

* A slot of the frame ring is its data: `slot->len` is left by the wipe
  (`cdev_ch.c:125-127`) and is not in the model.
* Numbering an event and counting it in `total_events` are one step, and the
  -EINVAL of a payload that is too large is left out (`EventManager`). The heartbeat
  that SET_KEY sends is a producer like any other in `CdevChannel`; one that races a
  failing load is left out.
* A failing `crypto_aead_setauthsize` has the effects of a failing setkey and is not
  a case of its own.
* `TaintMonitor`: reading the stop flag and re-arming are one step, because
  `cancel_delayed_work_sync` also cancels what was re-armed in between.
* `ProbeWatch`: a NULL entry of a batch, which the hook skips, does not occur.
* `OpenWatch`: `d_path` of a file that was removed ends in " (deleted)"; such a path
  is one that is not listed.
* `ftrace_direct_detector`'s exit goes by `kp.addr`, which a failed registration may
  have set; unregistering such a probe only warns.
* An agent blocked in `SSL_write` (back-pressure, EINTR) is one that has not sent yet.
* A name made to look like the text of another alert is not distinguished from
  other unquotable names.
* A half line is left in the file of its day; at midnight the daemon begins another
  file, and no entry is then appended to it.

Other disagreements between code and text met while modelling, without a run:

* `cdev_ch.h:51` calls `PHOTON_RING_BUF_FRAMES` (256) the number of frames that
  can be queued; the ring holds 255 (`BoundedQueue` with `Capacity - 1`).
* `cdev_ch.c:146` "allow only one reader at a time": `g_is_open` limits open
  files; threads that share one may be in `read()` together.
* `cdev_ch.c:198-200` and `cdev_ch.h:40` describe reading header and body in two
  calls; the first call pops the whole frame and drops what does not fit.
* `photon_agent.c:13` says the agent drains the device on SIGTERM; it stops with
  frames left in the ring, and a signal between the loop's test and `read()` is
  noticed only after the next frame.
* `photon_agent.c` means to reconnect when the server goes away, but a write to
  the closed socket raises SIGPIPE, which ends it (`Sigpipe`).
* A server restarted without its key file offers a new key, the kernel answers
  `-EEXIST`, the agent goes on, and no frame can be decrypted any more
  (second disjunct of `LoggedFramesDecrypt`).
* `cdev_ch.h:44` says the label names the key of the frame; with a rotation
  under way it may be ahead (`LabelAtMostOneAhead` bounds by how much).
* `crypto.c:370` says KEY_ROTATION is encrypted with the old key; it is logged
  after the new key is in place.
* `total_dropped` counts refused attempts, so an event that succeeds on its
  retry is counted too.
* `main.c:199` "Events will be buffered until encryption is active": they are
  flushed at once and discarded, with return value 0, and counted as sent
  (`fate` is `"nokey"`).
* `event_manager.h:86` says sequence numbers allow gap detection; two flushers
  that popped consecutive events push their frames in either order.
* `hiding_stat.h:18` exit reverses init: `hiding_stat` and `hiding_directory` take
  a count of hook groups for their identity, so with an earlier group absent a
  hook stays registered (`ExitReversesInit`, proved for all other detectors).
* `es_payload_structure.md:81` promises a critical `privilege_escalation` event; the
  text `become_root_detector.c` prints is not the one the reader expects, and it
  becomes a `suspicious_probe` of severity high and an info line. With a caller in a
  module the tcp, icmp and kthread lines (73-75) become high instead of critical,
  and a name with a quote in it does the same to most lines (`SeverityFallback`).
* `kretprobe_detector.c:7-9` says that `register_kretprobe` clears the symbol name of
  the inner probe; `ProbeWatch` lets the inner hook see the symbol.
  `ReportsFollowProbes` does not depend on it, because the hook of
  `register_kretprobe` itself sees the name.
* Probes on watchlisted symbols and `ftrace_direct` alerts do not say SUSPICIOUS
  and end up as "info" on the dmesg path.
* `kprobe_detector.c:34` "ignore registrations originating from within this
  module": a return probe of the module itself is reported, because the kernel
  calls `register_kprobe` for it.
* `clear_taint_dmesg_detector.c` reports the clearing of the log before it
  happens, into the log that is then cleared; only a poll in between saves it.
* A reset during a TLS handshake ends the server (`server.py:612-616` catches
  `SSLError` and Ctrl-C only).
* `server.py:95-103` names event types that the kernel's enum numbers differently,
  and the heartbeat and kprobe payload layouts differ as well.
* `main.c:85` has a stray `*/`, the Makefile does not list the `comms/`
  objects, and `taskstats_hook_detector.c` defines the functions of the audit
  detector under the same names. The models describe the intended build.

## 6. State of the project

Every part of the system that keeps state is modelled, every safety property of a
run is a theorem, and each stage between a detector and the server is shown to
implement the abstract specification of what it promises. What could be added:

1. the composition of the three stages into one module, so that a single
   `AtMostOnce` goes from `photon_log_event` to the server's log;
2. action properties such as the order of steps in the exit functions;
3. liveness stays with TLC.
