# Verification of the QKD microservices

TLA+ modules, TLC model checks and TLAPS proofs for the BB84 key-distribution
stack of this repository: a Key Management Entity (KME), a pool of link-layer
services (QKDL), the nodes Alice, Bob and Eve, an event bus on Redis streams and
a Celery pipeline. Paths below are relative to `src/`.

## The system

| component | state it keeps | operations | talks to |
|---|---|---|---|
| KME (`kme/main.py`, `kme/session_store.py`) | in Redis: session records with a TTL of 2 h, the active set, one lock per QKDL with a TTL of 600 s, keys with an expiry; in memory: the coroutines of `create_session`, `_init_qkdl`, `_stop_qkdl` | create, join, upload of measurements, sift data and verdict, consume, cancel | QKDL by HTTP; nodes through the event bus |
| QKDL (`qunetsim_service.py`) | registry of `NetworkSession`s, the process-wide QuNetSim `Network` singleton, a cool-down, queues of measurements | init, stop, reset, batch, receive, intercept | called by KME, workers, Bob, Eve |
| event bus (`kme/event_bus.py`) | per session a stream and one consumer group per role; per node a set of pending sessions | publish, register, pop, read, ack, reclaim | the KME writes, the nodes read |
| base node (`node/base_node.py`) | consumer threads, the asyncio loop, the node's id | discovery, `begin_listening`, dispatch, `stop_listening` | event bus, KME |
| Alice, Bob, Eve (`nodes/*/main.py`) | per-session state in memory | Alice starts sessions and dispatches the pipeline; Bob joins, receives, sifts; Eve registers as interceptor | KME, QKDL, Celery |
| pipeline (`workers/`) | Celery chord QTT×N → ST → QKT → NT | send batches, sift, estimate QBER, post the verdict | QKDL, KME |
| registry (`kme/node_registry.py`) | node records, a set per role | register, find by label | used by the KME |
| sifting (`bb84_logic.py`), optics (`optical/`) | none; drift and detector state | pure functions; photon by photon | used by workers, QKDL |

The KME is one asyncio process (`start.sh` starts no other), so its handlers
interleave only where they await: in `_init_qkdl` and `_stop_qkdl`. A QKDL
handler releases its registry lock before it awaits the executor thread that
starts or stops the network. A node has three kinds of threads: the drain of the
pending sessions, one consumer per session, and the loop that runs handlers. The
batches of a session run in parallel threads of the QKDL and share its detector,
Bob's host, the interceptor's flag and the queues of measurements.

**What is hard.** Cancellations and verdicts against a session that is still
being created; a TTL that runs out under a live session; teardowns delayed past
the session they belong to; a singleton shared by successive networks; timeouts
shorter than the work they wait for; handlers that Celery retries and tasks it
delivers twice; entries that are read, scheduled and acked in three different
places; parallel batches on shared hardware; labels that still lead to dead nodes;
nodes and the KME dying in between. `PROJECT.json` lists each of them under "hazards", at its line, with
the property that watches it.

**What makes each component correct.** KME: a live session owns its QKDL, which
comes back when it ends; a stream and its record tell one story; a key is handed out
once per activation. QKDL: one session at a time, its network up from
`session_open` to the end, nothing left behind. Event bus: in order, once, to
everyone addressed; after failures, at least once. Pipeline: a verdict for every session
that was joined, and one key on both sides. Link layer: a measurement belongs to the qubit it
names, Eve gets what she intercepts, every batch comes back. Nodes: Alice runs one
session at a time, a label leads to the newest node. Sifting: both sides drop the
same positions, errors come from disturbances only, a key is never empty.

## The modules

| module | models | correspondence |
|---|---|---|
| `KmeSessions` | the KME | one action per handler or per stretch between two awaits; `status`, `qkdlOf`, `keyStatus`, `active` are the record and the set, `lock` the Redis locks, `create`/`attempts`/`stops` the coroutines, `events` the streams; `expired`, `handed`, `restarts` are history and bounds |
| `QkdlLease` | what the pool promises | a QKDL serves one session at a time, a session is served once, in one stretch |
| `QkdlService` | init and stop of the QKDL | the check under the lock, the executor's work and the insertion are separate actions; one object per init call |
| `QkdlPool` | KME and QKDLs together | extends `KmeSessions` and instantiates `QkdlService`; replies come from the QKDL, calls are in flight in `asked` and `stopReqs`, tasks of `_stop_qkdl` that have not posted yet in `unposted`; `dropped` remembers those that a restart lost before they did |
| `RoleDelivery` | what the bus promises | every role handles what is addressed to it, in order, once |
| `EventBus` | bus, discovery, dispatch | `cursor` and `pel` are the consumer group, `thread`, `batch`, `stop` the consumer thread, `loop` and `handled` the asyncio loop, `joins` the join requests Bob has on their way |
| `Pipeline` | one session from `session_open` to the verdict | `qtt`, `tries` are the batches' Celery tasks, `jobs` and `queue` the QKDL's executor and measurement queue, `bob`, `got`, `bobKey` Bob's loop and key, `chord` and `tasks` the callback and the messages of the sifting queue, `saved` Alice's state in Redis, `failed` the tasks that an exception has ended, `stored`, `sift`, `key` what the KME keeps; events come per role and in order, as `RoleDelivery` promises |
| `Link` | one session on the QKDL while its batches are sent, and Eve | `at`, `next`, `took` are the executor's threads in `_process_batch_sync`, `inbox` is Bob's host, `lastClick` the detector, `flag` and `eveQueue` the interceptor's state, `register`, `collect`, `eveLog` Eve's side |
| `Sifting` | what becomes of the bits | a photon's state, what drift, loss, dark counts and Eve do to it; ST, QKT and Bob's sift as operators on the resulting sequences; the verdict and the logged analysis |
| `Nodes` | registry, hand-over, Alice's `/start` | `records` is the set of a label's records, oldest first, `self` the id a process runs under, `pending` the sets the nodes drain, `popped` what a drain has taken and not listened to yet, `missed` what it lost, `call`, `busy` Alice's requests and `_alice_state` |
| `Sorting` | `sorted()` of Python | an element's place is the number of those that come before it, by value and then by index: the sort is stable |
| `KmeSessionsProofs`, `QkdlPoolProofs`, `EventBusProofs`, `PipelineProofs`, `SiftingProofs`, `SortingProofs`, `LinkProofs`, `NodesProofs` | proofs | about the modules they extend |
| `MC*` | instances for TLC | symmetry, role sets, seeds, floors and drifts |

Operators named `...Slip` are wrong versions of the definition next to them (a
dropped guard, a missing ack). Nothing uses them; the mutation runs put them in
its place to show that a property depends on that line of the code.

How the modules fit together: `KmeSessions` is composed with `QkdlService` in
`QkdlPool`. `EventBus` shows that a session's events arrive as `RoleDelivery` says
when no Redis command fails, and `Pipeline` takes that as its input. `Pipeline`
keeps which qubits arrive and in which order, and leaves what they carry to
`Sifting` and how the threads of the link layer get in each other's way to `Link`.
`Nodes` ends where a session is handed over, and `KmeSessions` begins there.

### Abstractions

* Session ids are drawn from a finite set, without reuse (uuid4). Symmetry is
  used only in runs without liveness and without a distinguished session.
* In `KmeSessions` and `EventBus` a verdict is an input, without a key, and may be
  followed by any other: `publish_key` looks at neither status nor stream, and a
  second run of ST may post another result. What such a run does to the key is in
  `Pipeline`, where `KeyStands` says exactly when it changes.
* `Pipeline` leaves bits out, and of a basis only whether it agrees with Alice's:
  a sifted list is the list of its qubit ids, and the QBER decision is a choice.
  The sample is a function of seed and length, as Python's seeded generator is;
  which function does not matter to the properties, only that both sides use the
  same. ST's deadline is taken to fall after the end of Bob's receive loop: both
  last equally long and ST starts later (warm-up and batches come first).
  `measurements_ready` has no handler and is left out.
* A task of the sifting queue may be delivered again after any of its effects: its
  worker died before the ack (`task_acks_late`), and every session's worker serves
  that queue. A batch task of a dead worker is not: its queue belongs to the
  session, whose only worker is gone. That this worker dies by itself while the
  session goes on is not modelled: its batches would wait for ever, as after a batch
  that failed for good.
* What is not tried again may raise: the dispatch of the chord, ST when it loads
  Alice's state, QKT when it deletes it, the drain of a node, Bob's join. Each is an
  action of its own (`DispatchRaises`, `AssembleRaises`, `DeriveRaises`;
  `PopRaises`, `JoinFails`; `DrainRaises`) and counts as a fault.
* `Link` leaves bits and bases out. A receiver's 5 s are long next to the work of
  the other threads, so it gives up only when nothing is at Bob's host and nobody
  is about to send. Threads interleave between the lines that read or write what
  they share; each read and each write is one step, as under the interpreter's
  lock. The choice among detector events is free, so no probability appears.
* `Sifting` measures angles in units of pi/16, so that a drifted state still has a
  nearest state, and compares rates in percent. Probabilities become choices:
  whatever may happen to a photon may happen to each. Drifts of exactly pi/8 are
  excluded, since there floating-point rounding decides.
* In `Nodes` a record stays in its place when another is written, and runs out in
  the order of registration: the TTL is the same for all and set once.
* `create_session` has a branch for losing the lock between `pick_free_qkdl` and
  `SET NX`: no await lies between them, so one process never takes it, and it is
  not modelled. `init_network` purges dead objects: none is ever registered,
  because `start` ends before the insertion and `stop` begins after the removal.
* Times appear only where their order is certain: the 600 s lock outlives the
  five attempts of `_init_qkdl` (under 160 s), the 2 h record outlives the lock
  and the key, `INIT_RETRIES` bounds the attempts.
* A node that restarts gets a new `node_id` and never hears of the old session,
  so in `EventBus` a crash is final; `Nodes` has the restart. A stream of a session
  holds a handful of entries: trimming at 200 and its TTL are left out.
  `stop_listening` waits up to 3 s for the thread; the loop goes on either way, and
  that wait is left out.
* `QkdlPool` states its assumptions on time as constants: `MayEndBeforeStart`
  (a session may end while its network still starts), `MayInitTimeOut`,
  `MayStopTimeOut`, `MayStopTwice` (a session may be torn down again before its
  first stop was answered), `MayRunOut`. A run says which of them it allows, and a
  theorem which of them it excludes, since the properties differ in which they
  survive.

## The runs

| run | instance | shows |
|---|---|---|
| `Kme` | 2 sessions (1 intercepted) on 1 QKDL, 2 attempts, 4 events, 1 teardown, 1 restart, fair | types; a live session holds its lock; refinement of `QkdlLease`; streams and records agree; active set, hand-outs of keys; a session that is over frees its QKDL; no lock is held for ever |
| `PoolCalm` | 2 sessions on 1 QKDL, replies in time, no overlapping teardowns, a restart, fair | a served network stays up; a session that is over leaves none behind; both unless the restart loses a stop before it is posted |
| `PoolStrained` | late inits and stops, overrun locks; sessions end by cancellation | one session per instance all the same; `session_open` implies a network until the end; a repeated init is harmless |
| `BusOrder` | 3 roles, 5 entries and what the KME adds by itself, a node may die, Alice may miss the reply | refinement of `RoleDelivery` |
| `BusFaults` | 2 roles, 4 entries, 1 failing Redis command or join, fair | no event slips away; repetitions are paid for; the pipeline starts unless the drain lost the session or the join failed; threads end after a verdict |
| `Pipeline` | 2 qubits in 2 parallel batches, 2 tries each, 1 failing request, exception or task delivered twice, a cancellation at any time, fair | both sides derive the same key; a published key stands; bases are published after the last qubit; every joined session is judged, unless something that is not tried again failed; the Celery worker is reaped; Bob learns his key |
| `Link` | 3 qubits in 2 parallel batches, a detector, 2 registrations, 1 failing request, fair | measurements keep to their qubits unless receivers share the host; Eve misses one qubit per batch at most and loses nothing she measured; every batch comes back |
| `Sifting` | 3 qubits with any state, drift, loss, dark count, interception and measurement, any sample | errors come from disturbances only; both sides drop the same positions, and their keys differ only where no one looked; no empty key; the logged analysis agrees with the verdict |
| `Nodes` | Bob, 2 restarts, 2 calls of `/start`, 1 lost answer or drain that raises, fair | one session at a time but for overlaps and lost answers; the newest record lasts longest; a live node hears of every session handed to it, unless the drain raised after popping it |

Three runs end in a violation on purpose; each contradicts a sentence of the
repository, quoted in `PROJECT.json` under "findings":

* `PoolEarlyEnd`: cancelling during `_init_qkdl` frees the lock while the network
  is still being started; a second session starts on the same instance.
* `BusAckCrash`: events are acked when their handler is scheduled, and a crash
  before it runs loses them.
* `LinkBlind`: the dead time has no lower bound, so a click of one batch blinds the
  detector for the slots of a parallel batch that come before it.

**Other observations**, met while modelling and kept as hazards:

* `publish_key` does not read the status, so a verdict that comes after a
  cancellation turns the aborted session into a finished one with an active key.
  `StreamTellsStatus` shows what still holds then: the record says DONE only if the
  key is the last thing that was announced.
* The task of `_stop_qkdl` is created in one step and posts the stop in another. A
  restart in between loses the stop: the lock runs out after ten minutes, the network
  stays registered, and its instance answers the init of every other session with 409
  until somebody cancels the old one again; that late stop then runs without the lock,
  and may reset the singleton under the next session. `NetworkReturned` and
  `ServedNetworkUp` except this.
* When `_init_qkdl` gives up on an instance whose `start()` succeeds afterwards,
  the network stays registered, and a later cancellation of the failed session
  tears the shared singleton down. So `ServedNetworkUp` is claimed only where inits
  are answered in time.
* Nothing keeps two teardowns of one session apart: a verdict and a cancellation,
  or two cancellations. The second `/network/stop` finds the object popped and is
  answered at once, its `finally` clause frees the pool lock while the first
  `stop()` still runs in the executor, and the next session's network, started on
  the same singleton, may be reset by it. So `ServedNetworkUp` also excludes
  overlapping teardowns (`MayStopTwice`); that no QKDL holds two sessions, and that
  `session_open` implies a network, does not depend on it.
* A batch whose request timed out after 120 s is posted again while the QKDL still
  works on the first copy. Bob's list then holds a qubit twice, the KME's hash once,
  and the two keys differ; and ST may publish Alice's bases while the first copy is
  still being sent. `KeysAgree` and `BasesAfterQubits` except exactly these cases.
* ST draws its sample seed when it runs. Delivered again, it publishes a second
  seed, and the key at the KME may change after Bob has derived his; delivered
  again after QKT deleted Alice's state, it turns a finished session into an
  aborted one. A second QKT or notification is harmless (`KeyStands`). The abort
  empties `key_final` and leaves `key_status` ACTIVE, so that `consume-key` then
  hands out an empty key.
* When `celery_chord` raises in `_dispatch_pipeline`, a task nobody awaits, or Redis
  raises when ST loads Alice's state or QKT deletes it, nothing is tried again and no
  verdict is ever posted. `JoinedIsJudged` excepts these, a batch that failed for good
  and a notification without retries left, by name: it does not count a chain that
  merely stopped as excused.
* `get_qubit` does not ask for a qubit by name. When two batches wait at Bob's host
  at once, their results may be swapped; `RightQubit` excepts exactly those qubits.
* Alice stops waiting for `create_session` after 30 s, while it may take 150 s: the
  session is opened, Bob joins it, and nobody sends. `OneSessionPerAlice` excepts it.
* A node that dies between `SPOP` and `begin_listening` loses the session, and so
  does one that lives, when a later `SPOP` raises: the ids popped so far go with the
  list and the exception is swallowed. The docstring of `pop_pending_sessions`
  (`kme/event_bus.py:268-275`) says that what was popped is listened to.
  `HandedIsHeard` and `PipelineStarts` except it.
* Bob posts the join once. If it fails, nobody joins the session and Alice waits.
* A session whose record runs out undecided leaves Alice busy until she restarts:
  the 404 of her poll is swallowed.

**Bounds.** Two sessions on one QKDL show every hand-over between a session and
its successor. What a third session or a second QKDL could add is covered by the
proofs, which hold for any number. Two attempts separate "retry" from "give up".
Four events hold an intercepted opening, the join and a verdict, or a plain one
with a repeated verdict; in `PoolStrained` two hold the opening and the join, and
the session ends by `Cancel`, which starts the same teardown as a verdict. In the
bus, `ReadCount = 2` forces several reads where the code's 10 would take one,
and the one failure may hit any command of any round. `MaxEntries` bounds what the
pipeline posts: with 4 entries a session of two roles gets its opening, the join, the
sift data and one verdict, or a repeated or contradicting verdict in their place, and
with 5 the same holds for three roles. In `Pipeline` two qubits in
two batches reach Bob in either order and are lost, kept or repeated one by one;
`MinSifted = 1` takes the place of 10 so that so short a list still gives a key. The
one fault may be any of those listed above. It lets a batch use up its tries only
where the network is gone, and a notification never: that takes two faults.
In `Link` one batch of two qubits and one of one run at the same time, which has
a thread look at the flag twice and two receivers meet; `LinkBlind` takes two
batches of two. A batch is posted once there: `Pipeline` explores a second posting,
the proofs cover any number, and with one batch of two qubits posted twice, or two
batches of one, or two of two without the liveness property, TLC finds no error
either; those instances take longer and are not among the runs. In `Sifting` three
qubits with `MinSifted = 2` and a sample of two thirds reach both sides of every comparison: too few bits, a
single one left for the key, a QBER of 0, 50 and 100 % against a limit of 50 and a
floor of 20. In `Nodes` two restarts leave two dead records before the live one,
and the second call overlaps the first or follows it.

**Fairness.** Weak fairness only, and only of what a scheduler or a timer runs:
coroutines of the KME (every HTTP call has a timeout), HTTP calls in flight,
executor threads, the cool-down, the TTL of the pool locks (`LocksRunOut`, the
premise of `NoLockForEver` only), consumer threads, loops, the poll ticks of the
nodes, Celery's queues, and in `Nodes` the registration loop and the drain of a
process. A thread of the link layer waits only for a qubit and has a timeout
(`DirectLost`), so weak fairness brings each of them on. No user, verdict, failure,
restart, expiry or measurement is ever forced.

## The proofs

Every safety invariant and every action property that the runs check is also a
theorem, for every value of the constants that the named assumptions of the module
allow (a pool that is not empty, natural bounds, null values that are none of what
they stand beside). Where a theorem needs more, its ASSUME says so, and it is listed
here.

**`KmeSessionsProofs`**, the pool, the streams and the keys:

* `TypeCorrect`: the type invariant.
* `PoolInvariant`: the inductive invariant `PoolInv`. `LiveSessionHoldsLock` is
  not inductive alone: a pending teardown could release a live session's lock,
  and a new session could find itself already holding one. `StopsOnlyOver`
  (teardowns only for sessions that are over), `NoneIsFresh` (no trace of a
  session before its creation) and `AskingHasRecord` (the record outlives the
  coroutine) exclude that.
* `LiveHolds`, `Exclusive`: a live session holds its lock, so two never share.
* `LeaseRefined`: the KME implements `QkdlLease`. A creation is a `Begin`, since
  a free lock means by `PoolInv` that nobody claims the QKDL; whatever ends a
  claim is an `End`; everything else stutters.
* `ActiveExact`: the active set, by an invariant on each session alone.
* `StreamsTellStatus`: `StreamTellsStatus` says what a stream looks like beside the
  record, not when it may grow. `StreamInv` adds that: the stream is empty until the
  network is announced, a join leaves a status that never returns to INITIALIZING,
  and a verdict needs a join. Then each of the three actions that emit appends where
  it may, and `StreamFrame` covers the rest. No verdict is kept from following
  another.
* `HandOutsCorrect`: per session, announcements pay for hand-outs, with one to spare
  while the key is active. Counting needs the stream's entries to be finite
  (`EntriesFinite`) and one more after each announcement (`EmitEntries`).

**`QkdlPoolProofs`**, the KME and the QKDLs together:

* `PoolImplementsKme`: every step of the composition is a step of the KME or leaves
  it alone. All of the above carries over, and the proofs here begin with it.
* `BaseInvariant`, `PoolTypeCorrect`: `BaseInv` adds what every timing keeps. Init
  calls are numbered and one that has not been made has left no trace (`CallInv`), a
  session's objects are on its own QKDL, a stop is on its way only for a session
  that is over (`SessionInv`).
* `OpenHasNetworkCorrect`, under any timing: `ReadyInv` carries the network from the
  reply "ready" of an earlier call, which may arrive after later calls were posted,
  to the announcement, and to the session's end.
* `OneSessionPerQkdl`, assuming `MayEndBeforeStart = FALSE` (without it the run
  `PoolEarlyEnd` has the counterexample): `StartInv` says that a session that is
  being started is in progress and holds its lock, has one call in flight at most,
  and waits for it. Then no second session passes the check of `init_network` while a
  first is between that check and its insertion. Timeouts, overrun locks, overlapping
  teardowns and restarts are all allowed.
* `ServedNetworkUpCorrect`, assuming `Calm` (the flags of `PoolCalm`): `CalmInv` adds
  that a lock is held as long as an object of its session is starting, registered or
  stopping, so that a stop resets no singleton but its own. It is kept as long as no
  restart has lost a stop that was not posted (`dropped`), which the property excepts.

**`EventBusProofs`**, for any roles, `ReadCount`, repeats, faults and crashes:

* `BusInvariant`, one lemma per operation. Each operation that moves events does so
  for one role, so `MovedKeeps` asks only what that role holds afterwards.
* `NothingSlipsCorrect`: not inductive alone, since a failing ack drops the rest of
  the batch. `PendingInv` adds that the batch is pending and comes up once, and that
  nothing pending or seen lies beyond the cursor.
* `RepeatsPaidCorrect`: the invariant behind it counts what a role *owes* (`Owed`):
  repeats that have run or wait in the loop, and entries that are pending although they
  have been scheduled. Scheduling and acking an event moves a repeat from the second
  kind to the first, and only an ack that raises adds one.
* `InOrderUntilFault`: as long as no command of a consumer has raised, the bus
  implements `RoleDelivery`. `OrderInv`: handled, loop and batch ascend, one before
  the other, and with `NothingSlips` they are all that was delivered and is
  addressed to the role. So the handler that runs next is the next event the promise
  allows. `InOrderOnceCorrect` is the case `MaxFaults = 0`, which `BusOrder` checks.

**`SortingProofs`**: places are a bijection onto 1 .. n (`PlacesBiject`), since
"comes before" is a linear order and places count; so a sorted list has the same
values, rises (`SortedRises`), and a list without repetition sorts to the same
sequence as the set of its values (`SortedDistinct`). Counting takes the place of an
induction over the list.

**`PipelineProofs`**, for any number of qubits, batch size, retries and faults:

* `PipeInvariant`, `PipeTypeCorrect`: `BatchInv` (a run of a batch has one job at
  most, and a batch that was delivered has no job of its latest run left), `ChordInv`
  (one join, one dispatch, one callback at most, and by then every batch is through),
  `StoreInv` (the KME's hash is Bob's list or empty, and then his list is final),
  `KeyInv` (every key that is published, derived or can still be derived from a queued
  task is one key; what Bob was told of the sift is what QKT works on).
* `BasesAfterQubitsCorrect` from the first two.
* `KeysAgreeCorrect`: the two sides sort different things, Bob a list in the order in
  which parallel batches came in, ST a hash by qubit. `BothSiftTheSame`: without a
  qubit measured twice they are the same sequence, by `SortedDistinct`, and equal
  lists with the same seed give the same key.
* Exceptions only take (`OnlyTakes`): they add no task, outcome or event, so each part
  of the invariant survives them.
* `KeyStandsCorrect`, an action property: only the notification writes the key, and
  by `KeyInv` all of them carry the same one, unless ST ran again.

**`SiftingProofs`**, for any number of qubits, drift, thresholds and sampled fraction:

* `SiftInvariant`, `SiftTypeCorrect`: `PathInv` (an undisturbed photon measured in
  its basis gives its bit; `NearestFound`: rounding an angle finds the state that was
  prepared), `TaskInv` (the lists of ST are the matched measurements, in order),
  `VerdictInv` (sample, count and threshold), `BobInv`.
* `ErrorsExplainedCorrect`; `KeysDifferUnseenCorrect`, by `RemainderOf`: what is left
  without the sample is a bijection onto the positions outside it.
* `KeyNotEmptyCorrect`, assuming `MinSifted >= 2` (the code has the literal 10): the
  sample is smaller than the list (`SampleFits`). With one bit it takes all of it.
* `AnalysisAgreesCorrect`: the two comparisons, with the floor subtracted in between.

**`NodesProofs`**:

* `NodesInvariant`, `NodesTypeCorrect`: that an id is left whenever a process
  registers is a matter of counting, and the heart of the type proof. Each id
  belongs to a peer that runs, or was spent by a restart or a lost answer.
* `NewestCorrect`: only a registration writes, at the end of a label's records, and
  they run out at the front.
* `OneSession`: `HeldOverlap` (two calls that the KME is busy with or Alice has
  entered have been on their way together) is kept because `/start` lets nothing
  pass while she is busy; `InProgressHeld` ties the KME's sessions to it.

**`LinkProofs`**:

* `LinkInvariant`, `LinkTypeCorrect`: no thread runs past its batch, for which
  `ThreadsInBatch` and a little arithmetic about batches are needed, and no retry
  past its number (`TriesLeft`).
* `EveKeepsAll`: a thread puts Eve's result on record before the photon goes on, in
  two steps; `EveInv` speaks of the state in between.
* `OneMore`: `UnseenInv`: a batch that has let a qubit through since the registration
  is not at Bob's host, and finds the flag set whenever it looks again.
* `RightQubitCorrect`: the deepest of them. A receiver that is alone finds only its
  own qubit, if the host is empty when it comes. So `HostInv` counts: what lies at
  the host or has been taken is never more than what those present have sent,
  because a receiver gives up only when nothing can still come.

**Only model-checked**: liveness, which needs fairness and ENABLED and is out of the
prover's reach: `OverFreesQkdl`, `NoLockForEver`, `NetworkReturned`, `PipelineStarts`,
`VerdictEndsThreads`, `JoinedIsJudged`, `WorkerReaped`, `BobLearnsKey`,
`BatchesComeBack`, `HandedIsHeard`. The inductive invariants were run by TLC as
invariants before they were proved, on the instances of the runs and, for the bus and the
pipeline, with more faults as well.

## Not modelled

* `reset_network` and the classical messages of the QKDL, and the KME's qubit queue:
  no client in the repository calls them.
* The optical physics beyond what `Link` and `Sifting` take from it: attenuation,
  the random walk of the drift, the rates estimated from it and the physical floor
  are real-valued and random. The floor enters `Sifting` as an input.
* `kme/message_bus.py` is dead code; `optical/ansys_export.py` and
  `optical/validation_qber.py` are offline scripts; `node/node_runner.py` and
  `start.sh` start the processes; the dashboard and the measurement campaigns are
  clients.
* Most of `models.py` and `kme/state_machine.py`: shapes of requests, and a session
  class no running code uses.

## Plan

1. The safety part of the liveness properties: for each of them, that no state is a
   dead end, as an invariant that a theorem can state (what a session that waits
   waits for is still on its way).
2. A composition of `KmeSessions` and `Pipeline`, in which the verdict is the
   pipeline's and a session may be judged twice.
3. A composition of `EventBus` and `Pipeline` with failing commands, in which
   `receiver_joined` may be handled twice and a second chord is dispatched.
