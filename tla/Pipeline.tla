------------------------------ MODULE Pipeline ------------------------------
(***************************************************************************)
(* One BB84 session from session_open to the verdict: Alice's dispatch of  *)
(* the chord QTT x N -> ST -> QKT -> NT (nodes/alice/main.py, workers/),   *)
(* the batches on the QKDL (qunetsim_service.py), Bob's receive loop and   *)
(* local sift (nodes/bob/main.py), and the handlers of the KME in between. *)
(*                                                                         *)
(* Each party sees the others' data through a store: Bob's measurements    *)
(* and Alice's bases pass through the KME, which keeps one measurement per *)
(* qubit, and each side derives its key on its own.  The events of the     *)
(* session arrive as RoleDelivery promises: per role, in order, once.      *)
(*                                                                         *)
(* Bits are left out, and of a basis only whether it agrees with Alice's:  *)
(* a sifted list is the list of its qubit ids.                             *)
(***************************************************************************)
EXTENDS Integers, Sequences, FiniteSets, Sorting

CONSTANTS
    NQubits, BatchSize,
    BatchTries,   \* 1 + max_retries of send_batch_task
    NotifyTries,  \* 1 + max_retries of notify_kme_task
    MinSifted,    \* fewer sifted bits are INSUFFICIENT_BITS
    Seed,         \* sample seeds that ST may draw
    None,         \* no sift data, no key
    MaxFaults     \* bound: failed requests and commands, lost answers, tasks delivered again

ASSUME SizeAssumption ==
    /\ NQubits \in Nat \ {0} /\ BatchSize \in Nat \ {0}
    /\ BatchTries \in Nat \ {0} /\ NotifyTries \in Nat \ {0}
    /\ MinSifted \in Nat /\ MaxFaults \in Nat
ASSUME SeedAssumption == Seed \subseteq Nat /\ Seed # {}

Qubit == 0 .. NQubits - 1
Batch == 0 .. (NQubits - 1) \div BatchSize

FirstOf(b) == b * BatchSize
BeyondOf(b) == IF (b + 1) * BatchSize < NQubits THEN (b + 1) * BatchSize ELSE NQubits

Measurement == [qid : Qubit, same : BOOLEAN]   \* same: measured in Alice's basis
Job         == [batch : Batch, try : 1 .. BatchTries, next : 0 .. NQubits]

VARIABLES
    \* KME
    status,    \* status field of the record
    stored,    \* the hash of measurements
    sift,      \* the last sift upload
    key,       \* key_final of the record
    \* Events on their way
    toAlice, toBob,
    \* Alice
    held,      \* _alice_state has the session
    dispatch,  \* _dispatch_pipeline: "none", "warming" up the worker, "done", "failed"
    worker,    \* the session's Celery worker: "up", "stopping", "dead"
    \* QTT
    qtt,       \* batch -> state of its send_batch_task
    tries,     \* batch -> runs of its task
    \* QKDL
    net,       \* the session is in _sessions
    jobs,      \* _process_batch_sync calls in the executor
    queue,     \* _meas_queue
    \* Bob
    bob,       \* his receive loop: "idle", "receiving", "posting", "done"
    listens,   \* he listens to the session's events
    knows,     \* _bob_state has the session
    got,       \* measurements
    sifting,   \* _do_local_sift tasks pending
    bobKey,    \* bob_final
    \* ST, QKT, NT
    chord,     \* "none", "waiting" for the batches, "called"
    tasks,     \* messages of the sifting queue that no worker has acked
    saved,     \* Alice's bits and bases are in Redis
    stRuns,    \* history: runs of ST that have returned
    failed,    \* tasks of the chain that ended with an exception for good
    faults

kmeVars   == <<status, stored, sift, key>>
aliceVars == <<held, dispatch, worker>>
qttVars   == <<qtt, tries>>
qkdlVars  == <<net, jobs, queue>>
bobVars   == <<bob, listens, knows, got, sifting, bobKey>>
chainVars == <<chord, tasks, saved, stRuns, failed>>
pipeVars  == <<kmeVars, toAlice, toBob, aliceVars, qttVars, qkdlVars, bobVars,
               chainVars, faults>>

Over == status \in {"done", "aborted"}

\* create_session has answered Alice: her worker is spawned, session_open is
\* published and the network is up.
PipeInit ==
    /\ status = "initializing" /\ stored = {} /\ sift = None /\ key = None
    /\ toAlice = <<>> /\ toBob = <<"session_open">>
    /\ held = TRUE /\ dispatch = "none" /\ worker = "up"
    /\ qtt = [b \in Batch |-> "none"] /\ tries = [b \in Batch |-> 0]
    /\ net = TRUE /\ jobs = {} /\ queue = <<>>
    /\ bob = "idle" /\ listens = TRUE /\ knows = FALSE /\ got = <<>> /\ sifting = 0 /\ bobKey = None
    /\ chord = "none" /\ tasks = {} /\ saved = TRUE /\ stRuns = 0 /\ failed = {}
    /\ faults = 0

Fail == faults < MaxFaults /\ faults' = faults + 1

-----------------------------------------------------------------------------
(* What both sides compute from measurements. *)

\* An upload overwrites what the hash holds under the same qubit_id, and the
\* last record of a qubit in the list wins.
Merged(hash, list) ==
    {m \in hash : \A i \in DOMAIN list : list[i].qid # m.qid}
        \cup {list[i] : i \in {j \in DOMAIN list : \A k \in DOMAIN list :
                                  k > j => list[k].qid # list[j].qid}}

\* ST: the ids whose bases agree, in increasing order.
AliceSifted == Increasing({m.qid : m \in {n \in stored : n.same}})

BobSiftedSlip(list, ids) ==           \* in the order of arrival
    LET kept == SelectSeq(list, LAMBDA m : m.same /\ m.qid \in ids)
    IN  [i \in DOMAIN kept |-> kept[i].qid]

\* _do_local_sift: his whole list, sorted by id, against Alice's bases.
BobSifted(list, ids) ==
    LET kept == {i \in DOMAIN list : list[i].same /\ list[i].qid \in ids}
    IN  Sorted([i \in kept |-> list[i].qid])

SampleSize(n) == IF n = 0 THEN 0 ELSE IF n \div 5 > 1 THEN n \div 5 ELSE 1

\* The indices that Random(seed).sample(range(n), SampleSize(n)) reveals: the
\* same set on both sides whenever seed and n are the same.  The cyclic run
\* stands for Python's generator.
Sample(sd, n) == {((sd + k) % n) + 1 : k \in 1 .. SampleSize(n)}

\* The sifted list without the revealed sample.
KeyOf(list, sd) ==
    LET rest == Increasing(DOMAIN list \ Sample(sd, Len(list)))
    IN  [i \in DOMAIN rest |-> list[rest[i]]]

-----------------------------------------------------------------------------
(* Alice. *)

\* on_receiver_joined: the dispatching task, unless she has dropped the session.
AliceJoined ==
    /\ held /\ toAlice # <<>> /\ Head(toAlice) = "receiver_joined"
    /\ toAlice' = Tail(toAlice)
    /\ dispatch' = "warming"
    /\ UNCHANGED <<kmeVars, toBob, held, worker, qttVars, qkdlVars, bobVars, chainVars, faults>>

\* After WORKER_WARMUP_S the chord goes to the broker, whatever has become of
\* the session and of its worker meanwhile.
Dispatch ==
    /\ dispatch = "warming"
    /\ dispatch' = "done"
    /\ qtt' = [b \in Batch |-> "queued"]
    /\ chord' = "waiting"
    /\ UNCHANGED <<kmeVars, toAlice, toBob, held, worker, tries, qkdlVars, bobVars,
                   tasks, saved, stRuns, failed, faults>>

\* celery_chord raises, in a task that nobody awaits: the batches sent so far are
\* queued, and no chord waits for them.
DispatchRaises ==
    /\ dispatch = "warming" /\ Fail
    /\ dispatch' = "failed"
    /\ \E n \in Batch : qtt' = [b \in Batch |-> IF b < n THEN "queued" ELSE "none"]
    /\ UNCHANGED <<kmeVars, toAlice, toBob, held, worker, tries, qkdlVars, bobVars, chainVars>>

\* _cleanup: the entry is dropped, the worker is terminated by a thread of its
\* own, and she stops listening.
Cleanup ==
    /\ held
    /\ held' = FALSE /\ worker' = "stopping" /\ toAlice' = <<>>
    /\ UNCHANGED <<kmeVars, toBob, dispatch, qttVars, qkdlVars, bobVars, chainVars, faults>>

AliceVerdict ==
    /\ toAlice # <<>> /\ Head(toAlice) \in {"key_available", "session_aborted"}
    /\ Cleanup

PollSeesSlip == status = "done"           \* "aborted" is not looked for
PollSees     == status \in {"aborted", "done"}

\* _poll_tick.
AlicePoll == PollSees /\ Cleanup

\* SIGTERM, and SIGKILL after five seconds: running tasks may or may not end.
WorkerDies ==
    /\ worker = "stopping"
    /\ worker' = "dead"
    /\ UNCHANGED <<kmeVars, toAlice, toBob, held, dispatch, qttVars, qkdlVars, bobVars,
                   chainVars, faults>>

-----------------------------------------------------------------------------
(* QTT and the QKDL. *)

MoreTriesSlip(n) == n <= BatchTries      \* one retry too many
MoreTries(n)     == n < BatchTries

\* self.retry: the task goes back to its queue until its tries are used up.
RetryOrFail(b, n) == qtt' = [qtt EXCEPT ![b] = IF MoreTries(n) THEN "queued" ELSE "failed"]

\* send_batch_task posts its batch: a job in the executor, or 404.
TaskStart(b) ==
    /\ qtt[b] = "queued" /\ worker = "up"
    /\ tries' = [tries EXCEPT ![b] = @ + 1]
    /\ IF net
       THEN /\ qtt' = [qtt EXCEPT ![b] = "running"]
            /\ jobs' = jobs \cup {[batch |-> b, try |-> tries'[b], next |-> FirstOf(b)]}
       ELSE RetryOrFail(b, tries'[b]) /\ UNCHANGED jobs
    /\ UNCHANGED <<kmeVars, toAlice, toBob, aliceVars, net, queue, bobVars, chainVars, faults>>

\* The next qubit of a batch: lost on its way, or measured and queued.
JobQubit(j) ==
    /\ j.next < BeyondOf(j.batch)
    /\ jobs' = (jobs \ {j}) \cup {[j EXCEPT !.next = @ + 1]}
    /\ \/ UNCHANGED queue
       \/ \E x \in BOOLEAN : queue' = Append(queue, [qid |-> j.next, same |-> x])
    /\ UNCHANGED <<kmeVars, toAlice, toBob, aliceVars, qttVars, net, bobVars, chainVars, faults>>

\* The batch is through; the task that still waits for it is done.
JobReply(j) ==
    /\ j.next = BeyondOf(j.batch)
    /\ jobs' = jobs \ {j}
    /\ qtt' = IF qtt[j.batch] = "running" /\ tries[j.batch] = j.try /\ worker # "dead"
              THEN [qtt EXCEPT ![j.batch] = "delivered"] ELSE qtt
    /\ UNCHANGED <<kmeVars, toAlice, toBob, aliceVars, tries, net, queue, bobVars,
                   chainVars, faults>>

\* The request times out after 120 s or its connection breaks; the executor
\* carries on with the batch.
TaskFails(b) ==
    /\ qtt[b] = "running" /\ worker # "dead"
    /\ RetryOrFail(b, tries[b])
    /\ Fail
    /\ UNCHANGED <<kmeVars, toAlice, toBob, aliceVars, tries, qkdlVars, bobVars, chainVars>>

\* POST /network/stop of the teardown.
NetStops ==
    /\ Over /\ net
    /\ net' = FALSE
    /\ UNCHANGED <<kmeVars, toAlice, toBob, aliceVars, qttVars, jobs, queue, bobVars,
                   chainVars, faults>>

-----------------------------------------------------------------------------
(* Bob. *)

\* on_session_open: join_session, whose answer he may miss, then the loop.  A
\* session that was cancelled meanwhile answers 409.
BobJoins ==
    /\ toBob # <<>> /\ Head(toBob) = "session_open"
    /\ toBob' = Tail(toBob)
    /\ \/ /\ status = "initializing"
          /\ status' = "sending" /\ toAlice' = Append(toAlice, "receiver_joined")
          /\ \/ bob' = "receiving" /\ knows' = TRUE /\ UNCHANGED faults
             \/ Fail /\ UNCHANGED <<bob, knows>>
       \/ status # "initializing" /\ UNCHANGED <<status, toAlice, bob, knows, faults>>
    /\ UNCHANGED <<stored, sift, key, aliceVars, qttVars, qkdlVars, listens, got, sifting,
                   bobKey, chainVars>>

\* GET /qubit/receive pops a measurement.
BobTakes ==
    /\ bob = "receiving" /\ net /\ queue # <<>>
    /\ got' = Append(got, Head(queue)) /\ queue' = Tail(queue)
    /\ bob' = IF Len(got') < NQubits THEN "receiving" ELSE "posting"
    /\ UNCHANGED <<kmeVars, toAlice, toBob, aliceVars, qttVars, net, jobs, listens, knows, sifting,
                   bobKey, chainVars, faults>>

\* The loop ends with what he has: the queue stayed empty for 8 s, the session
\* is not on the QKDL any more (404), or the deadline has passed.
BobLeaves ==
    /\ bob = "receiving"
    /\ bob' = IF got = <<>> THEN "done" ELSE "posting"
    /\ UNCHANGED <<kmeVars, toAlice, toBob, aliceVars, qttVars, qkdlVars, listens, knows, got,
                   sifting, bobKey, chainVars, faults>>

\* upload_measurements.  He posts once; a failure is only logged, and may have
\* come after the KME stored the list.  Nobody handles measurements_ready.
BobPosts ==
    /\ bob = "posting"
    /\ bob' = "done"
    /\ \/ stored' = Merged(stored, got) /\ UNCHANGED faults
       \/ stored' \in {stored, Merged(stored, got)} /\ Fail
    /\ UNCHANGED <<status, sift, key, toAlice, toBob, aliceVars, qttVars, qkdlVars, listens, knows,
                   got, sifting, bobKey, chainVars>>

BobSiftReady ==
    /\ toBob # <<>> /\ Head(toBob) = "sift_ready"
    /\ toBob' = Tail(toBob) /\ sifting' = sifting + 1
    /\ UNCHANGED <<kmeVars, toAlice, aliceVars, qttVars, qkdlVars, bob, listens, knows, got, bobKey,
                   chainVars, faults>>

\* _do_local_sift: gives up without the sift data.  The reply cannot be older
\* than sift_ready, which the KME publishes after it stored the data.
BobSifts ==
    /\ sifting > 0
    /\ sifting' = sifting - 1
    /\ \/ ~knows /\ UNCHANGED <<bobKey, faults>>
       \/ /\ knows /\ UNCHANGED faults
          /\ \E own \in {BobSifted(got, sift.ids)} : bobKey' = KeyOf(own, sift.seed)
       \/ knows /\ Fail /\ UNCHANGED bobKey
    /\ UNCHANGED <<kmeVars, toAlice, toBob, aliceVars, qttVars, qkdlVars, bob, listens, knows, got,
                   chainVars>>

\* on_key_available and on_session_aborted end the listening; the latter also
\* forgets the session, but not the loop that still runs.
BobVerdict ==
    /\ listens /\ toBob # <<>> /\ Head(toBob) \in {"key_available", "session_aborted"}
    /\ toBob' = <<>> /\ listens' = FALSE
    /\ knows' = (knows /\ Head(toBob) = "key_available")
    /\ UNCHANGED <<kmeVars, toAlice, aliceVars, qttVars, qkdlVars, bob, got, sifting, bobKey,
                   chainVars, faults>>

-----------------------------------------------------------------------------
(* ST, QKT and NT. *)

BatchesEndedSlip == \E b \in Batch : qtt[b] = "delivered"     \* not a chord
BatchesEnded     == \A b \in Batch : qtt[b] = "delivered"

\* The chord calls back once every batch has returned; after a batch that
\* failed for good it never does.
ChordEnds ==
    /\ chord = "waiting" /\ BatchesEnded
    /\ chord' = "called" /\ tasks' = {[kind |-> "ST"]}
    /\ UNCHANGED <<kmeVars, toAlice, toBob, aliceVars, qttVars, qkdlVars, bobVars,
                   saved, stRuns, failed, faults>>

\* A worker acks a task when it has run and its successor is queued
\* (task_acks_late).  If it dies before, or the task outlasts the broker's
\* visibility timeout, the task is delivered again, to another worker, with or
\* without its successor queued.
Ends(t, next, failures) ==
    \/ /\ tasks' = (tasks \ {t}) \cup next
       /\ faults' = faults + failures /\ faults' <= MaxFaults
    \/ /\ tasks' \in {tasks, tasks \cup next}
       /\ faults' = faults + failures + 1 /\ faults' <= MaxFaults

Sifted(ids, sd, good) == [kind |-> "QKT", ids |-> ids, seed |-> sd, good |-> good]
NoSift                == Sifted(<<>>, 0, FALSE)             \* _abort

SiftAnnouncedSlip == toBob               \* the upload is stored, nobody is told
SiftAnnounced     == Append(toBob, "sift_ready")

\* assemble_and_sift_task finds Bob's measurements and Alice's state, draws a
\* seed and uploads Alice's bases.  A failed upload is only logged.  Whether the
\* sample will show too many errors is settled here, with bits and seed.
Assemble(t) ==
    /\ t.kind = "ST" /\ stored # {} /\ saved
    /\ stRuns' = stRuns + 1
    /\ \E sd \in Seed, good \in BOOLEAN :
         \/ /\ sift' = [ids |-> {m.qid : m \in stored}, seed |-> sd]
            /\ toBob' = IF listens THEN SiftAnnounced ELSE toBob
            /\ Ends(t, {Sifted(AliceSifted, sd, good)}, 0)
         \/ /\ UNCHANGED <<sift, toBob>>
            /\ Ends(t, {Sifted(AliceSifted, sd, good)}, 1)
    /\ UNCHANGED <<status, stored, key, toAlice, aliceVars, qttVars, qkdlVars, bobVars,
                   chord, saved, failed>>

GivesUpSlip == FALSE                     \* a poll without a deadline

\* ST starts after Bob's loop and waits as long, so the loop is over; his upload
\* may still be on its way.
GivesUp == stored = {} /\ bob # "receiving"

\* BOB_TIMEOUT, or ALICE_STATE_MISSING.
AssembleGivesUp(t) ==
    /\ t.kind = "ST"
    /\ GivesUp \/ (stored # {} /\ ~saved)
    /\ stRuns' = stRuns + 1
    /\ Ends(t, {NoSift}, 0)
    /\ UNCHANGED <<kmeVars, toAlice, toBob, aliceVars, qttVars, qkdlVars, bobVars,
                   chord, saved, failed>>

\* An exception ends a task that is not tried again: it is acked, and its
\* successor never queued.
Raises(t) == tasks' = tasks \ {t} /\ failed' = failed \cup {t.kind} /\ Fail

\* load_alice_state raises.
AssembleRaises(t) ==
    /\ t.kind = "ST" /\ stored # {}
    /\ Raises(t)
    /\ UNCHANGED <<kmeVars, toAlice, toBob, aliceVars, qttVars, qkdlVars, bobVars,
                   chord, saved, stRuns>>

ResultsSlip(t) ==                        \* a sample of its own
    IF Len(t.ids) >= MinSifted /\ t.good THEN {KeyOf(t.ids, sd) : sd \in Seed} ELSE {None}
Results(t) ==
    IF Len(t.ids) >= MinSifted /\ t.good THEN {KeyOf(t.ids, t.seed)} ELSE {None}

\* qber_key_task: too few bits, a QBER above the threshold, or a key, which ends
\* the need for Alice's state.
Derive(t) ==
    /\ t.kind = "QKT"
    /\ \E k \in Results(t) :
         /\ saved' = (saved /\ k = None)
         /\ Ends(t, {[kind |-> "NT", key |-> k, try |-> 1]}, 0)
    /\ UNCHANGED <<kmeVars, toAlice, toBob, aliceVars, qttVars, qkdlVars, bobVars,
                   chord, stRuns, failed>>

\* delete_alice_state raises, executed or not: the key it derived is lost.
DeriveRaises(t) ==
    /\ t.kind = "QKT" /\ Results(t) # {None}
    /\ saved' \in {saved, FALSE}
    /\ Raises(t)
    /\ UNCHANGED <<kmeVars, toAlice, toBob, aliceVars, qttVars, qkdlVars, bobVars,
                   chord, stRuns>>

Verdict(k) == IF k # None THEN "key_available" ELSE "session_aborted"

\* publish_key.  What nobody listens to any more is not represented.
Publish(k) ==
    /\ status' = IF k # None THEN "done" ELSE "aborted"
    /\ key' = k
    /\ toAlice' = IF held THEN Append(toAlice, Verdict(k)) ELSE toAlice
    /\ toBob' = IF listens THEN Append(toBob, Verdict(k)) ELSE toBob

\* notify_kme_task; when no answer comes, whether or not the KME has handled the
\* request, it is tried again, as long as it has retries.
Notify(t) ==
    /\ t.kind = "NT"
    /\ \/ Publish(t.key) /\ Ends(t, {}, 0) /\ UNCHANGED failed
       \/ /\ Publish(t.key) \/ UNCHANGED <<status, key, toAlice, toBob>>
          /\ Ends(t, IF t.try < NotifyTries THEN {[t EXCEPT !.try = @ + 1]} ELSE {}, 1)
          /\ failed' = IF t.try < NotifyTries \/ t \in tasks' THEN failed ELSE failed \cup {"NT"}
    /\ UNCHANGED <<stored, sift, aliceVars, qttVars, qkdlVars, bobVars, chord, saved, stRuns>>

\* A user cancels the session, finished or not; no event says so.
Cancel ==
    /\ status # "aborted"
    /\ status' = "aborted"
    /\ UNCHANGED <<stored, sift, key, toAlice, toBob, aliceVars, qttVars, qkdlVars, bobVars,
                   chainVars, faults>>

-----------------------------------------------------------------------------
AliceStep == AliceJoined \/ Dispatch \/ AliceVerdict \/ AlicePoll \/ WorkerDies
BobStep   == BobJoins \/ BobTakes \/ BobLeaves \/ BobPosts \/ BobVerdict
BobSift   == BobSiftReady \/ BobSifts
ChainStep == ChordEnds \/ \E t \in tasks : Assemble(t) \/ AssembleGivesUp(t) \/ Derive(t) \/ Notify(t)
Breakdown == DispatchRaises \/ \E t \in tasks : AssembleRaises(t) \/ DeriveRaises(t)

PipeNext ==
    \/ AliceStep \/ BobStep \/ BobSift \/ ChainStep \/ Breakdown \/ NetStops \/ Cancel
    \/ \E b \in Batch : TaskStart(b) \/ TaskFails(b)
    \/ \E j \in jobs : JobQubit(j) \/ JobReply(j)

PipeSpec == PipeInit /\ [][PipeNext]_pipeVars

\* Celery runs queued tasks, the executor its jobs, and the loops their tasks.
PipeFairSpec ==
    /\ PipeSpec
    /\ WF_pipeVars(AliceStep) /\ WF_pipeVars(BobStep) /\ WF_pipeVars(BobSift)
    /\ WF_pipeVars(ChainStep)
    /\ \A b \in Batch :
         WF_pipeVars(TaskStart(b) \/ \E j \in jobs : j.batch = b /\ (JobQubit(j) \/ JobReply(j)))

-----------------------------------------------------------------------------
PipeTypeOK ==
    /\ status \in {"initializing", "sending", "done", "aborted"}
    /\ stored \subseteq Measurement
    /\ jobs \subseteq Job
    /\ qtt \in [Batch -> {"none", "queued", "running", "delivered", "failed"}]
    /\ tries \in [Batch -> 0 .. BatchTries]
    /\ worker \in {"up", "stopping", "dead"}
    /\ bob \in {"idle", "receiving", "posting", "done"}
    /\ chord \in {"none", "waiting", "called"}
    /\ \A t \in tasks : t.kind \in {"ST", "QKT"} \/ (t.kind = "NT" /\ t.try \in 1 .. NotifyTries)
    /\ dispatch \in {"none", "warming", "done", "failed"} /\ failed \subseteq {"ST", "QKT", "NT"}
    /\ saved \in BOOLEAN /\ stRuns \in Nat

Repeats == \E i, j \in DOMAIN got : i < j /\ got[i].qid = got[j].qid

\* The key that the KME activates and the key that Bob keeps come from the same
\* qubits in the same order, although each side sifts its own copy of the
\* measurements: Bob his list, ST the KME's hash.  Losses, partial lists and
\* batches that interleave do not matter; a qubit that Bob received twice,
\* after a retried batch, does (_do_local_sift keeps both, the hash one), and so
\* does a second ST, which draws a second seed.
KeysAgree == key # None /\ bobKey # None /\ ~Repeats /\ stRuns <= 1 => key = bobKey

\* Delivering QKT or NT again is harmless: the key that was published stays, and
\* no abort takes its place.  Only a second ST, with a seed of its own or after
\* QKT has deleted Alice's state, can change it (task_acks_late, sample_seed,
\* delete_alice_state).
KeyStands == [][key # None /\ stRuns' <= 1 => key' = key]_pipeVars

\* Alice's bases are not published while a qubit of hers is still to be sent: ST
\* runs once every batch has been answered.  A batch that was posted twice is
\* excepted, since its first job may still be in the executor (chord,
\* send_batch_task, assemble_and_sift_task).
BasesAfterQubits == sift # None /\ (\A b \in Batch : tries[b] = 1) => jobs = {}

\* A session that Bob joined gets a verdict or is cancelled, unless a batch or
\* the notification has used up its retries, or an exception has ended what is
\* not tried again: the dispatch, ST at Alice's state, QKT at its deletion.
\* Neither a request that fails, nor a lost answer, nor a Bob who gave up, nor a
\* task that is delivered again leaves the session without one
\* (assemble_and_sift_task's deadline, notify_kme_task's retries).
JoinedIsJudged ==
    status = "sending" ~>
        \/ Over
        \/ \E b \in Batch : qtt[b] = "failed"
        \/ dispatch = "failed" \/ failed # {}

\* The Celery worker that Alice spawned for a session does not outlive it, even
\* when the session is cancelled and no event says so (_cleanup, _poll_tick).
WorkerReaped == Over ~> worker = "dead"

\* When the KME activates a key, Bob computes his, unless a request on his way
\* to it failed (on_sift_ready comes before on_key_available).
BobLearnsKey == key # None ~> bobKey # None \/ faults > 0
=============================================================================
