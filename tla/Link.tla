-------------------------------- MODULE Link --------------------------------
(***************************************************************************)
(* One session on the QKDL while its batches are sent (qunetsim_service.py,*)
(* optical/): up to Concurrency batches at once, each in a thread of the   *)
(* executor, share the detector of the channel, Bob's host in QuNetSim,    *)
(* the queue of measurements and the flag of the interceptor.  Around it:  *)
(* Eve (nodes/eve/main.py), who registers when she hears of the session    *)
(* and collects her measurements when it ends, and the teardown.           *)
(*                                                                         *)
(* Bits and bases are left out: a measurement names the qubit it is        *)
(* reported for, the qubit it was taken from, and how.                     *)
(***************************************************************************)
EXTENDS Integers, Sequences, FiniteSets

CONSTANTS
    NQubits, BatchSize,
    BatchTries,     \* 1 + max_retries of send_batch_task
    Concurrency,    \* processes of the session's Celery worker
    Period,         \* PULSE_PERIOD_NS
    DeadTime,       \* dead_time_ns of the detector
    Fiber,          \* FiberChannel with a detector, or StatisticalChannel
    RegisterTries,  \* EVE_REGISTER_RETRIES
    Nobody,         \* no qubit, no job
    MaxFaults       \* bound: HTTP requests that fail or whose answer is lost

ASSUME LinkSizes ==
    /\ NQubits \in Nat \ {0} /\ BatchSize \in Nat \ {0}
    /\ BatchTries \in Nat \ {0} /\ Concurrency \in Nat \ {0}
    /\ RegisterTries \in Nat \ {0} /\ MaxFaults \in Nat
ASSUME LinkTimes == Period \in Nat \ {0} /\ DeadTime \in Nat /\ DeadTime < Period
ASSUME LinkModes == Fiber \in BOOLEAN /\ Nobody \notin Nat

Qubit == 0 .. NQubits - 1
Batch == 0 .. (NQubits - 1) \div BatchSize
Job   == Batch \X (1 .. BatchTries)    \* a batch, and which posting of it

FirstOf(b)  == b * BatchSize
BeyondOf(b) == IF (b + 1) * BatchSize < NQubits THEN (b + 1) * BatchSize ELSE NQubits

\* Where a thread is in _process_batch_sync: at the next qubit, in front of the
\* detector, past it, after Eve has measured, or with a receiver of Bob's that
\* waits before or after Alice has sent.
Place == {"idle", "qubit", "armed", "through", "resent", "receiving", "sent", "done"}

Measured == [job : Job, qid : Qubit, of : Qubit, how : {"dark", "eve", "direct"}, late : BOOLEAN]

VARIABLES
    net,       \* the session is in _sessions
    task,      \* batch -> its send_batch_task: "queued", "running", "returned", "failed"
    tries,     \* batch -> postings so far
    at,        \* job -> Place of its thread
    next,      \* job -> the qubit it is at
    took,      \* job -> what its receiver got from Bob's host
    inbox,     \* qubits that have arrived at Bob's host
    lastClick, \* the detector's last click: its time and, as history, its job
    measured,  \* history of _meas_queue; late: Eve was registered by then
    flag,      \* _eve_registered
    eveQueue,  \* _eve_meas_queue, as pairs of job and qubit
    register,  \* _register_as_interceptor: "none", "asking", "ok", "failed"
    asked,     \* its attempts so far
    collect,   \* _collect_measurements: "none", "asking", "ok", "failed"
    eveLog,    \* meas_log
    verdict,   \* a verdict has been published
    over,      \* the KME has started the teardown
    faults,
    blinded,   \* history: the qubits that the dead time blocked, with the click
    shared     \* history: the jobs' qubits that shared Bob's host with another

taskVars  == <<task, tries>>
jobVars   == <<at, next, took>>
eveVars   == <<register, asked, collect, eveLog>>
linkVars  == <<net, taskVars, jobVars, inbox, lastClick, measured, flag, eveQueue, eveVars,
               verdict, over, faults, blinded, shared>>

LinkInit ==
    /\ net = TRUE /\ inbox = <<>> /\ measured = {} /\ flag = FALSE /\ eveQueue = {}
    /\ task = [b \in Batch |-> "queued"] /\ tries = [b \in Batch |-> 0]
    /\ at = [j \in Job |-> "idle"]
    /\ next = [j \in Job |-> FirstOf(j[1])]
    /\ took = [j \in Job |-> Nobody]
    /\ lastClick = [time |-> -DeadTime - 1, job |-> Nobody]     \* reset_session
    /\ register = "none" /\ asked = 0 /\ collect = "none" /\ eveLog = {}
    /\ verdict = FALSE /\ over = FALSE /\ faults = 0
    /\ blinded = {} /\ shared = {}

Fail == faults < MaxFaults /\ faults' = faults + 1

-----------------------------------------------------------------------------
(* send_batch_task and the end of a batch. *)

RequeuedSlip(n) == IF n <= BatchTries THEN "queued" ELSE "failed"     \* one retry too many
Requeued(n)     == IF n < BatchTries THEN "queued" ELSE "failed"

\* A process of the worker takes a task and posts its batch: a thread.
Post(b) ==
    /\ task[b] = "queued" /\ net
    /\ Cardinality({c \in Batch : task[c] = "running"}) < Concurrency
    /\ task' = [task EXCEPT ![b] = "running"]
    /\ tries' = [tries EXCEPT ![b] = @ + 1]
    /\ at' = [at EXCEPT ![<<b, tries'[b]>>] = "qubit"]
    /\ UNCHANGED <<net, next, took, inbox, lastClick, measured, flag, eveQueue, eveVars,
                   verdict, over, faults, blinded, shared>>

\* 404, the session has been torn down.
PostRefused(b) ==
    /\ task[b] = "queued" /\ ~net
    /\ tries' = [tries EXCEPT ![b] = @ + 1]
    /\ task' = [task EXCEPT ![b] = Requeued(tries'[b])]
    /\ UNCHANGED <<net, jobVars, inbox, lastClick, measured, flag, eveQueue, eveVars,
                   verdict, over, faults, blinded, shared>>

\* 120 s are over or the connection breaks; the thread carries on.
PostFails(b) ==
    /\ task[b] = "running"
    /\ task' = [task EXCEPT ![b] = Requeued(tries[b])]
    /\ Fail
    /\ UNCHANGED <<net, tries, jobVars, inbox, lastClick, measured, flag, eveQueue, eveVars,
                   verdict, over, blinded, shared>>

BatchEnds(j) ==
    /\ at[j] = "qubit" /\ next[j] = BeyondOf(j[1])
    /\ at' = [at EXCEPT ![j] = "done"]
    /\ task' = IF task[j[1]] = "running" /\ tries[j[1]] = j[2]
               THEN [task EXCEPT ![j[1]] = "returned"] ELSE task
    /\ UNCHANGED <<net, tries, next, took, inbox, lastClick, measured, flag, eveQueue, eveVars,
                   verdict, over, faults, blinded, shared>>

-----------------------------------------------------------------------------
(* One qubit. *)

GoOnSlip(j) ==                           \* the result of the last receiver is kept
    /\ at' = [at EXCEPT ![j] = "qubit"]
    /\ next' = [next EXCEPT ![j] = @ + 1]
    /\ UNCHANGED took

GoOn(j) ==
    /\ at' = [at EXCEPT ![j] = "qubit"]
    /\ next' = [next EXCEPT ![j] = @ + 1]
    /\ took' = [took EXCEPT ![j] = Nobody]

\* push_measurement.
Push(j, from, kind) ==
    measured' = measured \cup {[job |-> j, qid |-> next[j], of |-> from, how |-> kind, late |-> flag]}

TimeOf(j) == next[j] * Period

Blind(t)  == t - lastClick.time < DeadTime

\* transmit, up to the dead time check of detect.
Arrive(j) ==
    /\ at[j] = "qubit" /\ next[j] < BeyondOf(j[1])
    /\ IF Fiber /\ Blind(TimeOf(j))
       THEN /\ GoOn(j)
            /\ blinded' = blinded \cup {[job |-> j, time |-> TimeOf(j), click |-> lastClick]}
       ELSE at' = [at EXCEPT ![j] = "armed"] /\ UNCHANGED <<next, took, blinded>>
    /\ UNCHANGED <<net, taskVars, inbox, lastClick, measured, flag, eveQueue, eveVars,
                   verdict, over, faults, shared>>

Click(j) == lastClick' = IF Fiber THEN [time |-> TimeOf(j), job |-> j] ELSE lastClick

\* The rest of detect: nothing, a dark count, which becomes a measurement of
\* Bob's, or the photon.  Another thread may have clicked since the check.
Detect(j) ==
    /\ at[j] = "armed"
    /\ \/ GoOn(j) /\ UNCHANGED <<lastClick, measured>>
       \/ Fiber /\ Click(j) /\ Push(j, next[j], "dark") /\ GoOn(j)
       \/ /\ Click(j) /\ at' = [at EXCEPT ![j] = "through"]
          /\ UNCHANGED <<next, took, measured>>
    /\ UNCHANGED <<net, taskVars, inbox, flag, eveQueue, eveVars, verdict, over, faults,
                   blinded, shared>>

\* A batch that began unobserved goes on unobserved.
InterceptsSlip(j) == flag /\ ~\E m \in measured : m.job = j /\ m.how = "direct"
Intercepts(j)     == flag

AtHost == {j \in Job : at[j] \in {"receiving", "sent"}}

\* _eve_registered is read once for each qubit: Eve measures it and records her
\* result, or a receiver thread of Bob's starts to wait.
Look(j) ==
    /\ at[j] = "through"
    /\ \/ /\ Intercepts(j)
          /\ eveQueue' = eveQueue \cup {<<j, next[j]>>}
          /\ at' = [at EXCEPT ![j] = "resent"]
          /\ UNCHANGED shared
       \/ /\ ~Intercepts(j)
          /\ at' = [at EXCEPT ![j] = "receiving"]
          /\ shared' = IF AtHost = {} THEN shared
                       ELSE shared \cup {<<k, next[k]>> : k \in AtHost \cup {j}}
          /\ UNCHANGED eveQueue
    /\ UNCHANGED <<net, taskVars, next, took, inbox, lastClick, measured, flag, eveVars,
                   verdict, over, faults, blinded>>

\* Bob measures what Eve has sent on.
MeasureResent(j) ==
    /\ at[j] = "resent"
    /\ Push(j, next[j], "eve") /\ GoOn(j)
    /\ UNCHANGED <<net, taskVars, inbox, lastClick, flag, eveQueue, eveVars, verdict, over,
                   faults, blinded, shared>>

\* send_qubit; a host that has been stopped delivers nothing.
Send(j) ==
    /\ at[j] = "receiving"
    /\ at' = [at EXCEPT ![j] = "sent"]
    /\ inbox' = IF net THEN Append(inbox, next[j]) ELSE inbox
    /\ UNCHANGED <<net, taskVars, next, took, lastClick, measured, flag, eveQueue, eveVars,
                   verdict, over, faults, blinded, shared>>

\* get_qubit returns the first qubit from Alice's host to whichever receiver
\* comes to look: it does not ask for a qubit by name.
Receive(j) ==
    /\ j \in AtHost /\ took[j] = Nobody /\ inbox # <<>>
    /\ took' = [took EXCEPT ![j] = Head(inbox)] /\ inbox' = Tail(inbox)
    /\ UNCHANGED <<net, taskVars, at, next, lastClick, measured, flag, eveQueue, eveVars,
                   verdict, over, faults, blinded, shared>>

DirectDone(j) ==
    /\ at[j] = "sent" /\ took[j] # Nobody
    /\ Push(j, took[j], "direct") /\ GoOn(j)
    /\ UNCHANGED <<net, taskVars, inbox, lastClick, flag, eveQueue, eveVars, verdict, over,
                   faults, blinded, shared>>

NothingToComeSlip == FALSE               \* get_qubit without a timeout
NothingToCome     == inbox = <<>> /\ \A k \in Job : at[k] # "receiving"

\* get_qubit gives up after 5 s, when nothing has come and nothing is about to.
DirectLost(j) ==
    /\ at[j] = "sent" /\ took[j] = Nobody /\ NothingToCome
    /\ GoOn(j)
    /\ UNCHANGED <<net, taskVars, inbox, lastClick, measured, flag, eveQueue, eveVars, verdict,
                   over, faults, blinded, shared>>

-----------------------------------------------------------------------------
(* Eve. *)

\* on_session_open.
EveOpens ==
    /\ register = "none"
    /\ register' = "asking"
    /\ UNCHANGED <<net, taskVars, jobVars, inbox, lastClick, measured, flag, eveQueue, asked,
                   collect, eveLog, verdict, over, faults, blinded, shared>>

TriesAgain(n) == n < RegisterTries

\* An attempt of _register_as_interceptor: registered, 404 once the session has
\* been torn down, or an exception, after which the QKDL may have registered her.
EveAsks ==
    /\ register = "asking"
    /\ asked' = asked + 1
    /\ \/ net /\ flag' = TRUE /\ register' = "ok" /\ UNCHANGED faults
       \/ /\ \/ ~net /\ UNCHANGED <<flag, faults>>
             \/ Fail /\ flag' \in {flag, net \/ flag}
          /\ register' = IF TriesAgain(asked') THEN "asking" ELSE "failed"
    /\ UNCHANGED <<net, taskVars, jobVars, inbox, lastClick, measured, eveQueue, collect,
                   eveLog, verdict, over, blinded, shared>>

\* on_key_available, on_session_aborted.
EveHears ==
    /\ verdict /\ collect = "none" /\ register # "none"
    /\ collect' = "asking"
    /\ UNCHANGED <<net, taskVars, jobVars, inbox, lastClick, measured, flag, eveQueue, register,
                   asked, eveLog, verdict, over, faults, blinded, shared>>

CollectedSlip == {}                          \* the answer is not kept
Collected     == eveQueue

\* eve_measurements pops them all; once the session is gone, 404.  The answer of
\* a request that fails takes what was popped with it.
EveCollects ==
    /\ collect = "asking"
    /\ \/ /\ net /\ collect' = "ok"
          /\ eveLog' = eveLog \cup Collected /\ eveQueue' = {} /\ UNCHANGED faults
       \/ /\ collect' = "failed" /\ UNCHANGED eveLog
          /\ \/ ~net /\ UNCHANGED <<eveQueue, faults>>
             \/ Fail /\ eveQueue' \in {eveQueue, IF net THEN {} ELSE eveQueue}
    /\ UNCHANGED <<net, taskVars, jobVars, inbox, lastClick, measured, flag, register, asked,
                   verdict, over, blinded, shared>>

-----------------------------------------------------------------------------
(* The end of the session. *)

\* publish_key after the chord: the event and the teardown set out together.
Verdict ==
    /\ ~verdict /\ \A b \in Batch : task[b] = "returned"
    /\ verdict' = TRUE /\ over' = TRUE
    /\ UNCHANGED <<net, taskVars, jobVars, inbox, lastClick, measured, flag, eveQueue, eveVars,
                   faults, blinded, shared>>

Cancel ==
    /\ ~over
    /\ over' = TRUE
    /\ UNCHANGED <<net, taskVars, jobVars, inbox, lastClick, measured, flag, eveQueue, eveVars,
                   verdict, faults, blinded, shared>>

NetStops ==
    /\ over /\ net
    /\ net' = FALSE /\ inbox' = <<>>
    /\ UNCHANGED <<taskVars, jobVars, lastClick, measured, flag, eveQueue, eveVars, verdict,
                   over, faults, blinded, shared>>

TaskStep(b) == Post(b) \/ PostRefused(b)
Thread(j) ==
    \/ BatchEnds(j) \/ Arrive(j) \/ Detect(j) \/ Look(j) \/ MeasureResent(j)
    \/ Send(j) \/ DirectDone(j) \/ DirectLost(j)
Eve == EveAsks \/ EveHears \/ EveCollects

LinkNext ==
    \/ \E b \in Batch : TaskStep(b) \/ PostFails(b)
    \/ \E j \in Job : Thread(j) \/ Receive(j)
    \/ EveOpens \/ Eve \/ Verdict \/ Cancel \/ NetStops

LinkSpec == LinkInit /\ [][LinkNext]_linkVars

\* The executor runs its threads, Celery its tasks.
LinkFairSpec ==
    /\ LinkSpec
    /\ \A j \in Job : WF_linkVars(Thread(j)) /\ WF_linkVars(Receive(j))
    /\ \A b \in Batch : WF_linkVars(TaskStep(b))

-----------------------------------------------------------------------------
LinkTypeOK ==
    /\ net \in BOOLEAN /\ flag \in BOOLEAN /\ verdict \in BOOLEAN /\ over \in BOOLEAN
    /\ task \in [Batch -> {"queued", "running", "returned", "failed"}]
    /\ tries \in [Batch -> 0 .. BatchTries]
    /\ at \in [Job -> Place] /\ next \in [Job -> 0 .. NQubits]
    /\ took \in [Job -> Qubit \cup {Nobody}] /\ inbox \in Seq(Qubit)
    /\ lastClick \in [time : Int, job : Job \cup {Nobody}]
    /\ measured \in SUBSET Measured
    /\ eveQueue \in SUBSET (Job \X Qubit) /\ eveLog \in SUBSET (Job \X Qubit)
    /\ register \in {"none", "asking", "ok", "failed"} /\ asked \in 0 .. RegisterTries
    /\ collect \in {"none", "asking", "ok", "failed"} /\ faults \in 0 .. MaxFaults
    /\ blinded \in SUBSET [job : Job, time : Int, click : [time : Int, job : Job \cup {Nobody}]]
    /\ shared \in SUBSET (Job \X Qubit)

\* What detector.py says of itself: "After any click (real or dark), the
\* detector is blind for dead_time_ns nanoseconds".  A photon of a batch is also
\* blocked by a click that a parallel batch has had in a later slot.
BlindAfterClick == \A b \in blinded : b.click.time <= b.time

\* A measurement that reaches Bob was taken from the qubit it names, unless two
\* receivers waited at Bob's host at the same time (_send_one_qubit_qns).
RightQubit == \A m \in measured : m.of # m.qid => <<m.job, m.qid>> \in shared

\* Once Eve is registered, each batch under way lets through at most the one
\* qubit that had passed the check (_process_batch_sync).
OneMoreUnseen ==
    \A j \in Job : Cardinality({m \in measured : m.job = j /\ m.how = "direct" /\ m.late}) <= 1

\* Whatever Bob measured after an interception, Eve has measured too: the record
\* waits on the QKDL or is in her log, however the threads and her collection
\* interleave, unless the collection failed.
EveMisses ==
    collect # "failed" =>
        \A m \in measured : m.how = "eve" => <<m.job, m.qid>> \in eveQueue \cup eveLog

\* Every posted batch comes back or is given up, whether or not the network is
\* stopped under it and however the receivers share Bob's host.
BatchesComeBack ==
    \A b \in Batch : task[b] = "running" ~> task[b] # "running"
=============================================================================
