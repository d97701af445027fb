---------------------------- MODULE KmeSessions ----------------------------
(***************************************************************************)
(* The Key Management Entity (kme/main.py, kme/session_store.py): the      *)
(* session records kept in Redis, the pool of link-layer instances (QKDL)  *)
(* guarded by one Redis lock each, the life of a key, and the events that  *)
(* the handlers publish on a session's stream.                             *)
(*                                                                         *)
(* The KME is one asyncio process: what a handler does between two awaits  *)
(* is one atomic action here.  Only two coroutines await anything in the   *)
(* middle of their work, _init_qkdl and _stop_qkdl, so only they are split *)
(* into several actions.  The replies of the QKDL are choices of the       *)
(* environment; module QkdlPool replaces them with a real QKDL.            *)
(***************************************************************************)
EXTENDS Naturals, Sequences, FiniteSets

CONSTANTS
    Session,      \* session ids that create_session may draw (uuid4, never reused)
    NoSession,    \* value of a pool lock that nobody holds
    NQkdl,        \* number of QKDL instances, in the order of QKDL_POOL
    Intercepted,  \* the sessions created with an interceptor_label
    InitRetries,  \* INIT_RETRIES
    MaxEvents,    \* bound: no upload once a stream holds this many events
    MaxStops,     \* bound: _stop_qkdl coroutines pending for one session
    MaxRestarts   \* bound: restarts of the KME process

ASSUME PoolAssumption == NQkdl \in Nat \ {0}
ASSUME SessionAssumption == NoSession \notin Session /\ Intercepted \subseteq Session
ASSUME BoundsAssumption ==
    /\ InitRetries \in Nat \ {0}
    /\ MaxEvents \in Nat /\ MaxStops \in Nat /\ MaxRestarts \in Nat

Qkdl   == 1 .. NQkdl
NoQkdl == 0

\* "absent" before save_session, "gone" once the record's TTL removed it.
Status    == {"absent", "initializing", "sending", "done", "aborted", "gone"}
KeyStatus == {"none", "active", "consumed", "expired"}
Event     == [name : {"session_open", "receiver_joined", "key_available", "session_aborted"},
              role : {"receiver", "monitor", "sender", "broadcast"}]

\* Progress of the create_session coroutine: "asking" while POST /network/init
\* is in flight, "backoff" while it sleeps before the next attempt, "lost" when
\* the process died under it.
Progress == {"none", "refused", "asking", "backoff", "opened", "failed", "lost"}

VARIABLES
    status,     \* session -> status field of its record
    qkdlOf,     \* session -> qkdl_url field of its record
    keyStatus,  \* session -> key_status field of its record
    lapsed,     \* session -> TRUE when time.time() > key_expires_at
    active,     \* the Redis set kme:sessions:active
    lock,       \* QKDL -> holder of its Redis lock
    create,     \* session -> Progress of its create_session coroutine
    attempts,   \* session -> attempts made by _init_qkdl
    stops,      \* session -> number of pending _stop_qkdl coroutines
    events,     \* session -> its Redis stream
    expired,    \* history: sessions whose pool lock ran out its TTL
    handed,     \* history: session -> times consume_key returned its key
    restarts    \* history: restarts so far

records == <<status, qkdlOf, keyStatus, lapsed, active>>
tasks   == <<create, attempts, stops>>
vars    == <<records, lock, tasks, events, expired, handed, restarts>>

InProgress(s) == status[s] \in {"initializing", "sending"}
Terminal(s)   == status[s] \in {"done", "aborted"}
Exists(s)     == InProgress(s) \/ Terminal(s)

Emitted(s, name) == \E i \in DOMAIN events[s] : events[s][i].name = name

Emit(s, name, role) ==
    events' = [events EXCEPT ![s] = Append(@, [name |-> name, role |-> role])]

Init ==
    /\ status = [s \in Session |-> "absent"]
    /\ qkdlOf = [s \in Session |-> NoQkdl]
    /\ keyStatus = [s \in Session |-> "none"]
    /\ lapsed = [s \in Session |-> FALSE]
    /\ active = {}
    /\ lock = [q \in Qkdl |-> NoSession]
    /\ create = [s \in Session |-> "none"]
    /\ attempts = [s \in Session |-> 0]
    /\ stops = [s \in Session |-> 0]
    /\ events = [s \in Session |-> <<>>]
    /\ expired = {}
    /\ handed = [s \in Session |-> 0]
    /\ restarts = 0

(***************************************************************************)
(* save_session: the status and the membership of the active set move      *)
(* together, in the same call.                                             *)
(***************************************************************************)
SaveStatusSlip(s, st) ==       \* "aborted" missing from _TERMINAL_STATUSES
    /\ status' = [status EXCEPT ![s] = st]
    /\ active' = IF st = "done" THEN active \ {s} ELSE active \cup {s}

SaveStatus(s, st) ==
    /\ status' = [status EXCEPT ![s] = st]
    /\ active' = IF st \in {"done", "aborted"} THEN active \ {s} ELSE active \cup {s}

FreeQkdls == {q \in Qkdl : lock[q] = NoSession}

\* pick_free_qkdl: the first instance of the pool whose lock has no holder.
Pick(q) == q \in FreeQkdls /\ \A r \in FreeQkdls : q <= r

ReleasedSlip(s, q) == [lock EXCEPT ![q] = NoSession]   \* no comparison of the holder

\* _release_qkdl_lock: the lock is deleted only when this session holds it.
Released(s, q) == IF lock[q] = s THEN [lock EXCEPT ![q] = NoSession] ELSE lock

-----------------------------------------------------------------------------
(* POST /sessions *)

\* 409, every lock of the pool is held.
CreateBusy(s) ==
    /\ create[s] = "none" /\ FreeQkdls = {}
    /\ create' = [create EXCEPT ![s] = "refused"]
    /\ UNCHANGED <<records, lock, attempts, stops, events, expired, handed, restarts>>

\* 404, the receiver or the interceptor is not registered: the lock that was
\* just taken is released before the handler raises, with no await between.
CreateUnknownNode(s) ==
    /\ create[s] = "none" /\ FreeQkdls # {}
    /\ create' = [create EXCEPT ![s] = "refused"]
    /\ UNCHANGED <<records, lock, attempts, stops, events, expired, handed, restarts>>

CreateSession(s) ==
    /\ create[s] = "none"
    /\ \E q \in Qkdl :
         /\ Pick(q)
         /\ lock' = [lock EXCEPT ![q] = s]
         /\ qkdlOf' = [qkdlOf EXCEPT ![s] = q]
    /\ SaveStatus(s, "initializing")
    /\ create' = [create EXCEPT ![s] = "asking"]
    /\ attempts' = [attempts EXCEPT ![s] = 1]
    /\ UNCHANGED <<keyStatus, lapsed, stops, events, expired, handed, restarts>>

\* The end of create_session once the network is up.  The status is not read
\* again: a session cancelled meanwhile is announced all the same.
InitReady(s) ==
    /\ create[s] = "asking"
    /\ create' = [create EXCEPT ![s] = "opened"]
    /\ events' = [events EXCEPT ![s] = @ \o
                    IF s \in Intercepted
                    THEN <<[name |-> "session_open", role |-> "receiver"],
                           [name |-> "session_open", role |-> "monitor"]>>
                    ELSE <<[name |-> "session_open", role |-> "receiver"]>>]
    /\ UNCHANGED <<records, lock, attempts, stops, expired, handed, restarts>>

\* _init_qkdl gives up: ABORTED and the lock released in one step, 503 to Alice.
FailInit(s) ==
    /\ create' = [create EXCEPT ![s] = "failed"]
    /\ SaveStatus(s, "aborted")
    /\ lock' = Released(s, qkdlOf[s])
    /\ UNCHANGED <<qkdlOf, keyStatus, lapsed, attempts, stops, events, expired,
                   handed, restarts>>

\* 409 from the QKDL, another session is active there: no retry.
InitRefused(s) == create[s] = "asking" /\ FailInit(s)

\* 503 while cooling down, any other HTTP error, a timeout of 30 s.
InitBackoff(s) ==
    /\ create[s] = "asking"
    /\ create' = [create EXCEPT ![s] = "backoff"]
    /\ UNCHANGED <<records, lock, attempts, stops, events, expired, handed, restarts>>

MayRetrySlip(s)  == attempts[s] <= InitRetries                \* one attempt too many
MayRetry(s)      == attempts[s] < InitRetries
NextAttempt(s) == attempts' = [attempts EXCEPT ![s] = @ + 1]

InitResend(s) ==
    /\ create[s] = "backoff" /\ MayRetry(s)
    /\ create' = [create EXCEPT ![s] = "asking"]
    /\ NextAttempt(s)
    /\ UNCHANGED <<records, lock, stops, events, expired, handed, restarts>>

InitGiveUp(s) ==
    /\ create[s] = "backoff" /\ ~MayRetry(s)
    /\ FailInit(s)

-----------------------------------------------------------------------------
(* POST /sessions/{id}/join, /key, /consume-key and DELETE /sessions/{id} *)

MayJoinTwice(s) == InProgress(s)                          \* SENDING accepted as well
MayJoinLate(s)  == status[s] \in {"initializing", "aborted"}   \* ABORTED accepted as well
MayJoin(s)      == status[s] = "initializing"

\* Bob joins only from his handler of session_open.
Join(s) ==
    /\ Emitted(s, "session_open")
    /\ MayJoin(s)
    /\ SaveStatus(s, "sending")
    /\ Emit(s, "receiver_joined", "sender")
    /\ UNCHANGED <<qkdlOf, keyStatus, lapsed, lock, tasks, expired, handed, restarts>>

SpawnStopSlip(s) == stops[s] < MaxStops /\ stops' = stops   \* the task is never created

\* background_tasks.add_task(_stop_qkdl) and asyncio.create_task(_stop_qkdl).
SpawnStop(s) ==
    /\ stops[s] < MaxStops
    /\ stops' = [stops EXCEPT ![s] = @ + 1]

(***************************************************************************)
(* The notification task posts its verdict after receiver_joined started   *)
(* the pipeline, and posts it again when it lost the answer (max_retries). *)
(* A second run of ST may end in the other verdict.  publish_key reads     *)
(* neither the status nor the stream before it writes.                     *)
(***************************************************************************)
MayPublish(s) ==
    /\ Exists(s)
    /\ Emitted(s, "receiver_joined")
    /\ Len(events[s]) < MaxEvents

PublishSuccess(s) ==
    /\ MayPublish(s)
    /\ keyStatus' = [keyStatus EXCEPT ![s] = "active"]
    /\ lapsed' = [lapsed EXCEPT ![s] = FALSE]
    /\ SaveStatus(s, "done")
    /\ Emit(s, "key_available", "broadcast")
    /\ SpawnStop(s)
    /\ UNCHANGED <<qkdlOf, lock, create, attempts, expired, handed, restarts>>

PublishAborted(s) ==
    /\ MayPublish(s)
    /\ SaveStatus(s, "aborted")
    /\ Emit(s, "session_aborted", "broadcast")
    /\ SpawnStop(s)
    /\ UNCHANGED <<qkdlOf, keyStatus, lapsed, lock, create, attempts, expired,
                   handed, restarts>>

\* Whatever the status is: ABORTED, no event, and the teardown in a task.
Cancel(s) ==
    /\ Exists(s)
    /\ SaveStatus(s, "aborted")
    /\ SpawnStop(s)
    /\ UNCHANGED <<qkdlOf, keyStatus, lapsed, lock, create, attempts, events,
                   expired, handed, restarts>>

MayConsumeSlip(s) == keyStatus[s] \in {"active", "consumed"} /\ ~lapsed[s]
MayConsume(s)     == keyStatus[s] = "active" /\ ~lapsed[s]

Consume(s) ==
    /\ Exists(s) /\ MayConsume(s)
    /\ keyStatus' = [keyStatus EXCEPT ![s] = "consumed"]
    /\ handed' = [handed EXCEPT ![s] = @ + 1]
    /\ UNCHANGED <<status, qkdlOf, lapsed, active, lock, tasks, events, expired, restarts>>

\* 409, and the record learns that its key has expired.
ConsumeExpired(s) ==
    /\ Exists(s) /\ keyStatus[s] = "active" /\ lapsed[s]
    /\ keyStatus' = [keyStatus EXCEPT ![s] = "expired"]
    /\ UNCHANGED <<status, qkdlOf, lapsed, active, lock, tasks, events, expired,
                   handed, restarts>>

\* _stop_qkdl after its POST answered or timed out (5 s): the finally clause.
StopDone(s) ==
    /\ stops[s] > 0
    /\ stops' = [stops EXCEPT ![s] = @ - 1]
    /\ lock' = Released(s, qkdlOf[s])
    /\ UNCHANGED <<records, create, attempts, events, expired, handed, restarts>>

-----------------------------------------------------------------------------
(* Time and failure *)

\* KEY_TTL seconds after activate_key.
KeyLapses(s) ==
    /\ Exists(s) /\ keyStatus[s] = "active" /\ ~lapsed[s]
    /\ lapsed' = [lapsed EXCEPT ![s] = TRUE]
    /\ UNCHANGED <<status, qkdlOf, keyStatus, active, lock, tasks, events, expired,
                   handed, restarts>>

LockOverdueSlip(q) ==            \* the TTL is set only once the session is open
    /\ lock[q] # NoSession
    /\ create[lock[q]] = "opened"

\* ex=600 of _acquire_qkdl_lock.  The five attempts of _init_qkdl take less
\* than 160 s, so the lock outlives them unless the KME dies.
LockOverdue(q) ==
    /\ lock[q] # NoSession
    /\ create[lock[q]] \notin {"asking", "backoff"}

LockExpires(q) ==
    /\ LockOverdue(q)
    /\ lock' = [lock EXCEPT ![q] = NoSession]
    /\ expired' = expired \cup {lock[q]}
    /\ UNCHANGED <<records, tasks, events, handed, restarts>>

\* SESSION_TTL, twelve times the TTL of the lock: the record vanishes, its
\* entry in the active set has no TTL and stays.
RecordExpires(s) ==
    /\ Exists(s)
    /\ create[s] \notin {"asking", "backoff"} /\ stops[s] = 0
    /\ \A q \in Qkdl : lock[q] # s
    /\ keyStatus[s] = "active" => lapsed[s]
    /\ status' = [status EXCEPT ![s] = "gone"]
    /\ UNCHANGED <<qkdlOf, keyStatus, lapsed, active, lock, tasks, events, expired,
                   handed, restarts>>

\* Redis survives; every coroutine of the process is lost.
Restart ==
    /\ restarts < MaxRestarts
    /\ restarts' = restarts + 1
    /\ create' = [s \in Session |->
                    IF create[s] \in {"asking", "backoff"} THEN "lost" ELSE create[s]]
    /\ stops' = [s \in Session |-> 0]
    /\ UNCHANGED <<records, lock, attempts, events, expired, handed>>

CreateRequest(s) == CreateBusy(s) \/ CreateUnknownNode(s) \/ CreateSession(s)

InitStep(s) ==
    \/ InitReady(s) \/ InitRefused(s) \/ InitBackoff(s)
    \/ InitResend(s) \/ InitGiveUp(s)

Request(s) ==
    \/ Join(s) \/ PublishSuccess(s) \/ PublishAborted(s) \/ Cancel(s)
    \/ Consume(s) \/ ConsumeExpired(s)

Next ==
    \/ \E s \in Session : CreateRequest(s) \/ InitStep(s) \/ Request(s) \/ StopDone(s)
    \/ \E s \in Session : KeyLapses(s) \/ RecordExpires(s)
    \/ \E q \in Qkdl : LockExpires(q)
    \/ Restart

Spec == Init /\ [][Next]_vars

\* asyncio runs every ready coroutine, and httpx gives each of them an answer or
\* a timeout: _init_qkdl and _stop_qkdl always move on while the process lives.
TasksRun == \A s \in Session : WF_vars(InitStep(s)) /\ WF_vars(StopDone(s))

FairSpec == Spec /\ TasksRun

\* Redis lets the TTL of every lock run out.
LocksRunOut == \A q \in Qkdl : WF_vars(LockExpires(q))

-----------------------------------------------------------------------------
TypeOK ==
    /\ status \in [Session -> Status]
    /\ qkdlOf \in [Session -> Qkdl \cup {NoQkdl}]
    /\ keyStatus \in [Session -> KeyStatus]
    /\ lapsed \in [Session -> BOOLEAN]
    /\ active \in SUBSET Session
    /\ lock \in [Qkdl -> Session \cup {NoSession}]
    /\ create \in [Session -> Progress]
    /\ attempts \in [Session -> 0 .. InitRetries]
    /\ stops \in [Session -> 0 .. MaxStops]
    /\ events \in [Session -> Seq(Event)]
    /\ expired \in SUBSET Session
    /\ handed \in [Session -> Nat]
    /\ restarts \in 0 .. MaxRestarts

\* A session in progress whose lock has not run out has a claim on its QKDL.
Claims(s) == InProgress(s) /\ s \notin expired

\* A session in progress holds the lock of its QKDL until the lock's TTL runs
\* out, whatever teardown of whatever session is still pending
\* (_release_qkdl_lock, _stop_qkdl, cancel_session, publish_key).
LiveSessionHoldsLock ==
    \A s \in Session : Claims(s) => lock[qkdlOf[s]] = s

\* Two sessions in progress whose locks have not run out never share a QKDL
\* (create_session, "Pick + lock a free QKDL").
QkdlExclusive ==
    \A s, t \in Session : Claims(s) /\ Claims(t) /\ qkdlOf[s] = qkdlOf[t] => s = t

\* A session's stream and its record tell one story, however a cancellation, a
\* verdict that comes after it, retried verdicts and verdicts that contradict each
\* other are interleaved.  session_open comes first, receiver_joined at most once
\* and before every verdict, and after a verdict only verdicts; nobody has joined
\* while the record says INITIALIZING, no verdict has been announced while it says
\* SENDING, and DONE means that the last thing announced is the key (join_session,
\* publish_key, cancel_session, update_session).
StreamTellsStatus ==
    \A s \in Session :
        LET name(i)    == events[s][i].name
            verdict(i) == name(i) \in {"key_available", "session_aborted"}
            endsWith(n) == events[s] # <<>> /\ name(Len(events[s])) = n
        IN  /\ \A i, j \in DOMAIN events[s] : i < j =>
                 /\ name(1) = "session_open"
                 /\ name(j) = "receiver_joined" => name(i) = "session_open"
                 /\ verdict(i) => verdict(j)
            /\ status[s] = "initializing" =>
                 \A i \in DOMAIN events[s] : name(i) = "session_open"
            /\ status[s] = "sending" => endsWith("receiver_joined")
            /\ status[s] = "done" => endsWith("key_available")

\* The active set lists the sessions in progress, and beside them only ids
\* whose record has vanished (save_session).
ActiveSetExact == {s \in active : status[s] # "gone"} = {s \in Session : InProgress(s)}

Users(q) == {s \in Session : Claims(s) /\ qkdlOf[s] = q}

Lease == INSTANCE QkdlLease
    WITH serving <- [q \in Qkdl |-> Users(q)],
         served  <- {s \in Session : status[s] # "absent"}

\* The KME implements the pool's promise: serving a session is one stretch of
\* INITIALIZING and SENDING that ends for good with a verdict, a cancellation,
\* a failed creation or the lock's TTL, and no other session is served by that
\* QKDL meanwhile.
LeaseKept == Lease!Spec

Activations(s) == Cardinality({i \in DOMAIN events[s] : events[s][i].name = "key_available"})

\* A key is handed out at most once for each time it was activated, and an
\* active key has been handed out less often than that: a retried upload can
\* hand a consumed key out again, a retried consume cannot (consume_key).
HandOutsPaid ==
    \A s \in Session :
        /\ handed[s] <= Activations(s)
        /\ keyStatus[s] = "active" => handed[s] < Activations(s)

\* A session that is over gives its QKDL back without waiting for the lock's
\* TTL, unless the KME dies: every path to DONE or ABORTED starts or contains a
\* release.
OverFreesQkdl ==
    \A s \in Session : Terminal(s) ~> restarts > 0 \/ \A q \in Qkdl : lock[q] # s

\* Even when the KME dies with a teardown or a creation under way, no lock is
\* held for ever, because its TTL runs out (ex=600).
NoLockForEver ==
    LocksRunOut => \A s \in Session, q \in Qkdl : lock[q] = s ~> lock[q] # s
=============================================================================
