------------------------------ MODULE EventBus ------------------------------
(***************************************************************************)
(* The events of one session: published by the KME on the session's Redis  *)
(* stream, read by one consumer group per role (kme/event_bus.py), handled *)
(* on the asyncio loop of the node that plays the role (node/base_node.py).*)
(*                                                                         *)
(* A node runs three kinds of threads that meet here: the one that drains  *)
(* the pending sessions, the session's NodeStreamConsumer thread, and the  *)
(* loop.  The KME is another process: between two Redis commands of one of *)
(* its handlers the nodes may run.                                         *)
(*                                                                         *)
(* A node that restarts registers under a new node_id (register_node), so  *)
(* for the session at hand a crash is final.                               *)
(***************************************************************************)
EXTENDS Integers, Sequences, FiniteSets, Sorting

CONSTANTS
    Role,          \* "sender", "receiver" and, with an interceptor, "monitor"
    ReadCount,     \* count of XREADGROUP
    MaxEntries,    \* bound: entries on the stream when a node posts another
    MaxFaults,     \* bound: Redis commands and join requests of the nodes that raise
    MaxCrashes,    \* bound: nodes that die
    MayLoseReply   \* the reply of create_session may miss Alice's 30 s timeout

ASSUME RoleAssumption ==
    {"sender", "receiver"} \subseteq Role /\ Role \subseteq {"sender", "receiver", "monitor"}
ASSUME CountAssumption ==
    /\ ReadCount \in Nat \ {0} /\ MaxEntries \in Nat
    /\ MaxFaults \in Nat /\ MaxCrashes \in Nat /\ MayLoseReply \in BOOLEAN

Verdicts == {"key_available", "session_aborted"}
Entry == [name : {"session_open", "receiver_joined", "measurements_ready", "sift_ready"} \cup Verdicts,
          role : Role \cup {"broadcast"}]

\* Knowledge of the session: "pending" in the node's set, "popped" from it but
\* not listened to yet, "lost" when the answer came too late or the drain raised.
Knowledge == {"no", "pending", "popped", "lost", "listens"}
Thread    == {"none", "poll", "batch", "ended"}

VARIABLES
    stream,     \* the session's stream
    cancelled,  \* DELETE /sessions/{id} was called
    knows,      \* role -> Knowledge of its node
    thread,     \* role -> state of its NodeStreamConsumer thread
    stop,       \* role -> the thread's _stop event
    cursor,     \* role -> entries its consumer group has delivered
    pel,        \* role -> entries delivered and not acked
    batch,      \* role -> the events the thread still has to dispatch
    loop,       \* role -> handlers scheduled on the node's loop
    handled,    \* role -> handlers that have run
    joins,      \* requests of Bob to join_session that are on their way
    dead,       \* roles whose node has died
    faults      \* commands and requests that have raised

node == <<knows, thread, stop, batch, loop, handled>>
redis == <<cursor, pel>>
busVars == <<stream, cancelled, node, joins, redis, dead, faults>>

Alive(r) == r \notin dead
Listeners == Role \ {"sender"}

Published(name) == {i \in DOMAIN stream : stream[i].name = name}
Handled(r, name) == \E i \in DOMAIN handled[r] : stream[handled[r][i]].name = name
Opened(r) == \E i \in Published("session_open") : stream[i].role = r
Created == \A r \in Listeners : Opened(r)
Judged == \E v \in Verdicts : Published(v) # {}

Addressed(r, i) == stream[i].role \in {r, "broadcast"}
ElementsOf(q) == {q[i] : i \in DOMAIN q}
InOrder(S) == Increasing(S)

BusInit ==
    /\ stream = <<>> /\ cancelled = FALSE
    /\ knows = [r \in Role |-> "no"]
    /\ thread = [r \in Role |-> "none"]
    /\ stop = [r \in Role |-> FALSE]
    /\ cursor = [r \in Role |-> 0]
    /\ pel = [r \in Role |-> {}]
    /\ batch = [r \in Role |-> <<>>]
    /\ loop = [r \in Role |-> <<>>]
    /\ handled = [r \in Role |-> <<>>]
    /\ joins = 0 /\ dead = {} /\ faults = 0

-----------------------------------------------------------------------------
(* The KME. *)

\* publish_event: every group exists, at the start of the stream, before XADD.
Publish(name, role) ==
    /\ stream' = Append(stream, [name |-> name, role |-> role])
    /\ UNCHANGED <<cancelled, node, redis, dead, faults>>

\* register_pending_session, at the end of create_session: Bob, then Eve.
Register(r) ==
    /\ knows[r] = "no"
    /\ r = "monitor" => Opened("receiver")
    /\ knows' = [knows EXCEPT ![r] = "pending"]
    /\ UNCHANGED <<stream, cancelled, joins, thread, stop, batch, loop, handled, redis, dead, faults>>

Open(r) ==
    /\ knows[r] # "no" /\ ~Opened(r)
    /\ Publish("session_open", r)
    /\ UNCHANGED joins

\* join_session: only while the session is INITIALIZING, hence once.  The loop of
\* the KME is busy with create_session until the session is open for every role.
Joined ==
    /\ joins > 0 /\ Created
    /\ Published("receiver_joined") = {} /\ ~cancelled
    /\ joins' = joins - 1
    /\ Publish("receiver_joined", "sender")

\* 409: joined already, or cancelled.
JoinRefused ==
    /\ joins > 0
    /\ Published("receiver_joined") # {} \/ cancelled
    /\ joins' = joins - 1
    /\ UNCHANGED <<stream, cancelled, node, redis, dead, faults>>

MayPost == Len(stream) < MaxEntries

\* upload_measurements, when Bob's receive loop ends: it starts after the join.
MeasurementsReady ==
    /\ Published("receiver_joined") # {} /\ Published("measurements_ready") = {} /\ MayPost
    /\ Publish("measurements_ready", "sender")
    /\ UNCHANGED joins

\* upload_sift and publish_key, posted by the pipeline that Alice dispatches
\* on receiver_joined.  Celery may run the posting task again, a second run of ST
\* may come to the other verdict, and neither handler reads a status.
SiftReady ==
    /\ Handled("sender", "receiver_joined") /\ MayPost
    /\ Publish("sift_ready", "receiver")
    /\ UNCHANGED joins

Verdict(v) ==
    /\ v = "key_available" => Published("sift_ready") # {}
    /\ Handled("sender", "receiver_joined") /\ MayPost
    /\ Publish(v, "broadcast")
    /\ UNCHANGED joins

\* cancel_session publishes nothing.
Cancel ==
    /\ Created /\ ~cancelled
    /\ cancelled' = TRUE
    /\ UNCHANGED <<stream, joins, node, redis, dead, faults>>

-----------------------------------------------------------------------------
(* Discovery. *)

\* SPOP in pop_pending_sessions, by the poll tick or the wake-up thread.
Pop(r) ==
    /\ Alive(r) /\ knows[r] = "pending"
    /\ knows' = [knows EXCEPT ![r] = "popped"]
    /\ UNCHANGED <<stream, cancelled, joins, thread, stop, batch, loop, handled, redis, dead, faults>>

\* A later SPOP of the same call raises: the ids popped so far go with the list,
\* and _drain_pending_sessions swallows the exception.
PopRaises(r) ==
    /\ Alive(r) /\ knows[r] = "popped" /\ faults < MaxFaults
    /\ knows' = [knows EXCEPT ![r] = "lost"]
    /\ faults' = faults + 1
    /\ UNCHANGED <<stream, cancelled, joins, thread, stop, batch, loop, handled, redis, dead>>

\* begin_listening: Alice calls it with the reply of create_session.
Begin(r) ==
    /\ Alive(r)
    /\ \/ knows[r] = "popped"
       \/ r = "sender" /\ Created /\ knows[r] = "no"
    /\ knows' = [knows EXCEPT ![r] = "listens"]
    /\ thread' = [thread EXCEPT ![r] = "poll"]
    /\ UNCHANGED <<stream, cancelled, joins, stop, batch, loop, handled, redis, dead, faults>>

\* httpx gives up while create_session still waits for the QKDL.
LoseReply ==
    /\ MayLoseReply /\ knows["sender"] = "no"
    /\ knows' = [knows EXCEPT !["sender"] = "lost"]
    /\ UNCHANGED <<stream, cancelled, joins, thread, stop, batch, loop, handled, redis, dead, faults>>

-----------------------------------------------------------------------------
(* The consumer thread. *)

FreshSlip(r) == {i \in DOMAIN stream : i >= cursor[r] /\ i <= cursor[r] + ReadCount}
Fresh(r)     == {i \in DOMAIN stream : i > cursor[r] /\ i <= cursor[r] + ReadCount}

\* The loop test of _run comes after the batch, and after an exception.
Turn(r, events) ==
    thread' = [thread EXCEPT ![r] =
                 IF events # <<>> THEN "batch" ELSE IF stop[r] THEN "ended" ELSE "poll"]

\* The entries that have been idle for CLAIM_MIN_IDLE_MS: any of the PEL.
ReclaimableSlip(r) == {{}}             \* reclaim_stale_entries is never called
Reclaimable(r)     == SUBSET pel[r]

\* read_role_events, then reclaim_stale_entries when its turn has come.  What
\* is addressed to another role is acked on the spot.
Read(r) ==
    /\ Alive(r) /\ thread[r] = "poll"
    /\ \E stale \in Reclaimable(r) :
         LET mine(S) == {i \in S : Addressed(r, i)}
             events  == InOrder(mine(Fresh(r))) \o InOrder(mine(stale))
         IN  /\ pel' = [pel EXCEPT ![r] = (@ \ stale) \cup mine(Fresh(r)) \cup mine(stale)]
             /\ batch' = [batch EXCEPT ![r] = events]
             /\ Turn(r, events)
    /\ cursor' = [cursor EXCEPT ![r] = @ + Cardinality(Fresh(r))]
    /\ UNCHANGED <<stream, cancelled, joins, knows, stop, loop, handled, dead, faults>>

\* A later command of the same round raises: what XREADGROUP returned is gone.
ReadRaises(r) ==
    /\ Alive(r) /\ thread[r] = "poll" /\ faults < MaxFaults
    /\ Fresh(r) # {}
    /\ cursor' = [cursor EXCEPT ![r] = @ + Cardinality(Fresh(r))]
    /\ pel' = [pel EXCEPT ![r] = @ \cup Fresh(r)]
    /\ faults' = faults + 1
    /\ Turn(r, <<>>)
    /\ UNCHANGED <<stream, cancelled, joins, knows, stop, batch, loop, handled, dead>>

\* _dispatch_event schedules the handler and does not wait for it.
Schedule(r) == loop' = [loop EXCEPT ![r] = Append(@, Head(batch[r]))]

AckedSlip(r)      == pel[r]                          \* no ack after the handler
AckedWholeSlip(r) == pel[r] \ ElementsOf(batch[r])   \* the whole batch acked at once
Acked(r)          == pel[r] \ {Head(batch[r])}

Dispatch(r) ==
    /\ Alive(r) /\ thread[r] = "batch"
    /\ Schedule(r)
    /\ pel' = [pel EXCEPT ![r] = Acked(r)]
    /\ batch' = [batch EXCEPT ![r] = Tail(@)]
    /\ Turn(r, Tail(batch[r]))
    /\ UNCHANGED <<stream, cancelled, joins, knows, stop, cursor, handled, dead, faults>>

\* XACK raises in the finally clause, executed or not: the handler is scheduled,
\* the rest of the batch is dropped and waits in the pending list.
AckRaises(r) ==
    /\ Alive(r) /\ thread[r] = "batch" /\ faults < MaxFaults
    /\ Schedule(r)
    /\ \E left \in {pel[r], Acked(r)} : pel' = [pel EXCEPT ![r] = left]
    /\ batch' = [batch EXCEPT ![r] = <<>>]
    /\ faults' = faults + 1
    /\ Turn(r, <<>>)
    /\ UNCHANGED <<stream, cancelled, joins, knows, stop, cursor, handled, dead>>

\* The thread finds _stop set at the top of its loop.
ThreadEnds(r) ==
    /\ Alive(r) /\ thread[r] = "poll" /\ stop[r]
    /\ thread' = [thread EXCEPT ![r] = "ended"]
    /\ UNCHANGED <<stream, cancelled, joins, knows, stop, batch, loop, handled, redis, dead, faults>>

-----------------------------------------------------------------------------
(* The loop of the node. *)

\* on_key_available and on_session_aborted of every node stop listening.
EndsListeningSlip(r, i) == stream[i].name = "key_available"   \* forgotten on an abort
EndsListening(r, i)     == stream[i].name \in Verdicts

\* Bob's on_session_open posts the join.
PostsJoin(r, i) == r = "receiver" /\ stream[i].name = "session_open"

Run(r) ==
    /\ Alive(r) /\ loop[r] # <<>>
    /\ handled' = [handled EXCEPT ![r] = Append(@, Head(loop[r]))]
    /\ loop' = [loop EXCEPT ![r] = Tail(@)]
    /\ stop' = [stop EXCEPT ![r] = @ \/ EndsListening(r, Head(loop[r]))]
    /\ joins' = IF PostsJoin(r, Head(loop[r])) THEN joins + 1 ELSE joins
    /\ UNCHANGED <<stream, cancelled, knows, thread, batch, redis, dead, faults>>

\* The join raises before the KME has it; nobody posts it again.
JoinFails ==
    /\ joins > 0 /\ faults < MaxFaults
    /\ joins' = joins - 1
    /\ faults' = faults + 1
    /\ UNCHANGED <<stream, cancelled, node, redis, dead>>

\* Alice's _poll_tick reads a terminal status and cleans up.
PollTick ==
    /\ Alive("sender") /\ knows["sender"] = "listens" /\ ~stop["sender"]
    /\ Judged \/ cancelled
    /\ stop' = [stop EXCEPT !["sender"] = TRUE]
    /\ UNCHANGED <<stream, cancelled, joins, knows, thread, batch, loop, handled, redis, dead, faults>>

\* The process dies: its threads, its batch and its loop go with it, and a join
\* that is on its way may arrive or not.
Crash(r) ==
    /\ Alive(r) /\ Cardinality(dead) < MaxCrashes
    /\ dead' = dead \cup {r}
    /\ thread' = [thread EXCEPT ![r] = IF @ = "none" THEN @ ELSE "ended"]
    /\ batch' = [batch EXCEPT ![r] = <<>>]
    /\ loop' = [loop EXCEPT ![r] = <<>>]
    /\ joins' \in (IF r = "receiver" THEN {0, joins} ELSE {joins})
    /\ UNCHANGED <<stream, cancelled, knows, stop, handled, redis, faults>>

Kme ==
    \/ \E r \in Listeners : Register(r) \/ Open(r)
    \/ Joined \/ JoinRefused \/ MeasurementsReady \/ SiftReady \/ Cancel
    \/ \E v \in Verdicts : Verdict(v)

Consumer(r) == Read(r) \/ Dispatch(r) \/ ThreadEnds(r)

Faults(r) == ReadRaises(r) \/ AckRaises(r) \/ Crash(r)

BusNext ==
    \/ Kme \/ LoseReply \/ PollTick \/ JoinFails
    \/ \E r \in Listeners : Pop(r) \/ PopRaises(r)
    \/ \E r \in Role : Begin(r) \/ Consumer(r) \/ Run(r) \/ Faults(r)

BusSpec == BusInit /\ [][BusNext]_busVars

\* The rest of create_session and the requests the nodes post are served, the
\* poll tick drains the pending set every two seconds, threads and loops run.
\* Nobody has to cancel, to fail, or to post a measurement or a verdict.
BusFairSpec ==
    /\ BusSpec
    /\ WF_busVars(\E r \in Listeners : Register(r) \/ Open(r))
    /\ WF_busVars(Joined \/ JoinRefused)
    /\ \A r \in Listeners : WF_busVars(Pop(r))
    /\ \A r \in Role : WF_busVars(Begin(r)) /\ WF_busVars(Consumer(r)) /\ WF_busVars(Run(r))

-----------------------------------------------------------------------------
BusTypeOK ==
    /\ stream \in Seq(Entry) /\ cancelled \in BOOLEAN
    /\ knows \in [Role -> Knowledge]
    /\ thread \in [Role -> Thread]
    /\ stop \in [Role -> BOOLEAN]
    /\ cursor \in [Role -> 0 .. Len(stream)]
    /\ pel \in [Role -> SUBSET DOMAIN stream]
    /\ \A q \in {batch, loop, handled} : q \in [Role -> Seq(DOMAIN stream)]
    /\ joins \in Nat
    /\ dead \in SUBSET Role
    /\ faults \in 0 .. MaxFaults

Delivery == INSTANCE RoleDelivery

\* While no Redis command fails, the bus implements its promise, whatever the
\* order in which the nodes discover the session and even when nodes die: no
\* event is skipped, repeated or overtaken (publish_event's groups at id "0").
InOrderOnce == Delivery!Spec

\* An event that the group has delivered is never out of everybody's sight as
\* long as the node lives: handled, scheduled, in the thread's batch, or in the
\* pending list where reclaim_stale_entries finds it.
NothingSlips ==
    \A r \in Role : Alive(r) =>
        \A i \in 1 .. cursor[r] : Addressed(r, i) =>
            i \in ElementsOf(handled[r]) \cup ElementsOf(loop[r])
                    \cup ElementsOf(batch[r]) \cup pel[r]

\* Handlers run more than once only for as many events as acks have failed
\* (Alice's on_receiver_joined dispatches a whole pipeline each time).
Repeats(r) == Len(handled[r]) - Cardinality(ElementsOf(handled[r]))

RepeatsPaid ==
    Repeats("sender") + Repeats("receiver")
        + (IF "monitor" \in Role THEN Repeats("monitor") ELSE 0) <= faults

\* Bob's join came to nothing: no request is on its way, nobody joined.
JoinLost == Handled("receiver", "session_open") /\ joins = 0 /\ Published("receiver_joined") = {}

\* Once the session is created, Bob discovers it and joins, and Alice learns of
\* that and starts the pipeline, through any bounded number of Redis failures of
\* the consumer threads, unless somebody cancels.  Only two failures are for good:
\* a drain that raises after it popped the session, and a join that raises
\* (_drain_pending_sessions and join_session are not retried,
\* reclaim_stale_entries is what retries the rest).
PipelineStarts ==
    Created ~> \/ cancelled \/ Handled("sender", "receiver_joined")
               \/ knows["receiver"] = "lost" \/ JoinLost

\* After a verdict no consumer thread polls the stream for ever: the broadcast
\* reaches every listener through any bounded number of Redis failures.
VerdictEndsThreads == Judged ~> \A r \in Role : thread[r] # "none" => thread[r] = "ended"

\* "a crash between read and handling leaves the entry claimable by XAUTOCLAIM
\* instead of silently lost" (event_bus.py:145).
CrashLeavesClaimable ==
    \A r \in dead : \A i \in 1 .. cursor[r] :
        Addressed(r, i) => i \in ElementsOf(handled[r]) \cup pel[r]
=============================================================================
