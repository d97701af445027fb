------------------------------ MODULE QkdlPool ------------------------------
(***************************************************************************)
(* The KME of KmeSessions and the QKDL instances of QkdlService, joined by *)
(* the two HTTP calls between them: POST /network/init of _init_qkdl and   *)
(* POST /network/stop of _stop_qkdl.                                       *)
(*                                                                         *)
(* KmeSessions lets the environment choose the QKDL's replies; here each   *)
(* reply is the one that QkdlService computed for that call.               *)
(***************************************************************************)
EXTENDS KmeSessions

CONSTANTS
    NoCall,
    MayEndBeforeStart,  \* a session may end before every start() of it returned
    MayInitTimeOut,     \* a start() may take longer than the KME waits (30 s)
    MayStopTimeOut,     \* a stop may take longer than the KME waits (5 s)
    MayStopTwice,       \* a session may be torn down again before the first stop was answered
    MayRunOut           \* a pool lock may run out before its session is torn down

ASSUME TimingAssumption ==
    {MayEndBeforeStart, MayInitTimeOut, MayStopTimeOut, MayStopTwice, MayRunOut} \subseteq BOOLEAN

VARIABLES registry, starting, stopping, cooling, network, netOf, up, reply,
    asked,           \* session -> calls of POST /network/init in flight
    unposted,        \* session -> tasks of _stop_qkdl that have not posted their stop yet
    stopReqs,        \* session -> calls of POST /network/stop in flight
    dropped          \* sessions that lost a task of _stop_qkdl before it posted its stop

Service == INSTANCE QkdlService WITH MaxTries <- InitRetries

qkdlVars == <<registry, starting, stopping, cooling, network, netOf, up, reply>>
stopVars == <<unposted, stopReqs, dropped>>
http     == <<asked, unposted, stopReqs, dropped>>
poolVars == <<vars, qkdlVars, http>>

Call == Service!Call

PoolInit ==
    /\ Init /\ Service!QkdlInit
    /\ asked = [s \in Session |-> {}]
    /\ unposted = [s \in Session |-> 0]
    /\ stopReqs = [s \in Session |-> 0]
    /\ dropped = {}

ThisCall(s) == [session |-> s, try |-> attempts[s]]

\* The call goes out when the coroutine enters "asking".
Ask(s) == asked' = [asked EXCEPT ![s] = @ \cup {[session |-> s, try |-> attempts'[s]]}]

-----------------------------------------------------------------------------
(* Steps of the KME. *)

PoolCreate(s) ==
    /\ CreateSession(s) /\ Ask(s)
    /\ UNCHANGED <<qkdlVars, stopVars>>

PoolRefuse(s) ==
    /\ CreateBusy(s) \/ CreateUnknownNode(s)
    /\ UNCHANGED <<qkdlVars, http>>

PoolResend(s) ==
    /\ InitResend(s) /\ Ask(s)
    /\ UNCHANGED <<qkdlVars, stopVars>>

\* The announcement does not wait for the QKDL: what create_session did before
\* it awaited _init_qkdl.
NetworkReadySlip(s) == reply[ThisCall(s)] \in {"ready", "none"}
NetworkReady(s)     == reply[ThisCall(s)] = "ready"

\* The 30 s of httpx end while start() is still in the QKDL's executor.
InitTimesOut(s) == MayInitTimeOut /\ ThisCall(s) \in starting[qkdlOf[s]]

\* The branch that _init_qkdl takes on the reply of its current call.
PoolInitReply(s) ==
    /\ create[s] = "asking"
    /\ \/ NetworkReady(s) /\ InitReady(s)
       \/ reply[ThisCall(s)] = "busy" /\ InitRefused(s)
       \/ reply[ThisCall(s)] \in {"cooling", "error"} /\ InitBackoff(s)
       \/ InitTimesOut(s) /\ InitBackoff(s)
    /\ UNCHANGED <<qkdlVars, http>>

\* The network of s is, or may yet be, under construction.
BeingStarted(s) ==
    \/ asked[s] # {}
    \/ \E q \in Qkdl : \E c \in starting[q] : c.session = s

MayEnd(s) == BeingStarted(s) => MayEndBeforeStart

PoolGiveUp(s) ==
    /\ MayEnd(s)
    /\ InitGiveUp(s)
    /\ UNCHANGED <<qkdlVars, http>>

PoolJoin(s) == Join(s) /\ UNCHANGED <<qkdlVars, http>>

UnansweredSlip(s) == 0        \* the lock is released without waiting for the QKDL

\* Stops of s that the QKDL has not answered yet.
Unanswered(s) ==
    unposted[s] + stopReqs[s] + Cardinality({c \in stopping[qkdlOf[s]] : c.session = s})

\* Nothing keeps a cancellation and a verdict, or two cancellations, from
\* tearing one session down twice; the second stop finds the object popped and
\* is answered at once.
MayStop(s) == MayStopTwice \/ Unanswered(s) = 0

\* The handler only creates the task of _stop_qkdl.
OweStop(s) ==
    /\ unposted' = [unposted EXCEPT ![s] = @ + 1]
    /\ UNCHANGED <<stopReqs, dropped>>

PoolPublish(s) ==
    /\ MayEnd(s)
    /\ PublishSuccess(s) \/ PublishAborted(s)
    /\ MayStop(s) /\ OweStop(s)
    /\ UNCHANGED <<qkdlVars, asked>>

PoolCancel(s) ==
    /\ MayEnd(s) /\ (create[s] \in {"asking", "backoff"} => MayEndBeforeStart)
    /\ Cancel(s) /\ MayStop(s) /\ OweStop(s)
    /\ UNCHANGED <<qkdlVars, asked>>

PostStopSlip(s) == stopReqs[s] < MaxStops /\ stopReqs' = stopReqs   \* never posted

PostStop(s) ==
    /\ stopReqs[s] < MaxStops
    /\ stopReqs' = [stopReqs EXCEPT ![s] = @ + 1]

\* The loop runs the task: _stop_qkdl starts by posting the stop.
PoolPostStop(s) ==
    /\ unposted[s] > 0
    /\ unposted' = [unposted EXCEPT ![s] = @ - 1]
    /\ PostStop(s)
    /\ UNCHANGED <<vars, qkdlVars, asked, dropped>>

PoolStopDone(s) ==
    /\ stops[s] > unposted[s]
    /\ MayStopTimeOut \/ stops[s] > Unanswered(s)
    /\ StopDone(s)
    /\ UNCHANGED <<qkdlVars, http>>

\* A start() takes a second or so, the lock lives for ten minutes.  Unless
\* MayRunOut, it outlives the session and the teardown as well.
PoolLockExpires(q) ==
    /\ LockOverdue(q)
    /\ ~BeingStarted(lock[q])
    /\ MayRunOut \/ ~(InProgress(lock[q]) \/ stops[lock[q]] + Unanswered(lock[q]) > 0)
    /\ LockExpires(q)
    /\ UNCHANGED <<qkdlVars, http>>

\* The tasks of _stop_qkdl die with the process; a stop that was posted arrives.
PoolRestart ==
    /\ Restart
    /\ unposted' = [s \in Session |-> 0]
    /\ dropped' = dropped \cup {s \in Session : unposted[s] > 0}
    /\ UNCHANGED <<qkdlVars, asked, stopReqs>>

-----------------------------------------------------------------------------
(* Steps of the QKDL. *)

\* A call of _init_qkdl reaches init_network, which decides in one go.
Arrive(c) ==
    LET s == c.session
        q == qkdlOf[s]
    IN  /\ c \in asked[s]
        /\ asked' = [asked EXCEPT ![s] = @ \ {c}]
        /\ \/ Service!InitCooling(c, q) \/ Service!InitAlready(c, q)
           \/ Service!InitBusy(c, q)    \/ Service!InitAccept(c, q)
        /\ UNCHANGED <<vars, stopVars>>

StartStep(c) ==
    LET q == qkdlOf[c.session]
    IN  /\ q # NoQkdl
        /\ Service!InitConnect(c, q) \/ Service!InitRegister(c, q) \/ Service!InitRaises(c, q)
        /\ UNCHANGED <<vars, http>>

ArriveStop(s) ==
    /\ stopReqs[s] > 0
    /\ stopReqs' = [stopReqs EXCEPT ![s] = @ - 1]
    /\ Service!StopPops(s, qkdlOf[s]) \/ Service!StopFindsNothing(s, qkdlOf[s])
    /\ UNCHANGED <<vars, asked, unposted, dropped>>

StopStep(c) ==
    /\ qkdlOf[c.session] # NoQkdl
    /\ Service!StopEnds(c, qkdlOf[c.session])
    /\ UNCHANGED <<vars, http>>

PoolCooldownEnds(q) == Service!CooldownEnds(q) /\ UNCHANGED <<vars, http>>

KmeStep(s) ==
    \/ PoolCreate(s) \/ PoolRefuse(s) \/ PoolResend(s) \/ PoolInitReply(s)
    \/ PoolGiveUp(s) \/ PoolJoin(s) \/ PoolPublish(s) \/ PoolCancel(s) \/ PoolStopDone(s)

PoolNext ==
    \/ \E s \in Session : KmeStep(s) \/ PoolPostStop(s) \/ ArriveStop(s)
    \/ \E c \in Call : Arrive(c) \/ StartStep(c) \/ StopStep(c)
    \/ \E q \in Qkdl : PoolLockExpires(q) \/ PoolCooldownEnds(q)
    \/ PoolRestart

PoolSpec == PoolInit /\ [][PoolNext]_poolVars

\* The KME's coroutines, the HTTP calls and the executor threads all run, and
\* the cool-down ends.
PoolFairSpec ==
    /\ PoolSpec
    /\ \A s \in Session :
         /\ WF_poolVars(PoolResend(s) \/ PoolInitReply(s) \/ PoolGiveUp(s))
         /\ WF_poolVars(PoolStopDone(s))
         /\ WF_poolVars(PoolPostStop(s))
         /\ WF_poolVars(ArriveStop(s))
    /\ \A c \in Call : WF_poolVars(Arrive(c)) /\ WF_poolVars(StartStep(c)) /\ WF_poolVars(StopStep(c))
    /\ \A q \in Qkdl : WF_poolVars(PoolCooldownEnds(q))

-----------------------------------------------------------------------------
PoolTypeOK ==
    /\ Service!QkdlTypeOK
    /\ asked \in [Session -> SUBSET Call]
    /\ unposted \in [Session -> Nat] /\ \A s \in Session : unposted[s] <= stops[s]
    /\ stopReqs \in [Session -> 0 .. MaxStops]
    /\ dropped \in SUBSET Session

\* "Each QKDL instance in the pool holds at most one session at a time"
\* (session_store.py:18): no instance has started, or is starting, the networks
\* of two sessions.
QkdlHoldsOneSession ==
    \A q \in Qkdl : \A c, d \in starting[q] \cup registry[q] : c.session = d.session

\* A registered session has its network: no teardown of another session took
\* the shared singleton away from it (NetworkSession.stop, _Net._instance), as
\* long as calls are answered in time, no session is torn down twice at once and
\* no restart of the KME has lost a stop: the lock of that session runs out while
\* its network stays, and a second stop tears it down under the next session.
ServedNetworkUp ==
    dropped = {} =>
        \A q \in Qkdl : \A c \in registry[q] : netOf[c] \in up[q] /\ network[q] = netOf[c]

\* session_open is published only once the network exists, and as long as the
\* session is in progress Bob finds it on the QKDL (create_session: a 404 there
\* makes him give up without a retry).
OpenHasNetwork ==
    \A s \in Session :
        InProgress(s) /\ Emitted(s, "session_open") => Service!ObjectsOf(s, qkdlOf[s]) # {}

\* A session that is over leaves no network behind (_stop_qkdl after every
\* verdict and every cancellation, failed inits leave nothing to stop), unless the
\* KME dies between creating the task of _stop_qkdl and the task's POST.
NetworkReturned ==
    \A s \in Session :
        Terminal(s) ~> \/ s \in dropped
                       \/ \A q \in Qkdl : \A c \in registry[q] \cup starting[q] : c.session # s
=============================================================================
