--------------------------- MODULE QkdlPoolProofs ---------------------------
(***************************************************************************)
(* Proofs about the KME and its QKDL instances together, for any pool, any *)
(* number of sessions, retries, teardowns and restarts.                    *)
(***************************************************************************)
EXTENDS QkdlPool, KmeSessionsProofs

Created(s) == create[s] \notin {"none", "refused"}

\* Where an object of s may be on a QKDL.
Located(c) == {q \in Qkdl : c \in starting[q] \cup registry[q] \cup stopping[q]}

\* A call with a number that its session has not reached has left no trace.
Unmade(c) ==
    /\ c \notin asked[c.session] /\ Located(c) = {}
    /\ reply[c] = "none" /\ netOf[c] = NoCall

HasObject(s) == Service!ObjectsOf(s, qkdlOf[s]) # {}

(***************************************************************************)
(* What every timing keeps: calls are numbered, a session's objects are on *)
(* its own QKDL, and a stop is on its way only for a session that is over. *)
(***************************************************************************)
CallInv ==
    \A c \in Call :
        /\ c.try > attempts[c.session] => Unmade(c)
        /\ \A s \in Session : c \in asked[s] => c.session = s
        /\ \A q \in Located(c) : q = qkdlOf[c.session]

\* A stop of s is on its way to the QKDL, or will be once its task runs.
StopComing(s) == unposted[s] > 0 \/ stopReqs[s] > 0

SessionInv ==
    \A s \in Session :
        /\ ~Created(s) => attempts[s] = 0 /\ status[s] = "absent" /\ ~StopComing(s)
        /\ Created(s) => qkdlOf[s] \in Qkdl /\ Exists(s) /\ attempts[s] # 0
        /\ StopComing(s) => Terminal(s)

\* Once the QKDL has said "ready", the session has its network until it ends.
ReadyInv ==
    /\ \A c \in Call : reply[c] = "ready" => HasObject(c.session) \/ Terminal(c.session)
    /\ \A s \in Session : create[s] = "opened" => HasObject(s) \/ Terminal(s)

BaseInv ==
    /\ PoolTypeOK /\ PoolInv /\ \A s \in Session : StreamInv(s)
    /\ CallInv /\ SessionInv /\ ReadyInv

(***************************************************************************)
(* What holds when no session ends before every start() of it returned: a  *)
(* session that is being started is in progress and holds its lock.        *)
(***************************************************************************)
StartSession(s) ==
    /\ BeingStarted(s) \/ create[s] \in {"asking", "backoff"} => InProgress(s) /\ lock[qkdlOf[s]] = s
    /\ asked[s] \subseteq {ThisCall(s)}
    /\ create[s] = "backoff" => asked[s] = {}

StartCall(c) ==
    /\ reply[c] # "none" => c \notin asked[c.session] /\ \A q \in Qkdl : c \notin starting[q]
    /\ \A q \in Qkdl : c \in starting[q] => c \notin asked[c.session]
    /\ c = ThisCall(c.session) /\ reply[c] = "busy" => ~BeingStarted(c.session)

StartInv ==
    /\ \A s \in Session : StartSession(s)
    /\ \A c \in Call : StartCall(c)
    /\ QkdlHoldsOneSession

(***************************************************************************)
(* What holds when, besides, calls are answered in time, a lock outlives   *)
(* its session's teardown and no teardown overlaps another of its session. *)
(***************************************************************************)
CalmCall(c) ==
    LET s == c.session
    IN  /\ c \in asked[s] => netOf[c] = NoCall
        /\ \A q \in Qkdl :
             /\ c \in starting[q] => /\ c = ThisCall(s) /\ create[s] \in {"asking", "lost"}
                                     /\ lock[q] = s
             /\ c \in registry[q] => /\ c = ThisCall(s) /\ create[s] \in {"asking", "opened", "lost"}
                                     /\ lock[q] = s /\ reply[c] = "ready" /\ netOf[c] # NoCall
                                     /\ Terminal(s) => StopComing(s) /\ stops[s] <= 1
             /\ c \in stopping[q] => lock[q] = s /\ Terminal(s) /\ stops[s] <= 1 /\ ~HasObject(s)
             /\ c \in starting[q] \cup registry[q] /\ netOf[c] # NoCall =>
                  netOf[c] = network[q] /\ netOf[c] \in up[q]

CalmInv ==
    /\ \A c \in Call : CalmCall(c)
    /\ \A s \in Session : asked[s] # {} => create[s] \in {"asking", "lost"}

\* Every call is answered in time, a lock outlives its session, and no session is
\* torn down twice at once: the instance of the run PoolCalm.
Calm ==
    /\ MayEndBeforeStart = FALSE /\ MayInitTimeOut = FALSE /\ MayStopTimeOut = FALSE
    /\ MayStopTwice = FALSE /\ MayRunOut = FALSE

-----------------------------------------------------------------------------
(* The composition takes only steps of the KME, and keeps its types. *)

\* Every step of the composition is a step of the KME alone, or leaves its
\* variables unchanged: the QKDL only decides which reply the KME gets.
LEMMA PoolIsKme == [PoolNext]_poolVars => [Next]_vars
  <1> SUFFICES ASSUME [PoolNext]_poolVars PROVE [Next]_vars
    OBVIOUS
  <1>1. ASSUME NEW s \in Session, KmeStep(s) PROVE Next
    BY <1>1 DEF KmeStep, PoolCreate, PoolRefuse, PoolResend, PoolInitReply, PoolGiveUp, PoolJoin,
                PoolPublish, PoolCancel, PoolStopDone, Next, CreateRequest, InitStep, Request
  <1>2. ASSUME NEW s \in Session, PoolPostStop(s) \/ ArriveStop(s) PROVE UNCHANGED vars
    BY <1>2 DEF PoolPostStop, ArriveStop
  <1>3. ASSUME NEW c \in Call, Arrive(c) \/ StartStep(c) \/ StopStep(c) PROVE UNCHANGED vars
    BY <1>3 DEF Arrive, StartStep, StopStep
  <1>4. ASSUME NEW q \in Qkdl, PoolLockExpires(q) PROVE Next
    BY <1>4 DEF PoolLockExpires, Next
  <1>5. ASSUME NEW q \in Qkdl, PoolCooldownEnds(q) PROVE UNCHANGED vars
    BY <1>5 DEF PoolCooldownEnds
  <1>6. CASE PoolRestart
    BY <1>6 DEF PoolRestart, Next
  <1>7. CASE UNCHANGED poolVars
    BY <1>7 DEF poolVars
  <1> QED BY <1>1, <1>2, <1>3, <1>4, <1>5, <1>6, <1>7 DEF PoolNext

\* Whatever is proved of the KME against any QKDL holds of it together with
\* this one.
THEOREM PoolImplementsKme == PoolSpec => Spec
  <1>1. PoolInit => Init
    BY DEF PoolInit
  <1> QED BY <1>1, PoolIsKme, PTL DEF PoolSpec, Spec

\* A call is its session and its number.
LEMMA CallParts ==
    ASSUME NEW c \in Call
    PROVE  /\ c.session \in Session /\ c.try \in 1 .. InitRetries
           /\ c = [session |-> c.session, try |-> c.try]
  BY DEF Call, Service!Call

\* A new call is well typed, and the calls in flight with it.
LEMMA AskTyped ==
    ASSUME asked \in [Session -> SUBSET Call], NEW s \in Session,
           attempts'[s] \in 1 .. InitRetries, Ask(s)
    PROVE  asked' \in [Session -> SUBSET Call]
  <1>1. [session |-> s, try |-> attempts'[s]] \in Call
    BY DEF Call, Service!Call
  <1> QED BY <1>1 DEF Ask

\* A task that has not posted its stop yet is one of the tasks of _stop_qkdl.
TasksCounted ==
    unposted \in [Session -> Nat] /\ \A s \in Session : unposted[s] <= stops[s]

\* Every step keeps the tasks counted: one is created with every stop, and a
\* restart loses them all.
LEMMA TasksCountedStep ==
    ASSUME TypeOK, TasksCounted, [PoolNext]_poolVars
    PROVE  TasksCounted'
  <1> USE DEF TasksCounted
  <1>0. stops \in [Session -> Nat] /\ unposted \in [Session -> Nat]
    BY BoundsAssumption DEF TypeOK
  <1>1. CASE UNCHANGED <<stops, unposted>>
    BY <1>1
  <1>2. ASSUME NEW s \in Session, KmeStep(s) PROVE TasksCounted'
    <2>1. CASE PoolPublish(s) \/ PoolCancel(s)
      <3>1. SpawnStop(s) /\ OweStop(s)
        BY <2>1 DEF PoolPublish, PublishSuccess, PublishAborted, PoolCancel, Cancel
      <3> QED BY <1>0, <3>1 DEF SpawnStop, OweStop
    <2>2. CASE PoolStopDone(s)
      <3>1. unposted' = unposted /\ stops' = [stops EXCEPT ![s] = stops[s] - 1] /\ stops[s] > unposted[s]
        BY <2>2 DEF PoolStopDone, StopDone, http
      <3> QED BY <1>0, <3>1
    <2>3. CASE PoolCreate(s) \/ PoolResend(s)
      BY <1>1, <2>3 DEF PoolCreate, CreateSession, PoolResend, InitResend, stopVars
    <2>4. CASE UNCHANGED <<qkdlVars, http>> /\ (InitReady(s) \/ InitBackoff(s) \/ InitRefused(s) \/ InitGiveUp(s))
      BY <1>1, <2>4 DEF InitReady, InitBackoff, InitRefused, InitGiveUp, FailInit, http
    <2>5. CASE PoolRefuse(s) \/ PoolJoin(s)
      BY <1>1, <2>5 DEF PoolRefuse, CreateBusy, CreateUnknownNode, PoolJoin, Join, tasks, http
    <2> QED BY <1>2, <2>1, <2>2, <2>3, <2>4, <2>5 DEF KmeStep, PoolInitReply, PoolGiveUp
  <1>3. ASSUME NEW s \in Session, PoolPostStop(s) PROVE TasksCounted'
    <2>1. UNCHANGED stops
      BY <1>3 DEF PoolPostStop, vars, tasks
    <2> QED BY <1>0, <1>3, <2>1 DEF PoolPostStop
  <1>4. ASSUME NEW s \in Session, ArriveStop(s) PROVE TasksCounted'
    BY <1>1, <1>4 DEF ArriveStop, vars, tasks
  <1>5. ASSUME NEW c \in Call, Arrive(c) \/ StartStep(c) \/ StopStep(c) PROVE TasksCounted'
    BY <1>1, <1>5 DEF Arrive, StartStep, StopStep, vars, tasks, http, stopVars
  <1>6. ASSUME NEW q \in Qkdl, PoolLockExpires(q) \/ PoolCooldownEnds(q) PROVE TasksCounted'
    BY <1>1, <1>6 DEF PoolLockExpires, LockExpires, PoolCooldownEnds, vars, tasks, http
  <1>7. CASE PoolRestart
    BY <1>7 DEF PoolRestart, Restart
  <1>8. CASE UNCHANGED poolVars
    BY <1>1, <1>8 DEF poolVars, vars, tasks, http
  <1> QED BY <1>2, <1>3, <1>4, <1>5, <1>6, <1>7, <1>8 DEF PoolNext

\* Every step of the composition keeps the types.
LEMMA PoolTypeStep == TypeOK /\ PoolTypeOK /\ [PoolNext]_poolVars => PoolTypeOK'
  <1> SUFFICES ASSUME TypeOK, PoolTypeOK, [PoolNext]_poolVars PROVE PoolTypeOK'
    OBVIOUS
  <1>0. TasksCounted'
    BY TasksCountedStep DEF PoolTypeOK, TasksCounted
  <1> USE <1>0 DEF PoolTypeOK, TasksCounted
  <1>1. CASE UNCHANGED <<qkdlVars, http>>
    BY <1>1 DEF qkdlVars, http, Service!QkdlTypeOK
  <1>2. CASE UNCHANGED <<qkdlVars, stopVars>> /\ asked' \in [Session -> SUBSET Call]
    BY <1>2 DEF qkdlVars, stopVars, Service!QkdlTypeOK
  <1>3. ASSUME NEW s \in Session, PoolPostStop(s) PROVE PoolTypeOK'
    <2>1. stopReqs[s] + 1 \in 0 .. MaxStops
      BY <1>3, BoundsAssumption DEF PoolPostStop, PostStop
    <2> QED BY <1>3, <2>1 DEF PoolPostStop, PostStop, qkdlVars, Service!QkdlTypeOK
  <1>4. ASSUME NEW s \in Session, KmeStep(s) PROVE PoolTypeOK'
    <2>1. CASE PoolCreate(s)
      BY <2>1, <1>2, AskTyped, BoundsAssumption DEF PoolCreate, CreateSession, TypeOK
    <2>2. CASE PoolResend(s)
      <3>1. attempts'[s] \in 1 .. InitRetries
        BY <2>2, BoundsAssumption DEF PoolResend, InitResend, MayRetry, NextAttempt, TypeOK
      <3> QED BY <2>2, <3>1, <1>2, AskTyped DEF PoolResend
    <2>3. CASE PoolPublish(s) \/ PoolCancel(s)
      BY <2>3 DEF PoolPublish, PoolCancel, OweStop, qkdlVars, Service!QkdlTypeOK
    <2> QED BY <1>4, <1>1, <2>1, <2>2, <2>3
            DEF KmeStep, PoolRefuse, PoolInitReply, PoolGiveUp, PoolJoin, PoolStopDone
  <1>5. ASSUME NEW s \in Session, ArriveStop(s) PROVE PoolTypeOK'
    <2>1. stopReqs[s] - 1 \in 0 .. MaxStops
      BY <1>5, BoundsAssumption DEF ArriveStop
    <2>2. Service!ObjectsOf(s, qkdlOf[s]) \in SUBSET Call \/ qkdlOf[s] \notin Qkdl
      BY DEF Service!ObjectsOf, Service!QkdlTypeOK, Call
    <2>3. Service!QkdlTypeOK'
      BY <1>5, <2>2 DEF ArriveStop, Service!StopPops, Service!StopFindsNothing, Service!qkdlVars,
                  Service!QkdlTypeOK, Call
    <2> QED BY <1>5, <2>1, <2>3 DEF ArriveStop
  <1>6. ASSUME NEW c \in Call, Arrive(c) PROVE PoolTypeOK'
    <2>1. Service!QkdlTypeOK'
      BY <1>6 DEF Arrive, Service!InitCooling, Service!InitAlready, Service!InitBusy,
                  Service!InitAccept, Service!Answer, Service!QkdlTypeOK, Call
    <2> QED BY <1>6, <2>1 DEF Arrive, stopVars
  <1>7. ASSUME NEW c \in Call, StartStep(c) PROVE PoolTypeOK'
    <2> DEFINE q == qkdlOf[c.session]
    <2>1. CASE Service!InitConnect(c, q)
      <3> DEFINE net == IF network[q] = NoCall THEN c ELSE network[q]
      <3>1. net \in Call \cup {NoCall}
        <4>1. q \in Qkdl
          BY <1>7, CallParts DEF StartStep, TypeOK
        <4> QED BY <1>7, <4>1 DEF Service!QkdlTypeOK, Call
      <3>2. net \in Call
        BY <3>1
      <3> QED BY <1>7, <2>1, <3>1, <3>2 DEF StartStep, Service!InitConnect, Service!QkdlTypeOK, Call, http
    <2>2. CASE Service!InitRegister(c, q) \/ Service!InitRaises(c, q)
      BY <1>7, <2>2 DEF StartStep, Service!InitRegister, Service!InitRaises, Service!Answer,
                  Service!QkdlTypeOK, Call, http
    <2> QED BY <1>7, <2>1, <2>2 DEF StartStep
  <1>8. ASSUME NEW c \in Call, StopStep(c) PROVE PoolTypeOK'
    BY <1>8 DEF StopStep, Service!StopEnds, Service!QkdlTypeOK, Call, http
  <1>9. ASSUME NEW q \in Qkdl, PoolCooldownEnds(q) PROVE PoolTypeOK'
    BY <1>9 DEF PoolCooldownEnds, Service!CooldownEnds, Service!QkdlTypeOK, Call, http
  <1>10. CASE PoolRestart
    BY <1>10 DEF PoolRestart, qkdlVars, Service!QkdlTypeOK
  <1> QED BY <1>1, <1>3, <1>4, <1>5, <1>6, <1>7, <1>8, <1>9, <1>10
          DEF PoolNext, PoolLockExpires, poolVars

\* The calls, the registries and the networks stay well typed.
THEOREM PoolTypeCorrect == PoolSpec => []PoolTypeOK
  <1>1. PoolInit => PoolTypeOK
    BY BoundsAssumption DEF PoolInit, Init, PoolTypeOK, Service!QkdlInit, Service!QkdlTypeOK, Call
  <1> QED BY <1>1, PoolTypeStep, TypeCorrect, PoolImplementsKme, PTL DEF PoolSpec

-----------------------------------------------------------------------------
(* The bookkeeping of calls, sessions and replies, under any timing. *)

\* Steps that neither send a call nor touch a QKDL leave the calls alone.
LEMMA CallFrame ==
    ASSUME CallInv, UNCHANGED <<qkdlVars, asked, attempts, qkdlOf>>
    PROVE  CallInv'
  BY DEF CallInv, Unmade, Located, qkdlVars

\* Only the call itself is touched by what the QKDL does with it.
LEMMA CallMoves ==
    ASSUME TypeOK, CallInv, NEW c \in Call, UNCHANGED <<attempts, qkdlOf>>,
           c.try <= attempts[c.session],
           \A s \in Session : asked'[s] \subseteq asked[s],
           Located(c)' \subseteq {qkdlOf[c.session]},
           \A d \in Call \ {c} :
               Located(d)' \subseteq Located(d) /\ reply'[d] = reply[d] /\ netOf'[d] = netOf[d]
    PROVE  CallInv'
  <1> SUFFICES ASSUME NEW d \in Call
               PROVE  /\ d.try > attempts'[d.session] => Unmade(d)'
                      /\ \A s \in Session : d \in asked'[s] => d.session = s
                      /\ \A q \in Located(d)' : q = qkdlOf'[d.session]
    BY DEF CallInv
  <1>1. d.session \in Session /\ d.try \in Nat /\ c.try \in Nat
    BY CallParts, BoundsAssumption
  <1>2. CASE d = c
    <2>1. ~(c.try > attempts[c.session])
      BY <1>1, <1>2, BoundsAssumption DEF TypeOK
    <2> QED BY <1>2, <2>1 DEF CallInv
  <1>3. CASE d # c
    BY <1>1, <1>3 DEF CallInv, Unmade
  <1> QED BY <1>2, <1>3

\* A call that is on its way or on a QKDL has been made.
LEMMA CallMade ==
    ASSUME TypeOK, CallInv, NEW c \in Call,
           c \in asked[c.session] \/ Located(c) # {} \/ reply[c] # "none" \/ netOf[c] # NoCall
    PROVE  c.try <= attempts[c.session] /\ attempts[c.session] # 0
  <1>1. c.try \in 1 .. InitRetries /\ attempts[c.session] \in Nat
    BY CallParts, BoundsAssumption DEF TypeOK
  <1>2. ~(c.try > attempts[c.session])
    BY DEF CallInv, Unmade
  <1> QED BY <1>1, <1>2, BoundsAssumption

\* A new call is the first of its number.
LEMMA CallAsked ==
    ASSUME TypeOK, PoolTypeOK, CallInv, NEW s \in Session, Ask(s),
           UNCHANGED <<qkdlVars, stopVars>>,
           attempts' = [attempts EXCEPT ![s] = attempts[s] + 1],
           \A t \in Session : qkdlOf'[t] # qkdlOf[t] => t = s /\ attempts[s] = 0
    PROVE  CallInv'
  <1> SUFFICES ASSUME NEW d \in Call
               PROVE  /\ d.try > attempts'[d.session] => Unmade(d)'
                      /\ \A t \in Session : d \in asked'[t] => d.session = t
                      /\ \A q \in Located(d)' : q = qkdlOf'[d.session]
    BY DEF CallInv
  <1> DEFINE c == [session |-> s, try |-> attempts'[s]]
  <1>1. d.session \in Session /\ d.try \in 1 .. InitRetries
    BY CallParts
  <1>2. Located(d)' = Located(d) /\ reply' = reply /\ netOf' = netOf
    BY DEF Located, qkdlVars
  <1>3. asked' = [asked EXCEPT ![s] = asked[s] \cup {c}]
    BY DEF Ask
  <1>4. attempts[s] \in Nat /\ attempts'[s] = attempts[s] + 1
        /\ \A t \in Session \ {s} : attempts'[t] = attempts[t]
    BY BoundsAssumption DEF TypeOK
  <1>5. d.try > attempts'[d.session] => d.try > attempts[d.session] /\ d # c
    BY <1>1, <1>4, BoundsAssumption DEF TypeOK
  <1>6. d.try > attempts'[d.session] => Unmade(d)'
    BY <1>1, <1>2, <1>3, <1>5 DEF CallInv, Unmade, PoolTypeOK
  <1>7. \A t \in Session : d \in asked'[t] => d.session = t
    BY <1>3 DEF CallInv, PoolTypeOK
  <1>8. ASSUME NEW q \in Located(d)' PROVE q = qkdlOf'[d.session]
    <2>1. q = qkdlOf[d.session] /\ attempts[d.session] # 0
      BY <1>2, <1>8, CallMade DEF CallInv
    <2> QED BY <1>1, <2>1
  <1> QED BY <1>6, <1>7, <1>8

\* Every step keeps the numbers of the calls, and objects on their own QKDL.
LEMMA CallStep ==
    ASSUME TypeOK, PoolTypeOK, CallInv, SessionInv, [PoolNext]_poolVars
    PROVE  CallInv'
  <1>1. CASE UNCHANGED <<qkdlVars, asked, attempts, qkdlOf>>
    BY <1>1, CallFrame
  <1>2. ASSUME NEW s \in Session, PoolCreate(s) PROVE CallInv'
    <2>1. attempts[s] = 0 /\ attempts' = [attempts EXCEPT ![s] = attempts[s] + 1]
      <3>1. attempts[s] = 0
        BY <1>2 DEF PoolCreate, CreateSession, SessionInv, Created
      <3> QED BY <1>2, <3>1 DEF PoolCreate, CreateSession
    <2>2. \A t \in Session : qkdlOf'[t] # qkdlOf[t] => t = s
      BY <1>2 DEF PoolCreate, CreateSession, TypeOK
    <2> QED BY <1>2, <2>1, <2>2, CallAsked DEF PoolCreate
  <1>3. ASSUME NEW s \in Session, PoolResend(s) PROVE CallInv'
    <2>1. UNCHANGED qkdlOf /\ attempts' = [attempts EXCEPT ![s] = attempts[s] + 1]
      BY <1>3 DEF PoolResend, InitResend, NextAttempt, records
    <2> QED BY <1>3, <2>1, CallAsked DEF PoolResend
  <1>4. ASSUME NEW s \in Session, KmeStep(s), ~PoolCreate(s), ~PoolResend(s) PROVE CallInv'
    BY <1>4, <1>1
       DEF KmeStep, PoolRefuse, PoolInitReply, PoolGiveUp, PoolJoin, PoolPublish, PoolCancel,
           PoolStopDone, CreateBusy, CreateUnknownNode, InitReady, InitRefused, InitBackoff,
           InitGiveUp, FailInit, Join, PublishSuccess, PublishAborted, Cancel, StopDone, records,
           tasks, http
  <1>5. ASSUME NEW c \in Call, Arrive(c) PROVE CallInv'
    <2> DEFINE q == qkdlOf[c.session]
    <2>1. c.session \in Session /\ c.try <= attempts[c.session] /\ UNCHANGED <<attempts, qkdlOf>>
      BY <1>5, CallMade, CallParts DEF Arrive, vars, records, tasks
    <2>2. \A s \in Session : asked'[s] \subseteq asked[s]
      BY <1>5 DEF Arrive, PoolTypeOK
    <2>3. Located(c)' \subseteq {q}
      BY <1>5 DEF Arrive, Service!InitCooling, Service!InitAlready, Service!InitBusy,
                  Service!InitAccept, Located, CallInv, PoolTypeOK, Service!QkdlTypeOK
    <2>4. ASSUME NEW d \in Call \ {c}
          PROVE  Located(d)' = Located(d) /\ reply'[d] = reply[d] /\ netOf'[d] = netOf[d]
      <3>1. CASE Service!InitAccept(c, q)
        BY <3>1 DEF Service!InitAccept, Located, PoolTypeOK, Service!QkdlTypeOK
      <3>2. CASE \E r \in {"cooling", "ready", "busy"} :
                   Service!Answer(c, r) /\ UNCHANGED <<registry, starting, stopping, netOf>>
        BY <3>2 DEF Service!Answer, Located, PoolTypeOK, Service!QkdlTypeOK
      <3> QED BY <1>5, <3>1, <3>2
              DEF Arrive, Service!InitCooling, Service!InitAlready, Service!InitBusy
    <2> QED BY <2>1, <2>2, <2>3, <2>4, CallMoves
  <1>6. ASSUME NEW c \in Call, StartStep(c) PROVE CallInv'
    <2> DEFINE q == qkdlOf[c.session]
    <2>0. c.session \in Session /\ q \in Qkdl
      BY <1>6, CallParts DEF StartStep, TypeOK
    <2>1. c.try <= attempts[c.session] /\ UNCHANGED <<attempts, qkdlOf, asked>>
      <3>1. Located(c) # {}
        BY <1>6, <2>0 DEF StartStep, Service!InitConnect, Service!InitRegister, Service!InitRaises,
                          Located
      <3> QED BY <1>6, <3>1, CallMade DEF StartStep, vars, records, tasks, http
    <2>2. Located(c)' \subseteq {q}
      BY <1>6, <2>0 DEF StartStep, Service!InitConnect, Service!InitRegister, Service!InitRaises,
                        Service!ObjectsOf, Located, CallInv, PoolTypeOK, Service!QkdlTypeOK
    <2>3. ASSUME NEW d \in Call \ {c}
          PROVE  Located(d)' \subseteq Located(d) /\ reply'[d] = reply[d] /\ netOf'[d] = netOf[d]
      <3>1. CASE Service!InitConnect(c, q)
        BY <3>1, <2>0 DEF Service!InitConnect, Located, PoolTypeOK, Service!QkdlTypeOK
      <3>2. CASE Service!InitRegister(c, q)
        <4>1. \A r \in Qkdl : starting'[r] \subseteq starting[r] /\ registry'[r] \subseteq registry[r] \cup {c}
          BY <3>2 DEF Service!InitRegister, PoolTypeOK, Service!QkdlTypeOK
        <4> QED BY <3>2, <4>1 DEF Service!InitRegister, Service!Answer, Located, PoolTypeOK,
                                  Service!QkdlTypeOK
      <3>3. CASE Service!InitRaises(c, q)
        BY <3>3 DEF Service!InitRaises, Service!Answer, Located, PoolTypeOK, Service!QkdlTypeOK
      <3> QED BY <1>6, <3>1, <3>2, <3>3 DEF StartStep
    <2> QED BY <2>1, <2>2, <2>3, CallMoves
  <1>7. ASSUME NEW s \in Session, ArriveStop(s) PROVE CallInv'
    <2>1. \A d \in Call : Located(d)' = Located(d)
      BY <1>7 DEF ArriveStop, Service!StopPops, Service!StopFindsNothing, Service!qkdlVars,
                  Service!ObjectsOf, Located, PoolTypeOK, Service!QkdlTypeOK
    <2>2. UNCHANGED <<asked, attempts, qkdlOf, reply, netOf>>
      BY <1>7 DEF ArriveStop, Service!StopPops, Service!StopFindsNothing, Service!qkdlVars,
                  vars, records, tasks
    <2> QED BY <2>1, <2>2 DEF CallInv, Unmade
  <1>8. ASSUME NEW c \in Call, StopStep(c) PROVE CallInv'
    <2>1. \A d \in Call : Located(d)' \subseteq Located(d)
      BY <1>8 DEF StopStep, Service!StopEnds, Located, PoolTypeOK, Service!QkdlTypeOK
    <2>2. UNCHANGED <<asked, attempts, qkdlOf, reply, netOf>>
      BY <1>8 DEF StopStep, Service!StopEnds, vars, records, tasks, http
    <2> QED BY <2>1, <2>2 DEF CallInv, Unmade
  <1>9. ASSUME NEW q \in Qkdl, PoolCooldownEnds(q) PROVE CallInv'
    BY <1>9 DEF PoolCooldownEnds, Service!CooldownEnds, CallInv, Unmade, Located, vars, records,
                tasks, http
  <1>10. CASE PoolRestart \/ \E q \in Qkdl : PoolLockExpires(q)
    BY <1>1, <1>10 DEF PoolRestart, Restart, PoolLockExpires, LockExpires, records, tasks, http
  <1>11. CASE UNCHANGED poolVars \/ \E s \in Session : PoolPostStop(s)
    BY <1>1, <1>11 DEF poolVars, PoolPostStop, vars, records, tasks, http
  <1> QED BY <1>2, <1>3, <1>4, <1>5, <1>6, <1>7, <1>8, <1>9, <1>10, <1>11 DEF PoolNext

\* A step of one session's coroutines is invisible in the records, tasks and
\* calls of every other session, and on the QKDLs.
LEMMA KmeLocal ==
    ASSUME TypeOK, PoolTypeOK, NEW s \in Session, KmeStep(s)
    PROVE  /\ UNCHANGED qkdlVars
           /\ \A t \in Session \ {s} :
                /\ status'[t] = status[t] /\ create'[t] = create[t] /\ attempts'[t] = attempts[t]
                /\ qkdlOf'[t] = qkdlOf[t] /\ stops'[t] = stops[t]
                /\ asked'[t] = asked[t] /\ stopReqs'[t] = stopReqs[t] /\ unposted'[t] = unposted[t]
  <1>1. CASE PoolCreate(s)
    BY <1>1 DEF PoolCreate, CreateSession, SaveStatus, Ask, stopVars, TypeOK, PoolTypeOK
  <1>2. CASE PoolRefuse(s)
    BY <1>2 DEF PoolRefuse, CreateBusy, CreateUnknownNode, records, http, TypeOK
  <1>3. CASE PoolResend(s)
    BY <1>3 DEF PoolResend, InitResend, NextAttempt, Ask, stopVars, records, TypeOK, PoolTypeOK
  <1>4. CASE UNCHANGED <<qkdlVars, http>> /\ (InitReady(s) \/ InitBackoff(s))
    BY <1>4 DEF InitReady, InitBackoff, records, http, TypeOK
  <1>5. CASE UNCHANGED <<qkdlVars, http>> /\ (InitRefused(s) \/ InitGiveUp(s))
    BY <1>5 DEF InitRefused, InitGiveUp, FailInit, SaveStatus, http, TypeOK
  <1>6. CASE PoolJoin(s)
    BY <1>6 DEF PoolJoin, Join, SaveStatus, http, tasks, TypeOK
  <1>7. CASE PoolPublish(s) \/ PoolCancel(s)
    BY <1>7 DEF PoolPublish, PublishSuccess, PublishAborted, PoolCancel, Cancel, SaveStatus,
                SpawnStop, OweStop, TypeOK, PoolTypeOK
  <1>8. CASE PoolStopDone(s)
    BY <1>8 DEF PoolStopDone, StopDone, records, http, TypeOK
  <1> QED BY <1>1, <1>2, <1>3, <1>4, <1>5, <1>6, <1>7, <1>8
          DEF KmeStep, PoolInitReply, PoolGiveUp

\* What a session's own steps keep: once created, it stays created, with its
\* QKDL and a record, and once over it stays over.
LEMMA KmeOwn ==
    ASSUME TypeOK, PoolTypeOK, PoolInv, SessionInv, NEW s \in Session, KmeStep(s), ~PoolCreate(s)
    PROVE  /\ Created(s)' <=> Created(s)
           /\ qkdlOf'[s] = qkdlOf[s] /\ (attempts'[s] # attempts[s] => PoolResend(s))
           /\ Exists(s) <=> Exists(s)'
           /\ Terminal(s) => Terminal(s)'
           /\ status[s] = "absent" => status'[s] = "absent"
           /\ StopComing(s)' => StopComing(s) \/ Terminal(s)'
           /\ attempts[s] # 0 => attempts'[s] # 0
  <1> USE DEF Created, Exists, InProgress, Terminal, StopComing
  <1>1. CASE PoolRefuse(s)
    BY <1>1 DEF PoolRefuse, CreateBusy, CreateUnknownNode, records, http, TypeOK
  <1>2. CASE PoolResend(s)
    <2>1. attempts'[s] # 0
      BY <1>2, BoundsAssumption DEF PoolResend, InitResend, NextAttempt, TypeOK
    <2> QED BY <1>2, <2>1 DEF PoolResend, InitResend, stopVars, records, TypeOK
  <1>3. CASE UNCHANGED <<qkdlVars, http>> /\ (InitReady(s) \/ InitBackoff(s))
    BY <1>3 DEF InitReady, InitBackoff, records, http, TypeOK
  <1>4. CASE UNCHANGED <<qkdlVars, http>> /\ (InitRefused(s) \/ InitGiveUp(s))
    <2>1. FailInit(s) /\ create[s] \in {"asking", "backoff"}
      BY <1>4 DEF InitRefused, InitGiveUp
    <2>2. status'[s] = "aborted" /\ create'[s] = "failed" /\ Exists(s)
      BY <2>1 DEF FailInit, SaveStatus, TypeOK, PoolInv, AskingHasRecord
    <2> QED BY <1>4, <2>1, <2>2 DEF FailInit, http
  <1>5. ASSUME NEW st \in {"sending", "done", "aborted"}, SaveStatus(s, st), Exists(s), st # "sending" \/ status[s] = "initializing",
               UNCHANGED <<create, attempts, qkdlOf>>,
               UNCHANGED <<stopReqs, unposted>> \/ st # "sending"
        PROVE  /\ Created(s)' <=> Created(s)
               /\ qkdlOf'[s] = qkdlOf[s] /\ attempts'[s] = attempts[s]
               /\ Exists(s) <=> Exists(s)'
               /\ Terminal(s) => Terminal(s)'
               /\ status[s] = "absent" => status'[s] = "absent"
               /\ StopComing(s)' => StopComing(s) \/ Terminal(s)'
    <2>1. status'[s] = st
      BY <1>5 DEF SaveStatus, TypeOK
    <2> QED BY <1>5, <2>1
  <1>6. CASE PoolJoin(s)
    BY <1>5, <1>6 DEF PoolJoin, Join, MayJoin, tasks, http
  <1>7. CASE PoolPublish(s)
    BY <1>5, <1>7 DEF PoolPublish, PublishSuccess, PublishAborted, MayPublish
  <1>8. CASE PoolCancel(s)
    BY <1>5, <1>8 DEF PoolCancel, Cancel
  <1>9. CASE PoolStopDone(s)
    BY <1>9 DEF PoolStopDone, StopDone, records, http, TypeOK
  <1> QED BY <1>1, <1>2, <1>3, <1>4, <1>6, <1>7, <1>8, <1>9
          DEF KmeStep, PoolInitReply, PoolGiveUp

\* A creation: from nothing to a session that asks its QKDL for the first time.
LEMMA KmeCreates ==
    ASSUME TypeOK, PoolTypeOK, PoolInv, SessionInv, NEW s \in Session, PoolCreate(s)
    PROVE  /\ ~Created(s) /\ Created(s)' /\ attempts[s] = 0 /\ attempts'[s] = 1
           /\ create'[s] = "asking" /\ status'[s] = "initializing"
           /\ qkdlOf'[s] \in Qkdl /\ lock[qkdlOf'[s]] = NoSession
           /\ lock' = [lock EXCEPT ![qkdlOf'[s]] = s]
           /\ ~StopComing(s) /\ UNCHANGED <<stopReqs, unposted, qkdlVars>>
           /\ asked' = [asked EXCEPT ![s] = asked[s] \cup {ThisCall(s)'}]
           /\ ThisCall(s)' \in Call /\ ThisCall(s)'.session = s /\ ThisCall(s)'.try = 1
  <1>1. ~Created(s) /\ create'[s] = "asking" /\ attempts'[s] = 1
    BY DEF PoolCreate, CreateSession, Created, TypeOK
  <1>2. attempts[s] = 0 /\ ~StopComing(s)
    BY <1>1 DEF SessionInv
  <1>3. status'[s] = "initializing"
    BY SaveStatusMoves DEF PoolCreate, CreateSession, Status
  <1>4. PICK q \in Qkdl : /\ lock[q] = NoSession /\ lock' = [lock EXCEPT ![q] = s]
                          /\ qkdlOf' = [qkdlOf EXCEPT ![s] = q]
    BY DEF PoolCreate, CreateSession, Pick, FreeQkdls
  <1>5. qkdlOf'[s] = q
    BY <1>4 DEF TypeOK
  <1>6. ThisCall(s)' \in Call /\ ThisCall(s)'.session = s /\ ThisCall(s)'.try = 1
    BY <1>1, BoundsAssumption DEF ThisCall, Call, Service!Call
  <1> QED BY <1>1, <1>2, <1>3, <1>4, <1>5, <1>6 DEF PoolCreate, Ask, ThisCall, Created, stopVars

\* Every step keeps the sessions' records in line with their creations and
\* stops.
LEMMA SessionStep ==
    ASSUME TypeOK, PoolTypeOK, PoolInv, SessionInv, [PoolNext]_poolVars
    PROVE  SessionInv'
  <1> USE DEF Created, Exists, InProgress, Terminal, StopComing
  <1>1. CASE UNCHANGED <<status, create, attempts, qkdlOf, stopReqs, unposted>>
    BY <1>1 DEF SessionInv
  <1>2. ASSUME NEW s \in Session, PoolCreate(s) PROVE SessionInv'
    <2>1. \A t \in Session \ {s} :
            /\ status'[t] = status[t] /\ create'[t] = create[t] /\ attempts'[t] = attempts[t]
            /\ qkdlOf'[t] = qkdlOf[t] /\ stopReqs'[t] = stopReqs[t] /\ unposted'[t] = unposted[t]
      BY <1>2, KmeLocal DEF KmeStep
    <2>2. /\ create'[s] = "asking" /\ attempts'[s] = 1 /\ status'[s] = "initializing"
          /\ qkdlOf'[s] \in Qkdl /\ ~StopComing(s)'
      BY <1>2, KmeCreates
    <2> QED BY <2>1, <2>2 DEF SessionInv
  <1>3. ASSUME NEW s \in Session, KmeStep(s), ~PoolCreate(s) PROVE SessionInv'
    <2>1. \A t \in Session \ {s} :
            /\ status'[t] = status[t] /\ create'[t] = create[t] /\ attempts'[t] = attempts[t]
            /\ qkdlOf'[t] = qkdlOf[t] /\ stopReqs'[t] = stopReqs[t] /\ unposted'[t] = unposted[t]
      BY <1>3, KmeLocal
    <2>2. \A t \in Session \ {s} :
            /\ ~Created(t)' => attempts'[t] = 0 /\ status'[t] = "absent" /\ ~StopComing(t)'
            /\ Created(t)' => qkdlOf'[t] \in Qkdl /\ Exists(t)' /\ attempts'[t] # 0
            /\ StopComing(t)' => Terminal(t)'
      BY <2>1 DEF SessionInv
    <2>3. StopComing(s)' => Terminal(s)'
      BY <1>3, KmeOwn DEF SessionInv
    <2>4. Created(s)' => qkdlOf'[s] \in Qkdl /\ Exists(s)' /\ attempts'[s] # 0
      BY <1>3, KmeOwn DEF SessionInv
    <2>5. ASSUME ~Created(s)' PROVE attempts'[s] = 0 /\ status'[s] = "absent" /\ ~StopComing(s)'
      <3>1. ~Created(s) /\ status'[s] = "absent" /\ attempts[s] = 0
        BY <1>3, <2>5, KmeOwn DEF SessionInv
      <3>2. ~PoolResend(s)
        BY <3>1 DEF PoolResend, InitResend
      <3>3. ~StopComing(s)'
        BY <2>3, <3>1
      <3> QED BY <1>3, <3>1, <3>2, <3>3, KmeOwn
    <2> QED BY <2>2, <2>3, <2>4, <2>5 DEF SessionInv
  <1>4. ASSUME NEW s \in Session, ArriveStop(s) PROVE SessionInv'
    <2>1. UNCHANGED <<status, create, attempts, qkdlOf>>
      BY <1>4 DEF ArriveStop, vars, records, tasks
    <2>2. \A t \in Session : stopReqs'[t] > 0 => stopReqs[t] > 0
      BY <1>4, BoundsAssumption DEF ArriveStop, PoolTypeOK
    <2>3. unposted' = unposted
      BY <1>4 DEF ArriveStop
    <2> QED BY <2>1, <2>2, <2>3 DEF SessionInv
  <1>9. ASSUME NEW s \in Session, PoolPostStop(s) PROVE SessionInv'
    <2>1. UNCHANGED <<status, create, attempts, qkdlOf>>
      BY <1>9 DEF PoolPostStop, vars, records, tasks
    <2>2. \A t \in Session : StopComing(t)' => StopComing(t)
      BY <1>9, BoundsAssumption DEF PoolPostStop, PostStop, PoolTypeOK
    <2> QED BY <2>1, <2>2 DEF SessionInv
  <1>5. ASSUME NEW c \in Call, Arrive(c) \/ StartStep(c) \/ StopStep(c) PROVE SessionInv'
    BY <1>1, <1>5 DEF Arrive, StartStep, StopStep, vars, records, tasks, http, stopVars
  <1>6. ASSUME NEW q \in Qkdl, PoolLockExpires(q) \/ PoolCooldownEnds(q) PROVE SessionInv'
    BY <1>1, <1>6 DEF PoolLockExpires, LockExpires, PoolCooldownEnds, vars, records, tasks, http
  <1>7. CASE PoolRestart
    <2>1. UNCHANGED <<status, attempts, qkdlOf, stopReqs>> /\ \A t \in Session : ~(unposted'[t] > 0)
      BY <1>7 DEF PoolRestart, Restart, records
    <2>2. \A t \in Session : Created(t)' <=> Created(t)
      BY <1>7 DEF PoolRestart, Restart, TypeOK
    <2> QED BY <2>1, <2>2 DEF SessionInv
  <1>8. CASE UNCHANGED poolVars
    BY <1>1, <1>8 DEF poolVars, vars, records, tasks, http
  <1> QED BY <1>2, <1>3, <1>4, <1>5, <1>6, <1>7, <1>8, <1>9 DEF PoolNext

\* A session that was told "ready" keeps its object until it is over.
LEMMA ReadyFrame ==
    ASSUME TypeOK, CallInv, SessionInv, ReadyInv, UNCHANGED reply,
           \A t \in Session : create'[t] = "opened" => create[t] = "opened",
           \A t \in Session : Terminal(t) => Terminal(t)',
           \A t \in Session : Created(t) /\ HasObject(t) => HasObject(t)' \/ Terminal(t)'
    PROVE  ReadyInv'
  <1>1. \A c \in Call : c.session \in Session
    BY CallParts
  <1>2. \A c \in Call : reply[c] = "ready" => Created(c.session)
    BY <1>1, CallMade DEF SessionInv
  <1> QED BY <1>1, <1>2 DEF ReadyInv, Created

\* Every step keeps the network of a session that was told "ready".
LEMMA ReadyStep ==
    ASSUME TypeOK, PoolTypeOK, PoolInv, CallInv, SessionInv, ReadyInv, [PoolNext]_poolVars
    PROVE  ReadyInv'
  <1>0. \A c \in Call : c.session \in Session
    BY CallParts
  <1>1. CASE UNCHANGED <<status, create, qkdlOf, registry, reply>>
    BY <1>1 DEF ReadyInv, HasObject, Service!ObjectsOf, Terminal
  <1>2. ASSUME NEW s \in Session, KmeStep(s), ~PoolInitReply(s), ~PoolCreate(s) PROVE ReadyInv'
    <2>1. UNCHANGED <<registry, reply>>
      BY <1>2, KmeLocal DEF qkdlVars
    <2>2. \A t \in Session : qkdlOf'[t] = qkdlOf[t] /\ (Terminal(t) => Terminal(t)')
      BY <1>2, KmeLocal, KmeOwn DEF Terminal
    <2>3. \A t \in Session : create'[t] = "opened" => create[t] = "opened"
      <3>1. create'[s] = "opened" => create[s] = "opened"
        BY <1>2 DEF KmeStep, PoolRefuse, PoolResend, PoolGiveUp, PoolJoin, PoolPublish, PoolCancel,
                    PoolStopDone, CreateBusy, CreateUnknownNode, InitResend, InitGiveUp, FailInit,
                    Join, PublishSuccess, PublishAborted, Cancel, StopDone, tasks, TypeOK
      <3> QED BY <1>2, <3>1, KmeLocal
    <2> QED BY <2>1, <2>2, <2>3, ReadyFrame DEF HasObject, Service!ObjectsOf
  <1>3. ASSUME NEW s \in Session, PoolInitReply(s) PROVE ReadyInv'
    <2>1. /\ UNCHANGED <<registry, reply>>
          /\ \A t \in Session : qkdlOf'[t] = qkdlOf[t] /\ (Terminal(t) => Terminal(t)')
      BY <1>3, KmeLocal, KmeOwn DEF KmeStep, Terminal, qkdlVars, PoolInitReply, PoolCreate, CreateSession
    <2>2. CASE InitReady(s) /\ NetworkReady(s)
      <3>1. ThisCall(s) \in Call /\ ThisCall(s).session = s
        <4>1. attempts[s] \in 1 .. InitRetries
          <5>1. attempts[s] # 0
            BY <2>2 DEF InitReady, SessionInv, Created
          <5> QED BY <5>1, BoundsAssumption DEF TypeOK
        <4> QED BY <4>1 DEF ThisCall, Call, Service!Call
      <3>2. HasObject(s) \/ Terminal(s)
        BY <2>2, <3>1 DEF NetworkReady, ReadyInv
      <3>3. \A t \in Session : HasObject(t)' <=> HasObject(t)
        BY <2>1 DEF HasObject, Service!ObjectsOf
      <3>4. \A t \in Session \ {s} : create'[t] = create[t]
        BY <1>3, KmeLocal DEF KmeStep
      <3> QED BY <1>0, <2>1, <3>2, <3>3, <3>4 DEF ReadyInv
    <2>3. CASE ~InitReady(s)
      <3>1. \A t \in Session : create'[t] = "opened" => create[t] = "opened"
        BY <1>3, <2>3 DEF PoolInitReply, InitRefused, InitBackoff, FailInit, TypeOK
      <3> QED BY <2>1, <3>1, ReadyFrame DEF HasObject, Service!ObjectsOf
    <2> QED BY <1>3, <2>2, <2>3 DEF PoolInitReply, InitRefused, FailInit, InitBackoff, InitReady, TypeOK
  <1>4. ASSUME NEW s \in Session, PoolCreate(s) PROVE ReadyInv'
    <2>1. /\ UNCHANGED <<registry, reply>>
          /\ \A t \in Session \ {s} : /\ qkdlOf'[t] = qkdlOf[t] /\ status'[t] = status[t]
                                      /\ create'[t] = create[t]
      BY <1>4, KmeLocal DEF KmeStep, qkdlVars
    <2>2. create'[s] = "asking" /\ attempts[s] = 0
      BY <1>4, KmeCreates
    <2>3. ASSUME NEW c \in Call, reply[c] = "ready" PROVE c.session # s
      BY <2>2, <2>3, CallMade
    <2>4. \A t \in Session \ {s} : (HasObject(t)' <=> HasObject(t)) /\ (Terminal(t)' <=> Terminal(t))
      BY <2>1 DEF HasObject, Service!ObjectsOf, Terminal
    <2> QED BY <1>0, <2>1, <2>2, <2>3, <2>4 DEF ReadyInv
  <1>5. ASSUME NEW c \in Call, Arrive(c) PROVE ReadyInv'
    <2>1. UNCHANGED <<status, create, qkdlOf, registry>>
      BY <1>5 DEF Arrive, vars, records, tasks, Service!InitCooling, Service!InitAlready,
                  Service!InitBusy, Service!InitAccept
    <2>2. \A d \in Call : reply'[d] = "ready" => reply[d] = "ready" \/ (d = c /\ HasObject(c.session))
      <3>1. CASE Service!InitAlready(c, qkdlOf[c.session])
        BY <3>1 DEF Service!InitAlready, Service!Answer, HasObject, PoolTypeOK, Service!QkdlTypeOK
      <3>2. CASE UNCHANGED reply \/ Service!Answer(c, "cooling") \/ Service!Answer(c, "busy")
        BY <3>2 DEF Call, Service!Answer, PoolTypeOK, Service!QkdlTypeOK
      <3> QED BY <1>5, <3>1, <3>2 DEF Arrive, Service!InitCooling, Service!InitBusy, Service!InitAccept
    <2> QED BY <1>0, <2>1, <2>2 DEF ReadyInv, HasObject, Service!ObjectsOf, Terminal
  <1>6. ASSUME NEW c \in Call, StartStep(c) PROVE ReadyInv'
    <2> DEFINE q == qkdlOf[c.session]
    <2>0. q \in Qkdl /\ UNCHANGED <<status, create, qkdlOf>>
      BY <1>0, <1>6 DEF StartStep, TypeOK, vars, records, tasks
    <2>1. CASE Service!InitConnect(c, q)
      BY <1>1, <2>0, <2>1 DEF Service!InitConnect
    <2>2. CASE Service!InitRaises(c, q)
      BY <1>0, <2>0, <2>2 DEF Service!InitRaises, Service!Answer, ReadyInv, HasObject, Terminal,
                              Service!ObjectsOf, PoolTypeOK, Service!QkdlTypeOK, Call
    <2>3. CASE Service!InitRegister(c, q)
      <3>1. registry'[q] = (registry[q] \ Service!ObjectsOf(c.session, q)) \cup {c}
            /\ \A r \in Qkdl \ {q} : registry'[r] = registry[r]
        BY <2>0, <2>3 DEF Service!InitRegister, PoolTypeOK, Service!QkdlTypeOK
      <3>2. HasObject(c.session)'
        BY <2>0, <3>1 DEF HasObject, Service!ObjectsOf
      <3>3. ASSUME NEW t \in Session, t # c.session, HasObject(t), qkdlOf[t] \in Qkdl PROVE HasObject(t)'
        BY <2>0, <3>1, <3>3 DEF HasObject, Service!ObjectsOf
      <3>4. \A d \in Call \ {c} : reply'[d] = reply[d]
        BY <2>3 DEF Service!InitRegister, Service!Answer, PoolTypeOK, Service!QkdlTypeOK
      <3>5. \A d \in Call : reply[d] = "ready" => qkdlOf[d.session] \in Qkdl
        BY <1>0, CallMade DEF SessionInv
      <3>6. \A t \in Session : create[t] = "opened" => qkdlOf[t] \in Qkdl
        BY DEF SessionInv, Created
      <3> QED BY <1>0, <2>0, <3>2, <3>3, <3>4, <3>5, <3>6 DEF ReadyInv, Terminal
    <2> QED BY <1>6, <2>1, <2>2, <2>3 DEF StartStep
  <1>7. ASSUME NEW s \in Session, ArriveStop(s) PROVE ReadyInv'
    <2>1. Terminal(s) /\ UNCHANGED <<status, create, qkdlOf, reply>>
      BY <1>7 DEF ArriveStop, SessionInv, StopComing, vars, records, tasks, Service!StopPops,
                  Service!StopFindsNothing, Service!qkdlVars
    <2>2. ASSUME NEW t \in Session \ {s}, Created(t), HasObject(t) PROVE HasObject(t)'
      <3>0. qkdlOf[t] \in Qkdl
        BY <2>2 DEF SessionInv
      <3>1. PICK c \in registry[qkdlOf[t]] : c.session = t
        BY <2>2 DEF HasObject, Service!ObjectsOf
      <3>2. c \in registry'[qkdlOf[t]]
        BY <1>7, <3>0, <3>1 DEF ArriveStop, Service!StopPops, Service!StopFindsNothing,
                  Service!qkdlVars, Service!ObjectsOf, PoolTypeOK, Service!QkdlTypeOK
      <3> QED BY <2>1, <3>1, <3>2 DEF HasObject, Service!ObjectsOf
    <2> QED BY <2>1, <2>2, ReadyFrame DEF Terminal
  <1>8. ASSUME NEW c \in Call, StopStep(c) PROVE ReadyInv'
    BY <1>1, <1>8 DEF StopStep, Service!StopEnds, vars, records, tasks
  <1>9. ASSUME NEW q \in Qkdl, PoolLockExpires(q) \/ PoolCooldownEnds(q) PROVE ReadyInv'
    BY <1>1, <1>9 DEF PoolLockExpires, LockExpires, PoolCooldownEnds, Service!CooldownEnds,
                      vars, records, tasks, qkdlVars
  <1>10. CASE PoolRestart
    <2>1. UNCHANGED <<status, qkdlOf, registry, reply>>
      BY <1>10 DEF PoolRestart, Restart, records, qkdlVars
    <2>2. \A t \in Session : create'[t] = "opened" => create[t] = "opened"
      BY <1>10 DEF PoolRestart, Restart
    <2> QED BY <2>1, <2>2, ReadyFrame DEF HasObject, Service!ObjectsOf, Terminal
  <1>11. CASE UNCHANGED poolVars \/ \E s \in Session : PoolPostStop(s)
    BY <1>1, <1>11 DEF poolVars, PoolPostStop, vars, records, tasks, qkdlVars
  <1> QED BY <1>2, <1>3, <1>4, <1>5, <1>6, <1>7, <1>8, <1>9, <1>10, <1>11 DEF PoolNext, KmeStep

\* The bookkeeping is inductive: every step of the composition keeps it.
LEMMA BaseStep == BaseInv /\ [PoolNext]_poolVars => BaseInv'
  <1> SUFFICES ASSUME BaseInv, [PoolNext]_poolVars PROVE BaseInv'
    OBVIOUS
  <1> USE DEF BaseInv
  <1>1. TypeOK
    BY DEF PoolInv
  <1>2. [Next]_vars
    BY PoolIsKme
  <1>3. PoolTypeOK'
    BY <1>1, PoolTypeStep
  <1>4. PoolInv'
    BY <1>2, PoolStep
  <1>5. \A s \in Session : StreamInv(s)'
    BY <1>2, StreamStep
  <1>6. CallInv' /\ SessionInv' /\ ReadyInv'
    BY <1>1, CallStep, SessionStep, ReadyStep
  <1> QED BY <1>3, <1>4, <1>5, <1>6

\* Before the first request the bookkeeping is in order.
LEMMA BaseBegins == PoolInit => BaseInv
  <1> SUFFICES ASSUME PoolInit PROVE BaseInv
    OBVIOUS
  <1> USE DEF PoolInit
  <1>1. PoolInv
    BY PoolBegins
  <1>2. PoolTypeOK
    BY BoundsAssumption DEF Init, PoolTypeOK, Service!QkdlInit, Service!QkdlTypeOK, Call
  <1>3. \A s \in Session : StreamInv(s)
    BY DEF Init, StreamInv, Ordered, Told, Emitted
  <1>4. CallInv
    BY DEF CallInv, Unmade, Located, Service!QkdlInit, Call, Service!Call
  <1>5. SessionInv
    BY DEF Init, SessionInv, Created, StopComing
  <1>6. ReadyInv
    BY DEF Init, ReadyInv, Service!QkdlInit, Call
  <1> QED BY <1>1, <1>2, <1>3, <1>4, <1>5, <1>6 DEF BaseInv

\* Every reachable state of the composition, under any timing, satisfies the
\* bookkeeping of calls, sessions and replies.
THEOREM BaseInvariant == PoolSpec => []BaseInv
  BY BaseBegins, BaseStep, PTL DEF PoolSpec

\* Once session_open is on its stream, a session in progress has its network on
\* the QKDL it holds, whatever is late, lost or restarted.
THEOREM OpenHasNetworkCorrect == PoolSpec => []OpenHasNetwork
  <1>1. BaseInv => OpenHasNetwork
    <2> SUFFICES ASSUME BaseInv, NEW s \in Session, InProgress(s), Emitted(s, "session_open")
                 PROVE  Service!ObjectsOf(s, qkdlOf[s]) # {}
      BY DEF OpenHasNetwork
    <2>1. create[s] = "opened"
      BY DEF BaseInv, StreamInv, Emitted
    <2>2. ~Terminal(s)
      BY DEF InProgress, Terminal
    <2> QED BY <2>1, <2>2 DEF BaseInv, ReadyInv, HasObject
  <1> QED BY <1>1, BaseInvariant, PTL

-----------------------------------------------------------------------------
(* One session per QKDL, when no session ends before its start() returned. *)

\* A session's own steps never take the lock from another.
LEMMA LocksOfOthers ==
    ASSUME TypeOK, NEW s \in Session, KmeStep(s), NEW t \in Session \ {s}, NEW q \in Qkdl, lock[q] = t
    PROVE  lock'[q] = t
  <1>1. CASE PoolCreate(s)
    BY <1>1, SessionAssumption DEF PoolCreate, CreateSession, Pick, FreeQkdls, TypeOK
  <1>2. CASE lock' = Released(s, qkdlOf[s])
    BY <1>2 DEF Released, TypeOK
  <1>3. CASE lock' = lock
    BY <1>3
  <1> QED BY <1>1, <1>2, <1>3
      DEF KmeStep, PoolRefuse, PoolResend, PoolInitReply, PoolGiveUp, PoolJoin, PoolPublish,
          PoolCancel, PoolStopDone, CreateBusy, CreateUnknownNode, InitResend, InitReady,
          InitRefused, InitBackoff, InitGiveUp, FailInit, Join, PublishSuccess, PublishAborted,
          Cancel, StopDone

\* What a session's coroutines do to the start of its network, when they never
\* end it early: a session that is being started stays in progress and keeps
\* its lock.
LEMMA StartOwn ==
    ASSUME BaseInv, StartInv, MayEndBeforeStart = FALSE, NEW s \in Session, KmeStep(s), ~PoolCreate(s)
    PROVE  /\ BeingStarted(s)' \/ create'[s] \in {"asking", "backoff"}
                => InProgress(s)' /\ lock'[qkdlOf'[s]] = s
           /\ BeingStarted(s) => BeingStarted(s)'
  <1> USE DEF BaseInv
  <1>0. TypeOK /\ PoolTypeOK /\ StartSession(s)
    BY DEF PoolInv, StartInv
  <1>1. CASE PoolRefuse(s)
    BY <1>0, <1>1 DEF StartSession, PoolRefuse, CreateBusy, CreateUnknownNode, records, http,
                      qkdlVars, BeingStarted, InProgress, TypeOK
  <1>2. CASE PoolResend(s)
    <2>1. /\ InProgress(s)' /\ lock'[qkdlOf'[s]] = s
      BY <1>0, <1>2 DEF StartSession, PoolResend, InitResend, records, InProgress
    <2>2. asked'[s] # {}
      BY <1>0, <1>2 DEF PoolResend, Ask, PoolTypeOK
    <2> QED BY <2>1, <2>2 DEF BeingStarted
  <1>3. CASE UNCHANGED <<qkdlVars, http>> /\ (InitReady(s) \/ InitBackoff(s))
    <2>1. create[s] = "asking" /\ UNCHANGED <<status, lock, qkdlOf>>
      BY <1>3 DEF InitReady, InitBackoff, records
    <2> QED BY <1>0, <1>3, <2>1 DEF StartSession, http, qkdlVars, BeingStarted, InProgress
  <1>4. CASE UNCHANGED <<qkdlVars, http>> /\ (InitRefused(s) \/ InitGiveUp(s)) /\ ~BeingStarted(s)
    <2>1. create'[s] = "failed"
      BY <1>0, <1>4 DEF InitRefused, InitGiveUp, FailInit, TypeOK
    <2> QED BY <1>4, <2>1 DEF http, qkdlVars, BeingStarted
  <1>5. CASE PoolInitReply(s)
    <2>1. ASSUME InitRefused(s), reply[ThisCall(s)] = "busy" PROVE ~BeingStarted(s)
      <3>1. ThisCall(s) \in Call /\ ThisCall(s).session = s
        <4>1. attempts[s] # 0
          BY <2>1 DEF InitRefused, SessionInv, Created
        <4> QED BY <1>0, <4>1, BoundsAssumption DEF ThisCall, Call, Service!Call, TypeOK
      <3> QED BY <2>1, <3>1 DEF StartInv, StartCall
    <2> QED BY <1>3, <1>4, <1>5, <2>1 DEF PoolInitReply
  <1>6. CASE PoolGiveUp(s)
    BY <1>4, <1>6 DEF PoolGiveUp, MayEnd
  <1>7. CASE PoolJoin(s)
    <2>1. status'[s] = "sending" /\ status[s] = "initializing"
      BY <1>0, <1>7, SaveStatusMoves DEF PoolJoin, Join, MayJoin, Status
    <2> QED BY <1>0, <1>7, <2>1 DEF PoolJoin, Join, http, tasks, qkdlVars, BeingStarted,
                                    InProgress, StartSession
  <1>8. CASE PoolPublish(s)
    <2>1. ~BeingStarted(s) /\ UNCHANGED <<asked, create, starting>>
      BY <1>8 DEF PoolPublish, MayEnd, PublishSuccess, PublishAborted, qkdlVars
    <2>2. create[s] = "opened"
      BY <1>8 DEF PoolPublish, PublishSuccess, PublishAborted, MayPublish, StreamInv, Emitted
    <2> QED BY <2>1, <2>2 DEF BeingStarted
  <1>9. CASE PoolCancel(s)
    BY <1>9 DEF PoolCancel, MayEnd, Cancel, BeingStarted, qkdlVars
  <1>10. CASE PoolStopDone(s)
    <2>1. ~InProgress(s)
      BY <1>10 DEF PoolStopDone, StopDone, PoolInv, StopsOnlyOver, InProgress, Terminal
    <2> QED BY <1>0, <1>10, <2>1 DEF PoolStopDone, StopDone, records, http, qkdlVars,
                                     BeingStarted, StartSession
  <1> QED BY <1>1, <1>2, <1>5, <1>6, <1>7, <1>8, <1>9, <1>10 DEF KmeStep

\* A step of one session's coroutines keeps StartInv: nobody else's start is
\* affected, and its own calls go out one at a time.
LEMMA StartKme ==
    ASSUME BaseInv, StartInv, MayEndBeforeStart = FALSE, NEW s \in Session, KmeStep(s)
    PROVE  StartInv'
  <1> USE DEF BaseInv
  <1>0. TypeOK /\ PoolTypeOK /\ StartSession(s)
    BY DEF PoolInv, StartInv
  <1>1. UNCHANGED <<registry, starting, reply>>
    BY <1>0, KmeLocal DEF qkdlVars
  <1>2. ASSUME NEW t \in Session \ {s} PROVE StartSession(t)' /\ (BeingStarted(t)' <=> BeingStarted(t))
    <2>1. /\ status'[t] = status[t] /\ create'[t] = create[t] /\ attempts'[t] = attempts[t]
          /\ qkdlOf'[t] = qkdlOf[t] /\ asked'[t] = asked[t]
      BY <1>0, KmeLocal
    <2>2. BeingStarted(t)' <=> BeingStarted(t)
      BY <1>1, <2>1 DEF BeingStarted
    <2>3. StartSession(t)
      BY DEF StartInv
    <2>4. ASSUME BeingStarted(t) \/ create[t] \in {"asking", "backoff"}
          PROVE  lock'[qkdlOf[t]] = t
      <3>1. lock[qkdlOf[t]] = t /\ Created(t)
        BY <2>3, <2>4 DEF StartSession, SessionInv, InProgress
      <3>2. qkdlOf[t] \in Qkdl
        BY <3>1 DEF SessionInv
      <3> QED BY <1>0, <3>1, <3>2, LocksOfOthers
    <2> QED BY <2>1, <2>2, <2>3, <2>4 DEF StartSession, InProgress, ThisCall
  <1>3. CASE PoolCreate(s)
    <2> DEFINE c == ThisCall(s)'
    <2>1. /\ attempts[s] = 0 /\ create'[s] = "asking" /\ status'[s] = "initializing"
          /\ qkdlOf'[s] \in Qkdl /\ lock' = [lock EXCEPT ![qkdlOf'[s]] = s]
          /\ asked' = [asked EXCEPT ![s] = asked[s] \cup {c}]
          /\ c \in Call /\ c.session = s /\ c.try = 1
      BY <1>0, <1>3, KmeCreates
    <2>2. \A d \in Call : d.session = s => Unmade(d)
      BY <1>0, <2>1, CallParts, BoundsAssumption DEF CallInv
    <2>3. asked[s] = {}
      BY <1>0, <2>2 DEF PoolTypeOK, CallInv, Unmade
    <2>4. asked'[s] = {c} /\ \A t \in Session \ {s} : asked'[t] = asked[t]
      BY <1>0, <2>1, <2>3 DEF PoolTypeOK
    <2>5. lock'[qkdlOf'[s]] = s
      BY <1>0, <2>1 DEF TypeOK
    <2>6. StartSession(s)'
      BY <2>1, <2>4, <2>5 DEF StartSession, InProgress
    <2>7. ASSUME NEW d \in Call PROVE StartCall(d)'
      <3>1. CASE d.session = s
        BY <1>1, <2>2, <3>1 DEF StartCall, Unmade, Located
      <3>2. CASE d.session # s
        BY <1>1, <1>2, <2>4, <3>2, CallParts, KmeLocal, <1>0 DEF StartCall, StartInv, ThisCall
      <3> QED BY <3>1, <3>2
    <2> QED BY <1>1, <1>2, <2>6, <2>7 DEF StartInv, QkdlHoldsOneSession
  <1>4. CASE PoolResend(s)
    <2> DEFINE c == ThisCall(s)'
    <2>1. /\ create[s] = "backoff" /\ create'[s] = "asking" /\ attempts'[s] = attempts[s] + 1
          /\ asked' = [asked EXCEPT ![s] = asked[s] \cup {c}] /\ asked[s] = {}
      BY <1>0, <1>4 DEF PoolResend, InitResend, NextAttempt, Ask, ThisCall, StartSession, TypeOK
    <2>2. asked'[s] = {c} /\ \A t \in Session \ {s} : asked'[t] = asked[t]
      BY <1>0, <2>1 DEF PoolTypeOK
    <2>3. c \in Call /\ c.session = s /\ c.try = attempts[s] + 1
      <3>1. attempts'[s] \in 1 .. InitRetries
        BY <1>0, <1>4, BoundsAssumption DEF PoolResend, InitResend, MayRetry, NextAttempt, TypeOK
      <3> QED BY <2>1, <3>1 DEF ThisCall, Call, Service!Call
    <2>4. Unmade(c)
      BY <1>0, <2>3, BoundsAssumption DEF CallInv, TypeOK
    <2>5. StartSession(s)'
      BY <1>4, <2>1, <2>2, StartOwn DEF StartSession, PoolCreate, CreateSession
    <2>6. ASSUME NEW d \in Call PROVE StartCall(d)'
      <3>1. CASE d = c
        BY <1>1, <2>2, <2>3, <2>4, <3>1 DEF StartCall, Unmade, Located
      <3>2. CASE d.session = s /\ d # c
        BY <1>1, <2>2, <3>2 DEF StartCall, StartInv
      <3>3. CASE d.session # s
        BY <1>1, <1>2, <2>2, <3>3, CallParts, KmeLocal, <1>0 DEF StartCall, StartInv, ThisCall
      <3> QED BY <3>1, <3>2, <3>3
    <2> QED BY <1>1, <1>2, <2>5, <2>6 DEF StartInv, QkdlHoldsOneSession
  <1>5. CASE ~PoolCreate(s) /\ ~PoolResend(s)
    <2>1. asked' = asked /\ attempts'[s] = attempts[s]
      <3>1. attempts'[s] = attempts[s]
        BY <1>0, <1>5, KmeOwn
      <3>2. asked' = asked
        BY <1>5 DEF KmeStep, PoolRefuse, PoolInitReply, PoolGiveUp, PoolJoin, PoolPublish,
                    PoolCancel, PoolStopDone, http
      <3> QED BY <3>1, <3>2
    <2>2. create'[s] = "backoff" => asked[s] = {}
      <3>1. CASE InitBackoff(s) /\ PoolInitReply(s)
        <4>1. attempts[s] # 0
          BY <3>1 DEF InitBackoff, SessionInv, Created
        <4>2. ThisCall(s) \in Call /\ ThisCall(s).session = s
          BY <1>0, <4>1, BoundsAssumption DEF ThisCall, Call, Service!Call, TypeOK
        <4>3. reply[ThisCall(s)] # "none" \/ ThisCall(s) \in starting[qkdlOf[s]]
          BY <1>0, <3>1 DEF PoolInitReply, InitTimesOut, InitBackoff, InitReady, InitRefused,
                            FailInit, TypeOK, NetworkReady
        <4>4. qkdlOf[s] \in Qkdl
          BY <3>1 DEF InitBackoff, SessionInv, Created
        <4>5. ThisCall(s) \notin asked[s]
          BY <4>2, <4>3, <4>4 DEF StartInv, StartCall
        <4> QED BY <1>0, <4>5 DEF StartSession
      <3>2. create'[s] = create[s] => (create'[s] = "backoff" => asked[s] = {})
        BY <1>0 DEF StartSession
      <3>3. ~(InitBackoff(s) /\ PoolInitReply(s)) => create'[s] = create[s] \/ create'[s] # "backoff"
        BY <1>0, <1>5
           DEF KmeStep, PoolRefuse, PoolInitReply, PoolGiveUp, PoolJoin, PoolPublish, PoolCancel,
               PoolStopDone, CreateBusy, CreateUnknownNode, InitReady, InitRefused, InitGiveUp,
               FailInit, Join, PublishSuccess, PublishAborted, Cancel, StopDone, tasks, TypeOK
      <3> QED BY <3>1, <3>2, <3>3
    <2>3. StartSession(s)'
      BY <1>0, <1>5, <2>1, <2>2, StartOwn DEF StartSession, ThisCall
    <2>4. \A t \in Session : BeingStarted(t)' => BeingStarted(t)
      BY <1>1, <2>1 DEF BeingStarted
    <2>5. ASSUME NEW d \in Call PROVE StartCall(d)'
      <3>1. attempts'[d.session] = attempts[d.session] /\ d.session \in Session
        BY <1>0, <2>1, CallParts, KmeLocal
      <3> QED BY <1>1, <2>1, <2>4, <3>1 DEF StartCall, StartInv, ThisCall
    <2> QED BY <1>1, <1>2, <2>3, <2>5 DEF StartInv, QkdlHoldsOneSession
  <1> QED BY <1>3, <1>4, <1>5

\* A call that reaches init_network: it is accepted only by an instance that
\* has nothing registered, and whatever is being started there is its own
\* session's, because the lock is.
LEMMA StartArrive ==
    ASSUME BaseInv, StartInv, NEW c \in Call, Arrive(c)
    PROVE  StartInv'
  <1> DEFINE s == c.session
             q == qkdlOf[s]
  <1> USE DEF BaseInv
  <1>0. TypeOK /\ PoolTypeOK /\ s \in Session
    BY CallParts DEF PoolInv
  <1>1. /\ c \in asked[s] /\ asked' = [asked EXCEPT ![s] = asked[s] \ {c}]
        /\ UNCHANGED <<status, create, attempts, qkdlOf, lock, registry>>
    BY DEF Arrive, vars, records, tasks, Service!InitCooling, Service!InitAlready,
           Service!InitBusy, Service!InitAccept
  <1>2. asked[s] = {c} /\ c = ThisCall(s) /\ BeingStarted(s) /\ InProgress(s) /\ lock[q] = s
    BY <1>0, <1>1 DEF StartInv, StartSession, BeingStarted
  <1>3. q \in Qkdl
    BY <1>0, <1>1, CallMade DEF SessionInv
  <1>4. reply[c] = "none" /\ \A r \in Qkdl : c \notin starting[r]
    BY <1>1 DEF StartInv, StartCall
  <1>5. asked'[s] = {} /\ \A t \in Session \ {s} : asked'[t] = asked[t]
    BY <1>0, <1>1, <1>2 DEF PoolTypeOK
  <1>6. \A t \in Session : ThisCall(t)' = ThisCall(t) /\ asked'[t] \subseteq asked[t]
    BY <1>1, <1>5 DEF ThisCall
  <1>7. \A d \in Call : d.session \in Session
    BY CallParts
  <1>8. CASE Service!InitAccept(c, q)
    <2>1. /\ registry[q] = {} /\ UNCHANGED reply /\ starting'[q] = starting[q] \cup {c}
          /\ \A r \in Qkdl \ {q} : starting'[r] = starting[r]
      BY <1>0, <1>3, <1>8 DEF Service!InitAccept, Service!Acceptable, PoolTypeOK, Service!QkdlTypeOK
    <2>2. ASSUME NEW t \in Session, BeingStarted(t)' PROVE BeingStarted(t)
      <3>1. CASE asked'[t] # {}
        BY <1>6, <3>1 DEF BeingStarted
      <3>2. CASE \E r \in Qkdl : \E d \in starting'[r] : d.session = t
        BY <1>2, <2>1, <3>2 DEF BeingStarted
      <3> QED BY <2>2, <3>1, <3>2 DEF BeingStarted
    <2>3. \A t \in Session : StartSession(t)'
      BY <1>1, <1>6, <2>2 DEF StartInv, StartSession, InProgress
    <2>4. ASSUME NEW d \in Call PROVE StartCall(d)'
      <3>1. CASE d = c
        BY <1>4, <1>5, <2>1, <3>1 DEF StartCall
      <3>2. CASE d # c
        BY <1>6, <1>7, <2>1, <2>2, <3>2 DEF StartCall, StartInv
      <3> QED BY <3>1, <3>2
    <2>5. ASSUME NEW d \in starting[q] PROVE d.session = s
      <3>1. d \in Call
        BY <1>0, <1>3 DEF PoolTypeOK, Service!QkdlTypeOK, Call
      <3>2. qkdlOf[d.session] = q
        BY <1>3, <3>1 DEF CallInv, Located
      <3>3. lock[q] = d.session
        BY <1>3, <1>7, <3>1, <3>2 DEF StartInv, StartSession, BeingStarted
      <3> QED BY <1>2, <3>3
    <2>6. QkdlHoldsOneSession'
      BY <1>1, <2>1, <2>5 DEF StartInv, QkdlHoldsOneSession
    <2> QED BY <2>3, <2>4, <2>6 DEF StartInv
  <1>9. CASE UNCHANGED starting /\ \E r \in {"cooling", "ready", "busy"} :
               Service!Answer(c, r) /\ (r = "busy" => Service!InitBusy(c, q))
    <2>1. PICK r \in {"cooling", "ready", "busy"} :
                 Service!Answer(c, r) /\ (r = "busy" => Service!InitBusy(c, q))
      BY <1>9
    <2>2. reply'[c] = r /\ \A d \in Call \ {c} : reply'[d] = reply[d]
      BY <1>0, <2>1 DEF Service!Answer, PoolTypeOK, Service!QkdlTypeOK, Call
    <2>3. \A t \in Session : BeingStarted(t)' => BeingStarted(t)
      BY <1>6, <1>9 DEF BeingStarted
    <2>4. \A t \in Session : StartSession(t)'
      BY <1>1, <1>6, <2>3 DEF StartInv, StartSession, InProgress
    <2>5. ASSUME r = "busy" PROVE ~BeingStarted(s)'
      <3>1. PICK e \in registry[q] : e.session # s
        BY <2>1, <2>5 DEF Service!InitBusy, Service!ObjectsOf
      <3>2. ASSUME NEW p \in Qkdl, NEW d \in starting[p] PROVE d.session # s
        <4>1. d \in Call /\ qkdlOf[d.session] = p
          BY <1>0 DEF PoolTypeOK, Service!QkdlTypeOK, Call, CallInv, Located
        <4>2. p = q => d.session = e.session
          BY <1>3 DEF StartInv, QkdlHoldsOneSession
        <4> QED BY <3>1, <4>1, <4>2
      <3> QED BY <1>5, <1>9, <3>2 DEF BeingStarted
    <2>6. ASSUME NEW d \in Call PROVE StartCall(d)'
      <3>1. CASE d = c
        BY <1>4, <1>5, <1>9, <2>2, <2>5, <3>1 DEF StartCall
      <3>2. CASE d # c
        BY <1>6, <1>7, <1>9, <2>2, <2>3, <3>2 DEF StartCall, StartInv
      <3> QED BY <3>1, <3>2
    <2> QED BY <1>1, <1>9, <2>4, <2>6 DEF StartInv, QkdlHoldsOneSession
  <1> QED BY <1>8, <1>9 DEF Arrive, Service!InitCooling, Service!InitAlready, Service!InitBusy

\* A thread of the executor only takes objects out of "starting", and answers
\* its own call when it does.
LEMMA StartThread ==
    ASSUME BaseInv, StartInv, NEW c \in Call, StartStep(c)
    PROVE  StartInv'
  <1> DEFINE q == qkdlOf[c.session]
  <1> USE DEF BaseInv
  <1>0. TypeOK /\ PoolTypeOK /\ c.session \in Session /\ q \in Qkdl
    BY CallParts DEF PoolInv, StartStep, TypeOK
  <1>1. /\ c \in starting[q] /\ UNCHANGED <<status, create, attempts, qkdlOf, lock, asked>>
    BY DEF StartStep, vars, records, tasks, http, Service!InitConnect, Service!InitRegister,
           Service!InitRaises
  <1>2. \A d \in Call : d.session \in Session
    BY CallParts
  <1>3. CASE Service!InitConnect(c, q)
    BY <1>1, <1>3 DEF Service!InitConnect, StartInv, StartSession, StartCall, ThisCall,
                      BeingStarted, InProgress, QkdlHoldsOneSession
  <1>4. CASE Service!InitRegister(c, q) \/ Service!InitRaises(c, q)
    <2>1. starting' = [starting EXCEPT ![q] = starting[q] \ {c}] /\ reply'[c] \in {"ready", "error"}
          /\ \A d \in Call \ {c} : reply'[d] = reply[d]
      BY <1>0, <1>4 DEF Service!InitRegister, Service!InitRaises, Service!Answer, PoolTypeOK,
                        Service!QkdlTypeOK, Call
    <2>2. c \notin starting'[q] /\ \A r \in Qkdl : starting'[r] \subseteq starting[r]
      BY <1>0, <2>1 DEF PoolTypeOK, Service!QkdlTypeOK
    <2>3. \A r \in Qkdl : starting'[r] \cup registry'[r] \subseteq starting[r] \cup registry[r]
      BY <1>0, <1>1, <1>4, <2>2 DEF Service!InitRegister, Service!InitRaises, PoolTypeOK,
                                    Service!QkdlTypeOK
    <2>4. \A t \in Session : BeingStarted(t)' => BeingStarted(t)
      BY <1>1, <2>2 DEF BeingStarted
    <2>5. \A t \in Session : StartSession(t)'
      BY <1>1, <2>4 DEF StartInv, StartSession, ThisCall, InProgress
    <2>6. ASSUME NEW d \in Call PROVE StartCall(d)'
      <3>1. CASE d = c
        <4>1. \A r \in Qkdl : c \notin starting'[r]
          <5>1. \A r \in Qkdl : c \in starting[r] => r = q
            BY DEF CallInv, Located
          <5> QED BY <2>2, <5>1
        <4>2. c \notin asked'[c.session]
          BY <1>0, <1>1 DEF StartInv, StartCall
        <4> QED BY <2>1, <3>1, <4>1, <4>2 DEF StartCall
      <3>2. CASE d # c
        BY <1>1, <1>2, <2>1, <2>2, <2>4, <3>2 DEF StartInv, StartCall, ThisCall
      <3> QED BY <3>1, <3>2
    <2>7. QkdlHoldsOneSession'
      BY <2>3 DEF StartInv, QkdlHoldsOneSession
    <2> QED BY <2>5, <2>6, <2>7 DEF StartInv
  <1> QED BY <1>3, <1>4 DEF StartStep

\* Every step of the composition keeps StartInv.
LEMMA StartInvStep ==
    ASSUME BaseInv, StartInv, MayEndBeforeStart = FALSE, [PoolNext]_poolVars
    PROVE  StartInv'
  <1> USE DEF BaseInv
  <1>0. TypeOK /\ PoolTypeOK
    BY DEF PoolInv
  <1>1. CASE UNCHANGED <<status, create, attempts, qkdlOf, lock, asked, starting, reply>>
             /\ \A q \in Qkdl : registry'[q] \subseteq registry[q]
    BY <1>1 DEF StartInv, StartSession, StartCall, ThisCall, BeingStarted, InProgress,
                QkdlHoldsOneSession
  <1>2. ASSUME NEW s \in Session, ArriveStop(s) PROVE StartInv'
    <2>1. \A q \in Qkdl : registry'[q] \subseteq registry[q]
      BY <1>0, <1>2 DEF ArriveStop, Service!StopPops, Service!StopFindsNothing, Service!qkdlVars,
                        PoolTypeOK, Service!QkdlTypeOK
    <2> QED BY <1>1, <1>2, <2>1 DEF ArriveStop, Service!StopPops, Service!StopFindsNothing,
                                    Service!qkdlVars, vars, records, tasks
  <1>3. ASSUME NEW c \in Call, StopStep(c) PROVE StartInv'
    BY <1>1, <1>3 DEF StopStep, Service!StopEnds, vars, records, tasks, http
  <1>4. ASSUME NEW q \in Qkdl, PoolCooldownEnds(q) PROVE StartInv'
    BY <1>1, <1>4 DEF PoolCooldownEnds, Service!CooldownEnds, vars, records, tasks, http
  <1>5. ASSUME NEW q \in Qkdl, PoolLockExpires(q) PROVE StartInv'
    <2>1. /\ UNCHANGED <<status, create, attempts, qkdlOf, asked, starting, reply, registry>>
          /\ \A r \in Qkdl \ {q} : lock'[r] = lock[r]
          /\ ~BeingStarted(lock[q]) /\ create[lock[q]] \notin {"asking", "backoff"}
      BY <1>0, <1>5 DEF PoolLockExpires, LockExpires, LockOverdue, records, tasks, http, qkdlVars, TypeOK
    <2>2. ASSUME NEW t \in Session PROVE StartSession(t)'
      <3>1. BeingStarted(t) \/ create[t] \in {"asking", "backoff"} => qkdlOf[t] \in Qkdl /\ qkdlOf[t] # q
        <4>1. create[t] \in {"asking", "backoff"} => Created(t)
          BY DEF Created
        <4>2. BeingStarted(t) => Created(t)
          BY DEF StartInv, StartSession, InProgress, SessionInv
        <4>3. BeingStarted(t) \/ create[t] \in {"asking", "backoff"} => lock[qkdlOf[t]] = t
          BY DEF StartInv, StartSession
        <4> QED BY <2>1, <4>1, <4>2, <4>3 DEF SessionInv
      <3> QED BY <2>1, <3>1 DEF StartInv, StartSession, ThisCall, InProgress, BeingStarted
    <2> QED BY <2>1, <2>2 DEF StartInv, StartCall, ThisCall, BeingStarted, QkdlHoldsOneSession
  <1>6. CASE PoolRestart
    <2>1. UNCHANGED <<status, attempts, qkdlOf, lock, asked, starting, reply, registry>>
      BY <1>6 DEF PoolRestart, Restart, records, http, qkdlVars
    <2>2. \A t \in Session : create'[t] \notin {"asking", "backoff"}
      BY <1>6 DEF PoolRestart, Restart
    <2> QED BY <2>1, <2>2 DEF StartInv, StartSession, StartCall, ThisCall, BeingStarted, InProgress,
                              QkdlHoldsOneSession
  <1>7. CASE UNCHANGED poolVars \/ \E s \in Session : PoolPostStop(s)
    BY <1>1, <1>7 DEF poolVars, PoolPostStop, vars, records, tasks, qkdlVars, http
  <1> QED BY <1>2, <1>3, <1>4, <1>5, <1>6, <1>7, StartKme, StartArrive, StartThread DEF PoolNext

\* Before the first request nothing is being started.
LEMMA StartBegins == PoolInit => StartInv
  BY CallParts DEF PoolInit, Init, Service!QkdlInit, StartInv, StartSession, StartCall,
                   BeingStarted, QkdlHoldsOneSession, Call

\* As long as no session ends before its start() returned, no QKDL starts or
\* holds the networks of two sessions, although inits and stops may time out,
\* locks may run out and the KME may restart.
THEOREM OneSessionPerQkdl ==
    ASSUME MayEndBeforeStart = FALSE
    PROVE  PoolSpec => []QkdlHoldsOneSession
  <1>1. BaseInv /\ StartInv /\ [PoolNext]_poolVars => StartInv'
    BY StartInvStep
  <1>2. StartInv => QkdlHoldsOneSession
    BY DEF StartInv
  <1> QED BY <1>1, <1>2, StartBegins, BaseInvariant, PTL DEF PoolSpec

-----------------------------------------------------------------------------
(* The network of a registered session, when nothing is late and no teardown *)
(* of a session overlaps another.                                            *)

\* Unanswered counts the stops in flight and the stops at work: it is zero when
\* there is neither.
LEMMA UnansweredCounts ==
    ASSUME PoolTypeOK, NEW s \in Session, qkdlOf[s] \in Qkdl
    PROVE  /\ Unanswered(s) \in Nat
           /\ Unanswered(s) = 0 => ~StopComing(s) /\ \A c \in stopping[qkdlOf[s]] : c.session # s
  <1> DEFINE S == {c \in stopping[qkdlOf[s]] : c.session = s}
             number == [c \in S |-> c.try]
  <1>1. IsFiniteSet(1 .. InitRetries)
    BY BoundsAssumption, FS_Interval
  <1>2. \A c \in S : c \in Call /\ c.session = s
    BY DEF PoolTypeOK, Service!QkdlTypeOK, Call
  <1>3. number \in Injection(S, 1 .. InitRetries)
    BY <1>2, CallParts DEF Injection, IsInjective
  <1>4. IsFiniteSet(S) /\ Cardinality(S) \in Nat /\ (Cardinality(S) = 0 <=> S = {})
    BY <1>1, <1>3, FS_Injection, FS_CardinalityType, FS_EmptySet
  <1>5. stopReqs[s] \in Nat /\ unposted[s] \in Nat /\ Unanswered(s) = unposted[s] + stopReqs[s] + Cardinality(S)
    BY BoundsAssumption DEF PoolTypeOK, Unanswered
  <1> HIDE DEF S
  <1>6. Unanswered(s) = 0 => S = {} /\ ~StopComing(s)
    <2>1. \A m, n, k \in Nat : m + n + k = 0 => ~(m > 0) /\ ~(n > 0) /\ k = 0
      OBVIOUS
    <2> QED BY <1>4, <1>5, <2>1 DEF StopComing
  <1> QED BY <1>4, <1>5, <1>6 DEF S

\* A call on no QKDL is calm, whatever became of its session.
LEMMA CalmElsewhere ==
    ASSUME NEW c \in Call, Located(c)' = {}, c \in asked'[c.session] => netOf'[c] = NoCall
    PROVE  CalmCall(c)'
  BY DEF CalmCall, StopComing, Located

\* A step of one session's coroutines keeps the calls of the others calm.
LEMMA CalmOthers ==
    ASSUME TypeOK, PoolTypeOK, CallInv, NEW s \in Session, KmeStep(s),
           NEW c \in Call, c.session # s, CalmCall(c)
    PROVE  CalmCall(c)'
  <1> DEFINE t == c.session
  <1>1. /\ status'[t] = status[t] /\ create'[t] = create[t] /\ attempts'[t] = attempts[t]
        /\ qkdlOf'[t] = qkdlOf[t] /\ stops'[t] = stops[t] /\ asked'[t] = asked[t]
        /\ stopReqs'[t] = stopReqs[t] /\ unposted'[t] = unposted[t] /\ UNCHANGED qkdlVars /\ t \in Session \ {s}
    BY CallParts, KmeLocal
  <1>2. \A q \in Qkdl : lock[q] = t => lock'[q] = t
    BY <1>1, LocksOfOthers
  <1> QED BY <1>1, <1>2 DEF CalmCall, StopComing, ThisCall, Terminal, HasObject, Service!ObjectsOf, qkdlVars

\* A creation coroutine that is not waiting for "ready" or for a start() has
\* nothing on the QKDL.
LEMMA NothingThere ==
    ASSUME BaseInv, StartInv, CalmInv, NEW s \in Session,
           create[s] = "backoff" \/ (create[s] = "asking" /\ reply[ThisCall(s)] \in {"busy", "cooling", "error"}),
           NEW c \in Call, c.session = s
    PROVE  Located(c) = {} /\ c \notin asked[s]
  <1>1. ~Terminal(s)
    BY DEF StartInv, StartSession, InProgress, Terminal
  <1>2. CalmCall(c) /\ StartCall(c) /\ StartSession(s)
    BY DEF CalmInv, StartInv
  <1>3. \A q \in Qkdl : c \notin stopping[q]
    BY <1>1, <1>2 DEF CalmCall, StopComing
  <1>4. \A q \in Qkdl : c \notin starting[q] /\ c \notin registry[q]
    BY <1>2 DEF CalmCall, StopComing, StartCall
  <1>5. c \notin asked[s]
    BY <1>2 DEF StartSession, StartCall
  <1> QED BY <1>3, <1>4, <1>5 DEF Located

\* A teardown that waits for its answer finds nothing left to take from the
\* session when it has it.
LEMMA NothingLeft ==
    ASSUME BaseInv, StartInv, CalmInv, NEW s \in Session,
           ~InProgress(s), qkdlOf[s] \in Qkdl, Unanswered(s) = 0 \/ (stops[s] > Unanswered(s) /\ Terminal(s)),
           NEW c \in Call, c.session = s
    PROVE  Located(c) = {}
  <1> USE DEF BaseInv
  <1>0. CalmCall(c) /\ StartSession(s) /\ PoolTypeOK /\ TypeOK
    BY DEF CalmInv, StartInv, PoolInv
  <1>1. \A q \in Qkdl : c \notin starting[q]
    BY <1>0 DEF StartSession, BeingStarted
  <1>2. ASSUME NEW q \in Qkdl, c \in registry[q] \cup stopping[q] PROVE FALSE
    <2>1. q = qkdlOf[s] /\ Created(s)
      BY <1>0, <1>2, CallMade DEF CallInv, Located, SessionInv
    <2>2. Terminal(s)
      BY <2>1 DEF SessionInv, Exists
    <2>3. stops[s] <= 1
      BY <1>0, <1>2, <2>2 DEF CalmCall, StopComing
    <2>4. Unanswered(s) = 0
      BY <1>0, <2>3, UnansweredCounts, BoundsAssumption DEF TypeOK
    <2>5. ~StopComing(s) /\ c \notin stopping[q]
      BY <1>0, <2>1, <2>4, UnansweredCounts
    <2> QED BY <1>0, <1>2, <2>2, <2>5 DEF CalmCall, StopComing
  <1> QED BY <1>1, <1>2 DEF Located

\* A step of a session's coroutines keeps every call calm.
LEMMA CalmKme ==
    ASSUME BaseInv, StartInv, CalmInv, Calm, NEW s \in Session, KmeStep(s)
    PROVE  CalmInv'
  <1> USE DEF BaseInv
  <1>0. TypeOK /\ PoolTypeOK /\ StartSession(s) /\ UNCHANGED qkdlVars
    BY KmeLocal DEF PoolInv, StartInv
  <1> SUFFICES /\ asked'[s] # {} => create'[s] \in {"asking", "lost"}
               /\ \A c \in Call : c.session = s => CalmCall(c)'
    <2>1. \A t \in Session \ {s} : asked'[t] = asked[t] /\ create'[t] = create[t]
      BY <1>0, KmeLocal
    <2>2. \A c \in Call : c.session # s => CalmCall(c)'
      BY <1>0, CalmOthers DEF CalmInv
    <2> QED BY <2>1, <2>2 DEF CalmInv
  <1> DEFINE Mine == {c \in Call : c.session = s}
  <1>1. \A c \in Mine : Located(c)' = Located(c) /\ netOf'[c] = netOf[c] /\ CalmCall(c)
    BY <1>0 DEF Located, qkdlVars, CalmInv
  <1>2. CASE PoolCreate(s)
    <2>1. attempts[s] = 0 /\ create'[s] = "asking"
      BY <1>0, <1>2, KmeCreates
    <2>2. \A c \in Mine : Unmade(c)
      BY <1>0, <2>1, CallParts, BoundsAssumption DEF CallInv
    <2> QED BY <1>1, <2>1, <2>2, CalmElsewhere DEF Unmade
  <1>3. CASE PoolResend(s)
    <2>1. create[s] = "backoff" /\ create'[s] = "asking" /\ attempts'[s] = attempts[s] + 1
          /\ asked' = [asked EXCEPT ![s] = asked[s] \cup {ThisCall(s)'}]
      BY <1>0, <1>3 DEF PoolResend, InitResend, NextAttempt, Ask, ThisCall, TypeOK
    <2>2. ASSUME NEW c \in Mine PROVE CalmCall(c)'
      <3>1. Located(c) = {} /\ c \notin asked[s]
        BY <2>1, NothingThere
      <3>2. c \in asked'[s] => c.try > attempts[s]
        <4>1. c \in asked'[s] => c = ThisCall(s)'
          BY <1>0, <2>1, <3>1 DEF PoolTypeOK
        <4> QED BY <1>0, <2>1, <4>1, BoundsAssumption DEF ThisCall, TypeOK
      <3>3. c \in asked'[s] => netOf[c] = NoCall
        BY <3>2 DEF CallInv, Unmade
      <3> QED BY <1>1, <3>1, <3>3, CalmElsewhere
    <2> QED BY <2>1, <2>2
  <1>4. CASE UNCHANGED asked /\ \A c \in Mine : Located(c) = {} /\ c \notin asked[s]
    <2>1. asked[s] = {}
      BY <1>0, <1>4 DEF PoolTypeOK, CallInv
    <2> QED BY <1>1, <1>4, <2>1, CalmElsewhere
  <1>6. CASE PoolRefuse(s)
    <2>1. attempts[s] = 0
      BY <1>6 DEF PoolRefuse, CreateBusy, CreateUnknownNode, SessionInv, Created
    <2>2. \A c \in Mine : Unmade(c)
      BY <1>0, <2>1, CallParts, BoundsAssumption DEF CallInv
    <2> QED BY <1>4, <1>6, <2>2 DEF Unmade, PoolRefuse, http
  <1>7. CASE PoolInitReply(s)
    <2>1. CASE NetworkReady(s) /\ InitReady(s)
      <3>1. /\ create[s] = "asking" /\ create'[s] = "opened"
            /\ UNCHANGED <<status, attempts, stops, qkdlOf, lock, asked, stopReqs, unposted>>
        BY <1>0, <1>7, <2>1 DEF PoolInitReply, InitReady, records, http, TypeOK
      <3>2. \A c \in Mine : c \notin asked[s] /\ \A q \in Qkdl : c \notin starting[q]
        BY <1>0, <1>1, <2>1 DEF NetworkReady, StartInv, StartCall, StartSession, CalmCall
      <3>3. asked[s] = {}
        BY <1>0, <3>2 DEF PoolTypeOK, CallInv
      <3> QED BY <1>0, <1>1, <3>1, <3>2, <3>3 DEF CalmCall, StopComing, ThisCall, Terminal, HasObject,
                                                 Service!ObjectsOf, qkdlVars
    <2>2. CASE ~(NetworkReady(s) /\ InitReady(s))
      <3>1. create[s] = "asking" /\ reply[ThisCall(s)] \in {"busy", "cooling", "error"} /\ UNCHANGED asked
        BY <1>7, <2>2 DEF PoolInitReply, InitTimesOut, Calm, http
      <3> QED BY <1>4, <3>1, NothingThere
    <2> QED BY <2>1, <2>2
  <1>8. CASE PoolGiveUp(s)
    BY <1>4, <1>8, NothingThere DEF PoolGiveUp, InitGiveUp, http
  <1>9. CASE PoolJoin(s)
    <2>1. /\ UNCHANGED <<create, attempts, stops, qkdlOf, lock, asked, stopReqs, unposted>>
          /\ ~Terminal(s) /\ ~Terminal(s)'
      BY <1>0, <1>9, SaveStatusMoves DEF PoolJoin, Join, MayJoin, Terminal, Status, tasks, http
    <2> QED BY <1>0, <1>1, <2>1 DEF CalmInv, CalmCall, StopComing, ThisCall, HasObject, Service!ObjectsOf, qkdlVars
  <1>10. CASE PoolPublish(s) \/ PoolCancel(s)
    <2>1. /\ ~BeingStarted(s) /\ Unanswered(s) = 0 /\ OweStop(s) /\ SpawnStop(s) /\ Exists(s)
          /\ UNCHANGED <<create, attempts, qkdlOf, lock, asked>>
      BY <1>10 DEF PoolPublish, PublishSuccess, PublishAborted, MayPublish, PoolCancel, Cancel,
                   MayEnd, MayStop, Calm
    <2>2. qkdlOf[s] \in Qkdl
      BY <2>1 DEF SessionInv, Exists, InProgress, Terminal
    <2>3. asked[s] = {} /\ \A c \in Mine, q \in Qkdl : c \notin starting[q]
      BY <2>1 DEF BeingStarted
    <2>4. CASE Terminal(s)
      <3>1. \A c \in Mine : Located(c) = {}
        BY <2>1, <2>2, <2>4, NothingLeft DEF InProgress, Terminal
      <3> QED BY <1>4, <2>1, <2>3, <3>1
    <2>5. CASE ~Terminal(s)
      <3>1. stops[s] = 0 /\ stops'[s] = 1
        BY <1>0, <2>1, <2>5, BoundsAssumption DEF PoolInv, StopsOnlyOver, SpawnStop, TypeOK
      <3>2. StopComing(s)'
        BY <1>0, <2>1, BoundsAssumption DEF OweStop, StopComing, PoolTypeOK
      <3>3. \A c \in Mine, q \in Qkdl : c \notin stopping[q]
        BY <1>1, <2>5 DEF CalmCall, StopComing
      <3> QED BY <1>0, <1>1, <2>1, <2>3, <3>1, <3>2, <3>3 DEF CalmCall, StopComing, ThisCall, qkdlVars
    <2> QED BY <2>4, <2>5
  <1>11. CASE PoolStopDone(s)
    <2>1. stops[s] > Unanswered(s) /\ stops[s] > 0 /\ UNCHANGED asked
      BY <1>11 DEF PoolStopDone, StopDone, Calm, http
    <2>2. Terminal(s) /\ qkdlOf[s] \in Qkdl /\ ~InProgress(s)
      BY <2>1 DEF PoolInv, StopsOnlyOver, SessionInv, Terminal, InProgress
    <2>3. asked[s] = {}
      BY <1>0, <2>2 DEF StartSession, BeingStarted
    <2>4. \A c \in Mine : Located(c) = {}
      BY <2>1, <2>2, NothingLeft
    <2> QED BY <1>4, <2>1, <2>3, <2>4
  <1> QED BY <1>2, <1>3, <1>6, <1>7, <1>8, <1>9, <1>10, <1>11 DEF KmeStep

\* A call that reaches init_network.
LEMMA CalmArrive ==
    ASSUME BaseInv, StartInv, CalmInv, NEW c \in Call, Arrive(c)
    PROVE  CalmInv'
  <1> DEFINE s == c.session
             q == qkdlOf[s]
  <1> USE DEF BaseInv
  <1>0. TypeOK /\ PoolTypeOK /\ s \in Session
    BY CallParts DEF PoolInv
  <1>1. /\ c \in asked[s] /\ asked' = [asked EXCEPT ![s] = asked[s] \ {c}]
        /\ UNCHANGED <<vars, stopReqs, unposted, registry, stopping, network, netOf, up>>
    BY DEF Arrive, stopVars, Service!InitCooling, Service!InitAlready, Service!InitBusy,
           Service!InitAccept
  <1>2. UNCHANGED <<status, create, attempts, stops, qkdlOf, lock>>
    BY <1>1 DEF vars, records, tasks
  <1>3. c = ThisCall(s) /\ create[s] \in {"asking", "lost"} /\ lock[q] = s /\ netOf[c] = NoCall
    BY <1>0, <1>1 DEF StartInv, StartSession, BeingStarted, CalmInv, CalmCall
  <1>4. reply[c] = "none" /\ \A r \in Qkdl : c \notin registry[r]
    <2>1. reply[c] = "none"
      BY <1>1 DEF StartInv, StartCall
    <2> QED BY <2>1 DEF CalmInv, CalmCall
  <1>5. /\ \A t \in Session : asked'[t] \subseteq asked[t]
        /\ \A d \in Call \ {c} : reply'[d] = reply[d] /\ \A r \in Qkdl : d \in starting'[r] => d \in starting[r]
    <2>1. \A t \in Session : asked'[t] \subseteq asked[t]
      BY <1>0, <1>1 DEF PoolTypeOK
    <2>2. CASE Service!InitAccept(c, q)
      BY <1>0, <2>1, <2>2 DEF Service!InitAccept, PoolTypeOK, Service!QkdlTypeOK
    <2>3. CASE UNCHANGED starting /\ \E r \in {"cooling", "ready", "busy"} : Service!Answer(c, r)
      BY <1>0, <2>1, <2>3 DEF Service!Answer, PoolTypeOK, Service!QkdlTypeOK, Call
    <2> QED BY <2>2, <2>3 DEF Arrive, Service!InitCooling, Service!InitAlready, Service!InitBusy
  <1>6. \A r \in Qkdl : c \in starting'[r] => r = q \/ c \in starting[r]
    BY <1>0 DEF Arrive, Service!InitCooling, Service!InitAlready, Service!InitBusy,
                Service!InitAccept, PoolTypeOK, Service!QkdlTypeOK
  <1>7. CalmCall(c)'
    <2>1. CalmCall(c)
      BY DEF CalmInv
    <2> QED BY <1>0, <1>1, <1>2, <1>3, <1>4, <1>5, <1>6, <2>1
            DEF CalmCall, StopComing, ThisCall, Terminal, HasObject, Service!ObjectsOf
  <1>8. ASSUME NEW d \in Call \ {c} PROVE CalmCall(d)'
    <2>1. d.session \in Session /\ CalmCall(d)
      BY CallParts DEF CalmInv
    <2> QED BY <1>1, <1>2, <1>5, <2>1
            DEF CalmCall, StopComing, ThisCall, Terminal, HasObject, Service!ObjectsOf
  <1>9. \A t \in Session : asked'[t] # {} => create'[t] \in {"asking", "lost"}
    BY <1>2, <1>5 DEF CalmInv
  <1> QED BY <1>7, <1>8, <1>9 DEF CalmInv

\* start() in its thread: whatever is registered or started on this QKDL uses
\* the singleton that it finds.
LEMMA CalmThread ==
    ASSUME BaseInv, StartInv, CalmInv, NEW c \in Call, StartStep(c)
    PROVE  CalmInv'
  <1> DEFINE s == c.session
             q == qkdlOf[s]
  <1> USE DEF BaseInv
  <1>0. TypeOK /\ PoolTypeOK /\ s \in Session /\ q \in Qkdl
    BY CallParts DEF PoolInv, StartStep, TypeOK
  <1>1. /\ c \in starting[q] /\ UNCHANGED <<vars, asked, stopReqs, unposted, stopping>>
    BY DEF StartStep, http, Service!InitConnect, Service!InitRegister, Service!InitRaises
  <1>2. UNCHANGED <<status, create, attempts, stops, qkdlOf, lock>>
    BY <1>1 DEF vars, records, tasks
  <1>3. /\ reply[c] = "none" /\ c \notin asked[s] /\ ~Terminal(s)
        /\ \A r \in Qkdl : r # q => c \notin starting[r]
    <2>1. reply[c] = "none" /\ c \notin asked[s]
      BY <1>0, <1>1 DEF StartInv, StartCall
    <2>2. ~Terminal(s)
      BY <1>0, <1>1 DEF StartInv, StartSession, BeingStarted, InProgress, Terminal
    <2> QED BY <1>0, <2>1, <2>2 DEF CallInv, Located
  <1>4. \A r \in Qkdl : c \notin registry[r] /\ c \notin stopping[r]
    BY <1>3 DEF CalmInv, CalmCall
  <1>5. \A d \in Call : CalmCall(d) /\ d.session \in Session
    BY CallParts DEF CalmInv
  <1>6. CASE Service!InitConnect(c, q)
    <2> DEFINE net == IF network[q] = NoCall THEN c ELSE network[q]
    <2>1. /\ network'[q] = net /\ netOf'[c] = net /\ up'[q] = up[q] \cup {net}
          /\ \A r \in Qkdl \ {q} : network'[r] = network[r] /\ up'[r] = up[r]
          /\ \A d \in Call \ {c} : netOf'[d] = netOf[d]
          /\ UNCHANGED <<registry, starting, reply>>
      BY <1>0, <1>6 DEF Service!InitConnect, PoolTypeOK, Service!QkdlTypeOK, Call
    <2>2. CalmCall(c)'
      BY <1>1, <1>2, <1>3, <1>4, <1>5, <2>1 DEF CalmCall, StopComing, ThisCall
    <2>3. ASSUME NEW d \in Call \ {c} PROVE CalmCall(d)'
      <3> HIDE DEF net
      <3>1. network[q] # NoCall => net = network[q]
        BY DEF net
      <3> QED BY <1>1, <1>2, <1>5, <2>1, <3>1
              DEF CalmCall, StopComing, ThisCall, Terminal, HasObject, Service!ObjectsOf
    <2> QED BY <1>1, <1>2, <2>2, <2>3 DEF CalmInv
  <1>7. CASE Service!InitRegister(c, q)
    <2>1. /\ starting'[q] = starting[q] \ {c} /\ registry'[q] = (registry[q] \ Service!ObjectsOf(s, q)) \cup {c}
          /\ \A r \in Qkdl \ {q} : starting'[r] = starting[r] /\ registry'[r] = registry[r]
          /\ reply'[c] = "ready" /\ \A d \in Call \ {c} : reply'[d] = reply[d]
          /\ netOf[c] # NoCall /\ UNCHANGED <<network, netOf, up>>
      BY <1>0, <1>7 DEF Service!InitRegister, Service!Answer, PoolTypeOK, Service!QkdlTypeOK, Call
    <2>2. CalmCall(c)'
      <3>1. /\ c = ThisCall(s) /\ create[s] \in {"asking", "lost"} /\ lock[q] = s
            /\ netOf[c] = network[q] /\ netOf[c] \in up[q]
        BY <1>0, <1>1, <1>5, <2>1 DEF CalmCall, StopComing
      <3>2. \A r \in Qkdl : c \in registry'[r] => r = q
        BY <1>4, <2>1
      <3>3. \A r \in Qkdl : c \notin starting'[r] /\ c \notin stopping'[r]
        BY <1>1, <1>3, <1>4, <2>1
      <3>4. ~Terminal(s)' /\ ThisCall(s)' = ThisCall(s) /\ c \notin asked'[s]
        BY <1>1, <1>2, <1>3 DEF Terminal, ThisCall
      <3> QED BY <1>2, <2>1, <3>1, <3>2, <3>3, <3>4 DEF CalmCall, StopComing
    <2>3. ASSUME NEW d \in Call \ {c} PROVE CalmCall(d)'
      <3>1. \A r \in Qkdl : /\ d \in starting'[r] => d \in starting[r]
                            /\ d \in registry'[r] => d \in registry[r]
        BY <2>1
      <3>2. ASSUME NEW r \in Qkdl, d \in stopping[r] PROVE ~HasObject(d.session)'
        <4>1. Terminal(d.session) /\ ~HasObject(d.session) /\ r = qkdlOf[d.session]
          BY <1>5, <3>2 DEF CalmCall, StopComing, CallInv, Located
        <4>2. d.session # s
          BY <1>3, <4>1
        <4> QED BY <1>2, <2>1, <4>1, <4>2 DEF HasObject, Service!ObjectsOf
      <3> QED BY <1>1, <1>2, <1>5, <2>1, <3>1, <3>2 DEF CalmCall, StopComing, ThisCall, Terminal
    <2> QED BY <1>1, <1>2, <2>2, <2>3 DEF CalmInv
  <1>8. CASE Service!InitRaises(c, q)
    <2>1. /\ starting'[q] = starting[q] \ {c} /\ \A r \in Qkdl \ {q} : starting'[r] = starting[r]
          /\ \A d \in Call \ {c} : reply'[d] = reply[d]
          /\ UNCHANGED <<registry, network, netOf, up>>
      BY <1>0, <1>8 DEF Service!InitRaises, Service!Answer, PoolTypeOK, Service!QkdlTypeOK, Call
    <2>2. CalmCall(c)'
      BY <1>1, <1>3, <1>4, <2>1 DEF CalmCall, StopComing
    <2>3. ASSUME NEW d \in Call \ {c} PROVE CalmCall(d)'
      <3>1. \A r \in Qkdl : d \in starting'[r] => d \in starting[r]
        BY <2>1
      <3> QED BY <1>1, <1>2, <1>5, <2>1, <3>1
              DEF CalmCall, StopComing, ThisCall, Terminal, HasObject, Service!ObjectsOf
    <2> QED BY <1>1, <1>2, <2>2, <2>3 DEF CalmInv
  <1> QED BY <1>6, <1>7, <1>8 DEF StartStep

\* A stop that arrives takes the session's object out of the registry; one that
\* ends resets the singleton of a QKDL that has nothing else.
LEMMA CalmStops ==
    ASSUME BaseInv, StartInv, CalmInv,
           (\E s \in Session : ArriveStop(s)) \/ (\E c \in Call : StopStep(c))
    PROVE  CalmInv'
  <1> USE DEF BaseInv
  <1>0. TypeOK /\ PoolTypeOK
    BY DEF PoolInv
  <1>1. UNCHANGED <<vars, asked, starting, reply, netOf>>
    BY DEF ArriveStop, Service!StopPops, Service!StopFindsNothing, Service!qkdlVars, StopStep,
           Service!StopEnds, http
  <1>2. UNCHANGED <<status, create, attempts, stops, qkdlOf, lock>>
    BY <1>1 DEF vars, records, tasks
  <1>3. \A d \in Call : CalmCall(d) /\ d.session \in Session
    BY CallParts DEF CalmInv
  <1>4. ASSUME NEW s \in Session, ArriveStop(s) PROVE CalmInv'
    <2> DEFINE q == qkdlOf[s]
    <2>1. Terminal(s) /\ q \in Qkdl /\ UNCHANGED <<network, up>>
      BY <1>4 DEF ArriveStop, SessionInv, StopComing, Terminal, Service!StopPops, Service!StopFindsNothing,
                  Service!qkdlVars
    <2>2. /\ registry'[q] = registry[q] \ Service!ObjectsOf(s, q)
          /\ stopping'[q] = stopping[q] \cup Service!ObjectsOf(s, q)
          /\ \A r \in Qkdl \ {q} : registry'[r] = registry[r] /\ stopping'[r] = stopping[r]
          /\ unposted' = unposted /\ \A t \in Session \ {s} : stopReqs'[t] = stopReqs[t]
      BY <1>0, <1>4, <2>1 DEF ArriveStop, Service!StopPops, Service!StopFindsNothing,
                              Service!qkdlVars, PoolTypeOK, Service!QkdlTypeOK
    <2>3. ~HasObject(s)' /\ \A d \in Call, r \in Qkdl : d.session = s => d \notin registry'[r]
      <3>1. ~HasObject(s)'
        BY <1>2, <2>2 DEF HasObject, Service!ObjectsOf
      <3>2. \A d \in Call, r \in Qkdl : d.session = s /\ d \in registry'[r] => r = q
        BY <2>2 DEF CallInv, Located
      <3> QED BY <2>2, <3>1, <3>2 DEF Service!ObjectsOf
    <2>4. ASSUME NEW d \in Call PROVE CalmCall(d)'
      <3>1. CASE d.session = s
        <4>1. \A r \in Qkdl : d \in stopping'[r] => d \in stopping[r] \/ d \in registry[r]
          BY <2>2 DEF Service!ObjectsOf
        <4> QED BY <1>1, <1>2, <1>3, <2>1, <2>3, <3>1, <4>1 DEF CalmCall, StopComing, ThisCall, Terminal
      <3>2. CASE d.session # s
        <4>1. \A r \in Qkdl : /\ d \in stopping'[r] => d \in stopping[r]
                              /\ d \in registry'[r] => d \in registry[r]
          BY <2>2, <3>2 DEF Service!ObjectsOf
        <4>2. ASSUME NEW r \in Qkdl, d \in stopping[r] PROVE ~HasObject(d.session)'
          <5>1. ~HasObject(d.session) /\ qkdlOf[d.session] = r
            BY <1>3, <4>2 DEF CalmCall, StopComing, CallInv, Located
          <5> QED BY <1>2, <2>2, <5>1 DEF HasObject, Service!ObjectsOf
        <4> QED BY <1>1, <1>2, <1>3, <2>1, <2>2, <3>2, <4>1, <4>2 DEF CalmCall, StopComing, ThisCall, Terminal
      <3> QED BY <3>1, <3>2
    <2> QED BY <1>1, <1>2, <2>4 DEF CalmInv
  <1>5. ASSUME NEW c \in Call, StopStep(c) PROVE CalmInv'
    <2> DEFINE q == qkdlOf[c.session]
    <2>1. /\ q \in Qkdl /\ c \in stopping[q] /\ UNCHANGED <<registry, stopReqs, unposted>>
          /\ stopping'[q] = stopping[q] \ {c}
          /\ \A r \in Qkdl \ {q} : /\ stopping'[r] = stopping[r] /\ network'[r] = network[r]
                                   /\ up'[r] = up[r]
      BY <1>0, <1>3, <1>5 DEF StopStep, Service!StopEnds, http, PoolTypeOK, Service!QkdlTypeOK, TypeOK
    <2>2. Terminal(c.session) /\ lock[q] = c.session /\ ~HasObject(c.session)
      BY <1>3, <2>1 DEF CalmCall, StopComing
    <2>3. ASSUME NEW d \in Call, d \in starting[q] \cup registry[q] PROVE FALSE
      <3>1. d.session = c.session
        BY <1>3, <2>1, <2>2, <2>3 DEF CalmCall, StopComing
      <3>2. d \notin starting[q]
        BY <1>3, <2>1, <2>2, <3>1 DEF StartInv, StartSession, BeingStarted, InProgress, Terminal
      <3> QED BY <2>2, <2>3, <3>1, <3>2 DEF HasObject, Service!ObjectsOf
    <2>4. ASSUME NEW d \in Call PROVE CalmCall(d)'
      <3>1. \A r \in Qkdl : d \in stopping'[r] => d \in stopping[r]
        BY <2>1
      <3> QED BY <1>1, <1>2, <1>3, <2>1, <2>3, <3>1
              DEF CalmCall, StopComing, ThisCall, Terminal, HasObject, Service!ObjectsOf
    <2> QED BY <1>1, <1>2, <2>4 DEF CalmInv
  <1> QED BY <1>4, <1>5

\* Every step of the composition keeps every call calm, unless it is a restart
\* that loses a stop.
LEMMA CalmStep ==
    ASSUME BaseInv, StartInv, CalmInv, Calm, [PoolNext]_poolVars, dropped' = {}
    PROVE  CalmInv'
  <1> USE DEF BaseInv
  <1>0. TypeOK /\ PoolTypeOK /\ \A c \in Call : CalmCall(c) /\ c.session \in Session
    BY CallParts DEF PoolInv, CalmInv
  <1>1. ASSUME NEW q \in Qkdl, PoolCooldownEnds(q) PROVE CalmInv'
    BY <1>1 DEF PoolCooldownEnds, Service!CooldownEnds, CalmInv, CalmCall, StopComing, ThisCall, Terminal,
                HasObject, Service!ObjectsOf, vars, records, tasks, http
  <1>2. ASSUME NEW q \in Qkdl, PoolLockExpires(q) PROVE CalmInv'
    <2> DEFINE s == lock[q]
    <2>1. /\ s \in Session /\ ~BeingStarted(s) /\ ~InProgress(s)
          /\ ~(stops[s] + Unanswered(s) > 0)
          /\ UNCHANGED <<status, create, attempts, stops, qkdlOf, asked, stopReqs, unposted, qkdlVars>>
          /\ \A r \in Qkdl \ {q} : lock'[r] = lock[r]
      BY <1>0, <1>2 DEF PoolLockExpires, LockExpires, LockOverdue, Calm, records, tasks, http, TypeOK
    <2>2. ASSUME NEW d \in Call, d.session = s PROVE Located(d) = {} /\ d \notin asked[s]
      <3>1. d \notin asked[s]
        BY <2>1 DEF BeingStarted
      <3>2. CASE Located(d) # {}
        <4>1. Created(s)
          BY <1>0, <2>1, <2>2, <3>2, CallMade DEF SessionInv
        <4>2. qkdlOf[s] \in Qkdl
          BY <2>1, <4>1 DEF SessionInv
        <4>3. Unanswered(s) = 0
          BY <1>0, <2>1, <4>2, UnansweredCounts, BoundsAssumption DEF TypeOK
        <4> QED BY <2>1, <2>2, <3>1, <4>2, <4>3, NothingLeft
      <3> QED BY <3>1, <3>2
    <2>3. ASSUME NEW d \in Call PROVE CalmCall(d)'
      <3>1. CASE d.session = s
        <4>1. Located(d)' = {} /\ d \notin asked'[d.session]
          BY <2>1, <2>2, <3>1 DEF Located, qkdlVars
        <4> QED BY <4>1, CalmElsewhere
      <3>2. CASE d.session # s
        BY <1>0, <2>1, <3>2 DEF CalmCall, StopComing, ThisCall, Terminal, HasObject,
                Service!ObjectsOf, qkdlVars
      <3> QED BY <3>1, <3>2
    <2> QED BY <2>1, <2>3 DEF CalmInv
  <1>3. CASE PoolRestart
    <2>1. /\ UNCHANGED <<status, attempts, qkdlOf, lock, asked, stopReqs, qkdlVars>>
          /\ \A t \in Session : /\ stops'[t] = 0 /\ ~(unposted[t] > 0)
                                /\ create[t] \in {"asking", "lost"} => create'[t] = "lost"
                                /\ create[t] = "opened" => create'[t] = "opened"
      BY <1>3 DEF PoolRestart, Restart, records, http
    <2>2. \A t \in Session : asked'[t] # {} => create'[t] \in {"asking", "lost"}
      BY <2>1 DEF CalmInv
    <2>3. ASSUME NEW d \in Call PROVE CalmCall(d)'
      BY <1>0, <2>1 DEF CalmCall, StopComing, ThisCall, Terminal, HasObject, Service!ObjectsOf, qkdlVars
    <2> QED BY <2>2, <2>3 DEF CalmInv
  <1>4. CASE UNCHANGED poolVars
    BY <1>4 DEF poolVars, vars, records, tasks, qkdlVars, http, CalmInv, CalmCall, StopComing, ThisCall,
                Terminal, HasObject, Service!ObjectsOf
  <1>5. ASSUME NEW s \in Session, PoolPostStop(s) PROVE CalmInv'
    <2>1. UNCHANGED <<status, create, attempts, stops, qkdlOf, lock, asked, qkdlVars>>
      BY <1>5 DEF PoolPostStop, vars, records, tasks
    <2>2. \A t \in Session : StopComing(t) => StopComing(t)'
      BY <1>0, <1>5, BoundsAssumption DEF PoolPostStop, PostStop, StopComing, PoolTypeOK
    <2>3. ASSUME NEW d \in Call PROVE CalmCall(d)'
      BY <1>0, <2>1, <2>2 DEF CalmCall, ThisCall, Terminal, HasObject, Service!ObjectsOf, qkdlVars
    <2> QED BY <2>1, <2>3 DEF CalmInv
  <1> QED BY <1>1, <1>2, <1>3, <1>4, <1>5, CalmKme, CalmArrive, CalmThread, CalmStops DEF PoolNext

\* Before the first request there is no call.
LEMMA CalmBegins == PoolInit => CalmInv
  BY CallParts DEF PoolInit, Service!QkdlInit, CalmInv, CalmCall, Call

\* A lost stop stays lost.
LEMMA DroppedStay == [PoolNext]_poolVars /\ dropped' = {} => dropped = {}
  <1> SUFFICES ASSUME [PoolNext]_poolVars PROVE dropped \subseteq dropped'
    OBVIOUS
  <1>1. ASSUME NEW s \in Session, KmeStep(s) PROVE dropped' = dropped
    BY <1>1 DEF KmeStep, PoolCreate, PoolRefuse, PoolResend, PoolInitReply, PoolGiveUp, PoolJoin,
                PoolPublish, PoolCancel, PoolStopDone, OweStop, http, stopVars
  <1>2. ASSUME NEW s \in Session, PoolPostStop(s) \/ ArriveStop(s) PROVE dropped' = dropped
    BY <1>2 DEF PoolPostStop, ArriveStop
  <1>3. ASSUME NEW c \in Call, Arrive(c) \/ StartStep(c) \/ StopStep(c) PROVE dropped' = dropped
    BY <1>3 DEF Arrive, StartStep, StopStep, http, stopVars
  <1>4. ASSUME NEW q \in Qkdl, PoolLockExpires(q) \/ PoolCooldownEnds(q) PROVE dropped' = dropped
    BY <1>4 DEF PoolLockExpires, PoolCooldownEnds, http
  <1>5. CASE PoolRestart \/ UNCHANGED poolVars
    BY <1>5 DEF PoolRestart, poolVars, http
  <1> QED BY <1>1, <1>2, <1>3, <1>4, <1>5 DEF PoolNext

\* When calls are answered in time, a lock outlives its session's teardown, no
\* teardown of a session overlaps another and no restart of the KME has lost a
\* stop, no teardown ever takes the shared Network singleton from a session that
\* is registered.
THEOREM ServedNetworkUpCorrect ==
    ASSUME Calm
    PROVE  PoolSpec => []ServedNetworkUp
  <1> DEFINE Inv == BaseInv /\ StartInv /\ (dropped = {} => CalmInv)
  <1>1. PoolInit => Inv
    BY BaseBegins, StartBegins, CalmBegins
  <1>2. Inv /\ [PoolNext]_poolVars => Inv'
    <2> SUFFICES ASSUME Inv, [PoolNext]_poolVars PROVE Inv'
      OBVIOUS
    <2>1. BaseInv' /\ StartInv'
      BY BaseStep, StartInvStep DEF Calm
    <2>2. ASSUME dropped' = {} PROVE CalmInv'
      BY <2>2, DroppedStay, CalmStep
    <2> QED BY <2>1, <2>2
  <1>3. Inv => ServedNetworkUp
    <2> SUFFICES ASSUME BaseInv, CalmInv, NEW q \in Qkdl, NEW c \in registry[q]
                 PROVE  netOf[c] \in up[q] /\ network[q] = netOf[c]
      BY DEF ServedNetworkUp
    <2>1. c \in Call
      BY DEF BaseInv, PoolTypeOK, Service!QkdlTypeOK, Call
    <2> QED BY <2>1 DEF CalmInv, CalmCall
  <1> HIDE DEF Inv
  <1> QED BY <1>1, <1>2, <1>3, PTL DEF PoolSpec
=============================================================================
