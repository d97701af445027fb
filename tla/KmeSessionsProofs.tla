------------------------- MODULE KmeSessionsProofs -------------------------
(***************************************************************************)
(* Proofs about KmeSessions, for any set of sessions, any pool, any number *)
(* of retries, teardowns and restarts: the pool of QKDL instances and its  *)
(* locks, the set of active sessions, the streams that the KME writes, and *)
(* the hand-outs of keys that they record.                                 *)
(***************************************************************************)
EXTENDS KmeSessions, FiniteSetTheorems, SequenceTheorems, TLAPS

\* A release of one session leaves every other session's lock alone, and keeps
\* the lock table well typed (_release_qkdl_lock compares the holder first).
LEMMA ReleasedKeepsOthers ==
    ASSUME lock \in [Qkdl -> Session \cup {NoSession}],
           NEW s \in Session, NEW q
    PROVE  /\ Released(s, q) \in [Qkdl -> Session \cup {NoSession}]
           /\ \A r \in Qkdl : lock[r] # s => Released(s, q)[r] = lock[r]
  BY DEF Released

\* Appending an event of the vocabulary keeps a stream well typed (_emit).
LEMMA EmitTyped ==
    ASSUME events \in [Session -> Seq(Event)], NEW s \in Session,
           NEW name \in {"session_open", "receiver_joined", "key_available", "session_aborted"},
           NEW role \in {"receiver", "monitor", "sender", "broadcast"},
           Emit(s, name, role)
    PROVE  events' \in [Session -> Seq(Event)]
  <1>1. [name |-> name, role |-> role] \in Event
    BY DEF Event
  <1>2. Append(events[s], [name |-> name, role |-> role]) \in Seq(Event)
    BY <1>1
  <1> QED BY <1>2 DEF Emit

\* save_session keeps the status and the active set well typed.
LEMMA SaveStatusTyped ==
    ASSUME status \in [Session -> Status], active \in SUBSET Session,
           NEW s \in Session, NEW st \in Status, SaveStatus(s, st)
    PROVE  status' \in [Session -> Status] /\ active' \in SUBSET Session
  BY DEF SaveStatus

\* A new teardown task keeps the count of pending ones within its bound.
LEMMA SpawnStopTyped ==
    ASSUME stops \in [Session -> 0 .. MaxStops], NEW s \in Session, SpawnStop(s)
    PROVE  stops' \in [Session -> 0 .. MaxStops]
  <1>1. stops[s] \in 0 .. MaxStops /\ stops[s] < MaxStops /\ MaxStops \in Nat
    BY BoundsAssumption DEF SpawnStop
  <1>2. stops[s] + 1 \in 0 .. MaxStops
    BY <1>1
  <1> QED BY <1>2 DEF SpawnStop

\* A creation that fails keeps the types (_init_qkdl).
LEMMA FailInitTyped ==
    ASSUME TypeOK, NEW s \in Session, FailInit(s)
    PROVE  TypeOK'
  <1>1. lock' \in [Qkdl -> Session \cup {NoSession}]
    BY ReleasedKeepsOthers DEF FailInit, TypeOK
  <1>2. "aborted" \in Status /\ "failed" \in Progress
    BY DEF Status, Progress
  <1>3. status' \in [Session -> Status] /\ active' \in SUBSET Session
    BY <1>2, SaveStatusTyped DEF FailInit, TypeOK
  <1> QED BY <1>1, <1>2, <1>3 DEF FailInit, TypeOK

\* Every step of the KME keeps the types.
LEMMA TypeStep == TypeOK /\ [Next]_vars => TypeOK'
  <1> SUFFICES ASSUME TypeOK, [Next]_vars PROVE TypeOK'
    OBVIOUS
  <1> USE SessionAssumption, PoolAssumption, BoundsAssumption
  <1>1. ASSUME NEW s \in Session, CreateBusy(s) \/ CreateUnknownNode(s) PROVE TypeOK'
    BY <1>1 DEF TypeOK, CreateBusy, CreateUnknownNode, records, Progress
  <1>2. ASSUME NEW s \in Session, CreateSession(s) PROVE TypeOK'
    <2>1. status' \in [Session -> Status] /\ active' \in SUBSET Session
      BY <1>2, SaveStatusTyped DEF CreateSession, TypeOK, Status
    <2>2. PICK q \in Qkdl : /\ lock' = [lock EXCEPT ![q] = s]
                            /\ qkdlOf' = [qkdlOf EXCEPT ![s] = q]
      BY <1>2 DEF CreateSession
    <2>3. create' \in [Session -> Progress] /\ attempts' \in [Session -> 0 .. InitRetries]
      BY <1>2 DEF CreateSession, TypeOK, Progress
    <2> QED BY <1>2, <2>1, <2>2, <2>3 DEF CreateSession, TypeOK
  <1>3. ASSUME NEW s \in Session, InitReady(s) PROVE TypeOK'
    <2>1. /\ [name |-> "session_open", role |-> "receiver"] \in Event
          /\ [name |-> "session_open", role |-> "monitor"] \in Event
      BY DEF Event
    <2>2. events' \in [Session -> Seq(Event)]
      BY <1>3, <2>1 DEF InitReady, TypeOK
    <2> QED BY <1>3, <2>2 DEF InitReady, TypeOK, records, Progress
  <1>4. ASSUME NEW s \in Session, InitRefused(s) \/ InitGiveUp(s) PROVE TypeOK'
    BY <1>4, FailInitTyped DEF InitRefused, InitGiveUp
  <1>5. ASSUME NEW s \in Session, InitBackoff(s) PROVE TypeOK'
    BY <1>5 DEF TypeOK, InitBackoff, records, Progress
  <1>6. ASSUME NEW s \in Session, InitResend(s) PROVE TypeOK'
    BY <1>6 DEF TypeOK, InitResend, MayRetry, NextAttempt, records, Progress
  <1>7. ASSUME NEW s \in Session, Join(s) PROVE TypeOK'
    <2>1. status' \in [Session -> Status] /\ active' \in SUBSET Session
      BY <1>7, SaveStatusTyped DEF Join, TypeOK, Status
    <2>2. events' \in [Session -> Seq(Event)]
      BY <1>7, EmitTyped DEF Join, TypeOK
    <2> QED BY <1>7, <2>1, <2>2 DEF Join, TypeOK, tasks
  <1>8. ASSUME NEW s \in Session, PublishSuccess(s) PROVE TypeOK'
    <2>1. status' \in [Session -> Status] /\ active' \in SUBSET Session
      BY <1>8, SaveStatusTyped DEF PublishSuccess, TypeOK, Status
    <2>2. events' \in [Session -> Seq(Event)]
      BY <1>8, EmitTyped DEF PublishSuccess, TypeOK
    <2>3. stops' \in [Session -> 0 .. MaxStops]
      BY <1>8, SpawnStopTyped DEF PublishSuccess, TypeOK
    <2> QED BY <1>8, <2>1, <2>2, <2>3 DEF PublishSuccess, TypeOK, KeyStatus
  <1>9. ASSUME NEW s \in Session, PublishAborted(s) PROVE TypeOK'
    <2>1. status' \in [Session -> Status] /\ active' \in SUBSET Session
      BY <1>9, SaveStatusTyped DEF PublishAborted, TypeOK, Status
    <2>2. events' \in [Session -> Seq(Event)]
      BY <1>9, EmitTyped DEF PublishAborted, TypeOK
    <2>3. stops' \in [Session -> 0 .. MaxStops]
      BY <1>9, SpawnStopTyped DEF PublishAborted, TypeOK
    <2> QED BY <1>9, <2>1, <2>2, <2>3 DEF PublishAborted, TypeOK
  <1>10. ASSUME NEW s \in Session, Cancel(s) PROVE TypeOK'
    <2>1. status' \in [Session -> Status] /\ active' \in SUBSET Session
      BY <1>10, SaveStatusTyped DEF Cancel, TypeOK, Status
    <2>2. stops' \in [Session -> 0 .. MaxStops]
      BY <1>10, SpawnStopTyped DEF Cancel, TypeOK
    <2> QED BY <1>10, <2>1, <2>2 DEF Cancel, TypeOK
  <1>11. ASSUME NEW s \in Session, Consume(s) \/ ConsumeExpired(s) PROVE TypeOK'
    <2>1. keyStatus' \in [Session -> KeyStatus]
      BY <1>11 DEF Consume, ConsumeExpired, TypeOK, KeyStatus
    <2>2. CASE Consume(s)
      <3>1. handed \in [Session -> Nat] /\ handed' = [handed EXCEPT ![s] = handed[s] + 1]
        BY <2>2 DEF Consume, TypeOK
      <3>2. handed' \in [Session -> Nat]
        BY <3>1
      <3> QED BY <2>1, <2>2, <3>2 DEF Consume, TypeOK, tasks
    <2>3. CASE ConsumeExpired(s)
      BY <2>1, <2>3 DEF ConsumeExpired, TypeOK, tasks
    <2> QED BY <1>11, <2>2, <2>3
  <1>12. ASSUME NEW s \in Session, StopDone(s) PROVE TypeOK'
    BY <1>12, ReleasedKeepsOthers DEF TypeOK, StopDone, records
  <1>13. ASSUME NEW s \in Session, KeyLapses(s) \/ RecordExpires(s) PROVE TypeOK'
    BY <1>13 DEF TypeOK, KeyLapses, RecordExpires, tasks, Status
  <1>14. ASSUME NEW q \in Qkdl, LockExpires(q) PROVE TypeOK'
    BY <1>14 DEF TypeOK, LockExpires, LockOverdue, records, tasks
  <1>15. CASE Restart
    BY <1>15 DEF TypeOK, Restart, records, Progress
  <1>16. CASE UNCHANGED vars
    BY <1>16 DEF TypeOK, vars, records, tasks
  <1> QED BY <1>1, <1>2, <1>3, <1>4, <1>5, <1>6, <1>7, <1>8, <1>9, <1>10, <1>11,
             <1>12, <1>13, <1>14, <1>15, <1>16
          DEF Next, CreateRequest, InitStep, Request

\* The records, the locks and the tasks of the KME stay well typed.
THEOREM TypeCorrect == Spec => []TypeOK
  <1>1. Init => TypeOK
    BY SessionAssumption, PoolAssumption, BoundsAssumption
       DEF Init, TypeOK, Status, KeyStatus, Progress, Qkdl, NoQkdl
  <1> QED BY <1>1, TypeStep, PTL DEF Spec

-----------------------------------------------------------------------------
USE DEF Claims

(***************************************************************************)
(* The inductive invariant behind the pool.  LiveSessionHoldsLock is not   *)
(* inductive alone: a pending teardown would release the lock of a session *)
(* in progress, so teardowns must be pending only for sessions that are    *)
(* over; and a session whose creation has not begun has no record and no   *)
(* lock, and never had one.                                                *)
(***************************************************************************)
StopsOnlyOver == \A s \in Session : stops[s] > 0 => Terminal(s)
NoneIsFresh ==
    \A s \in Session : create[s] = "none" =>
        status[s] = "absent" /\ s \notin expired /\ \A q \in Qkdl : lock[q] # s

AskingHasRecord ==
    \A s \in Session : create[s] \in {"asking", "backoff"} => Exists(s)

PoolInv ==
    TypeOK /\ LiveSessionHoldsLock /\ StopsOnlyOver /\ NoneIsFresh /\ AskingHasRecord

\* A step that changes neither who is in progress nor the locks keeps the
\* claim of every session on its lock.
LEMMA HoldsLockFrame ==
    ASSUME LiveSessionHoldsLock,
           UNCHANGED <<lock, qkdlOf>>, expired \subseteq expired',
           \A s \in Session : InProgress(s)' => InProgress(s)
    PROVE  LiveSessionHoldsLock'
  BY DEF LiveSessionHoldsLock

\* When the lock of s alone may be released and s is not in progress
\* afterwards, every other claim survives (_stop_qkdl, _init_qkdl).
LEMMA HoldsLockRelease ==
    ASSUME TypeOK, LiveSessionHoldsLock, NEW s \in Session,
           lock' = Released(s, qkdlOf[s]), UNCHANGED <<qkdlOf, expired>>,
           ~InProgress(s)', \A t \in Session \ {s} : InProgress(t)' => InProgress(t)
    PROVE  LiveSessionHoldsLock'
  <1> SUFFICES ASSUME NEW t \in Session, InProgress(t)', t \notin expired'
               PROVE  lock'[qkdlOf'[t]] = t
    BY DEF LiveSessionHoldsLock
  <1>1. t # s /\ InProgress(t) /\ lock[qkdlOf[t]] = t
    BY DEF LiveSessionHoldsLock
  <1> QED BY <1>1 DEF Released, TypeOK

\* save_session moves one session; SENDING comes only from INITIALIZING here.
LEMMA SaveStatusMoves ==
    ASSUME TypeOK, NEW s \in Session, NEW st \in Status, SaveStatus(s, st)
    PROVE  status'[s] = st /\ \A t \in Session \ {s} : status'[t] = status[t]
  BY DEF SaveStatus, TypeOK

\* A verdict or a cancellation: s is over and has one teardown more.
LEMMA EndKeepsPool ==
    ASSUME PoolInv, NEW s \in Session, NEW st \in {"done", "aborted"},
           Exists(s), SaveStatus(s, st), SpawnStop(s),
           UNCHANGED <<qkdlOf, lock, create, expired>>
    PROVE  LiveSessionHoldsLock' /\ StopsOnlyOver' /\ NoneIsFresh'
  <1>1. status'[s] = st /\ \A t \in Session \ {s} : status'[t] = status[t]
    BY SaveStatusMoves DEF PoolInv, Status
  <1>2. LiveSessionHoldsLock'
    <2>1. \A t \in Session : InProgress(t)' => InProgress(t)
      BY <1>1 DEF InProgress
    <2> QED BY <2>1, HoldsLockFrame DEF PoolInv
  <1>3. StopsOnlyOver'
    <2>1. \A t \in Session \ {s} : stops'[t] = stops[t]
      BY DEF SpawnStop, PoolInv, TypeOK
    <2> QED BY <1>1, <2>1 DEF StopsOnlyOver, PoolInv, Terminal
  <1>4. NoneIsFresh'
    BY <1>1 DEF NoneIsFresh, PoolInv, Exists, InProgress, Terminal
  <1> QED BY <1>2, <1>3, <1>4

\* A creation that fails: s is over and its lock is free.
LEMMA FailKeepsPool ==
    ASSUME PoolInv, NEW s \in Session, FailInit(s)
    PROVE  LiveSessionHoldsLock' /\ StopsOnlyOver' /\ NoneIsFresh'
  <1>1. status'[s] = "aborted" /\ \A t \in Session \ {s} : status'[t] = status[t]
    BY SaveStatusMoves DEF FailInit, PoolInv, Status
  <1>2. LiveSessionHoldsLock'
    <2>1. ~InProgress(s)' /\ \A t \in Session \ {s} : InProgress(t)' => InProgress(t)
      BY <1>1 DEF InProgress
    <2> QED BY <2>1, HoldsLockRelease DEF FailInit, PoolInv
  <1>3. StopsOnlyOver'
    BY <1>1 DEF StopsOnlyOver, PoolInv, Terminal, FailInit
  <1>4. NoneIsFresh'
    <2>1. \A q \in Qkdl, t \in Session : lock'[q] = t => lock[q] = t
      BY SessionAssumption DEF FailInit, Released, PoolInv, TypeOK
    <2>2. \A t \in Session : create'[t] = "none" => t # s /\ create[t] = "none"
      BY DEF FailInit, PoolInv, TypeOK
    <2> QED BY <1>1, <2>1, <2>2 DEF NoneIsFresh, PoolInv, FailInit
  <1> QED BY <1>2, <1>3, <1>4

\* While _init_qkdl is at work the record exists: its TTL is far longer.
LEMMA AskingStep == PoolInv /\ [Next]_vars => AskingHasRecord'
  <1> SUFFICES ASSUME PoolInv, [Next]_vars PROVE AskingHasRecord'
    OBVIOUS
  <1> DEFINE Stays(t) == /\ create'[t] \in {"asking", "backoff"} => create[t] \in {"asking", "backoff"}
                         /\ Exists(t) /\ create'[t] \in {"asking", "backoff"} => Exists(t)'
  <1> USE DEF PoolInv
  <1>1. ASSUME NEW s \in Session, CreateRequest(s) PROVE \A t \in Session \ {s} : Stays(t)
    <2>1. CASE CreateSession(s)
      <3>1. \A t \in Session \ {s} : status'[t] = status[t] /\ create'[t] = create[t]
        BY <2>1, SaveStatusMoves DEF CreateSession, Status, TypeOK
      <3> QED BY <3>1 DEF Exists, InProgress, Terminal
    <2> QED BY <1>1, <2>1 DEF CreateRequest, CreateBusy, CreateUnknownNode, records, Exists,
                              InProgress, Terminal, TypeOK
  <1>2. ASSUME NEW s \in Session, CreateRequest(s)
        PROVE  create'[s] \in {"asking", "backoff"} => Exists(s)'
    BY <1>2, SaveStatusMoves DEF CreateRequest, CreateBusy, CreateUnknownNode, CreateSession,
                                 Status, TypeOK, Exists, InProgress
  <1>3. ASSUME NEW s \in Session, InitStep(s) PROVE \A t \in Session : Stays(t)
    <2>1. CASE FailInit(s)
      <3>1. create'[s] = "failed" /\ \A t \in Session \ {s} : create'[t] = create[t]
        BY <2>1 DEF FailInit, TypeOK
      <3>2. \A t \in Session \ {s} : status'[t] = status[t]
        BY <2>1, SaveStatusMoves DEF FailInit, Status
      <3> QED BY <3>1, <3>2 DEF Exists, InProgress, Terminal
    <2>2. CASE InitReady(s) \/ InitBackoff(s) \/ InitResend(s)
      BY <2>2 DEF InitReady, InitBackoff, InitResend, records, Exists, InProgress, Terminal, TypeOK
    <2> QED BY <1>3, <2>1, <2>2 DEF InitStep, InitRefused, InitGiveUp
  <1>4. ASSUME NEW s \in Session, Request(s) PROVE \A t \in Session : Stays(t)
    <2>1. UNCHANGED create
      BY <1>4 DEF Request, Join, PublishSuccess, PublishAborted, Cancel, Consume, ConsumeExpired, tasks
    <2>2. \A t \in Session : Exists(t) => Exists(t)'
      <3>1. CASE Consume(s) \/ ConsumeExpired(s)
        BY <3>1 DEF Consume, ConsumeExpired, Exists, InProgress, Terminal
      <3>2. ASSUME NEW st \in {"sending", "done", "aborted"}, SaveStatus(s, st)
            PROVE  \A t \in Session : Exists(t) => Exists(t)'
        <4>1. status'[s] = st /\ \A t \in Session \ {s} : status'[t] = status[t]
          BY <3>2, SaveStatusMoves DEF Status
        <4> QED BY <4>1 DEF Exists, InProgress, Terminal
      <3> QED BY <1>4, <3>1, <3>2 DEF Request, Join, PublishSuccess, PublishAborted, Cancel
    <2> QED BY <2>1, <2>2
  <1>5. ASSUME NEW s \in Session, RecordExpires(s) PROVE \A t \in Session : Stays(t)
    <2>1. UNCHANGED create /\ \A t \in Session \ {s} : status'[t] = status[t]
      BY <1>5 DEF RecordExpires, tasks, TypeOK
    <2> QED BY <1>5, <2>1 DEF RecordExpires, Exists, InProgress, Terminal
  <1>6. CASE UNCHANGED <<status, create>>
    BY <1>6 DEF AskingHasRecord, Exists, InProgress, Terminal
  <1>7. CASE Restart
    BY <1>7 DEF Restart, records, AskingHasRecord, TypeOK
  <1> HIDE DEF Stays
  <1>8. (\A t \in Session : Stays(t)) => AskingHasRecord'
    BY DEF Stays, AskingHasRecord
  <1>9. ASSUME NEW s \in Session, CreateRequest(s) PROVE AskingHasRecord'
    BY <1>1, <1>2, <1>9 DEF Stays, AskingHasRecord
  <1>10. ASSUME NEW s \in Session, StopDone(s) \/ KeyLapses(s) PROVE AskingHasRecord'
    BY <1>6, <1>10 DEF StopDone, KeyLapses, records, tasks
  <1>11. ASSUME NEW q \in Qkdl, LockExpires(q) PROVE AskingHasRecord'
    BY <1>6, <1>11 DEF LockExpires, records, tasks
  <1>12. CASE UNCHANGED vars
    BY <1>6, <1>12 DEF vars, records, tasks
  <1> QED BY <1>3, <1>4, <1>5, <1>7, <1>8, <1>9, <1>10, <1>11, <1>12 DEF Next

\* Every step of the KME preserves the inductive invariant of the pool.
LEMMA PoolStep == PoolInv /\ [Next]_vars => PoolInv'
  <1> SUFFICES ASSUME PoolInv, [Next]_vars
               PROVE  LiveSessionHoldsLock' /\ StopsOnlyOver' /\ NoneIsFresh'
    BY TypeStep, AskingStep DEF PoolInv
  <1> DEFINE Goal == LiveSessionHoldsLock' /\ StopsOnlyOver' /\ NoneIsFresh'
  <1> USE DEF PoolInv
  <1>1. ASSUME NEW s \in Session, CreateBusy(s) \/ CreateUnknownNode(s) PROVE Goal
    <2>1. UNCHANGED <<status, lock, qkdlOf, expired, stops>>
      BY <1>1 DEF CreateBusy, CreateUnknownNode, records
    <2>2. \A t \in Session : create'[t] = "none" => create[t] = "none"
      BY <1>1 DEF CreateBusy, CreateUnknownNode, TypeOK
    <2> QED BY <2>1, <2>2 DEF LiveSessionHoldsLock, InProgress, StopsOnlyOver, Terminal,
                              NoneIsFresh
  <1>2. ASSUME NEW s \in Session, CreateSession(s) PROVE Goal
    <2>1. status'[s] = "initializing" /\ \A t \in Session \ {s} : status'[t] = status[t]
      BY <1>2, SaveStatusMoves DEF CreateSession, Status
    <2>2. PICK q \in Qkdl : /\ lock[q] = NoSession
                            /\ lock' = [lock EXCEPT ![q] = s]
                            /\ qkdlOf' = [qkdlOf EXCEPT ![s] = q]
      BY <1>2 DEF CreateSession, Pick, FreeQkdls
    <2>3. LiveSessionHoldsLock'
      <3> SUFFICES ASSUME NEW t \in Session, InProgress(t)', t \notin expired'
                   PROVE  lock'[qkdlOf'[t]] = t
        BY DEF LiveSessionHoldsLock
      <3>1. CASE t = s
        BY <3>1, <2>2 DEF TypeOK
      <3>2. CASE t # s
        <4>1. InProgress(t) /\ t \notin expired
          BY <3>2, <2>1, <1>2 DEF InProgress, CreateSession
        <4>2. lock[qkdlOf[t]] = t /\ qkdlOf[t] # q
          BY <4>1, <2>2, SessionAssumption DEF LiveSessionHoldsLock
        <4> QED BY <3>2, <4>2, <2>2 DEF TypeOK
      <3> QED BY <3>1, <3>2
    <2>4. StopsOnlyOver'
      <3>1. ~Terminal(s)
        BY <1>2 DEF NoneIsFresh, CreateSession, Terminal
      <3> QED BY <1>2, <2>1, <3>1 DEF StopsOnlyOver, Terminal, CreateSession
    <2>5. NoneIsFresh'
      BY <1>2, <2>1 DEF NoneIsFresh, CreateSession, TypeOK
    <2> QED BY <2>3, <2>4, <2>5
  <1>3. ASSUME NEW s \in Session, InitReady(s) \/ InitBackoff(s) \/ InitResend(s) PROVE Goal
    <2>1. UNCHANGED <<status, lock, qkdlOf, expired, stops>>
      BY <1>3 DEF InitReady, InitBackoff, InitResend, records
    <2>2. \A t \in Session : create'[t] = "none" => create[t] = "none"
      BY <1>3 DEF InitReady, InitBackoff, InitResend, TypeOK
    <2> QED BY <2>1, <2>2 DEF LiveSessionHoldsLock, InProgress, StopsOnlyOver, Terminal,
                              NoneIsFresh
  <1>4. ASSUME NEW s \in Session, InitRefused(s) \/ InitGiveUp(s) PROVE Goal
    BY <1>4, FailKeepsPool DEF InitRefused, InitGiveUp
  <1>5. ASSUME NEW s \in Session, Join(s) PROVE Goal
    <2>1. status'[s] = "sending" /\ \A t \in Session \ {s} : status'[t] = status[t]
      BY <1>5, SaveStatusMoves DEF Join, Status
    <2>2. status[s] = "initializing"
      BY <1>5 DEF Join, MayJoin
    <2>3. LiveSessionHoldsLock'
      BY <1>5, <2>1, <2>2, HoldsLockFrame DEF InProgress, Join
    <2>4. StopsOnlyOver'
      BY <1>5, <2>1, <2>2 DEF StopsOnlyOver, Terminal, Join, tasks
    <2>5. NoneIsFresh'
      BY <1>5, <2>1, <2>2 DEF NoneIsFresh, Join, tasks
    <2> QED BY <2>3, <2>4, <2>5
  <1>6. ASSUME NEW s \in Session, PublishSuccess(s) \/ PublishAborted(s) \/ Cancel(s) PROVE Goal
    BY <1>6, EndKeepsPool DEF PublishSuccess, PublishAborted, Cancel, MayPublish
  <1>7. ASSUME NEW s \in Session, Consume(s) \/ ConsumeExpired(s) \/ KeyLapses(s) PROVE Goal
    BY <1>7 DEF Consume, ConsumeExpired, KeyLapses, tasks, LiveSessionHoldsLock, InProgress,
                StopsOnlyOver, Terminal, NoneIsFresh
  <1>8. ASSUME NEW s \in Session, StopDone(s) PROVE Goal
    <2>1. Terminal(s) /\ UNCHANGED <<status, qkdlOf, expired, create>>
      BY <1>8 DEF StopDone, records, StopsOnlyOver
    <2>2. LiveSessionHoldsLock'
      BY <1>8, <2>1, HoldsLockRelease DEF StopDone, InProgress, Terminal
    <2>3. StopsOnlyOver'
      <3>1. \A t \in Session \ {s} : stops'[t] = stops[t]
        BY <1>8 DEF StopDone, TypeOK
      <3> QED BY <2>1, <3>1 DEF StopsOnlyOver, Terminal
    <2>4. \A q \in Qkdl, t \in Session : lock'[q] = t => lock[q] = t
      BY <1>8, SessionAssumption DEF StopDone, Released, TypeOK
    <2>5. NoneIsFresh'
      BY <2>1, <2>4 DEF NoneIsFresh
    <2> QED BY <2>2, <2>3, <2>5
  <1>9. ASSUME NEW s \in Session, RecordExpires(s) PROVE Goal
    <2>1. status'[s] = "gone" /\ \A t \in Session \ {s} : status'[t] = status[t]
      BY <1>9 DEF RecordExpires, TypeOK
    <2>2. LiveSessionHoldsLock'
      BY <1>9, <2>1, HoldsLockFrame DEF InProgress, RecordExpires
    <2>3. StopsOnlyOver'
      BY <1>9, <2>1 DEF StopsOnlyOver, Terminal, RecordExpires, tasks, TypeOK
    <2>4. NoneIsFresh'
      BY <1>9, <2>1 DEF NoneIsFresh, RecordExpires, tasks, Exists, InProgress, Terminal
    <2> QED BY <2>2, <2>3, <2>4
  <1>10. ASSUME NEW q \in Qkdl, LockExpires(q) PROVE Goal
    <2>1. LiveSessionHoldsLock'
      <3> SUFFICES ASSUME NEW t \in Session, InProgress(t)', t \notin expired'
                   PROVE  lock'[qkdlOf'[t]] = t
        BY DEF LiveSessionHoldsLock
      <3>1. t # lock[q] /\ lock[qkdlOf[t]] = t
        BY <1>10 DEF LockExpires, LiveSessionHoldsLock, InProgress, records
      <3> QED BY <1>10, <3>1 DEF LockExpires, TypeOK, records
    <2>2. StopsOnlyOver'
      BY <1>10 DEF LockExpires, records, tasks, StopsOnlyOver, Terminal
    <2>3. \A r \in Qkdl, t \in Session : lock'[r] = t => lock[r] = t
      BY <1>10, SessionAssumption DEF LockExpires, TypeOK
    <2>4. NoneIsFresh'
      BY <1>10, <2>3 DEF NoneIsFresh, LockExpires, records, tasks
    <2> QED BY <2>1, <2>2, <2>4
  <1>11. CASE Restart
    BY <1>11 DEF Restart, records, LiveSessionHoldsLock, InProgress, StopsOnlyOver,
                 NoneIsFresh, TypeOK
  <1>12. CASE UNCHANGED vars
    BY <1>12 DEF vars, records, tasks, LiveSessionHoldsLock, InProgress, StopsOnlyOver,
                 Terminal, NoneIsFresh
  <1> QED BY <1>1, <1>2, <1>3, <1>4, <1>5, <1>6, <1>7, <1>8, <1>9, <1>10, <1>11, <1>12
          DEF Next, CreateRequest, InitStep, Request

\* The empty pool satisfies the inductive invariant.
LEMMA PoolBegins == Init => PoolInv
  BY SessionAssumption, PoolAssumption, BoundsAssumption
     DEF Init, PoolInv, TypeOK, Status, KeyStatus, Progress, Qkdl, NoQkdl,
         LiveSessionHoldsLock, InProgress, StopsOnlyOver, NoneIsFresh, AskingHasRecord

\* Every reachable state of the KME satisfies the inductive invariant of the
\* pool: live sessions hold their lock, a teardown is pending only for a session
\* that is over, and the record exists while _init_qkdl works on it.
THEOREM PoolInvariant == Spec => []PoolInv
  BY PoolBegins, PoolStep, PTL DEF Spec

\* A session in progress holds the lock of its QKDL until the lock runs out,
\* through cancellations, retries, late teardowns and restarts of the KME.
THEOREM LiveHolds == Spec => []LiveSessionHoldsLock
  <1>1. PoolInv => LiveSessionHoldsLock
    BY DEF PoolInv
  <1> QED BY <1>1, PoolInvariant, PTL

\* Two sessions whose claims are in force never share a QKDL.
THEOREM Exclusive == Spec => []QkdlExclusive
  <1>1. PoolInv => QkdlExclusive
    BY DEF PoolInv, LiveSessionHoldsLock, QkdlExclusive
  <1> QED BY <1>1, PoolInvariant, PTL

-----------------------------------------------------------------------------
(* The KME implements QkdlLease. *)

\* A step that changes no claim and begins no session is a stuttering step.
LEMMA LeaseStutter ==
    ASSUME UNCHANGED qkdlOf,
           \A t \in Session : Claims(t)' <=> Claims(t),
           \A t \in Session : status'[t] = "absent" <=> status[t] = "absent"
    PROVE  UNCHANGED Lease!vars
  <1>1. \A q \in Qkdl : Users(q)' = Users(q)
    BY DEF Users
  <1> QED BY <1>1 DEF Lease!vars

\* A step that ends the claim of one session alone ends the lease of its QKDL,
\* because nobody else uses it, or is a stuttering step when there was no claim.
LEMMA LeaseEnd ==
    ASSUME PoolInv, NEW s \in Session, UNCHANGED qkdlOf, ~Claims(s)',
           \A t \in Session \ {s} : Claims(t)' <=> Claims(t),
           \A t \in Session : status'[t] = "absent" <=> status[t] = "absent"
    PROVE  [Lease!Next]_Lease!vars
  <1>1. CASE ~Claims(s)
    <2>1. \A t \in Session : Claims(t)' <=> Claims(t)
      BY <1>1
    <2> QED BY <2>1, LeaseStutter
  <1>2. CASE Claims(s) /\ qkdlOf[s] \in Qkdl
    <2> DEFINE q == qkdlOf[s]
    <2>1. Users(q)' = {}
      <3>1. \A t \in Session \ {s} : Claims(t) => qkdlOf[t] # q
        BY <1>2 DEF PoolInv, LiveSessionHoldsLock
      <3> QED BY <3>1 DEF Users
    <2>2. \A r \in Qkdl \ {q} : Users(r)' = Users(r)
      BY DEF Users
    <2>3. [r \in Qkdl |-> Users(r)]' = [[r \in Qkdl |-> Users(r)] EXCEPT ![q] = {}]
      BY <1>2, <2>1, <2>2
    <2>4. {t \in Session : status'[t] # "absent"} = {t \in Session : status[t] # "absent"}
      OBVIOUS
    <2>5. Lease!End(q)
      BY <2>3, <2>4 DEF Lease!End
    <2> QED BY <1>2, <2>5 DEF Lease!Next
  <1>3. CASE Claims(s) /\ qkdlOf[s] \notin Qkdl
    <2>1. \A q \in Qkdl : Users(q)' = Users(q)
      BY <1>3 DEF Users
    <2> QED BY <2>1 DEF Lease!vars
  <1> QED BY <1>1, <1>2, <1>3

\* A creation begins the lease of a free QKDL for a session never served.
LEMMA LeaseBegin ==
    ASSUME PoolInv, NEW s \in Session, CreateSession(s)
    PROVE  [Lease!Next]_Lease!vars
  <1> USE DEF PoolInv
  <1>1. status'[s] = "initializing" /\ \A t \in Session \ {s} : status'[t] = status[t]
    BY SaveStatusMoves DEF CreateSession, Status
  <1>2. PICK q \in Qkdl : /\ lock[q] = NoSession
                          /\ qkdlOf' = [qkdlOf EXCEPT ![s] = q]
    BY DEF CreateSession, Pick, FreeQkdls
  <1>3. status[s] = "absent" /\ UNCHANGED expired
    BY DEF CreateSession, NoneIsFresh
  <1>4. Users(q) = {}
    BY <1>2, SessionAssumption DEF Users, LiveSessionHoldsLock
  <1>5. \A t \in Session \ {s} : (Claims(t)' <=> Claims(t)) /\ qkdlOf'[t] = qkdlOf[t]
    BY <1>1, <1>2, <1>3 DEF InProgress, TypeOK
  <1>6. Claims(s)' /\ ~Claims(s)
    BY <1>1, <1>3 DEF InProgress, CreateSession, NoneIsFresh
  <1>6a. qkdlOf'[s] = q
    BY <1>2 DEF TypeOK
  <1>7. Users(q)' = {s} /\ \A r \in Qkdl \ {q} : Users(r)' = Users(r)
    BY <1>4, <1>5, <1>6, <1>6a DEF Users
  <1>8. [r \in Qkdl |-> Users(r)]' = [[r \in Qkdl |-> Users(r)] EXCEPT ![q] = {s}]
    BY <1>7
  <1>9. {t \in Session : status'[t] # "absent"} = {t \in Session : status[t] # "absent"} \cup {s}
    BY <1>1
  <1>10. Lease!Begin(s, q)
    BY <1>3, <1>4, <1>8, <1>9 DEF Lease!Begin
  <1> QED BY <1>10 DEF Lease!Next

\* Every step of the KME is a step of the lease, or changes nothing of it.
LEMMA LeaseStep == PoolInv /\ [Next]_vars => [Lease!Next]_Lease!vars
  <1> SUFFICES ASSUME PoolInv, [Next]_vars PROVE [Lease!Next]_Lease!vars
    OBVIOUS
  <1> USE DEF PoolInv
  <1>1. CASE UNCHANGED <<status, qkdlOf, expired>>
    BY <1>1, LeaseStutter DEF InProgress
  <1>2. ASSUME NEW s \in Session, NEW st \in {"done", "aborted", "gone"}, Exists(s),
               status'[s] = st, \A t \in Session \ {s} : status'[t] = status[t],
               UNCHANGED <<qkdlOf, expired>>
        PROVE  [Lease!Next]_Lease!vars
    <2>1. ~Claims(s)' /\ \A t \in Session \ {s} : Claims(t)' <=> Claims(t)
      BY <1>2 DEF InProgress
    <2>2. \A t \in Session : status'[t] = "absent" <=> status[t] = "absent"
      BY <1>2 DEF Exists, InProgress, Terminal
    <2> QED BY <1>2, <2>1, <2>2, LeaseEnd
  <1>3. ASSUME NEW s \in Session, CreateRequest(s) PROVE [Lease!Next]_Lease!vars
    <2>1. CASE CreateBusy(s) \/ CreateUnknownNode(s)
      BY <2>1, <1>1 DEF CreateBusy, CreateUnknownNode, records
    <2> QED BY <1>3, <2>1, LeaseBegin DEF CreateRequest
  <1>4. ASSUME NEW s \in Session, InitStep(s) PROVE [Lease!Next]_Lease!vars
    <2>1. CASE InitReady(s) \/ InitBackoff(s) \/ InitResend(s)
      BY <2>1, <1>1 DEF InitReady, InitBackoff, InitResend, records
    <2>2. CASE InitRefused(s) \/ InitGiveUp(s)
      <3>1. FailInit(s) /\ Exists(s)
        BY <2>2 DEF InitRefused, InitGiveUp, AskingHasRecord
      <3>2. status'[s] = "aborted" /\ \A t \in Session \ {s} : status'[t] = status[t]
        BY <3>1, SaveStatusMoves DEF FailInit, Status
      <3> QED BY <3>1, <3>2, <1>2 DEF FailInit
    <2> QED BY <1>4, <2>1, <2>2 DEF InitStep
  <1>5. ASSUME NEW s \in Session, Request(s) PROVE [Lease!Next]_Lease!vars
    <2>1. CASE Join(s)
      <3>1. status'[s] = "sending" /\ \A t \in Session \ {s} : status'[t] = status[t]
        BY <2>1, SaveStatusMoves DEF Join, Status
      <3> QED BY <2>1, <3>1, LeaseStutter DEF Join, MayJoin, InProgress
    <2>2. CASE PublishSuccess(s)
      <3>1. status'[s] = "done" /\ \A t \in Session \ {s} : status'[t] = status[t]
        BY <2>2, SaveStatusMoves DEF PublishSuccess, Status
      <3> QED BY <2>2, <3>1, <1>2 DEF PublishSuccess, MayPublish
    <2>3. CASE PublishAborted(s) \/ Cancel(s)
      <3>1. status'[s] = "aborted" /\ \A t \in Session \ {s} : status'[t] = status[t]
        BY <2>3, SaveStatusMoves DEF PublishAborted, Cancel, Status
      <3> QED BY <2>3, <3>1, <1>2 DEF PublishAborted, Cancel, MayPublish
    <2>4. CASE Consume(s) \/ ConsumeExpired(s)
      BY <2>4, <1>1 DEF Consume, ConsumeExpired
    <2> QED BY <1>5, <2>1, <2>2, <2>3, <2>4 DEF Request
  <1>6. ASSUME NEW s \in Session, StopDone(s) \/ KeyLapses(s) PROVE [Lease!Next]_Lease!vars
    BY <1>6, <1>1 DEF StopDone, KeyLapses, records
  <1>7. ASSUME NEW s \in Session, RecordExpires(s) PROVE [Lease!Next]_Lease!vars
    <2>1. status'[s] = "gone" /\ \A t \in Session \ {s} : status'[t] = status[t]
      BY <1>7 DEF RecordExpires, TypeOK
    <2> QED BY <1>7, <2>1, <1>2 DEF RecordExpires
  <1>8. ASSUME NEW q \in Qkdl, LockExpires(q) PROVE [Lease!Next]_Lease!vars
    <2>1. lock[q] \in Session /\ expired' = expired \cup {lock[q]} /\ UNCHANGED <<status, qkdlOf>>
      BY <1>8 DEF LockExpires, LockOverdue, TypeOK, records
    <2>2. PICK h \in Session : h = lock[q]
      BY <2>1
    <2>3. ~Claims(h)' /\ \A t \in Session \ {h} : Claims(t)' <=> Claims(t)
      BY <2>1, <2>2 DEF InProgress
    <2>4. \A t \in Session : status'[t] = "absent" <=> status[t] = "absent"
      BY <2>1
    <2> HIDE DEF Claims, PoolInv
    <2> QED BY <2>1, <2>3, <2>4, LeaseEnd
  <1>9. CASE Restart
    BY <1>9, <1>1 DEF Restart, records
  <1>10. CASE UNCHANGED vars
    BY <1>10, <1>1 DEF vars, records
  <1> QED BY <1>3, <1>4, <1>5, <1>6, <1>7, <1>8, <1>9, <1>10 DEF Next

\* The KME keeps the pool's promise, for any pool and any number of sessions,
\* retries, teardowns and restarts.
THEOREM LeaseRefined == Spec => LeaseKept
  <1>1. Init => Lease!Init
    BY DEF Init, Lease!Init, Users, InProgress
  <1> QED BY <1>1, PoolInvariant, LeaseStep, PTL DEF Spec, LeaseKept, Lease!Spec

-----------------------------------------------------------------------------
(* The active set. *)

\* ActiveSetExact, one session at a time.
ActiveAgrees(s) == status[s] # "gone" => (s \in active <=> InProgress(s))

\* The two forms of the property agree on well-typed states.
LEMMA ActiveForm ==
    ASSUME TypeOK
    PROVE  ActiveSetExact <=> \A s \in Session : ActiveAgrees(s)
  <1>1. ActiveSetExact => \A s \in Session : ActiveAgrees(s)
    BY DEF ActiveSetExact, ActiveAgrees
  <1>2. (\A s \in Session : ActiveAgrees(s)) => ActiveSetExact
    BY DEF ActiveSetExact, ActiveAgrees, TypeOK, InProgress
  <1> QED BY <1>1, <1>2

\* save_session makes the set agree for its session and touches no other.
LEMMA SaveStatusAgrees ==
    ASSUME TypeOK, \A t \in Session : ActiveAgrees(t),
           NEW s \in Session, NEW st \in {"initializing", "sending", "done", "aborted"},
           SaveStatus(s, st)
    PROVE  \A t \in Session : ActiveAgrees(t)'
  <1>1. status'[s] = st /\ \A t \in Session \ {s} : status'[t] = status[t]
    BY SaveStatusMoves DEF Status
  <1>2. ActiveAgrees(s)'
    BY <1>1 DEF SaveStatus, ActiveAgrees, InProgress
  <1>3. ASSUME NEW t \in Session \ {s} PROVE ActiveAgrees(t)'
    BY <1>1 DEF SaveStatus, ActiveAgrees, InProgress
  <1> QED BY <1>2, <1>3

\* Every step of the KME keeps the set in agreement with every session.
LEMMA ActiveStep ==
    TypeOK /\ (\A t \in Session : ActiveAgrees(t)) /\ [Next]_vars
        => \A t \in Session : ActiveAgrees(t)'
  <1> SUFFICES ASSUME TypeOK, \A t \in Session : ActiveAgrees(t), [Next]_vars
               PROVE  \A t \in Session : ActiveAgrees(t)'
    OBVIOUS
  <1> DEFINE Goal == \A t \in Session : ActiveAgrees(t)'
  <1>1. CASE UNCHANGED <<status, active>>
    BY <1>1 DEF ActiveAgrees, InProgress
  <1>2. ASSUME NEW s \in Session, CreateRequest(s) PROVE Goal
    BY <1>2, <1>1, SaveStatusAgrees
       DEF CreateRequest, CreateBusy, CreateUnknownNode, CreateSession, records
  <1>3. ASSUME NEW s \in Session, InitStep(s) PROVE Goal
    BY <1>3, <1>1, SaveStatusAgrees
       DEF InitStep, InitReady, InitRefused, InitBackoff, InitResend, InitGiveUp, FailInit, records
  <1>4. ASSUME NEW s \in Session, Request(s) PROVE Goal
    BY <1>4, <1>1, SaveStatusAgrees
       DEF Request, Join, PublishSuccess, PublishAborted, Cancel, Consume, ConsumeExpired
  <1>5. ASSUME NEW s \in Session, StopDone(s) \/ KeyLapses(s) PROVE Goal
    BY <1>5, <1>1 DEF StopDone, KeyLapses, records
  <1>6. ASSUME NEW s \in Session, RecordExpires(s) PROVE Goal
    <2>1. /\ status'[s] = "gone" /\ UNCHANGED active
          /\ \A t \in Session \ {s} : status'[t] = status[t]
      BY <1>6 DEF RecordExpires, TypeOK
    <2> QED BY <2>1 DEF ActiveAgrees, InProgress
  <1>7. ASSUME NEW q \in Qkdl, LockExpires(q) PROVE Goal
    BY <1>7, <1>1 DEF LockExpires, records
  <1>8. CASE Restart \/ UNCHANGED vars
    BY <1>8, <1>1 DEF Restart, vars, records
  <1> QED BY <1>2, <1>3, <1>4, <1>5, <1>6, <1>7, <1>8 DEF Next

\* kme:sessions:active never misses a session in progress, and lists beside them
\* nothing but ids whose record has vanished.
THEOREM ActiveExact == Spec => []ActiveSetExact
  <1> DEFINE Inv == TypeOK /\ \A t \in Session : ActiveAgrees(t)
  <1>1. Init => Inv
    BY PoolBegins DEF Init, PoolInv, ActiveAgrees, InProgress
  <1>2. Inv /\ [Next]_vars => Inv'
    BY TypeStep, ActiveStep
  <1>3. Inv => ActiveSetExact
    BY ActiveForm
  <1> QED BY <1>1, <1>2, <1>3, PTL DEF Spec

-----------------------------------------------------------------------------
(* The streams. *)

Name(s, i) == events[s][i].name
Verdicts   == {"key_available", "session_aborted"}

\* What _emit does to the streams.
LEMMA EmitAppends ==
    ASSUME TypeOK, NEW s \in Session,
           NEW name \in {"session_open", "receiver_joined", "key_available", "session_aborted"},
           NEW role \in {"receiver", "monitor", "sender", "broadcast"},
           Emit(s, name, role)
    PROVE  /\ Len(events[s]) \in Nat /\ DOMAIN events[s] = 1 .. Len(events[s])
           /\ DOMAIN events'[s] = 1 .. Len(events[s]) + 1
           /\ \A i \in 1 .. Len(events[s]) : events'[s][i] = events[s][i]
           /\ events'[s][Len(events[s]) + 1].name = name
           /\ \A t \in Session \ {s} : events'[t] = events[t]
  <1> DEFINE e == [name |-> name, role |-> role]
  <1>1. e \in Event /\ events[s] \in Seq(Event)
    BY DEF Event, TypeOK
  <1>2. events'[s] = Append(events[s], e) /\ \A t \in Session \ {s} : events'[t] = events[t]
    BY DEF Emit, TypeOK
  <1>3. /\ Append(events[s], e) \in Seq(Event)
        /\ Len(Append(events[s], e)) = Len(events[s]) + 1
        /\ \A i \in 1 .. Len(events[s]) : Append(events[s], e)[i] = events[s][i]
        /\ Append(events[s], e)[Len(events[s]) + 1] = e
    BY <1>1, AppendProperties
  <1> QED BY <1>1, <1>2, <1>3, LenProperties


\* StreamTellsStatus, one session at a time: the order of the stream, and where
\* the record stands.
Ordered(s) ==
    \A i, j \in DOMAIN events[s] : i < j =>
        /\ Name(s, 1) = "session_open"
        /\ Name(s, j) = "receiver_joined" => Name(s, i) = "session_open"
        /\ Name(s, i) \in Verdicts => Name(s, j) \in Verdicts

EndsWith(s, name) == events[s] # <<>> /\ Name(s, Len(events[s])) = name

Told(s) ==
    /\ status[s] = "sending" => EndsWith(s, "receiver_joined")
    /\ status[s] = "done" => EndsWith(s, "key_available")

\* What is emitted is the last event of its stream.
LEMMA EmitEnds ==
    ASSUME TypeOK, NEW s \in Session,
           NEW name \in {"session_open", "receiver_joined", "key_available", "session_aborted"},
           NEW role \in {"receiver", "monitor", "sender", "broadcast"},
           Emit(s, name, role)
    PROVE  EndsWith(s, name)'
  <1> DEFINE e == [name |-> name, role |-> role]
  <1>1. e \in Event /\ events[s] \in Seq(Event) /\ events'[s] = Append(events[s], e)
    BY DEF Event, TypeOK, Emit
  <1>2. /\ Len(Append(events[s], e)) = Len(events[s]) + 1 /\ Len(events[s]) \in Nat
        /\ Append(events[s], e)[Len(events[s]) + 1] = e
        /\ Append(events[s], e) \in Seq(Event)
    BY <1>1, AppendProperties, LenProperties
  <1>3. Append(events[s], e) # <<>>
    BY <1>2
  <1> QED BY <1>1, <1>2, <1>3 DEF EndsWith, Name

(***************************************************************************)
(* StreamTellsStatus is not inductive alone.  That session_open comes      *)
(* first needs an empty stream until the network is up; that               *)
(* receiver_joined comes once, that a session which was joined is never    *)
(* again INITIALIZING; and that no join follows a verdict, that a verdict  *)
(* comes only after a join.                                                *)
(***************************************************************************)
StreamInv(s) ==
    /\ events[s] # <<>> => create[s] = "opened" /\ Name(s, 1) = "session_open"
    /\ Emitted(s, "receiver_joined") => status[s] \notin {"absent", "initializing"}
    /\ \A v \in Verdicts : Emitted(s, v) => Emitted(s, "receiver_joined")
    /\ Ordered(s) /\ Told(s)

OpenedStays(s) == create[s] = "opened" => create'[s] = "opened"

\* Without an event the record neither returns to INITIALIZING nor becomes
\* SENDING or DONE.
NeverBack(s) ==
    /\ status[s] \notin {"absent", "initializing"} => status'[s] \notin {"absent", "initializing"}
    /\ status'[s] \in {"sending", "done"} => status[s] = status'[s]

\* A stream that nobody writes to keeps its order.
LEMMA StreamFrame ==
    ASSUME NEW s \in Session, StreamInv(s), events'[s] = events[s], OpenedStays(s), NeverBack(s)
    PROVE  StreamInv(s)'
  BY DEF StreamInv, Ordered, Told, EndsWith, Name, Emitted, OpenedStays, NeverBack

\* Announcing the network starts the stream: session_open and nothing else.
LEMMA OpenStream ==
    ASSUME TypeOK, NEW s \in Session, StreamInv(s), InitReady(s)
    PROVE  StreamInv(s)' /\ \A i \in DOMAIN events'[s] : Name(s, i)' = "session_open"
  <1> DEFINE r == [name |-> "session_open", role |-> "receiver"]
             m == [name |-> "session_open", role |-> "monitor"]
  <1>1. events[s] = <<>>
    BY DEF StreamInv, InitReady
  <1>2. events'[s] = <<r, m>> \/ events'[s] = <<r>>
    <2>1. events'[s] = <<>> \o <<r, m>> \/ events'[s] = <<>> \o <<r>>
      BY <1>1 DEF InitReady, TypeOK
    <2>2. <<r, m>> \in Seq({r, m}) /\ <<r>> \in Seq({r, m})
      OBVIOUS
    <2> QED BY <2>1, <2>2, ConcatEmptySeq
  <1>3. create'[s] = "opened"
    BY DEF InitReady, TypeOK
  <1>4. \A i \in DOMAIN events'[s] : events'[s][i].name = "session_open"
    BY <1>2
  <1>5. DOMAIN events'[s] \in {1 .. 1, 1 .. 2}
    BY <1>2
  <1>6. Told(s)'
    BY <1>1 DEF StreamInv, Told, EndsWith, InitReady, records
  <1> QED BY <1>3, <1>4, <1>5, <1>6 DEF StreamInv, Ordered, Name, Emitted, Verdicts

\* receiver_joined follows nothing but session_open: the session is still
\* INITIALIZING, so nobody has joined and no verdict has come.
LEMMA JoinStream ==
    ASSUME TypeOK, NEW s \in Session, StreamInv(s), Join(s)
    PROVE  StreamInv(s)'
  <1> DEFINE n == Len(events[s])
  <1>1. /\ n \in Nat /\ DOMAIN events[s] = 1 .. n /\ DOMAIN events'[s] = 1 .. n + 1
        /\ \A i \in 1 .. n : events'[s][i] = events[s][i]
        /\ events'[s][n + 1].name = "receiver_joined"
    BY EmitAppends DEF Join
  <1>2. status'[s] = "sending" /\ status[s] = "initializing" /\ create' = create
    BY SaveStatusMoves DEF Join, MayJoin, Status, tasks
  <1>3. \A i \in 1 .. n : Name(s, i) = "session_open"
    <2>1. ~Emitted(s, "receiver_joined") /\ \A v \in Verdicts : ~Emitted(s, v)
      BY <1>2 DEF StreamInv
    <2>2. \A i \in 1 .. n : events[s][i] \in Event
      BY ElementOfSeq DEF TypeOK
    <2> QED BY <1>1, <2>1, <2>2 DEF Emitted, Verdicts, Name, Event
  <1>4. n # 0 /\ events[s] # <<>>
    BY <1>1 DEF Join, Emitted
  <1>5. EndsWith(s, "receiver_joined")'
    BY <1>1, EmitEnds DEF Join
  <1> HIDE DEF n
  <1>6. Emitted(s, "receiver_joined")'
    BY <1>1 DEF Emitted
  <1>7. Ordered(s)'
    BY <1>1, <1>3, <1>4 DEF Ordered, Name, Verdicts
  <1>8. events'[s] # <<>> => create'[s] = "opened" /\ Name(s, 1)' = "session_open"
    <2>1. Name(s, 1)' = "session_open"
      <3>1. 1 \in 1 .. n
        BY <1>1, <1>4
      <3> QED BY <3>1, <1>1, <1>3 DEF Name
    <2>2. create'[s] = "opened"
      BY <1>2, <1>4 DEF StreamInv
    <2> QED BY <2>1, <2>2
  <1>9. Told(s)'
    BY <1>2, <1>5 DEF Told
  <1> QED BY <1>2, <1>6, <1>7, <1>8, <1>9 DEF StreamInv

\* A verdict follows a join, and every verdict may follow a verdict.
LEMMA VerdictStream ==
    ASSUME TypeOK, NEW s \in Session, StreamInv(s), NEW v \in Verdicts,
           MayPublish(s), Emit(s, v, "broadcast"), create' = create,
           status'[s] = IF v = "key_available" THEN "done" ELSE "aborted"
    PROVE  StreamInv(s)'
  <1> DEFINE n == Len(events[s])
  <1>1. /\ n \in Nat /\ DOMAIN events[s] = 1 .. n /\ DOMAIN events'[s] = 1 .. n + 1
        /\ \A i \in 1 .. n : events'[s][i] = events[s][i]
        /\ events'[s][n + 1].name = v
    BY EmitAppends DEF Verdicts
  <1>2. Emitted(s, "receiver_joined")
    BY DEF MayPublish
  <1>3. n # 0 /\ events[s] # <<>>
    BY <1>1, <1>2 DEF Emitted
  <1>4. Told(s)'
    BY EmitEnds DEF Told, Verdicts
  <1> HIDE DEF n
  <1>5. Emitted(s, "receiver_joined")'
    BY <1>1, <1>2 DEF Emitted
  <1>6. Ordered(s)'
    <2> SUFFICES ASSUME NEW i \in 1 .. n + 1, NEW j \in 1 .. n + 1, i < j
                 PROVE  /\ Name(s, 1)' = "session_open"
                        /\ Name(s, j)' = "receiver_joined" => Name(s, i)' = "session_open"
                        /\ Name(s, i)' \in Verdicts => Name(s, j)' \in Verdicts
      BY <1>1 DEF Ordered
    <2>1. Name(s, 1)' = "session_open"
      BY <1>1, <1>3 DEF StreamInv, Name
    <2>2. CASE j \in 1 .. n
      <3>1. /\ i \in DOMAIN events[s] /\ j \in DOMAIN events[s]
            /\ Name(s, i)' = Name(s, i) /\ Name(s, j)' = Name(s, j)
        BY <1>1, <2>2 DEF Name
      <3>2. /\ Name(s, j) = "receiver_joined" => Name(s, i) = "session_open"
            /\ Name(s, i) \in Verdicts => Name(s, j) \in Verdicts
        BY <3>1 DEF StreamInv, Ordered
      <3> QED BY <2>1, <3>1, <3>2
    <2>3. CASE j = n + 1
      <3>1. i \in 1 .. n /\ Name(s, j)' = v /\ v # "receiver_joined"
        BY <1>1, <2>3 DEF Name, Verdicts
      <3> QED BY <2>1, <3>1
    <2> QED BY <1>1, <2>2, <2>3
  <1>7. events'[s] # <<>> => create'[s] = "opened" /\ Name(s, 1)' = "session_open"
    BY <1>1, <1>3 DEF StreamInv, Name
  <1> QED BY <1>5, <1>6, <1>7, <1>4 DEF StreamInv

\* Every step keeps every stream in order.
LEMMA StreamStep ==
    PoolInv /\ (\A t \in Session : StreamInv(t)) /\ [Next]_vars => \A t \in Session : StreamInv(t)'
  <1> SUFFICES ASSUME PoolInv, \A t \in Session : StreamInv(t), [Next]_vars
               PROVE  \A t \in Session : StreamInv(t)'
    OBVIOUS
  <1> DEFINE Goal == \A t \in Session : StreamInv(t)'
             Calm(t) == events'[t] = events[t] /\ OpenedStays(t) /\ NeverBack(t)
  <1>1. TypeOK
    BY DEF PoolInv
  <1>2. ASSUME NEW s \in Session, StreamInv(s)', \A t \in Session \ {s} : Calm(t) PROVE Goal
    BY <1>2, StreamFrame
  <1>3. ASSUME \A t \in Session : Calm(t) PROVE Goal
    BY <1>3, StreamFrame
  <1>4. CASE UNCHANGED <<status, create, events>>
    BY <1>4, <1>3 DEF OpenedStays, NeverBack
  <1>5. ASSUME NEW s \in Session, CreateBusy(s) \/ CreateUnknownNode(s) PROVE Goal
    BY <1>5, <1>1, <1>3 DEF CreateBusy, CreateUnknownNode, records, OpenedStays, NeverBack, TypeOK
  <1>6. ASSUME NEW s \in Session, CreateSession(s) PROVE Goal
    <2>1. /\ status[s] = "absent" /\ status'[s] = "initializing"
          /\ \A t \in Session \ {s} : status'[t] = status[t]
      BY <1>6, <1>1, SaveStatusMoves DEF CreateSession, Status, PoolInv, NoneIsFresh
    <2>2. /\ create[s] = "none" /\ create'[s] = "asking" /\ UNCHANGED events
          /\ \A t \in Session \ {s} : create'[t] = create[t]
      BY <1>6, <1>1 DEF CreateSession, TypeOK
    <2> QED BY <2>1, <2>2, <1>3 DEF OpenedStays, NeverBack
  <1>7. ASSUME NEW s \in Session, InitReady(s) PROVE Goal
    <2>1. StreamInv(s)'
      BY <1>7, <1>1, OpenStream
    <2>2. \A t \in Session \ {s} : Calm(t)
      BY <1>7, <1>1 DEF InitReady, TypeOK, records, OpenedStays, NeverBack
    <2> QED BY <2>1, <2>2, <1>2
  <1>8. ASSUME NEW s \in Session, InitRefused(s) \/ InitGiveUp(s) PROVE Goal
    <2>1. status'[s] = "aborted" /\ \A t \in Session \ {s} : status'[t] = status[t]
      BY <1>8, <1>1, SaveStatusMoves DEF InitRefused, InitGiveUp, FailInit, Status
    <2>2. /\ create[s] \in {"asking", "backoff"} /\ UNCHANGED events
          /\ \A t \in Session \ {s} : create'[t] = create[t]
      BY <1>8, <1>1 DEF InitRefused, InitGiveUp, FailInit, TypeOK
    <2> QED BY <2>1, <2>2, <1>3 DEF OpenedStays, NeverBack
  <1>9. ASSUME NEW s \in Session, InitBackoff(s) \/ InitResend(s) PROVE Goal
    BY <1>9, <1>1, <1>3 DEF InitBackoff, InitResend, records, OpenedStays, NeverBack, TypeOK
  <1>10. ASSUME NEW s \in Session, Join(s) PROVE Goal
    <2>1. StreamInv(s)'
      BY <1>10, <1>1, JoinStream
    <2>2. \A t \in Session \ {s} : status'[t] = status[t] /\ events'[t] = events[t]
      BY <1>10, <1>1, SaveStatusMoves, EmitAppends DEF Join, Status
    <2> QED BY <1>10, <2>1, <2>2, <1>2 DEF Join, tasks, OpenedStays, NeverBack
  <1>11. ASSUME NEW s \in Session, NEW v \in Verdicts,
                MayPublish(s), Emit(s, v, "broadcast"), create' = create,
                SaveStatus(s, IF v = "key_available" THEN "done" ELSE "aborted")
         PROVE  Goal
    <2>1. /\ status'[s] = IF v = "key_available" THEN "done" ELSE "aborted"
          /\ \A t \in Session \ {s} : status'[t] = status[t]
      BY <1>11, <1>1, SaveStatusMoves DEF Status
    <2>2. StreamInv(s)'
      BY <1>11, <1>1, <2>1, VerdictStream
    <2>3. \A t \in Session \ {s} : events'[t] = events[t]
      BY <1>11, <1>1, EmitAppends DEF Verdicts
    <2> QED BY <1>11, <2>1, <2>2, <2>3, <1>2 DEF OpenedStays, NeverBack
  <1>12. ASSUME NEW s \in Session, PublishSuccess(s) PROVE Goal
    BY <1>12, <1>11 DEF PublishSuccess, Verdicts
  <1>13. ASSUME NEW s \in Session, PublishAborted(s) PROVE Goal
    BY <1>13, <1>11 DEF PublishAborted, Verdicts
  <1>14. ASSUME NEW s \in Session, Cancel(s) PROVE Goal
    <2>1. status'[s] = "aborted" /\ \A t \in Session \ {s} : status'[t] = status[t]
      BY <1>14, <1>1, SaveStatusMoves DEF Cancel, Status
    <2> QED BY <1>14, <2>1, <1>3 DEF Cancel, OpenedStays, NeverBack
  <1>15. ASSUME NEW s \in Session,
                Consume(s) \/ ConsumeExpired(s) \/ StopDone(s) \/ KeyLapses(s)
         PROVE  Goal
    BY <1>15, <1>4 DEF Consume, ConsumeExpired, StopDone, KeyLapses, records, tasks
  <1>16. ASSUME NEW s \in Session, RecordExpires(s) PROVE Goal
    BY <1>16, <1>1, <1>3 DEF RecordExpires, TypeOK, tasks, OpenedStays, NeverBack
  <1>17. ASSUME NEW q \in Qkdl, LockExpires(q) PROVE Goal
    BY <1>17, <1>4 DEF LockExpires, records, tasks
  <1>18. CASE Restart
    BY <1>18, <1>1, <1>3 DEF Restart, records, TypeOK, OpenedStays, NeverBack
  <1>19. CASE UNCHANGED vars
    BY <1>19, <1>4 DEF vars, records, tasks
  <1> QED BY <1>5, <1>6, <1>7, <1>8, <1>9, <1>10, <1>12, <1>13, <1>14, <1>15, <1>16, <1>17,
             <1>18, <1>19
          DEF Next, CreateRequest, InitStep, Request

\* Every stream is in order and agrees with its record, whatever verdicts,
\* cancellations and retries come in whatever order.
THEOREM StreamsTellStatus == Spec => []StreamTellsStatus
  <1> DEFINE Inv == PoolInv /\ \A t \in Session : StreamInv(t)
  <1>1. Init => Inv
    BY PoolBegins DEF Init, StreamInv, Ordered, Told, Emitted
  <1>2. Inv /\ [Next]_vars => Inv'
    BY PoolStep, StreamStep
  <1>3. Inv => StreamTellsStatus
    <2> SUFFICES ASSUME Inv, NEW s \in Session
                 PROVE  /\ Ordered(s) /\ Told(s)
                        /\ status[s] = "initializing" =>
                             \A i \in DOMAIN events[s] : Name(s, i) = "session_open"
      BY DEF StreamTellsStatus, Ordered, Told, EndsWith, Name, Verdicts
    <2>1. \A i \in DOMAIN events[s] : events[s][i] \in Event
      BY ElementOfSeq, LenProperties DEF PoolInv, TypeOK
    <2> QED BY <2>1 DEF StreamInv, Emitted, Verdicts, Name, Event
  <1> QED BY <1>1, <1>2, <1>3, PTL DEF Spec

-----------------------------------------------------------------------------
(* The hand-outs of keys. *)

Entries(s) == {i \in DOMAIN events[s] : events[s][i].name = "key_available"}

\* HandOutsPaid, one session at a time.
Paid(s) ==
    /\ handed[s] <= Activations(s)
    /\ keyStatus[s] = "active" => handed[s] < Activations(s)

\* A stream has finitely many entries.
LEMMA EntriesFinite ==
    ASSUME TypeOK, NEW s \in Session
    PROVE  IsFiniteSet(Entries(s)) /\ Activations(s) \in Nat /\ Activations(s) = Cardinality(Entries(s))
  <1>1. DOMAIN events[s] = 1 .. Len(events[s]) /\ Len(events[s]) \in Nat
    BY LenProperties DEF TypeOK
  <1>2. IsFiniteSet(DOMAIN events[s])
    BY <1>1, FS_Interval
  <1>3. IsFiniteSet(Entries(s))
    BY <1>2, FS_Subset DEF Entries
  <1> QED BY <1>3, FS_CardinalityType DEF Entries, Activations

\* A step that neither activates nor hands out leaves the account as it is.
LEMMA PaidFrame ==
    ASSUME TypeOK, NEW s \in Session, Paid(s), handed'[s] = handed[s], Entries(s)' = Entries(s),
           keyStatus'[s] = "active" => keyStatus[s] = "active"
    PROVE  Paid(s)'
  <1>1. Activations(s)' = Activations(s)
    BY DEF Activations, Entries
  <1> QED BY <1>1 DEF Paid

\* An event adds to the activations of its own stream only, and only when it
\* announces a key.
LEMMA EmitEntries ==
    ASSUME TypeOK, NEW s \in Session,
           NEW name \in {"session_open", "receiver_joined", "key_available", "session_aborted"},
           NEW role \in {"receiver", "monitor", "sender", "broadcast"},
           Emit(s, name, role)
    PROVE  /\ name # "key_available" => Entries(s)' = Entries(s)
           /\ name = "key_available" => Activations(s)' = Activations(s) + 1
           /\ \A t \in Session \ {s} : Entries(t)' = Entries(t)
  <1> DEFINE n == Len(events[s])
  <1>1. /\ n \in Nat /\ DOMAIN events[s] = 1 .. n /\ DOMAIN events'[s] = 1 .. n + 1
        /\ \A i \in 1 .. n : events'[s][i] = events[s][i]
        /\ events'[s][n + 1].name = name
        /\ \A t \in Session \ {s} : events'[t] = events[t]
    BY EmitAppends
  <1> HIDE DEF n
  <1>2. name # "key_available" => Entries(s)' = Entries(s)
    BY <1>1 DEF Entries
  <1>3. ASSUME name = "key_available" PROVE Activations(s)' = Activations(s) + 1
    <2>1. Entries(s)' = Entries(s) \cup {n + 1} /\ n + 1 \notin Entries(s)
      BY <1>1, <1>3 DEF Entries
    <2>2. Cardinality(Entries(s) \cup {n + 1}) = Cardinality(Entries(s)) + 1
      BY <2>1, EntriesFinite, FS_AddElement
    <2>3. Activations(s)' = Cardinality(Entries(s)')
      BY DEF Activations, Entries
    <2> QED BY <2>1, <2>2, <2>3, EntriesFinite
  <1>4. \A t \in Session \ {s} : Entries(t)' = Entries(t)
    BY <1>1 DEF Entries
  <1> QED BY <1>2, <1>3, <1>4

\* Every step keeps the accounts.
LEMMA PaidStep ==
    ASSUME TypeOK, \A t \in Session : StreamInv(t) /\ Paid(t), [Next]_vars
    PROVE  \A t \in Session : Paid(t)'
  <1> DEFINE Goal == \A t \in Session : Paid(t)'
             Calm(t) == /\ handed'[t] = handed[t] /\ Entries(t)' = Entries(t)
                        /\ keyStatus'[t] = "active" => keyStatus[t] = "active"
  <1>1. ASSUME NEW s \in Session, Paid(s)', \A t \in Session \ {s} : Calm(t) PROVE Goal
    BY <1>1, PaidFrame
  <1>2. ASSUME \A t \in Session : Calm(t) PROVE Goal
    BY <1>2, PaidFrame
  <1>3. CASE UNCHANGED <<handed, events, keyStatus>>
    BY <1>3, <1>2 DEF Entries
  <1>4. ASSUME NEW s \in Session, CreateRequest(s) PROVE Goal
    BY <1>4, <1>3 DEF CreateRequest, CreateBusy, CreateUnknownNode, CreateSession, records
  <1>5. ASSUME NEW s \in Session, InitReady(s) PROVE Goal
    <2>1. Entries(s) = {} /\ Entries(s)' = {}
      <3>1. events[s] = <<>> /\ \A i \in DOMAIN events'[s] : Name(s, i)' = "session_open"
        BY <1>5, OpenStream DEF StreamInv, InitReady
      <3> QED BY <3>1 DEF Entries, Name
    <2>2. \A t \in Session \ {s} : Entries(t)' = Entries(t)
      BY <1>5 DEF InitReady, Entries, TypeOK
    <2> QED BY <1>5, <2>1, <2>2, <1>2 DEF InitReady, records
  <1>6. ASSUME NEW s \in Session, InitRefused(s) \/ InitBackoff(s) \/ InitResend(s) \/ InitGiveUp(s)
        PROVE  Goal
    BY <1>6, <1>3 DEF InitRefused, InitBackoff, InitResend, InitGiveUp, FailInit, records
  <1>7. ASSUME NEW s \in Session, Join(s) PROVE Goal
    <2>1. \A t \in Session : Entries(t)' = Entries(t)
      BY <1>7, EmitEntries DEF Join
    <2> QED BY <1>7, <2>1, <1>2 DEF Join
  <1>8. ASSUME NEW s \in Session, PublishSuccess(s) PROVE Goal
    <2>1. /\ Activations(s)' = Activations(s) + 1
          /\ \A t \in Session \ {s} : Entries(t)' = Entries(t)
      BY <1>8, EmitEntries DEF PublishSuccess
    <2>2. Paid(s)'
      BY <1>8, <2>1, EntriesFinite DEF PublishSuccess, Paid, TypeOK
    <2> QED BY <1>8, <2>1, <2>2, <1>1 DEF PublishSuccess, TypeOK
  <1>9. ASSUME NEW s \in Session, PublishAborted(s) PROVE Goal
    <2>1. \A t \in Session : Entries(t)' = Entries(t)
      BY <1>9, EmitEntries DEF PublishAborted
    <2> QED BY <1>9, <2>1, <1>2 DEF PublishAborted
  <1>10. ASSUME NEW s \in Session, Cancel(s) \/ StopDone(s) \/ RecordExpires(s) \/ KeyLapses(s)
         PROVE  Goal
    BY <1>10, <1>3 DEF Cancel, StopDone, RecordExpires, KeyLapses, records
  <1>11. ASSUME NEW s \in Session, Consume(s) PROVE Goal
    <2>1. /\ keyStatus[s] = "active" /\ keyStatus'[s] = "consumed" /\ handed'[s] = handed[s] + 1
          /\ UNCHANGED events
          /\ \A t \in Session \ {s} : keyStatus'[t] = keyStatus[t] /\ handed'[t] = handed[t]
      BY <1>11 DEF Consume, MayConsume, TypeOK
    <2>2. Activations(s)' = Activations(s) /\ \A t \in Session : Entries(t)' = Entries(t)
      BY <2>1 DEF Activations, Entries
    <2>3. Paid(s)'
      BY <2>1, <2>2, EntriesFinite DEF Paid, TypeOK
    <2> QED BY <2>1, <2>2, <2>3, <1>1
  <1>12. ASSUME NEW s \in Session, ConsumeExpired(s) PROVE Goal
    BY <1>12, <1>2 DEF ConsumeExpired, TypeOK, Entries
  <1>13. ASSUME NEW q \in Qkdl, LockExpires(q) PROVE Goal
    BY <1>13, <1>3 DEF LockExpires, records
  <1>14. CASE Restart \/ UNCHANGED vars
    BY <1>14, <1>3 DEF Restart, vars, records
  <1> QED BY <1>4, <1>5, <1>6, <1>7, <1>8, <1>9, <1>10, <1>11, <1>12, <1>13, <1>14
          DEF Next, InitStep, Request

\* A key is handed out at most once per activation, and an active key less often
\* than that, however often the verdict is uploaded and consume_key is called.
THEOREM HandOutsCorrect == Spec => []HandOutsPaid
  <1> DEFINE Inv == PoolInv /\ \A t \in Session : StreamInv(t) /\ Paid(t)
  <1>1. Init => Inv
    <2> SUFFICES ASSUME Init PROVE Inv
      OBVIOUS
    <2>1. PoolInv /\ \A t \in Session : StreamInv(t)
      BY PoolBegins DEF Init, StreamInv, Ordered, Told, Emitted
    <2>2. \A t \in Session : Activations(t) \in Nat
      BY <2>1, EntriesFinite DEF PoolInv
    <2> QED BY <2>1, <2>2 DEF Init, Paid
  <1>2. Inv /\ [Next]_vars => Inv'
    BY PoolStep, StreamStep, PaidStep DEF PoolInv
  <1>3. Inv => HandOutsPaid
    BY DEF Paid, HandOutsPaid
  <1> QED BY <1>1, <1>2, <1>3, PTL DEF Spec
=============================================================================
