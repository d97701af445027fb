----------------------------- MODULE LinkProofs -----------------------------
(***************************************************************************)
(* Proofs about Link, for any number of qubits, batches, postings and      *)
(* threads, with or without a detector.                                    *)
(***************************************************************************)
EXTENDS Link, FiniteSetTheorems, SequenceTheorems, TLAPS

\* The first qubit of a batch is a qubit, and a batch ends within them.
LEMMA BatchRange ==
    ASSUME NEW b \in Batch
    PROVE  /\ b \in Nat
           /\ FirstOf(b) \in 0 .. NQubits - 1 /\ BeyondOf(b) \in 0 .. NQubits
           /\ FirstOf(b) <= BeyondOf(b)
  <1> DEFINE q == (NQubits - 1) \div BatchSize
  <1>1. q \in Nat /\ q * BatchSize <= NQubits - 1
    BY LinkSizes, SMTT(30)
  <1>2. b \in Nat /\ b <= q
    BY <1>1 DEF Batch
  <1> HIDE DEF q
  <1>3. b * BatchSize \in Nat /\ b * BatchSize <= q * BatchSize
    BY <1>1, <1>2, LinkSizes, SMTT(30)
  <1>4. (b + 1) * BatchSize = b * BatchSize + BatchSize
    BY <1>2, LinkSizes, SMTT(30)
  <1> QED BY <1>1, <1>2, <1>3, <1>4, LinkSizes DEF FirstOf, BeyondOf

(***************************************************************************)
(* The types are not inductive alone: a thread that works on a qubit must  *)
(* not have run past its batch, a task that is queued must have a posting  *)
(* left, and so must Eve's registration.                                   *)
(***************************************************************************)
Working == {"armed", "through", "resent", "receiving", "sent"}

ThreadsInBatch ==
    \A j \in Job : /\ next[j] <= BeyondOf(j[1])
                   /\ at[j] \in Working => next[j] < BeyondOf(j[1])
TriesLeft ==
    /\ \A b \in Batch : task[b] = "queued" => tries[b] < BatchTries
    /\ register \in {"none", "asking"} => asked < RegisterTries

LinkInv == LinkTypeOK /\ ThreadsInBatch /\ TriesLeft

\* A thread at work is at a qubit of its batch, and moving on leaves it in range
\* (_process_batch_sync).
LEMMA WorksOnQubit ==
    ASSUME LinkInv, NEW j \in Job, at[j] \in Working
    PROVE  /\ next[j] \in Qubit
           /\ GoOn(j) => /\ at' \in [Job -> Place] /\ next' \in [Job -> 0 .. NQubits]
                         /\ took' \in [Job -> Qubit \cup {Nobody}] /\ ThreadsInBatch'
  <1>1. j[1] \in Batch
    BY DEF Job
  <1>2. /\ next[j] \in 0 .. NQubits /\ next[j] < BeyondOf(j[1])
        /\ BeyondOf(j[1]) \in 0 .. NQubits
    BY <1>1, BatchRange DEF LinkInv, LinkTypeOK, ThreadsInBatch
  <1>3. next[j] \in Qubit
    BY <1>2, LinkSizes DEF Qubit
  <1>4. ASSUME GoOn(j)
        PROVE  /\ at' \in [Job -> Place] /\ next' \in [Job -> 0 .. NQubits]
               /\ took' \in [Job -> Qubit \cup {Nobody}] /\ ThreadsInBatch'
    <2>1. /\ at'[j] = "qubit" /\ next'[j] = next[j] + 1
          /\ \A k \in Job \ {j} : at'[k] = at[k] /\ next'[k] = next[k]
      BY <1>4 DEF GoOn, LinkInv, LinkTypeOK
    <2>2. next'[j] \in 0 .. NQubits /\ next'[j] <= BeyondOf(j[1])
      BY <1>2, <2>1, LinkSizes
    <2>3. ThreadsInBatch'
      BY <2>1, <2>2 DEF ThreadsInBatch, LinkInv, Working
    <2> QED BY <1>4, <2>1, <2>2, <2>3 DEF GoOn, LinkInv, LinkTypeOK, Place
  <1> QED BY <1>3, <1>4

\* What a thread pushes is a measurement (push_measurement).
LEMMA PushTyped ==
    ASSUME LinkInv, NEW j \in Job, next[j] \in Qubit, NEW from \in Qubit,
           NEW kind \in {"dark", "eve", "direct"}, Push(j, from, kind)
    PROVE  measured' \in SUBSET Measured
  BY DEF Push, LinkInv, LinkTypeOK, Measured

\* A new place for one thread, at its qubit, keeps the threads in their batches.
LEMMA MovesInBatch ==
    ASSUME LinkInv, NEW j \in Job, NEW p \in Place, at' = [at EXCEPT ![j] = p],
           UNCHANGED next, at[j] \in Working \/ p \notin Working \/ next[j] < BeyondOf(j[1])
    PROVE  at' \in [Job -> Place] /\ ThreadsInBatch'
  BY DEF LinkInv, LinkTypeOK, ThreadsInBatch

\* A click leaves a time and the thread that had it (_last_click_time).
LEMMA ClickTyped ==
    ASSUME LinkInv, NEW j \in Job, Click(j)
    PROVE  lastClick' \in [time : Int, job : Job \cup {Nobody}]
  <1>1. TimeOf(j) \in Int
    BY LinkTimes, SMTT(30) DEF TimeOf, LinkInv, LinkTypeOK
  <1> QED BY <1>1 DEF Click, LinkInv, LinkTypeOK

\* Every step keeps types and ranges.
LEMMA LinkStep == LinkInv /\ [LinkNext]_linkVars => LinkInv'
  <1> SUFFICES ASSUME LinkInv, [LinkNext]_linkVars PROVE LinkInv'
    OBVIOUS
  <1> USE LinkSizes DEF taskVars, jobVars, eveVars
  <1>1. LinkTypeOK /\ ThreadsInBatch /\ TriesLeft
    BY DEF LinkInv
  <1>2. ASSUME NEW b \in Batch, Post(b) PROVE LinkInv'
    <2> DEFINE j == <<b, tries[b] + 1>>
    <2>1. tries[b] \in 0 .. BatchTries /\ tries[b] < BatchTries /\ tries'[b] = tries[b] + 1
      BY <1>1, <1>2 DEF Post, LinkTypeOK, TriesLeft
    <2>2. j \in Job
      BY <2>1 DEF Job
    <2>3. tries' \in [Batch -> 0 .. BatchTries]
      BY <1>1, <1>2, <2>1 DEF Post, LinkTypeOK
    <2>4. at' \in [Job -> Place] /\ ThreadsInBatch'
      <3>1. at' = [at EXCEPT ![j] = "qubit"] /\ UNCHANGED next
        BY <1>2, <2>1 DEF Post
      <3> HIDE DEF j
      <3> QED BY <2>2, <3>1, MovesInBatch DEF Place, Working
    <2>5. task' \in [Batch -> {"queued", "running", "returned", "failed"}] /\ TriesLeft'
      BY <1>1, <1>2 DEF Post, LinkTypeOK, TriesLeft
    <2> QED BY <1>1, <1>2, <2>3, <2>4, <2>5 DEF Post, LinkInv, LinkTypeOK
  <1>3. ASSUME NEW b \in Batch, PostRefused(b) PROVE LinkInv'
    <2>1. tries[b] \in 0 .. BatchTries /\ tries[b] < BatchTries /\ tries'[b] = tries[b] + 1
      BY <1>1, <1>3 DEF PostRefused, LinkTypeOK, TriesLeft
    <2>2. tries' \in [Batch -> 0 .. BatchTries]
      BY <1>1, <1>3, <2>1 DEF PostRefused, LinkTypeOK
    <2>3. task' \in [Batch -> {"queued", "running", "returned", "failed"}] /\ TriesLeft'
      BY <1>1, <1>3, <2>1 DEF PostRefused, Requeued, LinkTypeOK, TriesLeft
    <2> QED BY <1>1, <1>3, <2>2, <2>3 DEF PostRefused, LinkInv, LinkTypeOK, ThreadsInBatch
  <1>4. ASSUME NEW b \in Batch, PostFails(b) PROVE LinkInv'
    <2>1. task' \in [Batch -> {"queued", "running", "returned", "failed"}] /\ TriesLeft'
      BY <1>1, <1>4 DEF PostFails, Requeued, LinkTypeOK, TriesLeft
    <2>2. faults' \in 0 .. MaxFaults
      BY <1>1, <1>4 DEF PostFails, Fail, LinkTypeOK
    <2> QED BY <1>1, <1>4, <2>1, <2>2 DEF PostFails, LinkInv, LinkTypeOK, ThreadsInBatch
  <1>5. ASSUME NEW j \in Job, BatchEnds(j) PROVE LinkInv'
    <2>1. at' \in [Job -> Place] /\ ThreadsInBatch'
      BY <1>5, MovesInBatch DEF BatchEnds, Place, Working
    <2>2. task' \in [Batch -> {"queued", "running", "returned", "failed"}] /\ TriesLeft'
      BY <1>1, <1>5 DEF BatchEnds, LinkTypeOK, TriesLeft
    <2> QED BY <1>1, <1>5, <2>1, <2>2 DEF BatchEnds, LinkInv, LinkTypeOK
  <1>6. ASSUME NEW j \in Job, Arrive(j) PROVE LinkInv'
    <2>1. CASE GoOn(j)
      <3>1. next[j] \in 0 .. NQubits /\ BeyondOf(j[1]) \in 0 .. NQubits /\ next[j] < BeyondOf(j[1])
        BY <1>1, <1>6, BatchRange DEF Arrive, LinkTypeOK, Job
      <3>2. /\ at'[j] = "qubit" /\ next'[j] = next[j] + 1
            /\ \A k \in Job \ {j} : at'[k] = at[k] /\ next'[k] = next[k]
        BY <1>1, <2>1 DEF GoOn, LinkTypeOK
      <3>3. ThreadsInBatch'
        BY <1>1, <3>1, <3>2 DEF ThreadsInBatch, Working
      <3>4. /\ at' \in [Job -> Place] /\ next' \in [Job -> 0 .. NQubits]
            /\ took' \in [Job -> Qubit \cup {Nobody}]
        BY <1>1, <2>1, <3>1 DEF GoOn, LinkTypeOK, Place
      <3>5. TimeOf(j) \in Int
        BY <1>1, LinkTimes, SMTT(30) DEF TimeOf, LinkTypeOK
      <3>6. blinded' \in SUBSET [job : Job, time : Int, click : [time : Int, job : Job \cup {Nobody}]]
        BY <1>1, <1>6, <3>5 DEF Arrive, LinkTypeOK
      <3> QED BY <1>1, <1>6, <3>3, <3>4, <3>6 DEF Arrive, LinkInv, LinkTypeOK, TriesLeft
    <2>2. CASE at' = [at EXCEPT ![j] = "armed"] /\ UNCHANGED <<next, took, blinded>>
      <3>1. at' \in [Job -> Place] /\ ThreadsInBatch'
        BY <1>6, <2>2, MovesInBatch DEF Arrive, Place
      <3> QED BY <1>1, <1>6, <2>2, <3>1 DEF Arrive, LinkInv, LinkTypeOK, TriesLeft
    <2> QED BY <1>6, <2>1, <2>2 DEF Arrive
  <1>7. ASSUME NEW j \in Job, Detect(j) PROVE LinkInv'
    <2>1. next[j] \in Qubit /\ at[j] \in Working
      BY <1>7, WorksOnQubit DEF Detect, Working
    <2>2. /\ at' \in [Job -> Place] /\ next' \in [Job -> 0 .. NQubits]
          /\ took' \in [Job -> Qubit \cup {Nobody}] /\ ThreadsInBatch'
      <3>1. CASE GoOn(j)
        BY <2>1, <3>1, WorksOnQubit
      <3>2. CASE at' = [at EXCEPT ![j] = "through"] /\ UNCHANGED <<next, took>>
        BY <1>1, <2>1, <3>2, MovesInBatch DEF Place, LinkTypeOK
      <3> QED BY <1>7, <3>1, <3>2 DEF Detect
    <2>3. /\ lastClick' \in [time : Int, job : Job \cup {Nobody}]
          /\ measured' \in SUBSET Measured
      BY <1>1, <1>7, <2>1, ClickTyped, PushTyped DEF Detect, LinkTypeOK
    <2> QED BY <1>1, <1>7, <2>2, <2>3 DEF Detect, LinkInv, LinkTypeOK, TriesLeft
  <1>8. ASSUME NEW j \in Job, Look(j) PROVE LinkInv'
    <2>1. next[j] \in Qubit /\ at[j] \in Working
      BY <1>8, WorksOnQubit DEF Look, Working
    <2>2. at' \in [Job -> Place] /\ ThreadsInBatch'
      BY <1>8, <2>1, MovesInBatch DEF Look, Place
    <2>3. eveQueue' \in SUBSET (Job \X Qubit)
      BY <1>1, <1>8, <2>1 DEF Look, LinkTypeOK
    <2>4. shared' \in SUBSET (Job \X Qubit)
      <3>1. \A k \in AtHost \cup {j} : <<k, next[k]>> \in Job \X Qubit
        BY <2>1, WorksOnQubit DEF AtHost, Working
      <3> QED BY <1>1, <1>8, <3>1 DEF Look, LinkTypeOK
    <2> QED BY <1>1, <1>8, <2>2, <2>3, <2>4 DEF Look, LinkInv, LinkTypeOK, TriesLeft
  <1>9. ASSUME NEW j \in Job, MeasureResent(j) \/ DirectDone(j) PROVE LinkInv'
    <2>1. next[j] \in Qubit /\ at[j] \in Working /\ GoOn(j)
      BY <1>9, WorksOnQubit DEF MeasureResent, DirectDone, Working
    <2>2. /\ at' \in [Job -> Place] /\ next' \in [Job -> 0 .. NQubits]
          /\ took' \in [Job -> Qubit \cup {Nobody}] /\ ThreadsInBatch'
      BY <2>1, WorksOnQubit
    <2>3. measured' \in SUBSET Measured
      BY <1>1, <1>9, <2>1, PushTyped DEF MeasureResent, DirectDone, LinkTypeOK
    <2> QED BY <1>1, <1>9, <2>2, <2>3 DEF MeasureResent, DirectDone, LinkInv, LinkTypeOK, TriesLeft
  <1>10. ASSUME NEW j \in Job, Send(j) PROVE LinkInv'
    <2>1. next[j] \in Qubit /\ at[j] \in Working
      BY <1>10, WorksOnQubit DEF Send, Working
    <2>2. at' \in [Job -> Place] /\ ThreadsInBatch'
      BY <1>10, <2>1, MovesInBatch DEF Send, Place
    <2>3. inbox' \in Seq(Qubit)
      BY <1>1, <1>10, <2>1, AppendProperties DEF Send, LinkTypeOK
    <2> QED BY <1>1, <1>10, <2>2, <2>3 DEF Send, LinkInv, LinkTypeOK, TriesLeft
  <1>11. ASSUME NEW j \in Job, Receive(j) PROVE LinkInv'
    <2>1. Head(inbox) \in Qubit /\ inbox' \in Seq(Qubit)
      BY <1>1, <1>11, HeadTailProperties DEF Receive, LinkTypeOK
    <2>2. took' \in [Job -> Qubit \cup {Nobody}]
      BY <1>1, <1>11, <2>1 DEF Receive, LinkTypeOK
    <2> QED BY <1>1, <1>11, <2>1, <2>2 DEF Receive, LinkInv, LinkTypeOK, ThreadsInBatch, TriesLeft
  <1>12. ASSUME NEW j \in Job, DirectLost(j) PROVE LinkInv'
    <2>1. /\ at' \in [Job -> Place] /\ next' \in [Job -> 0 .. NQubits]
          /\ took' \in [Job -> Qubit \cup {Nobody}] /\ ThreadsInBatch'
      BY <1>12, WorksOnQubit DEF DirectLost, Working
    <2> QED BY <1>1, <1>12, <2>1 DEF DirectLost, LinkInv, LinkTypeOK, TriesLeft
  <1>13. CASE EveOpens
    BY <1>1, <1>13 DEF EveOpens, LinkInv, LinkTypeOK, ThreadsInBatch, TriesLeft
  <1>13a. CASE EveHears
    BY <1>1, <1>13a DEF EveHears, LinkInv, LinkTypeOK, ThreadsInBatch, TriesLeft
  <1>14. CASE EveAsks
    <2>1. asked' \in 0 .. RegisterTries /\ TriesLeft'
      BY <1>1, <1>14 DEF EveAsks, TriesAgain, LinkTypeOK, TriesLeft
    <2>2. faults' \in 0 .. MaxFaults
      BY <1>1, <1>14 DEF EveAsks, Fail, LinkTypeOK
    <2>3. flag' \in BOOLEAN /\ register' \in {"none", "asking", "ok", "failed"}
      BY <1>1, <1>14 DEF EveAsks, LinkTypeOK
    <2> QED BY <1>1, <1>14, <2>1, <2>2, <2>3 DEF EveAsks, LinkInv, LinkTypeOK, ThreadsInBatch
  <1>15. CASE EveCollects
    <2>1. faults' \in 0 .. MaxFaults
      BY <1>1, <1>15 DEF EveCollects, Fail, LinkTypeOK
    <2>2. eveQueue' \in SUBSET (Job \X Qubit) /\ eveLog' \in SUBSET (Job \X Qubit)
      BY <1>1, <1>15 DEF EveCollects, Collected, LinkTypeOK
    <2>3. collect' \in {"none", "asking", "ok", "failed"}
      BY <1>15 DEF EveCollects
    <2> QED BY <1>1, <1>15, <2>1, <2>2, <2>3 DEF EveCollects, LinkInv, LinkTypeOK, ThreadsInBatch, TriesLeft
  <1>16. CASE Verdict
    BY <1>1, <1>16 DEF Verdict, LinkInv, LinkTypeOK, ThreadsInBatch, TriesLeft
  <1>16a. CASE Cancel
    BY <1>1, <1>16a DEF Cancel, LinkInv, LinkTypeOK, ThreadsInBatch, TriesLeft
  <1>17. CASE NetStops
    <2>1. inbox' \in Seq(Qubit) /\ net' \in BOOLEAN
      BY <1>17, EmptySeq DEF NetStops
    <2> QED BY <1>1, <1>17, <2>1 DEF NetStops, LinkInv, LinkTypeOK, ThreadsInBatch, TriesLeft
  <1>18. CASE UNCHANGED linkVars
    BY <1>1, <1>18 DEF linkVars, LinkInv, LinkTypeOK, ThreadsInBatch, TriesLeft
  <1> QED BY <1>2, <1>3, <1>4, <1>5, <1>6, <1>7, <1>8, <1>9, <1>10, <1>11, <1>12, <1>13, <1>13a,
             <1>14, <1>15, <1>16, <1>16a, <1>17, <1>18
          DEF LinkNext, TaskStep, Thread, Eve

\* A session that has just been opened.
LEMMA LinkInitial == LinkInit => LinkInv
  <1> SUFFICES ASSUME LinkInit PROVE LinkInv
    OBVIOUS
  <1>1. \A j \in Job : FirstOf(j[1]) \in 0 .. NQubits /\ FirstOf(j[1]) <= BeyondOf(j[1])
    BY BatchRange, LinkSizes DEF Job
  <1>2. next \in [Job -> 0 .. NQubits] /\ ThreadsInBatch
    BY <1>1 DEF LinkInit, ThreadsInBatch, Working
  <1>3. inbox \in Seq(Qubit) /\ lastClick \in [time : Int, job : Job \cup {Nobody}]
    BY LinkTimes, EmptySeq DEF LinkInit
  <1>4. TriesLeft
    BY LinkSizes DEF LinkInit, TriesLeft
  <1>5. /\ task \in [Batch -> {"queued", "running", "returned", "failed"}]
        /\ tries \in [Batch -> 0 .. BatchTries]
        /\ at \in [Job -> Place] /\ took \in [Job -> Qubit \cup {Nobody}]
    BY LinkSizes DEF LinkInit, Place
  <1>6. asked \in 0 .. RegisterTries /\ faults \in 0 .. MaxFaults
    BY LinkSizes DEF LinkInit
  <1>7. LinkTypeOK
    BY <1>2, <1>3, <1>5, <1>6 DEF LinkInit, LinkTypeOK
  <1> QED BY <1>2, <1>4, <1>7 DEF LinkInv

\* Types, ranges of the threads, and the tries that are left.
THEOREM LinkInvariant == LinkSpec => []LinkInv
  BY LinkInitial, LinkStep, PTL DEF LinkSpec

\* The link layer's state stays well typed: no thread runs past its batch, no
\* batch is posted and no registration tried more often than the retries allow.
THEOREM LinkTypeCorrect == LinkSpec => []LinkTypeOK
  <1>1. LinkInv => LinkTypeOK
    BY DEF LinkInv
  <1> QED BY <1>1, LinkInvariant, PTL

-----------------------------------------------------------------------------
(* Eve's record. *)

(***************************************************************************)
(* Bob measures after Eve, in a later step of the thread: in between her   *)
(* result must be on record already, or EveMisses could fail with the next *)
(* measurement.                                                            *)
(***************************************************************************)
Recorded(x) == collect = "failed" \/ x \in eveQueue \cup eveLog

EveInv ==
    /\ \A m \in measured : m.how = "eve" => Recorded(<<m.job, m.qid>>)
    /\ \A j \in Job : at[j] = "resent" => Recorded(<<j, next[j]>>)

\* What was on record stays there, and moves from the QKDL to her log
\* (eve_measurements, _collect_measurements).
LEMMA RecordStays ==
    ASSUME [LinkNext]_linkVars, NEW x, Recorded(x)
    PROVE  Recorded(x)'
  <1> USE DEF Recorded, taskVars, jobVars, eveVars
  <1>1. CASE UNCHANGED eveVars /\ eveQueue \subseteq eveQueue'
    BY <1>1
  <1>2. CASE EveAsks
    BY <1>2 DEF EveAsks
  <1>3. CASE EveHears
    BY <1>3 DEF EveHears
  <1>4. CASE EveCollects
    BY <1>4 DEF EveCollects, Collected
  <1>5. CASE EveOpens
    BY <1>5 DEF EveOpens
  <1>6. ASSUME NEW j \in Job, Thread(j) \/ Receive(j) PROVE Recorded(x)'
    BY <1>6, <1>1 DEF Thread, BatchEnds, Arrive, Detect, Look, MeasureResent, Send, Receive,
                      DirectDone, DirectLost
  <1> QED BY <1>1, <1>2, <1>3, <1>4, <1>5, <1>6
          DEF LinkNext, Eve, TaskStep, Post, PostRefused, PostFails, Verdict, Cancel, NetStops, linkVars

\* A thread puts Eve's result on record before it sends the photon on.
LEMMA EveStep == LinkInv /\ EveInv /\ [LinkNext]_linkVars => EveInv'
  <1> SUFFICES ASSUME LinkInv, EveInv, [LinkNext]_linkVars PROVE EveInv'
    OBVIOUS
  <1> USE DEF taskVars, jobVars, eveVars
  <1> DEFINE Keeps(j) == at'[j] = "resent" => at[j] = "resent" /\ next'[j] = next[j]
  <1>0. \A x : Recorded(x) => Recorded(x)'
    BY RecordStays
  <1>1. ASSUME measured' = measured, \A j \in Job : Keeps(j) PROVE EveInv'
    BY <1>0, <1>1 DEF EveInv
  <1>2. CASE UNCHANGED <<at, next, measured>>
    BY <1>1, <1>2
  <1>3. ASSUME NEW b \in Batch, Post(b) PROVE EveInv'
    BY <1>1, <1>3 DEF Post, LinkInv, LinkTypeOK
  <1>4. ASSUME NEW j \in Job, GoOn(j) PROVE \A k \in Job : Keeps(k) /\ at'[j] = "qubit"
    BY <1>4 DEF GoOn, LinkInv, LinkTypeOK
  <1>5. ASSUME NEW j \in Job, BatchEnds(j) \/ Send(j) PROVE EveInv'
    BY <1>1, <1>5 DEF BatchEnds, Send, LinkInv, LinkTypeOK
  <1>6. ASSUME NEW j \in Job, Arrive(j) PROVE EveInv'
    BY <1>1, <1>4, <1>6 DEF Arrive, LinkInv, LinkTypeOK
  <1>7. ASSUME NEW j \in Job, NEW from, NEW kind \in {"dark", "direct"}, Push(j, from, kind), GoOn(j)
        PROVE  EveInv'
    BY <1>0, <1>4, <1>7 DEF Push, EveInv
  <1>8. ASSUME NEW j \in Job, Detect(j) PROVE EveInv'
    <2>1. CASE GoOn(j) /\ UNCHANGED measured
      BY <2>1, <1>1, <1>4
    <2>2. CASE at' = [at EXCEPT ![j] = "through"] /\ UNCHANGED <<next, measured>>
      BY <2>2, <1>1 DEF LinkInv, LinkTypeOK
    <2> QED BY <1>7, <1>8, <2>1, <2>2 DEF Detect
  <1>9. ASSUME NEW j \in Job, Look(j) PROVE EveInv'
    <2>1. UNCHANGED <<next, measured>> /\ \A k \in Job \ {j} : Keeps(k)
      BY <1>9 DEF Look, LinkInv, LinkTypeOK
    <2>2. at'[j] = "resent" => Recorded(<<j, next[j]>>)'
      BY <1>9 DEF Look, Recorded, LinkInv, LinkTypeOK
    <2> QED BY <1>0, <2>1, <2>2 DEF EveInv
  <1>10. ASSUME NEW j \in Job, MeasureResent(j) PROVE EveInv'
    <2> DEFINE q == next[j]
    <2>0. PICK x : x = <<j, q>>
      OBVIOUS
    <2>1. Recorded(x)'
      BY <1>0, <1>10, <2>0 DEF MeasureResent, EveInv
    <2>2. \A m \in measured' : m.how = "eve" => Recorded(<<m.job, m.qid>>)'
      BY <1>0, <1>10, <2>0, <2>1 DEF MeasureResent, Push, EveInv
    <2> QED BY <1>0, <1>4, <1>10, <2>2 DEF MeasureResent, EveInv
  <1>11. ASSUME NEW j \in Job, Receive(j) PROVE EveInv'
    BY <1>2, <1>11 DEF Receive
  <1>12. ASSUME NEW j \in Job, DirectDone(j) \/ DirectLost(j) PROVE EveInv'
    BY <1>1, <1>4, <1>7, <1>12 DEF DirectDone, DirectLost
  <1> QED BY <1>2, <1>3, <1>5, <1>6, <1>8, <1>9, <1>10, <1>11, <1>12
          DEF LinkNext, Thread, TaskStep, Eve, PostRefused, PostFails, EveOpens, EveAsks, EveHears,
              EveCollects, Verdict, Cancel, NetStops, linkVars

\* Eve has whatever she measured before Bob, on the QKDL or in her log, unless
\* her collection failed.
THEOREM EveKeepsAll == LinkSpec => []EveMisses
  <1>1. LinkInit => EveInv
    BY DEF LinkInit, EveInv
  <1>2. EveInv => EveMisses
    BY DEF EveInv, EveMisses, Recorded
  <1> QED BY <1>1, <1>2, LinkInvariant, EveStep, PTL DEF LinkSpec

-----------------------------------------------------------------------------
(* What Eve does not see. *)

Unseen(j) == {m \in measured : m.job = j /\ m.how = "direct" /\ m.late}

(***************************************************************************)
(* Once a batch has let a qubit through after the registration, its thread *)
(* is not at Bob's host, and finds the flag set whenever it looks again.   *)
(***************************************************************************)
UnseenInv ==
    \A j \in Job : \A m \in Unseen(j) :
        flag /\ j \notin AtHost /\ \A n \in Unseen(j) : n = m

\* The flag is never taken back.
LEMMA FlagStays == [LinkNext]_linkVars /\ LinkInv /\ flag => flag'
  <1> SUFFICES ASSUME [LinkNext]_linkVars, LinkInv, flag = TRUE PROVE flag' = TRUE
    BY DEF LinkInv, LinkTypeOK
  <1>1. CASE EveAsks
    BY <1>1 DEF EveAsks
  <1>2. ASSUME NEW j \in Job, Thread(j) \/ Receive(j) PROVE flag' = flag
    BY <1>2 DEF Thread, BatchEnds, Arrive, Detect, Look, MeasureResent, Send, Receive,
                DirectDone, DirectLost
  <1> QED BY <1>1, <1>2 DEF LinkNext, Eve, TaskStep, Post, PostRefused, PostFails, EveOpens,
            EveHears, EveCollects, Verdict, Cancel, NetStops, linkVars

\* A thread is at the host for one qubit, which it enters only when it finds the
\* flag down, and leaves with at most one measurement.
LEMMA UnseenStep == LinkInv /\ UnseenInv /\ [LinkNext]_linkVars => UnseenInv'
  <1> SUFFICES ASSUME LinkInv, UnseenInv, [LinkNext]_linkVars PROVE UnseenInv'
    OBVIOUS
  <1> USE DEF taskVars, jobVars, eveVars
  <1>1. ASSUME \A j \in Job : Unseen(j)' = Unseen(j),
               \A j \in Job : flag /\ j \in AtHost' => j \in AtHost
        PROVE  UnseenInv'
    BY <1>1, FlagStays DEF UnseenInv
  <1>2. CASE UNCHANGED <<at, measured>>
    BY <1>1, <1>2 DEF Unseen, AtHost
  <1>3. ASSUME NEW b \in Batch, Post(b) PROVE UnseenInv'
    BY <1>1, <1>3 DEF Post, Unseen, AtHost, LinkInv, LinkTypeOK
  <1>4. ASSUME NEW j \in Job, GoOn(j) PROVE AtHost' = AtHost \ {j}
    BY <1>4 DEF GoOn, AtHost, LinkInv, LinkTypeOK
  <1>5. ASSUME NEW j \in Job, BatchEnds(j) \/ Arrive(j) \/ Receive(j) \/ DirectLost(j) PROVE UnseenInv'
    <2>1. \A k \in Job : Unseen(k)' = Unseen(k)
      BY <1>5 DEF BatchEnds, Arrive, Receive, DirectLost, Unseen
    <2>2. AtHost' \subseteq AtHost
      <3>1. CASE GoOn(j)
        BY <3>1, <1>4
      <3>2. CASE ~GoOn(j)
        BY <1>5, <3>2 DEF BatchEnds, Arrive, Receive, DirectLost, AtHost, LinkInv, LinkTypeOK
      <3> QED BY <3>1, <3>2
    <2> QED BY <2>1, <2>2, <1>1
  <1>6. ASSUME NEW j \in Job, NEW from, NEW kind \in {"dark", "eve"}, Push(j, from, kind), GoOn(j)
        PROVE  UnseenInv'
    <2>1. \A k \in Job : Unseen(k)' = Unseen(k)
      BY <1>6 DEF Push, Unseen
    <2> QED BY <1>1, <1>4, <1>6, <2>1
  <1>7. ASSUME NEW j \in Job, Detect(j) PROVE UnseenInv'
    <2>1. CASE GoOn(j) /\ UNCHANGED measured
      BY <2>1, <1>1, <1>4 DEF Unseen
    <2>2. CASE at' = [at EXCEPT ![j] = "through"] /\ UNCHANGED measured
      BY <2>2, <1>1 DEF Unseen, AtHost, LinkInv, LinkTypeOK
    <2> QED BY <1>6, <1>7, <2>1, <2>2 DEF Detect
  <1>8. ASSUME NEW j \in Job, Look(j) PROVE UnseenInv'
    <2>1. \A k \in Job : Unseen(k)' = Unseen(k)
      BY <1>8 DEF Look, Unseen
    <2>2. \A k \in Job : flag /\ k \in AtHost' => k \in AtHost
      BY <1>8 DEF Look, Intercepts, AtHost, LinkInv, LinkTypeOK
    <2> QED BY <2>1, <2>2, <1>1
  <1>9. ASSUME NEW j \in Job, Send(j) PROVE UnseenInv'
    <2>1. \A k \in Job : Unseen(k)' = Unseen(k)
      BY <1>9 DEF Send, Unseen
    <2>2. AtHost' \subseteq AtHost
      BY <1>9 DEF Send, AtHost, LinkInv, LinkTypeOK
    <2> QED BY <2>1, <2>2, <1>1
  <1>10. ASSUME NEW j \in Job, MeasureResent(j) PROVE UnseenInv'
    BY <1>6, <1>10 DEF MeasureResent
  <1>11. ASSUME NEW j \in Job, DirectDone(j) PROVE UnseenInv'
    <2> DEFINE m == [job |-> j, qid |-> next[j], of |-> took[j], how |-> "direct", late |-> flag]
    <2>1. measured' = measured \cup {m} /\ m.job = j /\ m.late = flag
      BY <1>11 DEF DirectDone, Push
    <2> HIDE DEF m
    <2>2. j \in AtHost /\ AtHost' = AtHost \ {j} /\ flag' = flag
      BY <1>4, <1>11 DEF DirectDone, AtHost
    <2>3. Unseen(j) = {} /\ Unseen(j)' \subseteq {m} /\ \A k \in Job \ {j} : Unseen(k)' = Unseen(k)
      BY <2>1, <2>2 DEF UnseenInv, Unseen
    <2>4. \A n \in Unseen(j)' : flag
      BY <2>1, <2>3 DEF Unseen
    <2> QED BY <2>2, <2>3, <2>4 DEF UnseenInv
  <1> QED BY <1>2, <1>3, <1>5, <1>7, <1>8, <1>9, <1>10, <1>11
          DEF LinkNext, Thread, TaskStep, Eve, PostRefused, PostFails, EveOpens, EveAsks, EveHears,
              EveCollects, Verdict, Cancel, NetStops, linkVars

\* A batch under way lets at most one qubit through to Bob after Eve is
\* registered, however long it is.
THEOREM OneMore == LinkSpec => []OneMoreUnseen
  <1>1. LinkInit => UnseenInv
    BY DEF LinkInit, UnseenInv, Unseen
  <1>2. UnseenInv => OneMoreUnseen
    <2> SUFFICES ASSUME UnseenInv, NEW j \in Job PROVE Cardinality(Unseen(j)) <= 1
      BY DEF OneMoreUnseen, Unseen
    <2>1. CASE Unseen(j) = {}
      BY <2>1, FS_EmptySet
    <2>2. ASSUME NEW m \in Unseen(j) PROVE Cardinality(Unseen(j)) <= 1
      <3>1. Unseen(j) = {m}
        BY <2>2 DEF UnseenInv
      <3> QED BY <3>1, FS_Singleton
    <2> QED BY <2>1, <2>2
  <1> QED BY <1>1, <1>2, LinkInvariant, UnseenStep, PTL DEF LinkSpec

-----------------------------------------------------------------------------
(* Which qubit a receiver gets. *)

Sent   == {j \in Job : at[j] = "sent"}
Takers == {j \in AtHost : took[j] # Nobody}
Apart(j) == <<j, next[j]>> \notin shared

(***************************************************************************)
(* A receiver that was never joined by another finds only its own qubit at *)
(* Bob's host.  For that the host must be empty when it comes, so what is  *)
(* there or has been taken must never be more than what those present have *)
(* sent: a receiver gives up only when nothing can still come for it.      *)
(***************************************************************************)
HostCount  == Len(inbox) + Cardinality(Takers) <= Cardinality(Sent)
AloneApart == \A j \in AtHost : Apart(j) => AtHost = {j}
OwnQubit   ==
    \A j \in AtHost : Apart(j) =>
        /\ \A i \in DOMAIN inbox : inbox[i] = next[j]
        /\ took[j] \in {Nobody, next[j]}
NothingHeld == \A j \in Job : j \notin AtHost => took[j] = Nobody

HostInv == HostCount /\ AloneApart /\ OwnQubit /\ NothingHeld /\ RightQubit

\* There are finitely many threads.
LEMMA JobsFinite ==
    /\ IsFiniteSet(Job)
    /\ \A S \in SUBSET Job : IsFiniteSet(S) /\ Cardinality(S) \in Nat
  <1>1. IsFiniteSet(Batch) /\ IsFiniteSet(1 .. BatchTries)
    <2>1. (NQubits - 1) \div BatchSize \in Int
      BY LinkSizes, SMTT(30)
    <2> QED BY <2>1, FS_Interval, LinkSizes DEF Batch
  <1>2. IsFiniteSet(Job)
    BY <1>1, FS_Product DEF Job
  <1> QED BY <1>2, FS_Subset, FS_CardinalityType

\* What happens away from Bob's host keeps the invariant: a thread that is not
\* there holds nothing, and what it pushes names the qubit it comes from.
LEMMA HostFrame ==
    ASSUME LinkInv, HostInv, UNCHANGED <<inbox, shared>>, AtHost' = AtHost, Sent' = Sent,
           \A j \in AtHost : next'[j] = next[j] /\ took'[j] = took[j],
           \A j \in Job \ AtHost : took'[j] = Nobody,
           \A m \in measured' \ measured : m.of = m.qid
    PROVE  HostInv'
  <1>1. HostCount'
    <2>1. Takers' = Takers
      BY DEF Takers
    <2> QED BY <2>1 DEF HostInv, HostCount
  <1>2. AloneApart' /\ OwnQubit'
    BY DEF HostInv, AloneApart, OwnQubit, Apart
  <1>3. NothingHeld' /\ RightQubit'
    BY DEF HostInv, NothingHeld, RightQubit
  <1> QED BY <1>1, <1>2, <1>3 DEF HostInv

\* A receiver begins to wait: with others, and all of them are known to share,
\* or alone, at an empty host (_send_one_qubit_qns).
LEMMA HostEnter ==
    ASSUME LinkInv, HostInv, NEW j \in Job, Look(j), at'[j] = "receiving"
    PROVE  HostInv'
  <1>1. /\ at[j] = "through" /\ \A k \in Job \ {j} : at'[k] = at[k]
        /\ UNCHANGED <<next, took, inbox, measured>>
        /\ shared' = IF AtHost = {} THEN shared
                     ELSE shared \cup {<<k, next[k]>> : k \in AtHost \cup {j}}
    BY DEF Look, LinkInv, LinkTypeOK, jobVars
  <1>2. AtHost' = AtHost \cup {j} /\ j \notin AtHost /\ Sent' = Sent /\ took[j] = Nobody
    BY <1>1 DEF AtHost, Sent, HostInv, NothingHeld
  <1>3. HostCount'
    <2>1. Takers' = Takers
      BY <1>1, <1>2 DEF Takers
    <2> QED BY <1>1, <1>2, <2>1 DEF HostInv, HostCount
  <1>4. NothingHeld' /\ RightQubit'
    BY <1>1, <1>2 DEF HostInv, NothingHeld, RightQubit
  <1>5. CASE AtHost = {}
    <2>1. Cardinality(Sent) = 0 /\ Cardinality(Takers) \in Nat
      <3>1. Sent = {}
        BY <1>5 DEF Sent, AtHost
      <3>2. Takers \in SUBSET Job
        BY DEF Takers, AtHost
      <3> QED BY <3>1, <3>2, FS_EmptySet, JobsFinite
    <2>2. inbox = <<>>
      BY <2>1, LenProperties, EmptySeq DEF HostInv, HostCount, LinkInv, LinkTypeOK
    <2>3. AloneApart'
      BY <1>2, <1>5 DEF AloneApart
    <2>4. OwnQubit'
      BY <1>1, <1>2, <1>5, <2>2 DEF OwnQubit
    <2> QED BY <1>3, <1>4, <2>3, <2>4 DEF HostInv
  <1>6. CASE AtHost # {}
    <2>1. \A k \in AtHost' : ~Apart(k)'
      BY <1>1, <1>2, <1>6 DEF Apart
    <2> QED BY <1>3, <1>4, <2>1 DEF HostInv, AloneApart, OwnQubit
  <1> QED BY <1>5, <1>6

\* Alice sends: the only qubit at the host, if its receiver is alone.
LEMMA HostSend ==
    ASSUME LinkInv, HostInv, NEW j \in Job, Send(j)
    PROVE  HostInv'
  <1>1. /\ at[j] = "receiving" /\ at'[j] = "sent" /\ \A k \in Job \ {j} : at'[k] = at[k]
        /\ UNCHANGED <<next, took, measured, shared>>
        /\ inbox' \in {inbox, Append(inbox, next[j])}
    BY DEF Send, LinkInv, LinkTypeOK
  <1>2. AtHost' = AtHost /\ j \in AtHost /\ Sent' = Sent \cup {j} /\ j \notin Sent
    BY <1>1 DEF AtHost, Sent
  <1>3. next[j] \in Qubit /\ inbox \in Seq(Qubit) /\ Len(inbox) \in Nat
    BY <1>1, WorksOnQubit, LenProperties DEF Working, LinkInv, LinkTypeOK
  <1>4. /\ Cardinality(Sent) \in Nat /\ Cardinality(Takers) \in Nat
        /\ Cardinality(Sent') = Cardinality(Sent) + 1
    <2>1. Sent \in SUBSET Job /\ Takers \in SUBSET Job
      BY DEF Sent, Takers, AtHost
    <2> QED BY <1>2, <2>1, JobsFinite, FS_AddElement
  <1>5. HostCount'
    <2>1. Takers' = Takers
      BY <1>1, <1>2 DEF Takers
    <2>2. Len(inbox') <= Len(inbox) + 1
      BY <1>1, <1>3, AppendProperties
    <2>3. Len(inbox') \in Nat
      BY <1>1, <1>3, AppendProperties, LenProperties
    <2> QED BY <1>3, <1>4, <2>1, <2>2, <2>3 DEF HostInv, HostCount
  <1>6. AloneApart'
    BY <1>1, <1>2 DEF HostInv, AloneApart, Apart
  <1>7. OwnQubit'
    <2> SUFFICES ASSUME NEW k \in AtHost, Apart(k)
                 PROVE  /\ \A i \in DOMAIN inbox' : inbox'[i] = next[k]
                        /\ took[k] \in {Nobody, next[k]}
      BY <1>1, <1>2 DEF OwnQubit, Apart
    <2>1. k = j /\ AtHost = {j} /\ took[k] \in {Nobody, next[k]}
      BY <1>2 DEF HostInv, AloneApart, OwnQubit
    <2>2. Cardinality(Sent) = 0
      <3>1. Sent = {}
        BY <1>1, <2>1 DEF Sent, AtHost
      <3> QED BY <3>1, FS_EmptySet
    <2>3. inbox = <<>>
      BY <1>3, <1>4, <2>2, EmptySeq DEF HostInv, HostCount
    <2>4. inbox' = <<>> \/ inbox' = <<next[j]>>
      BY <1>1, <1>3, <2>3
    <2> QED BY <2>1, <2>4
  <1>8. NothingHeld' /\ RightQubit'
    BY <1>1, <1>2 DEF HostInv, NothingHeld, RightQubit
  <1> QED BY <1>5, <1>6, <1>7, <1>8 DEF HostInv

\* A receiver takes the first qubit: its own, if it is alone.
LEMMA HostReceive ==
    ASSUME LinkInv, HostInv, NEW j \in Job, Receive(j)
    PROVE  HostInv'
  <1>1. /\ j \in AtHost /\ took[j] = Nobody /\ inbox # <<>> /\ inbox' = Tail(inbox)
        /\ took'[j] = Head(inbox) /\ \A k \in Job \ {j} : took'[k] = took[k]
        /\ UNCHANGED <<at, next, measured, shared>>
    BY DEF Receive, AtHost, LinkInv, LinkTypeOK
  <1>2. AtHost' = AtHost /\ Sent' = Sent
    BY <1>1 DEF AtHost, Sent
  <1>3. /\ inbox \in Seq(Qubit) /\ Head(inbox) \in Qubit /\ Head(inbox) = inbox[1]
        /\ Len(inbox') = Len(inbox) - 1 /\ Len(inbox) \in Nat /\ 1 \in DOMAIN inbox
        /\ DOMAIN inbox = 1 .. Len(inbox) /\ DOMAIN inbox' = 1 .. Len(inbox) - 1
        /\ \A i \in DOMAIN inbox' : inbox'[i] = inbox[i + 1]
    BY <1>1, HeadTailProperties, LenProperties, EmptySeq DEF LinkInv, LinkTypeOK
  <1>4. Head(inbox) # Nobody
    BY <1>3, LinkModes, LinkSizes DEF Qubit
  <1>5. HostCount'
    <2>1. Takers' = Takers \cup {j} /\ j \notin Takers
      BY <1>1, <1>2, <1>4 DEF Takers, AtHost
    <2>2. Takers \in SUBSET Job /\ Sent \in SUBSET Job
      BY DEF Takers, Sent, AtHost
    <2>3. Cardinality(Takers') = Cardinality(Takers) + 1
      BY <2>1, <2>2, JobsFinite, FS_AddElement
    <2> QED BY <1>2, <1>3, <2>2, <2>3, JobsFinite DEF HostInv, HostCount
  <1>6. AloneApart'
    BY <1>1, <1>2 DEF HostInv, AloneApart, Apart
  <1>7. OwnQubit'
    <2> SUFFICES ASSUME NEW k \in AtHost, Apart(k)
                 PROVE  /\ \A i \in DOMAIN inbox' : inbox'[i] = next[k]
                        /\ took'[k] \in {Nobody, next[k]}
      BY <1>1, <1>2 DEF OwnQubit, Apart
    <2>1. k = j /\ \A i \in DOMAIN inbox : inbox[i] = next[k]
      BY <1>1 DEF HostInv, AloneApart, OwnQubit
    <2>2. \A i \in DOMAIN inbox' : i + 1 \in DOMAIN inbox
      BY <1>3
    <2> QED BY <1>1, <1>3, <2>1, <2>2
  <1>8. NothingHeld' /\ RightQubit'
    BY <1>1, <1>2 DEF HostInv, NothingHeld, RightQubit
  <1> QED BY <1>5, <1>6, <1>7, <1>8 DEF HostInv

\* A receiver goes, with its qubit or without: nobody who stays was alone.
LEMMA HostLeave ==
    ASSUME LinkInv, HostInv, NEW j \in Job, DirectDone(j) \/ DirectLost(j)
    PROVE  HostInv'
  <1>1. /\ at[j] = "sent" /\ at'[j] = "qubit" /\ took'[j] = Nobody
        /\ \A k \in Job \ {j} : at'[k] = at[k] /\ took'[k] = took[k] /\ next'[k] = next[k]
        /\ UNCHANGED <<inbox, shared>>
    BY DEF DirectDone, DirectLost, GoOn, LinkInv, LinkTypeOK
  <1>2. /\ AtHost' = AtHost \ {j} /\ j \in AtHost /\ AtHost \subseteq Job
        /\ Sent' = Sent \ {j} /\ j \in Sent /\ Sent \subseteq AtHost
    BY <1>1 DEF AtHost, Sent
  <1>3. /\ Sent \in SUBSET Job /\ Takers \in SUBSET Job /\ IsFiniteSet(Sent) /\ IsFiniteSet(Takers)
        /\ Cardinality(Sent) \in Nat /\ Cardinality(Takers) \in Nat
        /\ Cardinality(Sent') = Cardinality(Sent) - 1
    <2>1. Sent \in SUBSET Job /\ Takers \in SUBSET Job
      BY DEF Sent, Takers, AtHost
    <2> QED BY <1>2, <2>1, JobsFinite, FS_RemoveElement
  <1>4. HostCount'
    <2>1. CASE DirectDone(j)
      <3>1. Takers' = Takers \ {j} /\ j \in Takers
        BY <1>1, <1>2, <2>1 DEF Takers, DirectDone
      <3>2. Cardinality(Takers') = Cardinality(Takers) - 1
        BY <1>3, <3>1, FS_RemoveElement
      <3>3. Len(inbox) \in Nat
        BY LenProperties DEF LinkInv, LinkTypeOK
      <3> QED BY <1>1, <1>3, <3>2, <3>3 DEF HostInv, HostCount
    <2>2. CASE DirectLost(j)
      <3>1. inbox = <<>> /\ AtHost = Sent
        BY <2>2 DEF DirectLost, NothingToCome, AtHost, Sent
      <3>2. Takers' = Takers /\ Takers \subseteq Sent'
        BY <1>1, <1>2, <2>2, <3>1 DEF Takers, DirectLost
      <3>3. IsFiniteSet(Sent')
        BY <1>2, <1>3, FS_Subset
      <3>4. Cardinality(Takers) <= Cardinality(Sent')
        BY <3>2, <3>3, FS_Subset
      <3>5. Len(inbox') = 0
        BY <1>1, <3>1
      <3> QED BY <1>3, <3>2, <3>4, <3>5 DEF HostCount
    <2> QED BY <2>1, <2>2
  <1>5. AloneApart' /\ OwnQubit'
    <2>1. \A k \in AtHost \ {j} : ~Apart(k)
      BY <1>2 DEF HostInv, AloneApart
    <2>2. \A k \in AtHost' : ~Apart(k)'
      BY <1>1, <1>2, <2>1 DEF Apart, AtHost
    <2> QED BY <2>2 DEF AloneApart, OwnQubit
  <1>6. NothingHeld'
    BY <1>1, <1>2 DEF HostInv, NothingHeld
  <1>7. RightQubit'
    <2>1. CASE DirectDone(j)
      <3> DEFINE m == [job |-> j, qid |-> next[j], of |-> took[j], how |-> "direct", late |-> flag]
      <3>1. measured' = measured \cup {m}
        BY <2>1 DEF DirectDone, Push
      <3>2. m.of # m.qid => <<m.job, m.qid>> \in shared
        <4>1. took[j] # next[j] => ~Apart(j)
          BY <1>2, <2>1 DEF DirectDone, HostInv, OwnQubit
        <4> QED BY <4>1 DEF Apart
      <3> HIDE DEF m
      <3> QED BY <1>1, <3>1, <3>2 DEF HostInv, RightQubit
    <2>2. CASE DirectLost(j)
      BY <2>2 DEF DirectLost, HostInv, RightQubit
    <2> QED BY <2>1, <2>2
  <1> QED BY <1>4, <1>5, <1>6, <1>7 DEF HostInv

\* A posting that is yet to come has no thread.
NotPosted == \A j \in Job : j[2] > tries[j[1]] => at[j] = "idle"

\* Only a posting starts a thread, and it is the next one of its batch.
LEMMA NotPostedStep == LinkInv /\ NotPosted /\ [LinkNext]_linkVars => NotPosted'
  <1> SUFFICES ASSUME LinkInv, NotPosted, [LinkNext]_linkVars PROVE NotPosted'
    OBVIOUS
  <1> USE DEF taskVars, jobVars, eveVars
  <1>1. CASE UNCHANGED <<at, tries>>
    BY <1>1 DEF NotPosted
  <1>2. ASSUME NEW j \in Job, at[j] # "idle", \A k \in Job \ {j} : at'[k] = at[k], UNCHANGED tries
        PROVE  NotPosted'
    BY <1>2 DEF NotPosted
  <1>3. ASSUME NEW j \in Job, Thread(j) PROVE NotPosted'
    <2>1. /\ at[j] # "idle" /\ UNCHANGED tries
          /\ \A k \in Job \ {j} : at'[k] = at[k]
      BY <1>3 DEF Thread, BatchEnds, Arrive, Detect, Look, MeasureResent, Send, DirectDone,
                  DirectLost, GoOn, LinkInv, LinkTypeOK
    <2> QED BY <2>1, <1>2
  <1>4. ASSUME NEW b \in Batch, Post(b) \/ PostRefused(b) PROVE NotPosted'
    <2>1. tries[b] \in Nat /\ tries'[b] = tries[b] + 1 /\ \A c \in Batch \ {b} : tries'[c] = tries[c]
      BY <1>4, LinkSizes DEF Post, PostRefused, LinkInv, LinkTypeOK
    <2>2. \A j \in Job : j[1] \in Batch /\ j[2] \in Nat /\ j = <<j[1], j[2]>>
      BY LinkSizes DEF Job
    <2>3. \A j \in Job : j # <<b, tries[b] + 1>> => at'[j] = at[j]
      BY <1>4, <2>1 DEF Post, PostRefused, LinkInv, LinkTypeOK
    <2> QED BY <2>1, <2>2, <2>3 DEF NotPosted
  <1> QED BY <1>1, <1>3, <1>4
          DEF LinkNext, TaskStep, Eve, Receive, PostFails, EveOpens, EveAsks, EveHears,
              EveCollects, Verdict, Cancel, NetStops, linkVars

\* Every step keeps the order at Bob's host.
LEMMA HostStep == LinkInv /\ NotPosted /\ HostInv /\ [LinkNext]_linkVars => HostInv'
  <1> SUFFICES ASSUME LinkInv, NotPosted, HostInv, [LinkNext]_linkVars PROVE HostInv'
    OBVIOUS
  <1> USE DEF taskVars, jobVars, eveVars
  <1>1. CASE UNCHANGED <<jobVars, inbox, shared, measured>>
    BY <1>1 DEF HostInv, HostCount, AloneApart, OwnQubit, NothingHeld, RightQubit, Takers, Sent,
                Apart, AtHost
  <1>2. ASSUME NEW j \in Job, j \notin AtHost, at'[j] \notin {"receiving", "sent"},
               \A k \in Job \ {j} : at'[k] = at[k] /\ next'[k] = next[k] /\ took'[k] = took[k],
               took'[j] = Nobody, UNCHANGED <<inbox, shared>>,
               \A m \in measured' \ measured : m.of = m.qid
        PROVE  HostInv'
    <2>1. AtHost' = AtHost /\ Sent' = Sent /\ AtHost \subseteq Job
      BY <1>2 DEF AtHost, Sent
    <2>2. \A k \in Job \ AtHost : took'[k] = Nobody
      BY <1>2 DEF HostInv, NothingHeld
    <2> QED BY <1>2, <2>1, <2>2, HostFrame
  <1>3. ASSUME NEW j \in Job, GoOn(j), j \notin AtHost, UNCHANGED <<inbox, shared>>,
               \A m \in measured' \ measured : m.of = m.qid
        PROVE  HostInv'
    BY <1>2, <1>3 DEF GoOn, LinkInv, LinkTypeOK
  <1>4. ASSUME NEW j \in Job, NEW p \in {"qubit", "done", "armed", "through", "resent"},
               at' = [at EXCEPT ![j] = p], j \notin AtHost, UNCHANGED <<next, took, inbox, shared, measured>>
        PROVE  HostInv'
    BY <1>2, <1>4 DEF LinkInv, LinkTypeOK, HostInv, NothingHeld
  <1>5. ASSUME NEW b \in Batch, Post(b) PROVE HostInv'
    <2> DEFINE j == <<b, tries'[b]>>
    <2>1. tries[b] \in Nat /\ tries'[b] = tries[b] + 1 /\ j \in Job
      BY <1>5, LinkSizes DEF Post, LinkInv, LinkTypeOK, TriesLeft, Job
    <2>2. j \notin AtHost
      BY <2>1 DEF NotPosted, AtHost
    <2>3. at' = [at EXCEPT ![j] = "qubit"] /\ UNCHANGED <<next, took, inbox, shared, measured>>
      BY <1>5 DEF Post
    <2> HIDE DEF j
    <2> QED BY <1>4, <2>1, <2>2, <2>3
  <1>6. ASSUME NEW j \in Job, BatchEnds(j) PROVE HostInv'
    BY <1>4, <1>6 DEF BatchEnds, AtHost
  <1>7. ASSUME NEW j \in Job, Arrive(j) PROVE HostInv'
    BY <1>3, <1>4, <1>7 DEF Arrive, AtHost
  <1>8. ASSUME NEW j \in Job, NEW kind, Push(j, next[j], kind)
        PROVE  \A m \in measured' \ measured : m.of = m.qid
    BY <1>8 DEF Push
  <1>9. ASSUME NEW j \in Job, Detect(j) PROVE HostInv'
    <2>1. j \notin AtHost /\ UNCHANGED <<inbox, shared>>
      BY <1>9 DEF Detect, AtHost
    <2>2. CASE GoOn(j) /\ UNCHANGED measured
      BY <2>1, <2>2, <1>3
    <2>3. CASE GoOn(j) /\ Push(j, next[j], "dark")
      BY <2>1, <2>3, <1>3, <1>8
    <2>4. CASE at' = [at EXCEPT ![j] = "through"] /\ UNCHANGED <<next, took, measured>>
      BY <2>1, <2>4, <1>4
    <2> QED BY <1>9, <2>2, <2>3, <2>4 DEF Detect
  <1>10. ASSUME NEW j \in Job, Look(j) PROVE HostInv'
    <2>1. CASE at'[j] = "receiving"
      BY <1>10, <2>1, HostEnter
    <2>2. CASE at' = [at EXCEPT ![j] = "resent"] /\ UNCHANGED shared
      BY <1>4, <1>10, <2>2 DEF Look, AtHost
    <2> QED BY <1>10, <2>1, <2>2 DEF Look, LinkInv, LinkTypeOK
  <1>11. ASSUME NEW j \in Job, MeasureResent(j) PROVE HostInv'
    BY <1>3, <1>8, <1>11 DEF MeasureResent, AtHost
  <1>12. ASSUME NEW j \in Job, Send(j) \/ Receive(j) \/ DirectDone(j) \/ DirectLost(j) PROVE HostInv'
    BY <1>12, HostSend, HostReceive, HostLeave
  <1>13. CASE NetStops
    <2>1. UNCHANGED <<jobVars, measured, shared>> /\ inbox' = <<>>
      BY <1>13 DEF NetStops
    <2>2. HostCount'
      <3>1. Takers' = Takers /\ Sent' = Sent
        BY <2>1 DEF Takers, Sent, AtHost
      <3>2. Cardinality(Takers) \in Nat /\ Cardinality(Sent) \in Nat
        BY JobsFinite DEF Takers, Sent, AtHost
      <3>3. Len(inbox) \in Nat /\ Len(inbox') = 0
        BY <2>1, LenProperties, EmptySeq DEF LinkInv, LinkTypeOK
      <3> QED BY <3>1, <3>2, <3>3 DEF HostInv, HostCount
    <2>3. AloneApart' /\ OwnQubit'
      BY <2>1 DEF HostInv, AloneApart, OwnQubit, Apart, AtHost
    <2>4. NothingHeld' /\ RightQubit'
      BY <2>1 DEF HostInv, NothingHeld, RightQubit, AtHost
    <2> QED BY <2>2, <2>3, <2>4 DEF HostInv
  <1> QED BY <1>1, <1>5, <1>6, <1>7, <1>9, <1>10, <1>11, <1>12, <1>13
          DEF LinkNext, Thread, TaskStep, Eve, PostRefused, PostFails, EveOpens, EveAsks, EveHears,
              EveCollects, Verdict, Cancel, linkVars

\* A measurement that reaches Bob names the qubit it was taken from, unless two
\* receivers waited at his host at the same time.
THEOREM RightQubitCorrect == LinkSpec => []RightQubit
  <1>1. LinkInit => HostInv
    <2> SUFFICES ASSUME LinkInit PROVE HostInv
      OBVIOUS
    <2>1. AtHost = {} /\ Sent = {} /\ Takers = {}
      BY DEF LinkInit, AtHost, Sent, Takers
    <2>2. HostCount
      BY <2>1, FS_EmptySet DEF LinkInit, HostCount
    <2> QED BY <2>1, <2>2 DEF LinkInit, HostInv, AloneApart, OwnQubit, NothingHeld, RightQubit
  <1>2. HostInv => RightQubit
    BY DEF HostInv
  <1>3. LinkInit => NotPosted
    BY DEF LinkInit, NotPosted
  <1> QED BY <1>1, <1>2, <1>3, LinkInvariant, NotPostedStep, HostStep, PTL DEF LinkSpec
=============================================================================
