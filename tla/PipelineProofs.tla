--------------------------- MODULE PipelineProofs ---------------------------
(***************************************************************************)
(* Proofs about Pipeline, for any number of qubits, batches, retries and   *)
(* faults.                                                                 *)
(***************************************************************************)
EXTENDS Pipeline, SortingProofs, SequenceTheorems

-----------------------------------------------------------------------------
(***************************************************************************)
(* The invariant, in parts.  Types also says what the queues hold.         *)
(***************************************************************************)
AliceEvent == {"receiver_joined", "key_available", "session_aborted"}
BobEvent   == {"session_open", "sift_ready", "key_available", "session_aborted"}

Among(e, s) == \E i \in DOMAIN s : s[i] = e

IsNotice(t) == t = [kind |-> "NT", key |-> t.key, try |-> t.try] /\ t.try \in 1 .. NotifyTries

Types ==
    /\ status \in {"initializing", "sending", "done", "aborted"}
    /\ stored \subseteq Measurement /\ queue \in Seq(Measurement) /\ got \in Seq(Measurement)
    /\ toAlice \in Seq(AliceEvent) /\ toBob \in Seq(BobEvent) /\ sifting \in Nat
    /\ worker \in {"up", "stopping", "dead"}
    /\ bob \in {"idle", "receiving", "posting", "done"}
    /\ chord \in {"none", "waiting", "called"}
    /\ \A t \in tasks : t.kind \in {"ST", "QKT"} \/ IsNotice(t)
    /\ saved \in BOOLEAN /\ stRuns \in Nat /\ failed \subseteq {"ST", "QKT", "NT"}

\* A run of a batch has one job at most, and a batch is through only when the
\* job of its latest run is.
BatchInv ==
    /\ jobs \subseteq Job
    /\ qtt \in [Batch -> {"none", "queued", "running", "delivered", "failed"}]
    /\ tries \in [Batch -> 0 .. BatchTries]
    /\ \A b \in Batch : qtt[b] = "none" => tries[b] = 0
    /\ \A b \in Batch : qtt[b] = "queued" => tries[b] < BatchTries
    /\ \A j \in jobs : j.try <= tries[j.batch]
    /\ \A i, j \in jobs : i.batch = j.batch /\ i.try = j.try => i = j
    /\ \A j \in jobs : qtt[j.batch] = "delivered" => j.try # tries[j.batch]

\* One receiver_joined, hence one dispatch and one chord at most; nothing is
\* sifted before it calls back, and by then every batch is through.
ChordInv ==
    /\ status = "initializing" => bob = "idle" /\ toAlice = <<>> /\ dispatch = "none"
    /\ \A i \in DOMAIN toAlice : toAlice[i] = "receiver_joined" => i = 1 /\ dispatch = "none"
    /\ dispatch \in {"none", "warming", "done", "failed"} /\ (chord = "none" <=> dispatch # "done")
    /\ dispatch \in {"none", "warming"} => \A b \in Batch : qtt[b] = "none"
    /\ chord = "called" => \A b \in Batch : qtt[b] = "delivered"
    /\ chord # "called" => tasks = {} /\ sift = None

\* The hash holds Bob's list or nothing, and once it does the list is final.
StoreInv ==
    /\ stored # {} => bob = "done"
    /\ stored \in {{}, Merged({}, got)}

\* What the session can still end with: what the tasks that are queued would
\* report, and what has been published.
Derivable == {Results(t) : t \in {u \in tasks : u.kind = "QKT"}}
Derived   == {t.key : t \in {u \in tasks : u.kind = "NT"}}
Outcomes  == (UNION Derivable) \cup Derived \cup ({key} \ {None})

\* Bob has heard of the sift data, or will.
Told == sifting > 0 \/ bobKey # None \/ Among("sift_ready", toBob)

OwnKey == KeyOf(BobSifted(got, sift.ids), sift.seed)

\* Until ST runs again there is one outcome at most, and it is what Bob computes.
KeyInv ==
    /\ stRuns = 0 => Outcomes = {} /\ ~Told
    /\ stRuns <= 1 =>
           /\ \A k, l \in Outcomes : k = l
           /\ Told => bob = "done" /\ (~Repeats => \A k \in Outcomes : k # None => k = OwnKey)
           /\ bobKey # None => bobKey = OwnKey

PipeInv == Types /\ BatchInv /\ ChordInv /\ StoreInv /\ KeyInv

-----------------------------------------------------------------------------
(* Helpers. *)

\* Where a batch begins and ends.
LEMMA BatchBounds ==
    ASSUME NEW b \in Batch
    PROVE  /\ b \in Nat /\ FirstOf(b) \in 0 .. NQubits - 1
           /\ BeyondOf(b) \in 1 .. NQubits
  <1> DEFINE top == (NQubits - 1) \div BatchSize
  <1>1. NQubits \in Nat /\ NQubits >= 1 /\ BatchSize \in Nat /\ BatchSize >= 1
    BY SizeAssumption
  <1>2. top \in Int /\ BatchSize * top <= NQubits - 1 /\ b \in 0 .. top
    BY <1>1 DEF Batch
  <1> HIDE DEF top
  <1>3. b \in Nat /\ b <= top
    BY <1>2
  <1>4. b * BatchSize \in Nat /\ b * BatchSize <= BatchSize * top
    BY <1>1, <1>2, <1>3
  <1>5. BatchSize * top \in Int
    BY <1>1, <1>2
  <1>6. b * BatchSize <= NQubits - 1
    BY <1>1, <1>2, <1>4, <1>5
  <1>7. FirstOf(b) \in 0 .. NQubits - 1
    BY <1>1, <1>4, <1>6 DEF FirstOf
  <1>8. (b + 1) * BatchSize \in Nat /\ (b + 1) * BatchSize >= 1
    BY <1>1, <1>3
  <1>9. BeyondOf(b) \in 1 .. NQubits
    BY <1>1, <1>8 DEF BeyondOf
  <1> QED
    BY <1>3, <1>7, <1>9

\* What is appended to a queue of events is among them; what is taken was.
LEMMA AmongAfter ==
    ASSUME NEW S, NEW s \in Seq(S), NEW e \in S, NEW x
    PROVE  /\ Append(s, e) \in Seq(S)
           /\ Among(x, Append(s, e)) <=> Among(x, s) \/ x = e
           /\ s # <<>> => Tail(s) \in Seq(S) /\ Head(s) \in S /\ Among(Head(s), s)
           /\ s # <<>> => (Among(x, Tail(s)) => Among(x, s))
           /\ ~Among(x, <<>>)
  <1>1. Append(s, e) \in Seq(S) /\ Len(Append(s, e)) = Len(s) + 1 /\ DOMAIN Append(s, e) = 1 .. Len(s) + 1
    OBVIOUS
  <1>2. DOMAIN s = 1 .. Len(s) /\ Len(s) \in Nat
    OBVIOUS
  <1>3. \A i \in DOMAIN s : Append(s, e)[i] = s[i]
    OBVIOUS
  <1>4. Append(s, e)[Len(s) + 1] = e
    OBVIOUS
  <1>5. Among(x, Append(s, e)) <=> Among(x, s) \/ x = e
    BY <1>1, <1>2, <1>3, <1>4 DEF Among
  <1>6. s # <<>> => /\ Tail(s) \in Seq(S) /\ Head(s) = s[1] /\ 1 \in DOMAIN s /\ s[1] \in S
                    /\ \A i \in DOMAIN Tail(s) : i + 1 \in DOMAIN s /\ Tail(s)[i] = s[i + 1]
    OBVIOUS
  <1> QED
    BY <1>1, <1>5, <1>6 DEF Among

\* An upload leaves measurements in the hash.
LEMMA MergedType ==
    ASSUME NEW hash \in SUBSET Measurement, NEW list \in Seq(Measurement)
    PROVE  Merged(hash, list) \in SUBSET Measurement
  BY DEF Merged

\* What an ended task leaves in the queue.
LEMMA EndsLeaves ==
    ASSUME NEW t \in tasks, NEW next, NEW n, Ends(t, next, n)
    PROVE  tasks' \subseteq tasks \cup next
  BY DEF Ends

\* An exception that ends the dispatch or a task of the chain only takes: no
\* task, no outcome and no event is added.
LEMMA OnlyTakes ==
    ASSUME Breakdown
    PROVE  /\ UNCHANGED <<kmeVars, toAlice, toBob, held, worker, tries, qkdlVars, bobVars, chord, stRuns>>
           /\ tasks' \subseteq tasks /\ \A x \in failed' : x \in failed \/ x \in {"ST", "QKT"}
           /\ saved' = saved \/ saved' = FALSE
           /\ DispatchRaises \/ (dispatch' = dispatch /\ qtt' = qtt)
  <1>1. CASE DispatchRaises
    BY <1>1 DEF DispatchRaises, chainVars
  <1>2. ASSUME NEW t \in tasks, AssembleRaises(t)
        PROVE  /\ UNCHANGED <<kmeVars, toAlice, toBob, aliceVars, qttVars, qkdlVars, bobVars, chord, stRuns>>
               /\ tasks' \subseteq tasks /\ \A x \in failed' : x \in failed \/ x \in {"ST", "QKT"}
               /\ saved' = saved \/ saved' = FALSE
    BY <1>2 DEF AssembleRaises, Raises
  <1>3. ASSUME NEW t \in tasks, DeriveRaises(t)
        PROVE  /\ UNCHANGED <<kmeVars, toAlice, toBob, aliceVars, qttVars, qkdlVars, bobVars, chord, stRuns>>
               /\ tasks' \subseteq tasks /\ \A x \in failed' : x \in failed \/ x \in {"ST", "QKT"}
               /\ saved' = saved \/ saved' = FALSE
    BY <1>3 DEF DeriveRaises, Raises
  <1> QED
    BY <1>1, <1>2, <1>3 DEF Breakdown, aliceVars, qttVars

-----------------------------------------------------------------------------
(* The parts are kept. *)

\* Before Bob joins nothing has been sent, stored or derived.
LEMMA PipeBegins == PipeInit => PipeInv
  <1> SUFFICES ASSUME PipeInit PROVE PipeInv
    OBVIOUS
  <1> USE SizeAssumption DEF PipeInit
  <1>1. Types
    BY DEF Types, BobEvent, AliceEvent
  <1>2. BatchInv
    BY DEF BatchInv
  <1>3. ChordInv /\ StoreInv
    BY DEF ChordInv, StoreInv
  <1>4. ~Told
    BY DEF Told, Among
  <1>5. Outcomes = {}
    BY DEF Outcomes, Derivable, Derived
  <1>6. KeyInv
    BY <1>4, <1>5 DEF KeyInv, Told
  <1> QED
    BY <1>1, <1>2, <1>3, <1>6 DEF PipeInv

\* No batch has more jobs or tries than it may, step by step.
LEMMA BatchKeeps == PipeInv /\ PipeNext => BatchInv'
  <1> SUFFICES ASSUME PipeInv, PipeNext PROVE BatchInv'
    OBVIOUS
  <1>0. BatchInv /\ ChordInv /\ BatchTries \in Nat /\ BatchTries >= 1 /\ NQubits \in Nat
    BY SizeAssumption DEF PipeInv
  <1>a. ASSUME UNCHANGED <<qtt, tries, jobs>> PROVE BatchInv'
    BY <1>0, <1>a DEF BatchInv
  <1>1. CASE AliceStep /\ ~Dispatch
    <2>1. UNCHANGED <<qtt, tries, jobs>>
      BY <1>1 DEF AliceStep, AliceJoined, AliceVerdict, AlicePoll, WorkerDies, Cleanup, qttVars, qkdlVars
    <2> QED
      BY <1>a, <2>1
  <1>2. CASE BobStep \/ BobSift
    <2>1. UNCHANGED <<qtt, tries, jobs>>
      BY <1>2 DEF BobStep, BobSift, BobJoins, BobTakes, BobLeaves, BobPosts, BobVerdict, BobSiftReady, BobSifts,
                  qttVars, qkdlVars
    <2> QED
      BY <1>a, <2>1
  <1>3. CASE ChainStep
    <2>1. UNCHANGED <<qtt, tries, jobs>>
      BY <1>3 DEF ChainStep, ChordEnds, Assemble, AssembleGivesUp, Derive, Notify, qttVars, qkdlVars
    <2> QED
      BY <1>a, <2>1
  <1>4. CASE NetStops \/ Cancel
    <2>1. UNCHANGED <<qtt, tries, jobs>>
      BY <1>4 DEF NetStops, Cancel, qttVars, qkdlVars
    <2> QED
      BY <1>a, <2>1
  <1>5. CASE Dispatch
    <2>1. qtt' = [b \in Batch |-> "queued"] /\ tries' = tries /\ jobs' = jobs
      BY <1>5 DEF Dispatch, qkdlVars
    <2>2. \A b \in Batch : tries[b] = 0
      <3>1. \A b \in Batch : qtt[b] = "none"
        BY <1>0, <1>5 DEF Dispatch, ChordInv
      <3> QED
        BY <1>0, <3>1 DEF BatchInv
    <2>3. \A j \in jobs : j.batch \in Batch
      BY <1>0 DEF BatchInv, Job
    <2>4. /\ jobs' \subseteq Job /\ tries' \in [Batch -> 0 .. BatchTries]
          /\ qtt' \in [Batch -> {"none", "queued", "running", "delivered", "failed"}]
          /\ \A j \in jobs' : j.try <= tries'[j.batch]
          /\ \A i, j \in jobs' : i.batch = j.batch /\ i.try = j.try => i = j
      BY <1>0, <2>1 DEF BatchInv
    <2>5. \A b \in Batch : qtt'[b] = "queued" /\ tries'[b] < BatchTries
      BY <1>0, <2>1, <2>2
    <2> QED
      BY <2>3, <2>1, <2>4, <2>5 DEF BatchInv
  <1>6. ASSUME NEW b \in Batch, TaskStart(b)
        PROVE  BatchInv'
    <2> DEFINE n == tries[b] + 1
               j0 == [batch |-> b, try |-> n, next |-> FirstOf(b)]
    <2>1. /\ qtt[b] = "queued" /\ tries[b] \in Nat /\ tries[b] < BatchTries
          /\ tries' = [tries EXCEPT ![b] = n] /\ tries'[b] = n
          /\ \A c \in Batch : c # b => tries'[c] = tries[c]
      BY <1>0, <1>6 DEF TaskStart, BatchInv
    <2>2. /\ tries' \in [Batch -> 0 .. BatchTries]
      BY <1>0, <2>1 DEF BatchInv
    <2>3. \A j \in jobs : j.batch \in Batch /\ j.try \in Nat /\ j.try <= tries[j.batch]
      BY <1>0 DEF BatchInv, Job
    <2>4. \A j \in jobs : j.try <= tries'[j.batch] /\ (j.batch = b => j.try < n)
      BY <2>1, <2>3
    <2>5. CASE net
      <3>1. qtt' = [qtt EXCEPT ![b] = "running"] /\ jobs' = jobs \cup {j0}
        BY <1>6, <2>1, <2>5 DEF TaskStart
      <3>2. j0 \in Job /\ j0.batch = b /\ j0.try = n
        BY <1>0, <2>1, BatchBounds DEF Job
      <3> HIDE DEF j0, n
      <3>3. /\ qtt' \in [Batch -> {"none", "queued", "running", "delivered", "failed"}]
            /\ qtt'[b] = "running" /\ \A c \in Batch : c # b => qtt'[c] = qtt[c]
        BY <1>0, <3>1 DEF BatchInv
      <3>4. jobs' \subseteq Job /\ \A j \in jobs' : j.try <= tries'[j.batch]
        BY <1>0, <2>1, <2>4, <3>1, <3>2 DEF BatchInv, n
      <3>5. \A i, j \in jobs' : i.batch = j.batch /\ i.try = j.try => i = j
        BY <1>0, <2>4, <3>1, <3>2 DEF BatchInv, n
      <3>6. \A j \in jobs' : qtt'[j.batch] = "delivered" => j.try # tries'[j.batch]
        BY <1>0, <2>1, <2>3, <3>1, <3>2, <3>3 DEF BatchInv
      <3>7. \A c \in Batch : qtt'[c] = "none" => tries'[c] = 0
        BY <1>0, <2>1, <3>3 DEF BatchInv
      <3>8. \A c \in Batch : qtt'[c] = "queued" => tries'[c] < BatchTries
        BY <1>0, <2>1, <3>3 DEF BatchInv
      <3> QED
        BY <2>2, <3>3, <3>4, <3>5, <3>6, <3>7, <3>8 DEF BatchInv
    <2>6. CASE ~net
      <3>1. /\ qtt' = [qtt EXCEPT ![b] = IF n < BatchTries THEN "queued" ELSE "failed"]
            /\ jobs' = jobs
        BY <1>6, <2>1, <2>6 DEF TaskStart, RetryOrFail, MoreTries
      <3>2. /\ qtt' \in [Batch -> {"none", "queued", "running", "delivered", "failed"}]
            /\ qtt'[b] = (IF n < BatchTries THEN "queued" ELSE "failed")
            /\ \A c \in Batch : c # b => qtt'[c] = qtt[c]
        BY <1>0, <3>1 DEF BatchInv
      <3> HIDE DEF n
      <3>3. \A c \in Batch : qtt'[c] = "none" => tries'[c] = 0
        BY <1>0, <2>1, <3>2 DEF BatchInv
      <3>4. \A c \in Batch : qtt'[c] = "queued" => tries'[c] < BatchTries
        BY <1>0, <2>1, <3>2 DEF BatchInv
      <3>5. \A j \in jobs' : qtt'[j.batch] = "delivered" => j.try # tries'[j.batch]
        BY <1>0, <2>1, <2>3, <3>1, <3>2 DEF BatchInv
      <3> QED
        BY <1>0, <2>2, <2>4, <3>1, <3>2, <3>3, <3>4, <3>5 DEF BatchInv
    <2> QED
      BY <2>5, <2>6
  <1>7. ASSUME NEW b \in Batch, TaskFails(b)
        PROVE  BatchInv'
    <2>1. /\ qtt[b] = "running" /\ tries' = tries /\ jobs' = jobs
          /\ qtt' = [qtt EXCEPT ![b] = IF tries[b] < BatchTries THEN "queued" ELSE "failed"]
      BY <1>7 DEF TaskFails, RetryOrFail, MoreTries, qkdlVars
    <2>2. /\ qtt' \in [Batch -> {"none", "queued", "running", "delivered", "failed"}]
          /\ qtt'[b] = (IF tries[b] < BatchTries THEN "queued" ELSE "failed")
          /\ \A c \in Batch : c # b => qtt'[c] = qtt[c]
      BY <1>0, <2>1 DEF BatchInv
    <2>3. \A j \in jobs : j.batch \in Batch
      BY <1>0 DEF BatchInv, Job
    <2> QED
      BY <1>0, <2>1, <2>2, <2>3 DEF BatchInv
  <1>8. ASSUME NEW j \in jobs, JobQubit(j)
        PROVE  BatchInv'
    <2> DEFINE k == [j EXCEPT !.next = @ + 1]
    <2>1. jobs' = (jobs \ {j}) \cup {k} /\ qtt' = qtt /\ tries' = tries /\ j.next < BeyondOf(j.batch)
      BY <1>8 DEF JobQubit, qttVars
    <2>2. j \in Job /\ j.batch \in Batch /\ j.next \in Nat
      BY <1>0 DEF BatchInv, Job
    <2>3. BeyondOf(j.batch) \in Nat /\ BeyondOf(j.batch) <= NQubits
      BY <2>2, BatchBounds
    <2>4. k \in Job /\ k.batch = j.batch /\ k.try = j.try
      BY <1>0, <2>1, <2>2, <2>3 DEF Job
    <2> HIDE DEF k
    <2> QED
      BY <1>0, <2>1, <2>4 DEF BatchInv
  <1>9. ASSUME NEW j \in jobs, JobReply(j)
        PROVE  BatchInv'
    <2>1. /\ jobs' = jobs \ {j} /\ tries' = tries
          /\ qtt' = IF qtt[j.batch] = "running" /\ tries[j.batch] = j.try /\ worker # "dead"
                    THEN [qtt EXCEPT ![j.batch] = "delivered"] ELSE qtt
      BY <1>9 DEF JobReply
    <2>2. \A i \in jobs : i.batch \in Batch
      BY <1>0 DEF BatchInv, Job
    <2>3. CASE qtt' = qtt
      BY <1>0, <2>1, <2>3 DEF BatchInv
    <2>4. CASE tries[j.batch] = j.try /\ qtt' = [qtt EXCEPT ![j.batch] = "delivered"]
      <3>1. /\ qtt' \in [Batch -> {"none", "queued", "running", "delivered", "failed"}]
            /\ qtt'[j.batch] = "delivered"
            /\ \A c \in Batch : c # j.batch => qtt'[c] = qtt[c]
        BY <1>0, <2>2, <2>4 DEF BatchInv
      <3>2. \A i \in jobs' : i.batch = j.batch => i.try # tries[j.batch]
        BY <1>0, <2>1, <2>4 DEF BatchInv
      <3> QED
        BY <1>0, <2>1, <2>2, <3>1, <3>2 DEF BatchInv
    <2> QED
      BY <2>1, <2>3, <2>4
  <1>10. CASE Breakdown
    <2>1. CASE DispatchRaises
      <3>1. tries' = tries /\ jobs' = jobs
        BY <2>1 DEF DispatchRaises, qkdlVars
      <3>2. PICK n \in Batch : qtt' = [b \in Batch |-> IF b < n THEN "queued" ELSE "none"]
        BY <2>1 DEF DispatchRaises
      <3>3. \A b \in Batch : tries[b] = 0
        BY <1>0, <2>1 DEF DispatchRaises, ChordInv, BatchInv
      <3>4. \A b \in Batch : qtt'[b] \in {"queued", "none"}
        BY <3>2
      <3>5. qtt' \in [Batch -> {"none", "queued", "running", "delivered", "failed"}]
        BY <3>2
      <3>6. \A j \in jobs : j.batch \in Batch
        BY <1>0 DEF BatchInv, Job
      <3>7. \A j \in jobs' : qtt'[j.batch] # "delivered"
        BY <3>1, <3>4, <3>6
      <3> QED
        BY <1>0, <3>1, <3>3, <3>5, <3>7 DEF BatchInv
    <2>2. CASE ~DispatchRaises
      <3>1. UNCHANGED <<qtt, tries, jobs>>
        BY <1>10, <2>2, OnlyTakes DEF qkdlVars
      <3> QED
        BY <1>a, <3>1
    <2> QED
      BY <2>1, <2>2
  <1> QED
    BY <1>1, <1>2, <1>3, <1>4, <1>5, <1>6, <1>7, <1>8, <1>9, <1>10 DEF PipeNext

\* A notification that is tried again stays one, for the same key.
LEMMA NoticeAgain ==
    ASSUME Types, NEW t \in tasks, Notify(t)
    PROVE  /\ IsNotice(t)
           /\ \A u \in tasks' : u \in tasks \/ (IsNotice(u) /\ u.key = t.key)
  <1>1. IsNotice(t)
    BY DEF Notify, Types
  <1>2. \/ Ends(t, {}, 0)
        \/ Ends(t, IF t.try < NotifyTries THEN {[t EXCEPT !.try = @ + 1]} ELSE {}, 1)
    BY DEF Notify
  <1> DEFINE v == [t EXCEPT !.try = @ + 1]
  <1>3. \A u \in tasks' : u \in tasks \/ (t.try < NotifyTries /\ u = v)
    BY <1>2, EndsLeaves
  <1>4. t.try < NotifyTries => IsNotice(v) /\ v.key = t.key
    <2> DEFINE k == t.key
               n == t.try
    <2>1. t = [kind |-> "NT", key |-> k, try |-> n] /\ n \in 1 .. NotifyTries /\ NotifyTries \in Nat
      BY <1>1, SizeAssumption DEF IsNotice
    <2> HIDE DEF k, n
    <2>2. v = [kind |-> "NT", key |-> k, try |-> n + 1]
      BY <2>1
    <2>3. t.try = n /\ t.key = k
      BY <2>1
    <2> HIDE DEF v
    <2> QED
      BY <2>1, <2>2, <2>3 DEF IsNotice
  <1> QED
    BY <1>1, <1>3, <1>4

\* Each operation leaves every variable in its type.
LEMMA TypesKept == PipeInv /\ PipeNext => Types'
  <1> SUFFICES ASSUME PipeInv, PipeNext PROVE Types'
    OBVIOUS
  <1>0. Types /\ BatchInv /\ NotifyTries \in Nat /\ NotifyTries >= 1 /\ NQubits \in Nat /\ NQubits >= 1
    BY SizeAssumption DEF PipeInv
  <1>1. CASE AliceStep
    <2>1. CASE AliceJoined
      <3>1. toAlice' \in Seq(AliceEvent)
        BY <1>0, <2>1, AmongAfter DEF Types, AliceJoined
      <3> QED
        BY <1>0, <2>1, <3>1 DEF Types, AliceJoined, kmeVars, qttVars, qkdlVars, bobVars, chainVars
    <2>2. CASE Dispatch
      BY <1>0, <2>2 DEF Types, Dispatch, kmeVars, qkdlVars, bobVars
    <2>3. CASE AliceVerdict \/ AlicePoll
      <3>1. Cleanup
        BY <2>3 DEF AliceVerdict, AlicePoll
      <3>2. toAlice' \in Seq(AliceEvent) /\ worker' \in {"up", "stopping", "dead"}
        BY <3>1 DEF Cleanup
      <3> QED
        BY <1>0, <3>1, <3>2 DEF Types, Cleanup, kmeVars, qttVars, qkdlVars, bobVars, chainVars
    <2>4. CASE WorkerDies
      BY <1>0, <2>4 DEF Types, WorkerDies, kmeVars, qttVars, qkdlVars, bobVars, chainVars
    <2> QED
      BY <1>1, <2>1, <2>2, <2>3, <2>4 DEF AliceStep
  <1>2. CASE BobStep \/ BobSift
    <2>1. CASE BobJoins
      <3>1. toBob' \in Seq(BobEvent)
        BY <1>0, <2>1, AmongAfter DEF Types, BobJoins
      <3>2. toAlice' \in Seq(AliceEvent) /\ status' \in {"initializing", "sending", "done", "aborted"}
            /\ bob' \in {"idle", "receiving", "posting", "done"}
        <4>1. toAlice \in Seq(AliceEvent) /\ "receiver_joined" \in AliceEvent
          BY <1>0 DEF Types, AliceEvent
        <4>2. Append(toAlice, "receiver_joined") \in Seq(AliceEvent)
          BY <4>1
        <4> QED
          BY <1>0, <2>1, <4>1, <4>2 DEF Types, BobJoins
      <3> QED
        BY <1>0, <2>1, <3>1, <3>2 DEF Types, BobJoins, aliceVars, qttVars, qkdlVars, chainVars
    <2>2. CASE BobTakes
      <3>1. got' \in Seq(Measurement) /\ queue' \in Seq(Measurement)
        BY <1>0, <2>2, AmongAfter DEF Types, BobTakes
      <3> QED
        BY <1>0, <2>2, <3>1 DEF Types, BobTakes, kmeVars, aliceVars, qttVars, chainVars
    <2>3. CASE BobLeaves
      BY <1>0, <2>3 DEF Types, BobLeaves, kmeVars, aliceVars, qttVars, qkdlVars, chainVars
    <2>4. CASE BobPosts
      <3>1. Merged(stored, got) \in SUBSET Measurement
        BY <1>0, MergedType DEF Types
      <3>2. stored' \subseteq Measurement
        BY <1>0, <2>4, <3>1 DEF Types, BobPosts
      <3> QED
        BY <1>0, <2>4, <3>2 DEF Types, BobPosts, aliceVars, qttVars, qkdlVars, chainVars
    <2>5. CASE BobVerdict
      BY <1>0, <2>5 DEF Types, BobVerdict, kmeVars, aliceVars, qttVars, qkdlVars, chainVars
    <2>6. CASE BobSiftReady
      <3>1. toBob' \in Seq(BobEvent)
        BY <1>0, <2>6, AmongAfter DEF Types, BobSiftReady
      <3> QED
        BY <1>0, <2>6, <3>1 DEF Types, BobSiftReady, kmeVars, aliceVars, qttVars, qkdlVars, chainVars
    <2>7. CASE BobSifts
      BY <1>0, <2>7 DEF Types, BobSifts, kmeVars, aliceVars, qttVars, qkdlVars, chainVars
    <2> QED
      BY <1>2, <2>1, <2>2, <2>3, <2>4, <2>5, <2>6, <2>7 DEF BobStep, BobSift
  <1>3. CASE ChainStep
    <2>1. CASE ChordEnds
      BY <1>0, <2>1 DEF Types, ChordEnds, kmeVars, aliceVars, qttVars, qkdlVars, bobVars
    <2>2. ASSUME NEW t \in tasks, Assemble(t)
          PROVE  Types'
      <3>1. PICK sd \in Seed, good \in BOOLEAN :
                /\ toBob' = toBob \/ toBob' = SiftAnnounced
                /\ Ends(t, {Sifted(AliceSifted, sd, good)}, 0) \/ Ends(t, {Sifted(AliceSifted, sd, good)}, 1)
        BY <2>2 DEF Assemble
      <3>2. toBob' \in Seq(BobEvent)
        <4>1. toBob \in Seq(BobEvent) /\ "sift_ready" \in BobEvent
          BY <1>0 DEF Types, BobEvent
        <4>2. SiftAnnounced \in Seq(BobEvent)
          BY <4>1 DEF SiftAnnounced
        <4> QED
          BY <3>1, <4>1, <4>2
      <3>3. \A u \in tasks' : u \in tasks \/ u.kind = "QKT"
        BY <3>1, EndsLeaves DEF Sifted
      <3> QED
        BY <1>0, <2>2, <3>2, <3>3 DEF Types, Assemble, aliceVars, qttVars, qkdlVars, bobVars
    <2>3. ASSUME NEW t \in tasks, AssembleGivesUp(t)
          PROVE  Types'
      <3>1. \A u \in tasks' : u \in tasks \/ u.kind = "QKT"
        BY <2>3, EndsLeaves DEF AssembleGivesUp, NoSift, Sifted
      <3> QED
        BY <1>0, <2>3, <3>1 DEF Types, AssembleGivesUp, kmeVars, aliceVars, qttVars, qkdlVars, bobVars
    <2>4. ASSUME NEW t \in tasks, Derive(t)
          PROVE  Types'
      <3>1. PICK k \in Results(t) :
                saved' = (saved /\ k = None) /\ Ends(t, {[kind |-> "NT", key |-> k, try |-> 1]}, 0)
        BY <2>4 DEF Derive
      <3>2. \A u \in tasks' : u \in tasks \/ u = [kind |-> "NT", key |-> k, try |-> 1]
        BY <3>1, EndsLeaves
      <3>4. \A u \in tasks' : u \in tasks \/ IsNotice(u)
        BY <1>0, <3>2 DEF IsNotice
      <3>3. saved' \in BOOLEAN
        BY <3>1
      <3> QED
        BY <1>0, <2>4, <3>3, <3>4 DEF Types, Derive, kmeVars, aliceVars, qttVars, qkdlVars, bobVars
    <2>5. ASSUME NEW t \in tasks, Notify(t)
          PROVE  Types'
      <3>1. \A u \in tasks' : u \in tasks \/ IsNotice(u)
        BY <1>0, <2>5, NoticeAgain
      <3>2. \/ Publish(t.key)
            \/ UNCHANGED <<status, key, toAlice, toBob>>
        BY <2>5 DEF Notify
      <3>3. /\ status' \in {"initializing", "sending", "done", "aborted"}
            /\ toAlice' \in Seq(AliceEvent) /\ toBob' \in Seq(BobEvent)
        <4>1. Verdict(t.key) \in AliceEvent /\ Verdict(t.key) \in BobEvent
          BY DEF Verdict, AliceEvent, BobEvent
        <4>2. Append(toAlice, Verdict(t.key)) \in Seq(AliceEvent) /\ Append(toBob, Verdict(t.key)) \in Seq(BobEvent)
          BY <1>0, <4>1, AmongAfter DEF Types
        <4> QED
          BY <1>0, <3>2, <4>2 DEF Types, Publish
      <3> QED
        BY <1>0, <2>5, <3>1, <3>3 DEF Types, Notify, aliceVars, qttVars, qkdlVars, bobVars
    <2> QED
      BY <1>3, <2>1, <2>2, <2>3, <2>4, <2>5 DEF ChainStep
  <1>4. CASE NetStops \/ Cancel
    BY <1>0, <1>4 DEF Types, NetStops, Cancel, kmeVars, aliceVars, qttVars, qkdlVars, bobVars, chainVars
  <1>5. ASSUME NEW b \in Batch, TaskStart(b) \/ TaskFails(b)
        PROVE  Types'
    BY <1>0, <1>5 DEF Types, TaskStart, TaskFails, kmeVars, aliceVars, qkdlVars, bobVars, chainVars
  <1>6. ASSUME NEW j \in jobs, JobQubit(j)
        PROVE  Types'
    <2>1. queue' \in Seq(Measurement)
      <3>1. j.batch \in Batch /\ j.next \in Nat /\ j.next < BeyondOf(j.batch)
        BY <1>0, <1>6 DEF BatchInv, Job, JobQubit
      <3>2. j.next \in Qubit
        BY <1>0, <3>1, BatchBounds DEF Qubit
      <3>3. queue' = queue \/ \E x \in BOOLEAN : queue' = Append(queue, [qid |-> j.next, same |-> x])
        BY <1>6 DEF JobQubit
      <3>4. \A x \in BOOLEAN : [qid |-> j.next, same |-> x] \in Measurement
        BY <3>2 DEF Measurement
      <3> QED
        <4>1. queue \in Seq(Measurement)
          BY <1>0 DEF Types
        <4>2. \A m \in Measurement : Append(queue, m) \in Seq(Measurement)
          BY <4>1
        <4> QED
          BY <3>3, <3>4, <4>1, <4>2
    <2> QED
      BY <1>0, <1>6, <2>1 DEF Types, JobQubit, kmeVars, aliceVars, qttVars, bobVars, chainVars
  <1>7. ASSUME NEW j \in jobs, JobReply(j)
        PROVE  Types'
    BY <1>0, <1>7 DEF Types, JobReply, kmeVars, aliceVars, bobVars, chainVars
  <1>8. CASE Breakdown
    <2>1. /\ UNCHANGED <<kmeVars, toAlice, toBob, worker, qkdlVars, bobVars, chord, stRuns>>
          /\ tasks' \subseteq tasks /\ failed' \subseteq {"ST", "QKT", "NT"} /\ saved' \in BOOLEAN
      BY <1>0, <1>8, OnlyTakes DEF Types
    <2> QED
      BY <1>0, <2>1 DEF Types, kmeVars, qkdlVars, bobVars
  <1> QED
    BY <1>1, <1>2, <1>3, <1>4, <1>5, <1>6, <1>7, <1>8 DEF PipeNext

\* The tasks of the sifting queue follow each other, step by step.
LEMMA ChordKept == PipeInv /\ PipeNext => ChordInv'
  <1> SUFFICES ASSUME PipeInv, PipeNext PROVE ChordInv'
    OBVIOUS
  <1>0. Types /\ BatchInv /\ ChordInv
    BY DEF PipeInv
  <1>1. CASE AliceStep
    <2>1. CASE AliceJoined
      <3>1. /\ toAlice # <<>> /\ Head(toAlice) = "receiver_joined" /\ toAlice \in Seq(AliceEvent)
            /\ toAlice' = Tail(toAlice) /\ dispatch' = "warming"
            /\ UNCHANGED <<status, bob, chord, qtt, tasks, sift>>
        BY <1>0, <2>1 DEF Types, AliceJoined, kmeVars, qttVars, bobVars, chainVars
      <3>2. 1 \in DOMAIN toAlice /\ toAlice[1] = "receiver_joined"
        BY <3>1
      <3>3. dispatch = "none" /\ status # "initializing"
        BY <1>0, <3>1, <3>2 DEF ChordInv
      <3>4. \A i \in DOMAIN toAlice' : i + 1 \in DOMAIN toAlice /\ toAlice'[i] = toAlice[i + 1] /\ i + 1 # 1
        BY <3>1
      <3>5. \A i \in DOMAIN toAlice' : toAlice'[i] # "receiver_joined"
        BY <1>0, <3>4 DEF ChordInv
      <3> QED
        BY <1>0, <3>1, <3>3, <3>5 DEF ChordInv
    <2>2. CASE Dispatch
      <3>1. /\ dispatch = "warming" /\ dispatch' = "done" /\ chord' = "waiting"
            /\ UNCHANGED <<status, bob, toAlice, tasks, sift>>
        BY <2>2 DEF Dispatch, kmeVars, bobVars
      <3> QED
        BY <1>0, <3>1 DEF ChordInv
    <2>3. CASE AliceVerdict \/ AlicePoll
      <3>1. toAlice' = <<>> /\ UNCHANGED <<status, bob, dispatch, chord, qtt, tasks, sift>>
        BY <2>3 DEF AliceVerdict, AlicePoll, Cleanup, kmeVars, qttVars, bobVars, chainVars
      <3>2. DOMAIN toAlice' = {}
        BY <3>1
      <3> QED
        BY <1>0, <3>1, <3>2 DEF ChordInv
    <2>4. CASE WorkerDies
      BY <1>0, <2>4 DEF ChordInv, WorkerDies, kmeVars, qttVars, bobVars, chainVars
    <2> QED
      BY <1>1, <2>1, <2>2, <2>3, <2>4 DEF AliceStep
  <1>2. CASE BobStep \/ BobSift
    <2>1. CASE BobJoins
      <3>1. UNCHANGED <<dispatch, chord, qtt, tasks, sift>>
        BY <2>1 DEF BobJoins, aliceVars, qttVars, chainVars
      <3>2. CASE status = "initializing"
        <4>1. toAlice = <<>> /\ dispatch = "none" /\ status' = "sending"
              /\ toAlice' = Append(toAlice, "receiver_joined")
          BY <1>0, <2>1, <3>2 DEF BobJoins, ChordInv
        <4>2. DOMAIN toAlice' = {1}
          BY <4>1
        <4> QED
          BY <1>0, <3>1, <4>1, <4>2 DEF ChordInv
      <3>3. CASE status # "initializing"
        <4>1. UNCHANGED <<status, toAlice, bob>>
          BY <2>1, <3>3 DEF BobJoins
        <4> QED
          BY <1>0, <3>1, <4>1 DEF ChordInv
      <3> QED
        BY <3>2, <3>3
    <2>2. CASE BobTakes \/ BobLeaves \/ BobPosts
      <3>1. bob # "idle" /\ UNCHANGED <<status, toAlice, dispatch, chord, qtt, tasks, sift>>
        BY <2>2 DEF BobTakes, BobLeaves, BobPosts, kmeVars, aliceVars, qttVars, chainVars
      <3> QED
        BY <1>0, <3>1 DEF ChordInv
    <2>3. CASE BobVerdict \/ BobSift
      <3>1. UNCHANGED <<status, bob, toAlice, dispatch, chord, qtt, tasks, sift>>
        BY <2>3 DEF BobVerdict, BobSift, BobSiftReady, BobSifts, kmeVars, aliceVars, qttVars, chainVars
      <3> QED
        BY <1>0, <3>1 DEF ChordInv
    <2> QED
      BY <1>2, <2>1, <2>2, <2>3 DEF BobStep
  <1>3. CASE ChainStep
    <2>1. CASE ChordEnds
      <3>1. /\ chord = "waiting" /\ chord' = "called" /\ \A b \in Batch : qtt[b] = "delivered"
            /\ UNCHANGED <<status, bob, toAlice, dispatch, qtt, sift>>
        BY <2>1 DEF ChordEnds, BatchesEnded, kmeVars, aliceVars, qttVars, bobVars
      <3> QED
        BY <1>0, <3>1 DEF ChordInv
    <2>2. ASSUME NEW t \in tasks, Assemble(t) \/ AssembleGivesUp(t) \/ Derive(t) \/ Notify(t)
          PROVE  ChordInv'
      <3>1. chord = "called" /\ dispatch = "done" /\ status # "initializing"
        BY <1>0, <2>2 DEF ChordInv
      <3>2. UNCHANGED <<bob, dispatch, chord, qtt>>
        BY <2>2 DEF Assemble, AssembleGivesUp, Derive, Notify, aliceVars, qttVars, bobVars
      <3>3. \A i \in DOMAIN toAlice : toAlice[i] # "receiver_joined"
        BY <1>0, <3>1 DEF ChordInv
      <3>4. CASE ~Notify(t)
        <4>1. UNCHANGED <<status, toAlice>>
          BY <2>2, <3>4 DEF Assemble, AssembleGivesUp, Derive, kmeVars
        <4> QED
          BY <1>0, <3>1, <3>2, <4>1 DEF ChordInv
      <3>5. CASE Notify(t)
        <4>1. \/ UNCHANGED <<status, toAlice>>
              \/ status' \in {"done", "aborted"} /\ toAlice' \in {toAlice, Append(toAlice, Verdict(t.key))}
          BY <3>5 DEF Notify, Publish
        <4>2. Verdict(t.key) # "receiver_joined" /\ Verdict(t.key) \in AliceEvent /\ toAlice \in Seq(AliceEvent)
          BY <1>0 DEF Verdict, Types, AliceEvent
        <4>3. ~Among("receiver_joined", toAlice')
          <5>1. ~Among("receiver_joined", toAlice)
            BY <3>3 DEF Among
          <5>2. ~Among("receiver_joined", Append(toAlice, Verdict(t.key)))
            BY <4>2, <5>1, AmongAfter
          <5> QED
            BY <4>1, <5>1, <5>2
        <4>4. \A i \in DOMAIN toAlice' : toAlice'[i] # "receiver_joined"
          BY <4>3 DEF Among
        <4>5. status' # "initializing"
          BY <3>1, <4>1
        <4> QED
          BY <1>0, <3>1, <3>2, <4>4, <4>5 DEF ChordInv
      <3> QED
        BY <3>4, <3>5
    <2> QED
      BY <1>3, <2>1, <2>2 DEF ChainStep
  <1>4. CASE NetStops \/ Cancel
    <2>1. /\ status' \in {status, "aborted"}
          /\ UNCHANGED <<bob, toAlice, dispatch, chord, qtt, tasks, sift>>
      BY <1>4 DEF NetStops, Cancel, kmeVars, aliceVars, qttVars, bobVars, chainVars
    <2> QED
      BY <1>0, <2>1 DEF ChordInv
  <1>5. ASSUME NEW b \in Batch, TaskStart(b) \/ TaskFails(b)
        PROVE  ChordInv'
    <2>1. /\ qtt[b] \in {"queued", "running"}
          /\ UNCHANGED <<status, bob, toAlice, dispatch, chord, tasks, sift>>
      BY <1>5 DEF TaskStart, TaskFails, kmeVars, aliceVars, bobVars, chainVars
    <2>2. dispatch \notin {"none", "warming"} /\ chord # "called"
      BY <1>0, <2>1 DEF ChordInv
    <2> QED
      BY <1>0, <2>1, <2>2 DEF ChordInv
  <1>6. ASSUME NEW j \in jobs, JobQubit(j) \/ JobReply(j)
        PROVE  ChordInv'
    <2>1. /\ qtt' = qtt \/ qtt[j.batch] = "running"
          /\ UNCHANGED <<status, bob, toAlice, dispatch, chord, tasks, sift>>
      BY <1>6 DEF JobQubit, JobReply, kmeVars, aliceVars, qttVars, bobVars, chainVars
    <2>2. j.batch \in Batch
      BY <1>0 DEF BatchInv, Job
    <2>3. qtt' = qtt \/ (dispatch \notin {"none", "warming"} /\ chord # "called")
      BY <1>0, <2>1, <2>2 DEF ChordInv
    <2> QED
      BY <1>0, <2>1, <2>3 DEF ChordInv
  <1>7. CASE Breakdown
    <2>1. UNCHANGED <<status, sift, bob, toAlice, chord>> /\ tasks' \subseteq tasks
      BY <1>7, OnlyTakes DEF kmeVars, bobVars
    <2>2. CASE DispatchRaises
      <3>1. dispatch = "warming" /\ dispatch' = "failed"
        BY <2>2 DEF DispatchRaises
      <3> QED
        BY <1>0, <2>1, <3>1 DEF ChordInv
    <2>3. CASE ~DispatchRaises
      <3>1. dispatch' = dispatch /\ qtt' = qtt
        BY <1>7, <2>3, OnlyTakes
      <3> QED
        BY <1>0, <2>1, <3>1 DEF ChordInv
    <2> QED
      BY <2>2, <2>3
  <1> QED
    BY <1>1, <1>2, <1>3, <1>4, <1>5, <1>6, <1>7 DEF PipeNext

\* What Bob holds, what the KME holds and what still waits keep together.
LEMMA StoreKept == PipeInv /\ PipeNext => StoreInv'
  <1> SUFFICES ASSUME PipeInv, PipeNext PROVE StoreInv'
    OBVIOUS
  <1>0. StoreInv /\ ChordInv
    BY DEF PipeInv
  <1>1. CASE BobPosts
    <2>1. bob = "posting" /\ bob' = "done" /\ got' = got /\ stored' \in {stored, Merged(stored, got)}
      BY <1>1 DEF BobPosts
    <2>2. stored = {}
      BY <1>0, <2>1 DEF StoreInv
    <2> QED
      BY <2>1, <2>2 DEF StoreInv
  <1>2. CASE BobTakes \/ BobLeaves
    <2>1. bob = "receiving" /\ stored' = stored
      BY <1>2 DEF BobTakes, BobLeaves, kmeVars
    <2>2. stored = {}
      BY <1>0, <2>1 DEF StoreInv
    <2> QED
      BY <2>1, <2>2 DEF StoreInv
  <1>3. CASE BobJoins
    <2>1. stored' = stored /\ got' = got /\ (bob' = bob \/ status = "initializing")
      BY <1>3 DEF BobJoins
    <2>2. status = "initializing" => stored = {}
      BY <1>0 DEF StoreInv, ChordInv
    <2> QED
      BY <1>0, <2>1, <2>2 DEF StoreInv
  <1>4. CASE UNCHANGED <<stored, got, bob>>
    BY <1>0, <1>4 DEF StoreInv
  <1>5. AliceStep \/ NetStops \/ Cancel => UNCHANGED <<stored, got, bob>>
    BY DEF AliceStep, AliceJoined, Dispatch, AliceVerdict, AlicePoll, Cleanup, WorkerDies, NetStops, Cancel,
           kmeVars, bobVars
  <1>6. BobVerdict \/ BobSift => UNCHANGED <<stored, got, bob>>
    BY DEF BobVerdict, BobSift, BobSiftReady, BobSifts, kmeVars
  <1>7. ChainStep => UNCHANGED <<stored, got, bob>>
    BY DEF ChainStep, ChordEnds, Assemble, AssembleGivesUp, Derive, Notify, kmeVars, bobVars
  <1>8. \A b \in Batch : TaskStart(b) \/ TaskFails(b) => UNCHANGED <<stored, got, bob>>
    BY DEF TaskStart, TaskFails, kmeVars, bobVars
  <1>9. \A j \in jobs : JobQubit(j) \/ JobReply(j) => UNCHANGED <<stored, got, bob>>
    BY DEF JobQubit, JobReply, kmeVars, bobVars
  <1>10. Breakdown => UNCHANGED <<stored, got, bob>>
    BY OnlyTakes DEF kmeVars, bobVars
  <1> QED
    BY <1>1, <1>2, <1>3, <1>4, <1>5, <1>6, <1>7, <1>8, <1>9, <1>10 DEF PipeNext, BobStep

-----------------------------------------------------------------------------
(* Both sides sift the same. *)

\* When no qubit is in Bob's list twice, sifting his list and sifting the hash
\* that it was uploaded to give the same ids in the same order
\* (assemble_and_sift_task, _do_local_sift).
LEMMA BothSiftTheSame ==
    ASSUME got \in Seq(Measurement), ~Repeats, stored = Merged({}, got)
    PROVE  AliceSifted = BobSifted(got, {m.qid : m \in stored})
  <1> DEFINE ids == {m.qid : m \in stored}
             kept == {i \in DOMAIN got : got[i].same /\ got[i].qid \in ids}
             f == [i \in kept |-> got[i].qid]
  <1>1. DOMAIN got = 1 .. Len(got) /\ Len(got) \in Nat
    OBVIOUS
  <1>2. \A i \in DOMAIN got : got[i] \in Measurement /\ got[i].qid \in Qubit
    <2>1. \A i \in DOMAIN got : got[i] \in Measurement
      OBVIOUS
    <2> QED
      BY <2>1 DEF Measurement
  <1>3. \A i, j \in DOMAIN got : got[i].qid = got[j].qid => i = j
    <2> SUFFICES ASSUME NEW i \in DOMAIN got, NEW j \in DOMAIN got, got[i].qid = got[j].qid, i # j
                 PROVE  FALSE
      OBVIOUS
    <2>1. i < j \/ j < i
      BY <1>1
    <2> QED
      BY <2>1 DEF Repeats
  <1>4. stored = {got[i] : i \in DOMAIN got}
    <2>1. \A i \in DOMAIN got : \A k \in DOMAIN got : k > i => got[k].qid # got[i].qid
      BY <1>1, <1>3
    <2>2. {i \in DOMAIN got : \A k \in DOMAIN got : k > i => got[k].qid # got[i].qid} = DOMAIN got
      BY <2>1
    <2> QED
      BY <2>2 DEF Merged
  <1>5. kept = {i \in DOMAIN got : got[i].same}
    BY <1>4
  <1>6. IsFiniteSet(kept) /\ kept \subseteq Int
    <2>1. IsFiniteSet(1 .. Len(got))
      BY <1>1, FS_Interval
    <2>2. kept \in SUBSET (1 .. Len(got))
      BY <1>1
    <2>3. kept \subseteq Int
      BY <2>2
    <2> HIDE DEF kept
    <2>4. IsFiniteSet(kept)
      BY <2>1, <2>2, FS_Subset
    <2> QED
      BY <2>3, <2>4
  <1>7. Qubit \subseteq Int
    BY DEF Qubit
  <1> HIDE DEF kept, ids
  <1>8. DOMAIN f = kept /\ \A i \in kept : f[i] = got[i].qid /\ i \in DOMAIN got
    BY <1>5
  <1>9. Sortable(f)
    BY <1>2, <1>6, <1>7, <1>8 DEF Sortable
  <1>10. \A i, j \in DOMAIN f : f[i] = f[j] => i = j
    BY <1>3, <1>8
  <1> HIDE DEF f
  <1>11. Sorted(f) = Increasing({f[i] : i \in DOMAIN f})
    BY <1>9, <1>10, SortedDistinct
  <1>12. {f[i] : i \in DOMAIN f} = {m.qid : m \in {n \in stored : n.same}}
    BY <1>4, <1>5, <1>8
  <1>13. BobSifted(got, ids) = Sorted(f)
    BY DEF BobSifted, f, kept
  <1>14. AliceSifted = Increasing({f[i] : i \in DOMAIN f})
    BY <1>12 DEF AliceSifted
  <1> QED
    BY <1>11, <1>13, <1>14 DEF ids

\* What the queued tasks would report and what was published are outcomes.
LEMMA OutcomeOf ==
    /\ \A t \in tasks : t.kind = "QKT" => Results(t) \subseteq Outcomes
    /\ \A t \in tasks : t.kind = "NT" => t.key \in Outcomes
    /\ key # None => key \in Outcomes
  <1>1. ASSUME NEW t \in tasks, t.kind = "QKT"
        PROVE  Results(t) \subseteq Outcomes
    <2>1. Results(t) \in Derivable
      BY <1>1 DEF Derivable
    <2>2. Results(t) \subseteq UNION Derivable
      BY <2>1
    <2> QED
      BY <2>2 DEF Outcomes
  <1>2. ASSUME NEW t \in tasks, t.kind = "NT"
        PROVE  t.key \in Outcomes
    <2>1. t.key \in Derived
      BY <1>2 DEF Derived
    <2> QED
      BY <2>1 DEF Outcomes
  <1>3. key # None => key \in Outcomes
    BY DEF Outcomes
  <1> QED
    BY <1>1, <1>2, <1>3

\* Nothing else is an outcome after a step.
LEMMA OutcomesIn ==
    ASSUME NEW S,
           \A t \in tasks' : t.kind = "QKT" => Results(t) \subseteq S,
           \A t \in tasks' : t.kind = "NT" => t.key \in S,
           key' = None \/ key' \in S
    PROVE  Outcomes' \subseteq S
  <1> SUFFICES ASSUME NEW k \in Outcomes' PROVE k \in S
    OBVIOUS
  <1>1. k \in UNION Derivable' \/ k \in Derived' \/ (k = key' /\ k # None)
    BY DEF Outcomes
  <1>2. CASE k \in UNION Derivable'
    <2>1. PICK R \in Derivable' : k \in R
      BY <1>2
    <2>2. PICK t \in tasks' : t.kind = "QKT" /\ R = Results(t)
      BY DEF Derivable
    <2>3. Results(t) \subseteq S
      BY <2>2
    <2> QED
      BY <2>1, <2>2, <2>3
  <1>3. CASE k \in Derived'
    <2>1. PICK t \in tasks' : t.kind = "NT" /\ k = t.key
      BY <1>3 DEF Derived
    <2> QED
      BY <2>1
  <1> QED
    BY <1>1, <1>2, <1>3

\* A step that adds no outcome and leaves the sift data, and Bob's list once it
\* is final, keeps the invariant.
LEMMA KeyFrame ==
    ASSUME KeyInv, Outcomes' \subseteq Outcomes, UNCHANGED <<stRuns, sift>>,
           Told' => Told,
           bob = "done" => bob' = "done" /\ got' = got,
           bobKey' = bobKey \/ (Told /\ bobKey' = OwnKey)
    PROVE  KeyInv'
  <1>1. stRuns' = stRuns /\ sift' = sift
    OBVIOUS
  <1>2. Told => bob = "done" \/ ~(stRuns <= 1)
    BY DEF KeyInv
  <1>3. bob = "done" => OwnKey' = OwnKey /\ (Repeats' <=> Repeats)
    BY <1>1 DEF OwnKey, Repeats
  <1>4. stRuns' = 0 => Outcomes' = {} /\ ~Told'
    BY <1>1 DEF KeyInv
  <1>5. ASSUME stRuns <= 1
        PROVE  /\ \A k, l \in Outcomes' : k = l
               /\ Told' => bob' = "done" /\ (~Repeats' => \A k \in Outcomes' : k # None => k = OwnKey')
    BY <1>2, <1>3, <1>5 DEF KeyInv
  <1>6. ASSUME stRuns <= 1, bobKey' # None
        PROVE  bobKey' = OwnKey'
    <2>1. Told
      BY <1>6 DEF Told
    <2>2. OwnKey' = OwnKey
      BY <1>2, <1>3, <1>6, <2>1
    <2> QED
      BY <1>6, <2>2 DEF KeyInv
  <1> QED
    BY <1>1, <1>4, <1>5, <1>6 DEF KeyInv

\* ST draws a seed, and with it settles what the session ends with: if the hash
\* is uploaded Bob computes the same from it.
LEMMA SiftSettles ==
    ASSUME PipeInv, NEW t \in tasks, Assemble(t) \/ AssembleGivesUp(t)
    PROVE  KeyInv'
  <1>0. KeyInv /\ StoreInv /\ Types /\ stRuns \in Nat
    BY DEF PipeInv, Types
  <1>1. /\ stRuns' = stRuns + 1 /\ key' = key /\ got' = got /\ bob' = bob
        /\ bobKey' = bobKey /\ sifting' = sifting
    BY DEF Assemble, AssembleGivesUp, kmeVars, bobVars
  <1>2. CASE stRuns > 0
    <2>1. ~(stRuns' <= 1) /\ stRuns' # 0
      BY <1>0, <1>1, <1>2
    <2> QED
      BY <2>1 DEF KeyInv
  <1>3. CASE stRuns = 0
    <2>1. Outcomes = {} /\ ~Told /\ stRuns' # 0
      BY <1>0, <1>1, <1>3 DEF KeyInv
    <2>2. PICK sd, good, ids :
              /\ tasks' \subseteq tasks \cup {Sifted(ids, sd, good)}
              /\ \/ UNCHANGED <<sift, toBob>>
                 \/ /\ stored # {} /\ ids = AliceSifted
                    /\ sift' = [ids |-> {m.qid : m \in stored}, seed |-> sd]
      <3>1. CASE Assemble(t)
        <4>1. PICK sd \in Seed, good \in BOOLEAN :
                  /\ Ends(t, {Sifted(AliceSifted, sd, good)}, 0) \/ Ends(t, {Sifted(AliceSifted, sd, good)}, 1)
                  /\ \/ UNCHANGED <<sift, toBob>>
                     \/ sift' = [ids |-> {m.qid : m \in stored}, seed |-> sd]
          BY <3>1 DEF Assemble
        <4>2. tasks' \subseteq tasks \cup {Sifted(AliceSifted, sd, good)}
          BY <4>1, EndsLeaves
        <4>3. stored # {}
          BY <3>1 DEF Assemble
        <4> QED
          BY <4>1, <4>2, <4>3
      <3>2. CASE AssembleGivesUp(t)
        <4>1. tasks' \subseteq tasks \cup {Sifted(<<>>, 0, FALSE)}
          BY <3>2, EndsLeaves DEF AssembleGivesUp, NoSift
        <4>2. UNCHANGED <<sift, toBob>>
          BY <3>2 DEF AssembleGivesUp, kmeVars
        <4> QED
          BY <4>1, <4>2
      <3> QED
        BY <3>1, <3>2
    <2> DEFINE new == Sifted(ids, sd, good)
    <2>3. Results(new) \subseteq {KeyOf(ids, sd), None} /\ new.kind = "QKT"
          /\ \A k, l \in Results(new) : k = l
      BY DEF Results, Sifted
    <2>4. bobKey = None /\ ~Among("sift_ready", toBob) /\ ~(sifting > 0) /\ key = None
      BY <2>1, OutcomeOf DEF Told
    <2> HIDE DEF new
    <2>5. \A u \in tasks' : u \in tasks \/ u = new
      BY <2>2 DEF new
    <2>6. Outcomes' \subseteq Results(new)
      <3>1. \A u \in tasks : u.kind = "QKT" => Results(u) = {}
        BY <2>1, OutcomeOf
      <3>2. \A u \in tasks : u.kind # "NT"
        BY <2>1, OutcomeOf
      <3>3. \A u \in tasks' : u.kind = "QKT" => Results(u) \subseteq Results(new)
        BY <2>5, <3>1
      <3>4. \A u \in tasks' : u.kind # "NT"
        BY <2>3, <2>5, <3>2
      <3>5. key' = None
        BY <1>1, <2>4
      <3> QED
        BY <3>3, <3>4, <3>5, OutcomesIn
    <2>7. CASE UNCHANGED <<sift, toBob>>
      <3>1. ~Told' /\ bobKey' = None
        BY <1>1, <2>4, <2>7 DEF Told
      <3> QED
        BY <2>1, <2>3, <2>6, <3>1 DEF KeyInv
    <2>8. CASE /\ stored # {} /\ ids = AliceSifted
               /\ sift' = [ids |-> {m.qid : m \in stored}, seed |-> sd]
      <3>1. bob = "done" /\ stored = Merged({}, got)
        BY <1>0, <2>8 DEF StoreInv
      <3>2. OwnKey' = KeyOf(BobSifted(got, {m.qid : m \in stored}), sd)
        BY <1>1, <2>8 DEF OwnKey
      <3>3. ~Repeats' => ids = BobSifted(got, {m.qid : m \in stored})
        <4>1. Repeats' <=> Repeats
          BY <1>1 DEF Repeats
        <4>2. got \in Seq(Measurement)
          BY <1>0 DEF Types
        <4> QED
          BY <2>8, <3>1, <4>1, <4>2, BothSiftTheSame
      <3>4. ~Repeats' => \A k \in Outcomes' : k # None => k = OwnKey'
        BY <2>3, <2>6, <3>2, <3>3
      <3>5. bobKey' = None /\ bob' = "done"
        BY <1>1, <2>4, <3>1
      <3>6. \A k, l \in Outcomes' : k = l
        BY <2>3, <2>6
      <3> QED
        BY <2>1, <3>4, <3>5, <3>6 DEF KeyInv
    <2> QED
      BY <2>2, <2>7, <2>8
  <1> QED
    BY <1>0, <1>2, <1>3

\* The keys of the two sides keep to the sift they come from.
LEMMA KeyKept == PipeInv /\ PipeNext => KeyInv'
  <1> SUFFICES ASSUME PipeInv, PipeNext PROVE KeyInv'
    OBVIOUS
  <1>0. KeyInv /\ Types /\ StoreInv /\ ChordInv
    BY DEF PipeInv
  <1>a. ASSUME UNCHANGED <<tasks, key, stRuns, sift, got, bob, bobKey, sifting, toBob>>
        PROVE  KeyInv'
    <2>1. Outcomes' = Outcomes /\ Told' = Told
      BY <1>a DEF Outcomes, Derivable, Derived, Told, Among
    <2> QED
      BY <1>0, <1>a, <2>1, KeyFrame
  <1>b. ASSUME UNCHANGED <<tasks, key, stRuns, sift>>, Told' => Told,
               bob = "done" => bob' = "done" /\ got' = got,
               bobKey' = bobKey \/ (Told /\ bobKey' = OwnKey)
        PROVE  KeyInv'
    <2>1. Outcomes' = Outcomes
      BY <1>b DEF Outcomes, Derivable, Derived
    <2> QED
      BY <1>0, <1>b, <2>1, KeyFrame
  <1>1. CASE AliceStep \/ NetStops \/ Cancel
    <2>1. UNCHANGED <<tasks, key, stRuns, sift, got, bob, bobKey, sifting, toBob>>
      BY <1>1 DEF AliceStep, AliceJoined, Dispatch, AliceVerdict, AlicePoll, Cleanup, WorkerDies, NetStops, Cancel,
                  kmeVars, bobVars, chainVars
    <2> QED
      BY <1>a, <2>1
  <1>2. CASE BobStep \/ BobSift
    <2>0. /\ UNCHANGED <<tasks, key, stRuns, sift>>
          /\ toBob \in Seq(BobEvent)
      BY <1>0, <1>2 DEF Types, BobStep, BobSift, BobJoins, BobTakes, BobLeaves, BobPosts, BobVerdict, BobSiftReady,
                        BobSifts, kmeVars, chainVars
    <2>1. CASE BobJoins
      <3>1. toBob # <<>> /\ toBob' = Tail(toBob) /\ UNCHANGED <<got, bobKey, sifting>>
            /\ (bob' = bob \/ status = "initializing")
        BY <2>1 DEF BobJoins
      <3>2. Told' => Told
        BY <2>0, <3>1, AmongAfter DEF Told
      <3>3. status = "initializing" => bob = "idle"
        BY <1>0 DEF ChordInv
      <3> QED
        BY <1>b, <2>0, <3>1, <3>2, <3>3
    <2>2. CASE BobTakes \/ BobLeaves \/ BobPosts
      <3>1. bob # "done" /\ UNCHANGED <<toBob, bobKey, sifting>>
        BY <2>2 DEF BobTakes, BobLeaves, BobPosts
      <3>2. Told' => Told
        BY <3>1 DEF Told, Among
      <3> QED
        BY <1>b, <2>0, <3>1, <3>2
    <2>3. CASE BobVerdict
      <3>1. toBob' = <<>> /\ UNCHANGED <<bob, got, bobKey, sifting>>
        BY <2>3 DEF BobVerdict
      <3>2. Told' => Told
        BY <3>1 DEF Told, Among
      <3> QED
        BY <1>b, <2>0, <3>1, <3>2
    <2>4. CASE BobSiftReady
      <3>1. toBob # <<>> /\ Head(toBob) = "sift_ready" /\ UNCHANGED <<bob, got, bobKey>>
        BY <2>4 DEF BobSiftReady
      <3>2. Told
        BY <2>0, <3>1, AmongAfter DEF Told
      <3> QED
        BY <1>b, <2>0, <3>1, <3>2
    <2>5. CASE BobSifts
      <3>1. sifting > 0 /\ UNCHANGED <<bob, got, toBob>> /\ (bobKey' = bobKey \/ bobKey' = OwnKey)
        BY <2>5 DEF BobSifts, OwnKey
      <3>2. Told
        BY <3>1 DEF Told
      <3> QED
        BY <1>b, <2>0, <3>1, <3>2
    <2> QED
      BY <1>2, <2>1, <2>2, <2>3, <2>4, <2>5 DEF BobStep, BobSift
  <1>3. CASE ChainStep
    <2>1. CASE ChordEnds
      <3>1. /\ tasks' = {[kind |-> "ST"]}
            /\ UNCHANGED <<key, stRuns, sift, got, bob, bobKey, sifting, toBob>>
        BY <2>1 DEF ChordEnds, kmeVars, bobVars
      <3>2. Told' = Told
        BY <3>1 DEF Told, Among
      <3>3. Outcomes' \subseteq Outcomes
        BY <3>1, OutcomeOf, OutcomesIn
      <3> QED
        BY <1>0, <3>1, <3>2, <3>3, KeyFrame
    <2>2. ASSUME NEW t \in tasks, Derive(t)
          PROVE  KeyInv'
      <3>1. /\ t.kind = "QKT"
            /\ UNCHANGED <<key, stRuns, sift, got, bob, bobKey, sifting, toBob>>
        BY <2>2 DEF Derive, kmeVars, bobVars
      <3>2. PICK k \in Results(t) : Ends(t, {[kind |-> "NT", key |-> k, try |-> 1]}, 0)
        BY <2>2 DEF Derive
      <3>3. \A u \in tasks' : u \in tasks \/ u = [kind |-> "NT", key |-> k, try |-> 1]
        BY <3>2, EndsLeaves
      <3>4. k \in Outcomes
        BY <3>1, OutcomeOf
      <3>5. Outcomes' \subseteq Outcomes
        <4>1. \A u \in tasks' : u.kind = "QKT" => u \in tasks
          BY <3>3
        <4>2. \A u \in tasks' : u.kind = "NT" => u.key = k \/ u \in tasks
          BY <3>3
        <4> QED
          BY <3>1, <3>4, <4>1, <4>2, OutcomeOf, OutcomesIn
      <3>6. Told' = Told
        BY <3>1 DEF Told, Among
      <3> QED
        BY <1>0, <3>1, <3>5, <3>6, KeyFrame
    <2>3. ASSUME NEW t \in tasks, Notify(t)
          PROVE  KeyInv'
      <3>1. /\ t.kind = "NT"
            /\ UNCHANGED <<stRuns, sift, got, bob, bobKey, sifting>>
            /\ \/ key' = key /\ toBob' = toBob
               \/ key' = t.key /\ toBob' \in {toBob, Append(toBob, Verdict(t.key))}
        BY <2>3 DEF Notify, Publish, aliceVars, bobVars
      <3>2. \A u \in tasks' : u \in tasks \/ (IsNotice(u) /\ u.key = t.key)
        BY <1>0, <2>3, NoticeAgain
      <3>3. t.key \in Outcomes
        BY <3>1, OutcomeOf
      <3>4. Outcomes' \subseteq Outcomes
        <4>1. \A u \in tasks' : u.kind = "QKT" => u \in tasks
          BY <3>2 DEF IsNotice
        <4>2. \A u \in tasks' : u.kind = "NT" => u.key = t.key \/ u \in tasks
          BY <3>2
        <4>3. key' = key \/ key' = t.key
          BY <3>1
        <4> QED
          BY <3>3, <4>1, <4>2, <4>3, OutcomeOf, OutcomesIn
      <3>5. Told' => Told
        <4>1. toBob \in Seq(BobEvent) /\ Verdict(t.key) \in BobEvent /\ Verdict(t.key) # "sift_ready"
          BY <1>0 DEF Types, BobEvent, Verdict
        <4>2. Among("sift_ready", Append(toBob, Verdict(t.key))) => Among("sift_ready", toBob)
          BY <4>1, AmongAfter
        <4>3. Among("sift_ready", toBob') => Among("sift_ready", toBob)
          BY <3>1, <4>2
        <4> QED
          BY <3>1, <4>3 DEF Told
      <3> QED
        BY <1>0, <3>1, <3>4, <3>5, KeyFrame
    <2> QED
      BY <1>3, <2>1, <2>2, <2>3, SiftSettles DEF ChainStep
  <1>4. ASSUME NEW b \in Batch, TaskStart(b) \/ TaskFails(b)
        PROVE  KeyInv'
    <2>1. UNCHANGED <<tasks, key, stRuns, sift, got, bob, bobKey, sifting, toBob>>
      BY <1>4 DEF TaskStart, TaskFails, kmeVars, bobVars, chainVars
    <2> QED
      BY <1>a, <2>1
  <1>5. ASSUME NEW j \in jobs, JobQubit(j) \/ JobReply(j)
        PROVE  KeyInv'
    <2>1. UNCHANGED <<tasks, key, stRuns, sift, got, bob, bobKey, sifting, toBob>>
      BY <1>5 DEF JobQubit, JobReply, kmeVars, bobVars, chainVars
    <2> QED
      BY <1>a, <2>1
  <1>6. CASE Breakdown
    <2>1. /\ tasks' \subseteq tasks
          /\ UNCHANGED <<key, stRuns, sift, got, bob, bobKey, sifting, toBob>>
      BY <1>6, OnlyTakes DEF kmeVars, bobVars
    <2>2. Told' = Told
      BY <2>1 DEF Told, Among
    <2>3. Outcomes' \subseteq Outcomes
      <3>1. /\ \A t \in tasks' : t.kind = "QKT" => Results(t) \subseteq Outcomes
            /\ \A t \in tasks' : t.kind = "NT" => t.key \in Outcomes
            /\ key' = None \/ key' \in Outcomes
        BY <2>1, OutcomeOf
      <3> QED
        BY <3>1, OutcomesIn
    <2> QED
      BY <1>0, <2>1, <2>2, <2>3, KeyFrame
  <1> QED
    BY <1>1, <1>2, <1>3, <1>4, <1>5, <1>6 DEF PipeNext

-----------------------------------------------------------------------------
(* The results. *)

\* The invariant holds in every state, for any sizes, retries and faults.
THEOREM PipeInvariant == PipeSpec => []PipeInv
  <1>1. PipeInv /\ [PipeNext]_pipeVars => PipeInv'
    <2> SUFFICES ASSUME PipeInv, [PipeNext]_pipeVars PROVE PipeInv'
      OBVIOUS
    <2>1. CASE UNCHANGED pipeVars
      <3> USE <2>1 DEF PipeInv, pipeVars, kmeVars, aliceVars, qttVars, qkdlVars, bobVars, chainVars
      <3>1. Types'
        BY DEF Types
      <3>2. BatchInv'
        BY DEF BatchInv
      <3>3. ChordInv'
        BY DEF ChordInv
      <3>4. StoreInv'
        BY DEF StoreInv
      <3>5. KeyInv'
        BY DEF KeyInv, Outcomes, Derivable, Derived, Told, Among, OwnKey, Repeats
      <3> QED
        BY <3>1, <3>2, <3>3, <3>4, <3>5
    <2> QED
      BY <2>1, TypesKept, BatchKeeps, ChordKept, StoreKept, KeyKept DEF PipeInv
  <1> QED
    BY <1>1, PipeBegins, PTL DEF PipeSpec

\* Every variable keeps its type; in particular no batch is tried more often
\* than send_batch_task allows.
THEOREM PipeTypeCorrect == PipeSpec => []PipeTypeOK
  <1>1. PipeInv => PipeTypeOK
    BY DEF PipeInv, Types, BatchInv, ChordInv, PipeTypeOK, IsNotice
  <1> QED
    BY <1>1, PipeInvariant, PTL

\* Alice's bases are not published while a qubit of hers is still to be sent, as
\* long as no batch was posted twice (chord, send_batch_task).
THEOREM BasesAfterQubitsCorrect == PipeSpec => []BasesAfterQubits
  <1>1. PipeInv => BasesAfterQubits
    <2> SUFFICES ASSUME PipeInv, sift # None, \A b \in Batch : tries[b] = 1, NEW j \in jobs
                 PROVE  FALSE
      BY DEF BasesAfterQubits
    <2>1. j.batch \in Batch /\ j.try \in Nat /\ j.try >= 1 /\ j.try <= 1
      BY SizeAssumption DEF PipeInv, BatchInv, Job
    <2>2. qtt[j.batch] = "delivered"
      BY <2>1 DEF PipeInv, ChordInv
    <2> QED
      BY <2>1, <2>2 DEF PipeInv, BatchInv
  <1> QED
    BY <1>1, PipeInvariant, PTL

\* The key that the KME activates is the key that Bob keeps, for any interleaving
\* of batches, losses and failed requests (qber_key_task, _do_local_sift).
THEOREM KeysAgreeCorrect == PipeSpec => []KeysAgree
  <1>1. PipeInv => KeysAgree
    <2> SUFFICES ASSUME PipeInv, key # None, bobKey # None, ~Repeats, stRuns <= 1
                 PROVE  key = bobKey
      BY DEF KeysAgree
    <2>1. key \in Outcomes
      BY OutcomeOf
    <2>2. Told
      BY DEF Told
    <2> QED
      BY <2>1, <2>2 DEF PipeInv, KeyInv
  <1> QED
    BY <1>1, PipeInvariant, PTL

\* What was published stays: QKT and NT may be delivered again, as long as ST is
\* not (task_acks_late, notify_kme_task).
THEOREM KeyStandsCorrect == PipeSpec => KeyStands
  <1>1. PipeInv /\ PipeInv' /\ [PipeNext]_pipeVars => [key # None /\ stRuns' <= 1 => key' = key]_pipeVars
    <2> SUFFICES ASSUME PipeInv, PipeInv', PipeNext, key # None, stRuns' <= 1
                 PROVE  key' = key
      OBVIOUS
    <2>1. CASE \E t \in tasks : Notify(t)
      <3>1. PICK t \in tasks : Notify(t)
        BY <2>1
      <3>2. t.kind = "NT" /\ stRuns' = stRuns /\ (key' = key \/ key' = t.key)
        BY <3>1 DEF Notify, Publish
      <3>3. key \in Outcomes /\ t.key \in Outcomes
        BY <3>2, OutcomeOf
      <3>4. t.key = key
        BY <3>2, <3>3 DEF PipeInv, KeyInv
      <3> QED
        BY <3>2, <3>4
    <2>2. CASE ~\E t \in tasks : Notify(t)
      <3>1. AliceStep \/ NetStops \/ Cancel => key' = key
        BY DEF AliceStep, AliceJoined, Dispatch, AliceVerdict, AlicePoll, Cleanup, WorkerDies, NetStops, Cancel, kmeVars
      <3>2. BobStep \/ BobSift => key' = key
        BY DEF BobStep, BobSift, BobJoins, BobTakes, BobLeaves, BobPosts, BobVerdict, BobSiftReady, BobSifts, kmeVars
      <3>3. ChainStep => key' = key
        BY <2>2 DEF ChainStep, ChordEnds, Assemble, AssembleGivesUp, Derive, kmeVars
      <3>4. \A b \in Batch : TaskStart(b) \/ TaskFails(b) => key' = key
        BY DEF TaskStart, TaskFails, kmeVars
      <3>5. \A j \in jobs : JobQubit(j) \/ JobReply(j) => key' = key
        BY DEF JobQubit, JobReply, kmeVars
      <3>6. Breakdown => key' = key
        BY OnlyTakes DEF kmeVars
      <3> QED
        BY <3>1, <3>2, <3>3, <3>4, <3>5, <3>6 DEF PipeNext
    <2> QED
      BY <2>1, <2>2
  <1> QED
    BY <1>1, PipeInvariant, PTL DEF PipeSpec, KeyStands
=============================================================================
