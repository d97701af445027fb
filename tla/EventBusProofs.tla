-------------------------- MODULE EventBusProofs --------------------------
(***************************************************************************)
(* What the event bus of a session guarantees for every set of roles, read *)
(* size and number of faults, repeats and crashes: no event slips through, *)
(* repeats are paid for by failed acks, and without a failed command every *)
(* role handles what is addressed to it in order and once (RoleDelivery).  *)
(***************************************************************************)
EXTENDS EventBus, SortingProofs, SequenceTheorems

Ascending(q) == \A m, n \in DOMAIN q : m < n => q[m] < q[n]
Distinct(q)  == \A m, n \in DOMAIN q : q[m] = q[n] => m = n
Precedes(p, q) == \A x \in ElementsOf(p), y \in ElementsOf(q) : x < y

\* A thread has a batch exactly while it dispatches one, and exists exactly while
\* its node listens.
ThreadInv ==
    \A r \in Role :
        /\ thread[r] = "batch" <=> batch[r] # <<>>
        /\ knows[r] = "listens" <=> thread[r] # "none"
        /\ ~Alive(r) => thread[r] \in {"none", "ended"} /\ loop[r] = <<>>

\* What the group has not delivered is nowhere; what is still to be dispatched
\* is in the pending list, and comes up once in the batch.
PendingInv ==
    \A r \in Role :
        /\ \A i \in pel[r] \cup ElementsOf(loop[r]) \cup ElementsOf(handled[r]) : i <= cursor[r]
        /\ ElementsOf(batch[r]) \subseteq pel[r]
        /\ Distinct(batch[r])

\* The repeats of a role: those of the handlers that have run (h) or wait in the
\* loop (l), and those that the pending list (p) will bring about.
OwedBy(h, l, p) ==
    LET seen == ElementsOf(h) \cup ElementsOf(l)
    IN  Len(h) + Len(l) - Cardinality(seen) + Cardinality(p \cap seen)

Owed(r) == OwedBy(handled[r], loop[r], pel[r])

PaidInv == Owed("sender") + Owed("receiver") + (IF "monitor" \in Role THEN Owed("monitor") ELSE 0) <= faults

\* Before the first failed command: handled, loop and batch line up what is
\* addressed to the role and delivered, in the order of the stream.
OrderInv ==
    faults = 0 => \A r \in Role :
        /\ Ascending(handled[r]) /\ Ascending(loop[r]) /\ Ascending(batch[r])
        /\ Precedes(handled[r], loop[r]) /\ Precedes(handled[r], batch[r]) /\ Precedes(loop[r], batch[r])
        /\ \A i \in ElementsOf(handled[r]) \cup ElementsOf(loop[r]) \cup ElementsOf(batch[r]) : Addressed(r, i)
        /\ Alive(r) => pel[r] = ElementsOf(batch[r])

BusInv == BusTypeOK /\ ThreadInv /\ PendingInv /\ NothingSlips /\ PaidInv /\ OrderInv

-----------------------------------------------------------------------------
(* Queues. *)

\* An element appended to a queue joins its elements, at the end.
LEMMA Appended ==
    ASSUME NEW S, NEW q \in Seq(S), NEW x \in S
    PROVE  /\ Append(q, x) \in Seq(S)
           /\ Len(q) \in Nat /\ Len(Append(q, x)) = Len(q) + 1
           /\ ElementsOf(Append(q, x)) = ElementsOf(q) \cup {x}
           /\ (Ascending(q) /\ \A y \in ElementsOf(q) : y < x) => Ascending(Append(q, x))
  <1>1. /\ Append(q, x) \in Seq(S) /\ Len(q) \in Nat /\ Len(Append(q, x)) = Len(q) + 1
        /\ DOMAIN q = 1 .. Len(q) /\ DOMAIN Append(q, x) = 1 .. Len(q) + 1
        /\ \A i \in 1 .. Len(q) : Append(q, x)[i] = q[i]
        /\ Append(q, x)[Len(q) + 1] = x
    OBVIOUS
  <1>2. ElementsOf(Append(q, x)) = ElementsOf(q) \cup {x}
    BY <1>1 DEF ElementsOf
  <1>3. ASSUME Ascending(q), \A y \in ElementsOf(q) : y < x PROVE Ascending(Append(q, x))
    <2> SUFFICES ASSUME NEW m \in 1 .. Len(q) + 1, NEW n \in 1 .. Len(q) + 1, m < n
                 PROVE  Append(q, x)[m] < Append(q, x)[n]
      BY <1>1 DEF Ascending
    <2>1. m \in 1 .. Len(q) /\ q[m] \in ElementsOf(q)
      BY <1>1 DEF ElementsOf
    <2>2. CASE n = Len(q) + 1
      BY <1>1, <1>3, <2>1, <2>2
    <2>3. CASE n # Len(q) + 1
      <3>1. n \in 1 .. Len(q)
        BY <1>1, <2>3
      <3> QED
        BY <1>1, <1>3, <2>1, <3>1 DEF Ascending
    <2> QED
      BY <2>2, <2>3
  <1> QED
    BY <1>1, <1>2, <1>3

\* What leaves a queue at its head is no longer in its tail, when the queue has
\* no repetition, and is smaller than the tail, when the queue ascends.
LEMMA Taken ==
    ASSUME NEW S, NEW q \in Seq(S), q # <<>>
    PROVE  /\ Head(q) \in S /\ Tail(q) \in Seq(S) /\ Head(q) \in ElementsOf(q)
           /\ Len(q) \in Nat /\ Len(Tail(q)) \in Nat /\ Len(q) = Len(Tail(q)) + 1
           /\ ElementsOf(q) = {Head(q)} \cup ElementsOf(Tail(q))
           /\ Distinct(q) => Distinct(Tail(q)) /\ Head(q) \notin ElementsOf(Tail(q))
           /\ Ascending(q) => Ascending(Tail(q)) /\ \A y \in ElementsOf(Tail(q)) : Head(q) < y
  <1>1. /\ Len(q) \in Nat \ {0} /\ DOMAIN q = 1 .. Len(q)
        /\ Head(q) = q[1] /\ Tail(q) \in Seq(S) /\ Len(Tail(q)) = Len(q) - 1
        /\ DOMAIN Tail(q) = 1 .. Len(q) - 1
        /\ \A i \in 1 .. Len(q) - 1 : Tail(q)[i] = q[i + 1]
    BY HeadTailProperties, EmptySeq
  <1>2. \A i \in 1 .. Len(q) : i = 1 \/ (i - 1 \in 1 .. Len(q) - 1 /\ q[i] = Tail(q)[i - 1])
    BY <1>1
  <1>3. ElementsOf(q) = {Head(q)} \cup ElementsOf(Tail(q))
    <2>1. ASSUME NEW i \in 1 .. Len(q) PROVE q[i] \in {Head(q)} \cup ElementsOf(Tail(q))
      BY <1>1, <1>2 DEF ElementsOf
    <2>2. {Head(q)} \cup ElementsOf(Tail(q)) \subseteq ElementsOf(q)
      <3>1. \A i \in 1 .. Len(q) - 1 : i + 1 \in 1 .. Len(q)
        BY <1>1
      <3> QED
        BY <1>1, <3>1 DEF ElementsOf
    <2>3. ElementsOf(q) = {q[i] : i \in 1 .. Len(q)}
      BY <1>1 DEF ElementsOf
    <2> QED
      BY <2>1, <2>2, <2>3
  <1>4. ASSUME Distinct(q) PROVE Distinct(Tail(q)) /\ Head(q) \notin ElementsOf(Tail(q))
    BY <1>1, <1>4 DEF Distinct, ElementsOf
  <1>5. ASSUME Ascending(q) PROVE Ascending(Tail(q)) /\ \A y \in ElementsOf(Tail(q)) : Head(q) < y
    BY <1>1, <1>5 DEF Ascending, ElementsOf
  <1>6. Head(q) \in S /\ Len(Tail(q)) \in Nat /\ Len(q) = Len(Tail(q)) + 1
    BY <1>1
  <1> QED
    BY <1>1, <1>3, <1>4, <1>5, <1>6

\* The empty queue.
LEMMA Nothing ==
    /\ ElementsOf(<<>>) = {} /\ Distinct(<<>>) /\ Ascending(<<>>) /\ Len(<<>>) = 0
    /\ \A S : <<>> \in Seq(S)
  BY DEF ElementsOf, Distinct, Ascending

\* A queue of positions stays one when the stream grows.
LEMMA Widened ==
    ASSUME NEW S, NEW T, S \subseteq T, NEW q \in Seq(S)
    PROVE  q \in Seq(T)
  <1>1. Len(q) \in Nat /\ q \in [1 .. Len(q) -> S]
    OBVIOUS
  <1>2. q \in [1 .. Len(q) -> T]
    BY <1>1
  <1> QED
    BY <1>1, <1>2, SeqDef

\* The elements of a queue.
LEMMA Elements ==
    ASSUME NEW S, NEW q \in Seq(S)
    PROVE  /\ ElementsOf(q) \subseteq S
           /\ IsFiniteSet(ElementsOf(q)) /\ Cardinality(ElementsOf(q)) \in Nat
           /\ Len(q) \in Nat /\ Cardinality(ElementsOf(q)) <= Len(q)
           /\ q = <<>> <=> ElementsOf(q) = {}
  <1> DEFINE X == ElementsOf(q)
             n == Len(q)
             f == [i \in 1 .. n |-> q[i]]
  <1>1. n \in Nat /\ DOMAIN q = 1 .. n /\ \A i \in 1 .. n : q[i] \in S
    OBVIOUS
  <1> HIDE DEF n
  <1>2. IsFiniteSet(1 .. n) /\ Cardinality(1 .. n) = n
    BY <1>1, FS_Interval
  <1>3. f \in Surjection(1 .. n, X) /\ X \subseteq S
    BY <1>1 DEF Surjection, ElementsOf
  <1>4. q = <<>> <=> X = {}
    <2>1. CASE n = 0
      BY <2>1, <1>1, EmptySeq DEF ElementsOf, n
    <2>2. CASE n # 0
      <3>1. 1 \in 1 .. n /\ q[1] \in X
        BY <1>1, <2>2 DEF ElementsOf
      <3> QED
        BY <3>1, <2>2, EmptySeq DEF n
    <2> QED
      BY <2>1, <2>2
  <1> HIDE DEF f, X
  <1>5. IsFiniteSet(X) /\ Cardinality(X) <= n
    BY <1>2, <1>3, FS_Surjection
  <1> QED
    BY <1>1, <1>3, <1>4, <1>5, FS_CardinalityType DEF X, n

\* The entries of a read, in order, make an ascending queue.
LEMMA Ordered ==
    ASSUME NEW S, IsFiniteSet(S), S \subseteq Int
    PROVE  /\ InOrder(S) \in Seq(S) /\ ElementsOf(InOrder(S)) = S
           /\ Ascending(InOrder(S)) /\ Distinct(InOrder(S))
  <1> DEFINE n == Cardinality(S)
             q == Increasing(S)
  <1>1. n \in Nat /\ q \in Bijection(1 .. n, S) /\ \A k, l \in 1 .. n : k < l => q[k] < q[l]
    BY IncreasingEnumerates
  <1>2. InOrder(S) = q
    BY DEF InOrder
  <1> HIDE DEF n, q
  <1>3. /\ q \in [1 .. n -> S] /\ \A k, l \in 1 .. n : q[k] = q[l] => k = l
        /\ \A x \in S : \E k \in 1 .. n : q[k] = x
    BY <1>1 DEF Bijection, Injection, Surjection, IsInjective
  <1>4. q \in Seq(S) /\ DOMAIN q = 1 .. n
    BY <1>1, <1>3, SeqDef
  <1>5. ElementsOf(q) = S
    <2>1. ElementsOf(q) = {q[k] : k \in 1 .. n}
      BY <1>4 DEF ElementsOf
    <2>2. \A k \in 1 .. n : q[k] \in S
      BY <1>3
    <2>3. ElementsOf(q) \subseteq S
      BY <2>1, <2>2
    <2>4. S \subseteq ElementsOf(q)
      BY <1>3, <2>1
    <2> QED
      BY <2>3, <2>4
  <1> QED
    BY <1>1, <1>2, <1>3, <1>4, <1>5 DEF Ascending, Distinct

\* Two queues without repetition and without a common element, one after the other.
LEMMA Joins ==
    ASSUME NEW S, NEW p \in Seq(S), NEW q \in Seq(S)
    PROVE  /\ p \o q \in Seq(S)
           /\ ElementsOf(p \o q) = ElementsOf(p) \cup ElementsOf(q)
           /\ (Distinct(p) /\ Distinct(q) /\ ElementsOf(p) \cap ElementsOf(q) = {}) => Distinct(p \o q)
  <1> DEFINE m == Len(p)
             n == Len(q)
             s == p \o q
  <1>1. /\ m \in Nat /\ n \in Nat /\ DOMAIN p = 1 .. m /\ DOMAIN q = 1 .. n
        /\ s \in Seq(S) /\ DOMAIN s = 1 .. m + n
        /\ \A i \in 1 .. m + n : s[i] = IF i <= m THEN p[i] ELSE q[i - m]
    BY ConcatProperties
  <1> HIDE DEF s, m, n
  <1>2. \A i \in 1 .. m + n : \/ i \in 1 .. m /\ s[i] = p[i]
                              \/ i - m \in 1 .. n /\ s[i] = q[i - m]
    BY <1>1
  <1>3. /\ \A i \in 1 .. m : i \in 1 .. m + n /\ s[i] = p[i]
        /\ \A i \in 1 .. n : m + i \in 1 .. m + n /\ s[m + i] = q[i]
    BY <1>1
  <1>4. ElementsOf(s) = ElementsOf(p) \cup ElementsOf(q)
    <2>1. /\ ElementsOf(p) = {p[i] : i \in 1 .. m} /\ ElementsOf(q) = {q[i] : i \in 1 .. n}
          /\ ElementsOf(s) = {s[i] : i \in 1 .. m + n}
      BY <1>1 DEF ElementsOf
    <2>2. ElementsOf(s) \subseteq ElementsOf(p) \cup ElementsOf(q)
      BY <1>2, <2>1
    <2>3. ElementsOf(p) \subseteq ElementsOf(s)
      BY <1>3, <2>1
    <2>4. ElementsOf(q) \subseteq ElementsOf(s)
      <3>1. \A i \in 1 .. n : q[i] \in ElementsOf(s)
        BY <1>3, <2>1
      <3> QED
        BY <3>1, <2>1
    <2> QED
      BY <2>2, <2>3, <2>4
  <1>5. ASSUME Distinct(p), Distinct(q), ElementsOf(p) \cap ElementsOf(q) = {}
        PROVE  Distinct(s)
    <2> SUFFICES ASSUME NEW i \in 1 .. m + n, NEW j \in 1 .. m + n, s[i] = s[j]
                 PROVE  i = j
      BY <1>1 DEF Distinct
    <2>1. i \in Int /\ j \in Int /\ m \in Int
      BY <1>1
    <2>2. CASE i \in 1 .. m /\ s[i] = p[i] /\ j \in 1 .. m /\ s[j] = p[j]
      BY <1>1, <1>5, <2>2 DEF Distinct
    <2>3. CASE i - m \in 1 .. n /\ s[i] = q[i - m] /\ j - m \in 1 .. n /\ s[j] = q[j - m]
      <3>1. i - m = j - m
        BY <1>1, <1>5, <2>3 DEF Distinct
      <3> QED
        BY <3>1, <2>1
    <2>4. CASE i \in 1 .. m /\ s[i] = p[i] /\ j - m \in 1 .. n /\ s[j] = q[j - m]
      BY <1>1, <1>5, <2>4 DEF ElementsOf
    <2>5. CASE j \in 1 .. m /\ s[j] = p[j] /\ i - m \in 1 .. n /\ s[i] = q[i - m]
      BY <1>1, <1>5, <2>5 DEF ElementsOf
    <2> QED
      BY <1>2, <2>2, <2>3, <2>4, <2>5
  <1> QED
    BY <1>1, <1>4, <1>5 DEF s

-----------------------------------------------------------------------------
(* The inductive invariant, one operation at a time. *)

\* What the queues and the positions of one role are.
LEMMA TypesOf ==
    ASSUME BusTypeOK, NEW r \in Role
    PROVE  /\ Len(stream) \in Nat /\ DOMAIN stream = 1 .. Len(stream)
           /\ cursor[r] \in 0 .. Len(stream) /\ pel[r] \subseteq DOMAIN stream
           /\ batch[r] \in Seq(DOMAIN stream) /\ loop[r] \in Seq(DOMAIN stream)
           /\ handled[r] \in Seq(DOMAIN stream)
           /\ ElementsOf(batch[r]) \cup ElementsOf(loop[r]) \cup ElementsOf(handled[r]) \subseteq DOMAIN stream
  <1>1. Len(stream) \in Nat /\ DOMAIN stream = 1 .. Len(stream)
    BY DEF BusTypeOK
  <1>2. /\ cursor[r] \in 0 .. Len(stream) /\ pel[r] \subseteq DOMAIN stream
        /\ batch[r] \in Seq(DOMAIN stream) /\ loop[r] \in Seq(DOMAIN stream)
        /\ handled[r] \in Seq(DOMAIN stream)
    BY DEF BusTypeOK
  <1> QED
    BY <1>1, <1>2, Elements

\* XREADGROUP returns the entries that follow the cursor.
LEMMA FreshFollow ==
    ASSUME BusTypeOK, NEW r \in Role
    PROVE  /\ IsFiniteSet(Fresh(r)) /\ Fresh(r) \subseteq DOMAIN stream
           /\ cursor[r] + Cardinality(Fresh(r)) \in 0 .. Len(stream)
           /\ cursor[r] <= cursor[r] + Cardinality(Fresh(r))
           /\ \A i \in DOMAIN stream : i <= cursor[r] + Cardinality(Fresh(r)) <=> i <= cursor[r] \/ i \in Fresh(r)
           /\ \A i \in Fresh(r) : cursor[r] < i
  <1> DEFINE c == cursor[r]
             n == Len(stream)
             top == IF c + ReadCount <= n THEN c + ReadCount ELSE n
  <1>1. n \in Nat /\ DOMAIN stream = 1 .. n /\ c \in 0 .. n
    BY TypesOf
  <1>2. ReadCount \in Nat \ {0}
    BY CountAssumption
  <1>3. Fresh(r) = c + 1 .. top
    BY <1>1, <1>2 DEF Fresh
  <1>4. c \in Int /\ top \in Int /\ c <= top /\ top <= n
    BY <1>1, <1>2
  <1> HIDE DEF c, n, top
  <1>5. IsFiniteSet(c + 1 .. top) /\ Cardinality(c + 1 .. top) = top - c
    <2> DEFINE a == c + 1
    <2>1. a \in Int /\ (a > top => top - c = 0) /\ (a <= top => top - a + 1 = top - c)
      BY <1>4
    <2> HIDE DEF a
    <2>2. IsFiniteSet(a .. top) /\ Cardinality(a .. top) = IF a > top THEN 0 ELSE top - a + 1
      BY <1>4, <2>1, FS_Interval
    <2>3. a > top \/ a <= top
      BY <1>4, <2>1
    <2>4. Cardinality(a .. top) = top - c
      BY <1>4, <2>1, <2>2, <2>3
    <2> QED
      BY <2>2, <2>4 DEF a
  <1>6. c + Cardinality(Fresh(r)) = top
    BY <1>3, <1>4, <1>5
  <1> QED
    BY <1>1, <1>3, <1>4, <1>5, <1>6 DEF c, n

\* The session starts with an empty stream and nobody listening.
LEMMA BusBegins ==
    BusInit => BusInv
  <1> SUFFICES ASSUME BusInit PROVE BusInv
    OBVIOUS
  <1>1. BusTypeOK
    <2>1. Len(stream) = 0 /\ stream \in Seq(Entry) /\ faults \in 0 .. MaxFaults
      BY CountAssumption DEF BusInit
    <2>2. \A q \in {batch, loop, handled} : q \in [Role -> Seq(DOMAIN stream)]
      BY Nothing DEF BusInit
    <2>3. cursor \in [Role -> 0 .. Len(stream)] /\ pel \in [Role -> SUBSET DOMAIN stream]
      BY <2>1 DEF BusInit
    <2>4. /\ cancelled \in BOOLEAN /\ knows \in [Role -> Knowledge] /\ thread \in [Role -> Thread]
          /\ stop \in [Role -> BOOLEAN] /\ dead \in SUBSET Role /\ joins \in Nat
      BY DEF BusInit, Knowledge, Thread
    <2> QED
      BY <2>1, <2>2, <2>3, <2>4 DEF BusTypeOK
  <1>2. ThreadInv
    BY DEF BusInit, ThreadInv, Alive
  <1>3. PendingInv
    BY Nothing DEF BusInit, PendingInv
  <1>4. NothingSlips
    BY DEF BusInit, NothingSlips
  <1>5. PaidInv
    <2>1. ASSUME NEW r \in Role
          PROVE  Owed(r) = 0
      <3>1. handled[r] = <<>> /\ loop[r] = <<>> /\ pel[r] = {}
        BY DEF BusInit
      <3>2. Len(handled[r]) = 0 /\ Len(loop[r]) = 0
        BY <3>1, Nothing
      <3>3. Cardinality(ElementsOf(handled[r]) \cup ElementsOf(loop[r])) = 0
        <4>1. ElementsOf(handled[r]) \cup ElementsOf(loop[r]) = {}
          BY <3>1, Nothing
        <4> QED
          BY <4>1, FS_EmptySet, Zenon
      <3>4. Cardinality(pel[r] \cap (ElementsOf(handled[r]) \cup ElementsOf(loop[r]))) = 0
        <4>1. pel[r] \cap (ElementsOf(handled[r]) \cup ElementsOf(loop[r])) = {}
          BY <3>1
        <4> QED
          BY <4>1, FS_EmptySet, Zenon
      <3> QED
        BY <3>2, <3>3, <3>4 DEF Owed, OwedBy
    <2> QED
      BY <2>1, RoleAssumption DEF BusInit, PaidInv
  <1>6. OrderInv
    BY Nothing DEF BusInit, OrderInv, Precedes
  <1> QED
    BY <1>1, <1>2, <1>3, <1>4, <1>5, <1>6 DEF BusInv

\* A published entry changes nothing that was delivered or queued.
LEMMA PublishKeeps ==
    ASSUME BusInv, NEW e \in Entry, stream' = Append(stream, e),
           UNCHANGED <<cancelled, node, redis, dead, faults>>, joins' \in Nat
    PROVE  /\ BusInv'
           /\ DOMAIN stream \subseteq DOMAIN stream'
           /\ \A r \in Role, i \in DOMAIN stream : Addressed(r, i)' <=> Addressed(r, i)
  <1> USE DEF node, redis
  <1>0. BusTypeOK /\ ThreadInv /\ PendingInv /\ NothingSlips /\ PaidInv /\ OrderInv
    BY DEF BusInv
  <1>1. /\ stream' \in Seq(Entry) /\ Len(stream) \in Nat /\ Len(stream') = Len(stream) + 1
        /\ DOMAIN stream = 1 .. Len(stream) /\ DOMAIN stream' = 1 .. Len(stream) + 1
        /\ \A i \in DOMAIN stream : stream'[i] = stream[i]
    BY <1>0 DEF BusTypeOK
  <1>2. DOMAIN stream \subseteq DOMAIN stream'
    BY <1>1
  <1>3. \A r \in Role, i \in DOMAIN stream : Addressed(r, i)' <=> Addressed(r, i)
    BY <1>1 DEF Addressed
  <1>4. BusTypeOK'
    <2>1. ASSUME NEW q \in {batch, loop, handled} PROVE q \in [Role -> Seq(DOMAIN stream')]
      <3>1. q \in [Role -> Seq(DOMAIN stream)]
        BY <1>0 DEF BusTypeOK
      <3>2. \A r \in Role : q[r] \in Seq(DOMAIN stream')
        BY <3>1, <1>2, Widened
      <3> QED
        BY <3>1, <3>2
    <2>2. cursor \in [Role -> 0 .. Len(stream')]
      BY <1>0, <1>1 DEF BusTypeOK
    <2>3. pel \in [Role -> SUBSET DOMAIN stream']
      BY <1>0, <1>2 DEF BusTypeOK
    <2> QED
      BY <1>0, <1>1, <2>1, <2>2, <2>3 DEF BusTypeOK
  <1>5. ThreadInv' /\ PendingInv'
    BY <1>0 DEF ThreadInv, PendingInv, Alive
  <1>6. NothingSlips'
    <2> SUFFICES ASSUME NEW r \in Role, Alive(r), NEW i \in 1 .. cursor[r], Addressed(r, i)'
                 PROVE  i \in ElementsOf(handled[r]) \cup ElementsOf(loop[r])
                                 \cup ElementsOf(batch[r]) \cup pel[r]
      BY DEF NothingSlips, Alive
    <2>1. i \in DOMAIN stream
      BY <1>0, TypesOf
    <2> QED
      BY <1>0, <1>3, <2>1 DEF NothingSlips
  <1>7. PaidInv'
    BY <1>0 DEF PaidInv, Owed
  <1>8. OrderInv'
    <2> SUFFICES ASSUME faults = 0, NEW r \in Role
                 PROVE  \A i \in ElementsOf(handled[r]) \cup ElementsOf(loop[r]) \cup ElementsOf(batch[r]) :
                            Addressed(r, i)'
      BY <1>0 DEF OrderInv, Alive
    <2>1. ElementsOf(batch[r]) \cup ElementsOf(loop[r]) \cup ElementsOf(handled[r]) \subseteq DOMAIN stream
      BY <1>0, TypesOf
    <2> QED
      BY <1>0, <1>3, <2>1 DEF OrderInv
  <1> QED
    BY <1>2, <1>3, <1>4, <1>5, <1>6, <1>7, <1>8 DEF BusInv

-----------------------------------------------------------------------------
(* Repeats. *)

\* The sets that OwedBy counts are finite, and what they count is an integer.
LEMMA OwedCounts ==
    ASSUME NEW S, NEW h \in Seq(S), NEW l \in Seq(S), NEW p
    PROVE  LET seen == ElementsOf(h) \cup ElementsOf(l)
           IN  /\ Len(h) \in Nat /\ Len(l) \in Nat
               /\ IsFiniteSet(seen) /\ Cardinality(seen) \in Nat
               /\ IsFiniteSet(p \cap seen) /\ Cardinality(p \cap seen) \in Nat
               /\ OwedBy(h, l, p) \in Int
               /\ OwedBy(h, l, p) = Len(h) + Len(l) - Cardinality(seen) + Cardinality(p \cap seen)
  <1> DEFINE seen == ElementsOf(h) \cup ElementsOf(l)
  <1>1. IsFiniteSet(ElementsOf(h)) /\ IsFiniteSet(ElementsOf(l)) /\ Len(h) \in Nat /\ Len(l) \in Nat
    BY Elements
  <1>2. IsFiniteSet(seen)
    BY <1>1, FS_Union
  <1>3. OwedBy(h, l, p) = Len(h) + Len(l) - Cardinality(seen) + Cardinality(p \cap seen)
    BY DEF OwedBy
  <1> HIDE DEF seen
  <1>4. p \cap seen \in SUBSET seen
    OBVIOUS
  <1>5. IsFiniteSet(p \cap seen)
    BY <1>2, <1>4, FS_Subset
  <1>6. Cardinality(seen) \in Nat /\ Cardinality(p \cap seen) \in Nat
    BY <1>2, <1>5, FS_CardinalityType
  <1>7. OwedBy(h, l, p) \in Int
    BY <1>1, <1>3, <1>6
  <1> QED
    BY <1>1, <1>2, <1>3, <1>5, <1>6, <1>7 DEF seen

\* A handler that is scheduled and acked owes no more than it did while it was
\* pending; one that is not acked may run once more.
LEMMA OwedScheduled ==
    ASSUME NEW S, NEW h \in Seq(S), NEW l \in Seq(S), NEW p \in SUBSET S, NEW x \in p
    PROVE  /\ OwedBy(h, Append(l, x), p \ {x}) = OwedBy(h, l, p)
           /\ OwedBy(h, Append(l, x), p) = OwedBy(h, l, p) + 1
  <1> DEFINE k == Append(l, x)
             seen == ElementsOf(h) \cup ElementsOf(l)
             seenk == ElementsOf(h) \cup ElementsOf(k)
             left == p \ {x}
  <1>1. x \in S /\ k \in Seq(S) /\ Len(k) = Len(l) + 1 /\ ElementsOf(k) = ElementsOf(l) \cup {x}
    BY Appended
  <1>2. seenk = seen \cup {x}
    BY <1>1
  <1>3. /\ Len(h) \in Nat /\ Len(l) \in Nat
        /\ IsFiniteSet(seen) /\ Cardinality(seen) \in Nat
        /\ IsFiniteSet(p \cap seen) /\ Cardinality(p \cap seen) \in Nat
        /\ OwedBy(h, l, p) = Len(h) + Len(l) - Cardinality(seen) + Cardinality(p \cap seen)
    BY OwedCounts
  <1> DEFINE both == p \cap seen
  <1> HIDE DEF k
  <1>4. OwedBy(h, k, p) = Len(h) + Len(k) - Cardinality(seenk) + Cardinality(p \cap seenk)
    BY <1>1, OwedCounts
  <1>5. OwedBy(h, k, left) = Len(h) + Len(k) - Cardinality(seenk) + Cardinality(left \cap seenk)
    BY <1>1, OwedCounts
  <1>6. CASE x \in seen
    <2>1. seenk = seen /\ p \cap seenk = both /\ left \cap seenk = both \ {x} /\ x \in both
      BY <1>2, <1>6
    <2> HIDE DEF seen, seenk, both, left
    <2>2. Cardinality(both \ {x}) = Cardinality(both) - 1
      BY <1>3, <2>1, FS_RemoveElement DEF both
    <2>3. /\ OwedBy(h, k, p) = Len(h) + (Len(l) + 1) - Cardinality(seen) + Cardinality(both)
          /\ OwedBy(h, k, left) = Len(h) + (Len(l) + 1) - Cardinality(seen) + (Cardinality(both) - 1)
      BY <1>1, <1>4, <1>5, <2>1, <2>2
    <2>4. OwedBy(h, k, left) = OwedBy(h, l, p) /\ OwedBy(h, k, p) = OwedBy(h, l, p) + 1
      BY <1>3, <2>3 DEF both
    <2> QED
      BY <2>4 DEF k, left
  <1>7. CASE x \notin seen
    <2>1. seenk = seen \cup {x} /\ p \cap seenk = both \cup {x} /\ left \cap seenk = both /\ x \notin both
      BY <1>2, <1>7
    <2> HIDE DEF seenk, both, left
    <2>2. Cardinality(both \cup {x}) = Cardinality(both) + 1
      BY <1>3, <2>1, FS_AddElement DEF both
    <2> HIDE DEF seen
    <2>3. Cardinality(seen \cup {x}) = Cardinality(seen) + 1
      BY <1>3, <1>7, FS_AddElement
    <2>4. /\ OwedBy(h, k, p) = Len(h) + (Len(l) + 1) - (Cardinality(seen) + 1) + (Cardinality(both) + 1)
          /\ OwedBy(h, k, left) = Len(h) + (Len(l) + 1) - (Cardinality(seen) + 1) + Cardinality(both)
      BY <1>1, <1>4, <1>5, <2>1, <2>2, <2>3
    <2>5. OwedBy(h, k, left) = OwedBy(h, l, p) /\ OwedBy(h, k, p) = OwedBy(h, l, p) + 1
      BY <1>3, <2>4 DEF both
    <2> QED
      BY <2>5 DEF k, left
  <1> QED
    BY <1>6, <1>7

\* A pending list with no more of what was seen owes no more.
LEMMA OwedPending ==
    ASSUME NEW S, NEW h \in Seq(S), NEW l \in Seq(S), NEW p, NEW q,
           \A i \in q : i \in ElementsOf(h) \cup ElementsOf(l) => i \in p
    PROVE  OwedBy(h, l, q) <= OwedBy(h, l, p)
  <1> DEFINE seen == ElementsOf(h) \cup ElementsOf(l)
  <1>1. /\ Len(h) \in Nat /\ Len(l) \in Nat /\ Cardinality(seen) \in Nat
        /\ IsFiniteSet(p \cap seen) /\ Cardinality(p \cap seen) \in Nat
        /\ OwedBy(h, l, p) = Len(h) + Len(l) - Cardinality(seen) + Cardinality(p \cap seen)
    BY OwedCounts
  <1>2. /\ Cardinality(q \cap seen) \in Nat
        /\ OwedBy(h, l, q) = Len(h) + Len(l) - Cardinality(seen) + Cardinality(q \cap seen)
    BY OwedCounts
  <1>3. q \cap seen \in SUBSET (p \cap seen)
    OBVIOUS
  <1>4. Cardinality(q \cap seen) <= Cardinality(p \cap seen)
    <2> DEFINE P == p \cap seen
               Q == q \cap seen
    <2>1. Q \in SUBSET P /\ IsFiniteSet(P)
      BY <1>1, <1>3
    <2> HIDE DEF P, Q
    <2>2. Cardinality(Q) <= Cardinality(P)
      BY <2>1, FS_Subset
    <2> QED
      BY <2>2 DEF P, Q
  <1> QED
    BY <1>1, <1>2, <1>4

\* A handler that runs was counted while it waited.
LEMMA OwedRun ==
    ASSUME NEW S, NEW h \in Seq(S), NEW l \in Seq(S), l # <<>>, NEW p
    PROVE  OwedBy(Append(h, Head(l)), Tail(l), p) = OwedBy(h, l, p)
  <1>1. /\ Head(l) \in S /\ Len(Tail(l)) \in Nat /\ Len(l) = Len(Tail(l)) + 1
        /\ ElementsOf(l) = {Head(l)} \cup ElementsOf(Tail(l))
    BY Taken
  <1>2. /\ Len(h) \in Nat /\ Len(Append(h, Head(l))) = Len(h) + 1
        /\ ElementsOf(Append(h, Head(l))) = ElementsOf(h) \cup {Head(l)}
    BY <1>1, Appended
  <1>3. ElementsOf(Append(h, Head(l))) \cup ElementsOf(Tail(l)) = ElementsOf(h) \cup ElementsOf(l)
    BY <1>1, <1>2
  <1>4. Len(Append(h, Head(l))) + Len(Tail(l)) = Len(h) + Len(l)
    BY <1>1, <1>2
  <1> DEFINE g == Append(h, Head(l))
             t == Tail(l)
             seen == ElementsOf(h) \cup ElementsOf(l)
             rest == ElementsOf(g) \cup ElementsOf(t)
  <1>5. /\ OwedBy(g, t, p) = Len(g) + Len(t) - Cardinality(rest) + Cardinality(p \cap rest)
        /\ OwedBy(h, l, p) = Len(h) + Len(l) - Cardinality(seen) + Cardinality(p \cap seen)
    BY DEF OwedBy
  <1>6. rest = seen /\ Len(g) + Len(t) = Len(h) + Len(l)
    BY <1>3, <1>4
  <1>7. /\ Len(h) \in Nat /\ Len(l) \in Nat /\ Len(g) \in Nat /\ Len(t) \in Nat
        /\ Cardinality(seen) \in Nat /\ Cardinality(p \cap seen) \in Nat
    <2>1. Cardinality(seen) \in Nat /\ Cardinality(p \cap seen) \in Nat /\ Len(l) \in Nat
      BY OwedCounts
    <2>2. Len(g) \in Nat
      BY <1>2
    <2> QED
      BY <1>1, <1>2, <2>1, <2>2
  <1> HIDE DEF g, t, seen, rest
  <1>8. Cardinality(rest) = Cardinality(seen) /\ Cardinality(p \cap rest) = Cardinality(p \cap seen)
    BY <1>6
  <1>9. OwedBy(g, t, p) = OwedBy(h, l, p)
    BY <1>5, <1>6, <1>7, <1>8
  <1> QED
    BY <1>9 DEF g, t

\* A loop that dies takes its repeats with it.
LEMMA OwedCrashed ==
    ASSUME NEW S, NEW h \in Seq(S), NEW l \in Seq(S), NEW p
    PROVE  OwedBy(h, <<>>, p) <= OwedBy(h, l, p)
  <1> DEFINE H == ElementsOf(h)
             L == ElementsOf(l)
             seen == H \cup L
             P == p \cap seen
             Q == p \cap H
  <1>1. /\ Len(h) \in Nat /\ Len(l) \in Nat /\ IsFiniteSet(P) /\ Cardinality(P) \in Nat
        /\ OwedBy(h, l, p) = Len(h) + Len(l) - Cardinality(seen) + Cardinality(P)
    BY OwedCounts
  <1>2. /\ IsFiniteSet(H) /\ IsFiniteSet(L) /\ Cardinality(H) \in Nat
        /\ Cardinality(L) \in Nat /\ Cardinality(L) <= Len(l)
    BY Elements
  <1>3. Q \in SUBSET P
    OBVIOUS
  <1>4. Cardinality(Q) <= Cardinality(P) /\ Cardinality(Q) \in Nat
    <2> HIDE DEF P, Q
    <2> QED
      BY <1>1, <1>3, FS_Subset, FS_CardinalityType
  <1>5. Cardinality(seen) <= Cardinality(H) + Cardinality(L) /\ Cardinality(seen) \in Nat
    <2> HIDE DEF H, L
    <2>1. /\ IsFiniteSet(H \cup L) /\ IsFiniteSet(H \cap L)
          /\ Cardinality(H \cup L) = Cardinality(H) + Cardinality(L) - Cardinality(H \cap L)
      BY <1>2, FS_Union, FS_Intersection
    <2>2. Cardinality(H \cap L) \in Nat /\ Cardinality(H \cup L) \in Nat
      BY <2>1, FS_CardinalityType
    <2> QED
      BY <1>2, <2>1, <2>2
  <1>6. OwedBy(h, <<>>, p) = Len(h) - Cardinality(H) + Cardinality(Q)
    <2>1. ElementsOf(h) \cup ElementsOf(<<>>) = H /\ Len(<<>>) = 0
      BY Nothing
    <2>2. OwedBy(h, <<>>, p) = Len(h) + 0 - Cardinality(H) + Cardinality(Q)
      BY <2>1 DEF OwedBy
    <2> HIDE DEF H, Q
    <2> QED
      BY <2>2, <1>1, <1>2, <1>4
  <1> HIDE DEF P, Q, H, seen
  <1> QED
    BY <1>1, <1>2, <1>4, <1>5, <1>6

\* When the repeats of one role grow by no more than the faults, they stay paid.
LEMMA StillPaid ==
    ASSUME BusInv, NEW r \in Role, \A s \in Role \ {r} : Owed(s)' = Owed(s),
           faults' \in Int, Owed(r)' \in Int, Owed(r)' - Owed(r) <= faults' - faults
    PROVE  PaidInv'
  <1>1. \A s \in Role : Owed(s) \in Int
    <2>1. ASSUME NEW s \in Role PROVE Owed(s) \in Int
      <3>1. handled[s] \in Seq(DOMAIN stream) /\ loop[s] \in Seq(DOMAIN stream)
        BY TypesOf DEF BusInv
      <3> QED
        BY <3>1, OwedCounts DEF Owed
    <2> QED
      BY <2>1
  <1>2. PaidInv /\ faults \in Int
    BY DEF BusInv, BusTypeOK
  <1>3. r \in {"sender", "receiver", "monitor"} /\ "sender" \in Role /\ "receiver" \in Role
    BY RoleAssumption
  <1>4. CASE r = "sender"
    BY <1>1, <1>2, <1>3, <1>4 DEF PaidInv
  <1>5. CASE r = "receiver"
    BY <1>1, <1>2, <1>3, <1>5 DEF PaidInv
  <1>6. CASE r = "monitor"
    BY <1>1, <1>2, <1>3, <1>6 DEF PaidInv
  <1> QED
    BY <1>3, <1>4, <1>5, <1>6

\* Discovery, the flags of the threads and a fault do not move an event.
LEMMA UnmovedKeeps ==
    ASSUME BusInv, UNCHANGED <<stream, batch, loop, handled, redis, dead>>,
           cancelled' \in BOOLEAN, knows' \in [Role -> Knowledge], thread' \in [Role -> Thread],
           stop' \in [Role -> BOOLEAN], joins' \in Nat, ThreadInv',
           faults' \in 0 .. MaxFaults, faults <= faults'
    PROVE  BusInv'
  <1>1. BusTypeOK'
    BY DEF BusInv, BusTypeOK, redis
  <1>2. PendingInv' /\ NothingSlips'
    BY DEF BusInv, PendingInv, NothingSlips, Alive, Addressed, redis
  <1>3. faults \in 0 .. MaxFaults
    BY DEF BusInv, BusTypeOK
  <1>4. PaidInv'
    <2>1. \A r \in Role : Owed(r)' = Owed(r)
      BY DEF Owed, redis
    <2>2. PaidInv /\ "sender" \in Role /\ "receiver" \in Role
      BY RoleAssumption DEF BusInv
    <2>3. \A r \in Role : Owed(r) \in Int
      <3>1. \A r \in Role : handled[r] \in Seq(DOMAIN stream) /\ loop[r] \in Seq(DOMAIN stream)
        BY TypesOf DEF BusInv
      <3> QED
        BY <3>1, OwedCounts DEF Owed
    <2>4. Owed("sender") \in Int /\ Owed("sender")' = Owed("sender")
      BY <2>1, <2>2, <2>3
    <2>5. faults' \in Int /\ Owed("sender")' - Owed("sender") <= faults' - faults
      BY <1>3, <2>4
    <2> QED
      BY <2>1, <2>2, <2>4, <2>5, StillPaid
  <1>5. OrderInv'
    <2>1. faults' = 0 => faults = 0
      BY <1>3
    <2> QED
      BY <2>1 DEF BusInv, OrderInv, Alive, Addressed, redis
  <1> QED
    BY <1>1, <1>2, <1>4, <1>5 DEF BusInv

\* Discovery, the end of a thread, and the requests that publish nothing.
LEMMA QuietKeeps ==
    ASSUME BusInv,
           \/ \E r \in Listeners : Register(r) \/ Pop(r) \/ PopRaises(r)
           \/ \E r \in Role : Begin(r) \/ ThreadEnds(r)
           \/ Cancel \/ LoseReply \/ PollTick \/ JoinRefused \/ JoinFails
    PROVE  BusInv'
  <1>0. BusTypeOK /\ ThreadInv
    BY DEF BusInv
  <1>1. /\ knows \in [Role -> Knowledge] /\ thread \in [Role -> Thread] /\ stop \in [Role -> BOOLEAN]
        /\ cancelled \in BOOLEAN /\ joins \in Nat /\ faults \in 0 .. MaxFaults /\ MaxFaults \in Nat
    BY <1>0, CountAssumption DEF BusTypeOK
  <1>2. "sender" \in Role
    BY RoleAssumption
  <1>3. ASSUME NEW r \in Listeners, Register(r) \/ Pop(r) PROVE BusInv'
    <2>1. r \in Role /\ UNCHANGED <<stream, cancelled, joins, thread, stop, batch, loop, handled, redis, dead, faults>>
      BY <1>3 DEF Register, Pop, Listeners
    <2>2. knows' \in [Role -> Knowledge]
      BY <1>1, <1>3 DEF Register, Pop, Knowledge
    <2>3. ThreadInv'
      BY <1>0, <1>1, <1>3, <2>1 DEF ThreadInv, Register, Pop, Alive
    <2> QED
      BY <1>1, <2>1, <2>2, <2>3, UnmovedKeeps
  <1>4. ASSUME NEW r \in Listeners, PopRaises(r) PROVE BusInv'
    <2>1. /\ r \in Role /\ UNCHANGED <<stream, cancelled, joins, thread, stop, batch, loop, handled, redis, dead>>
          /\ faults' \in 0 .. MaxFaults /\ faults <= faults'
      BY <1>1, <1>4 DEF PopRaises, Listeners
    <2>2. knows' \in [Role -> Knowledge]
      BY <1>1, <1>4 DEF PopRaises, Knowledge
    <2>3. ThreadInv'
      BY <1>0, <1>1, <1>4, <2>1 DEF ThreadInv, PopRaises, Alive
    <2> QED
      BY <1>1, <2>1, <2>2, <2>3, UnmovedKeeps
  <1>5. ASSUME NEW r \in Role, Begin(r) PROVE BusInv'
    <2>1. UNCHANGED <<stream, cancelled, joins, stop, batch, loop, handled, redis, dead, faults>>
      BY <1>5 DEF Begin
    <2>2. knows' \in [Role -> Knowledge] /\ thread' \in [Role -> Thread]
      BY <1>1, <1>5 DEF Begin, Knowledge, Thread
    <2>3. ThreadInv'
      BY <1>0, <1>1, <1>5 DEF ThreadInv, Begin, Alive
    <2> QED
      BY <1>1, <2>1, <2>2, <2>3, UnmovedKeeps
  <1>6. ASSUME NEW r \in Role, ThreadEnds(r) PROVE BusInv'
    <2>1. UNCHANGED <<stream, cancelled, joins, knows, stop, batch, loop, handled, redis, dead, faults>>
      BY <1>6 DEF ThreadEnds
    <2>2. thread' \in [Role -> Thread]
      BY <1>1, <1>6 DEF ThreadEnds, Thread
    <2>3. ThreadInv'
      BY <1>0, <1>1, <1>6 DEF ThreadInv, ThreadEnds, Alive
    <2> QED
      BY <1>1, <2>1, <2>2, <2>3, UnmovedKeeps
  <1>7. CASE Cancel \/ JoinRefused \/ JoinFails
    <2>1. /\ UNCHANGED <<stream, knows, thread, stop, batch, loop, handled, redis, dead>>
          /\ cancelled' \in BOOLEAN
      BY <1>1, <1>7 DEF Cancel, JoinRefused, JoinFails, node
    <2>2. joins' \in Nat /\ faults' \in 0 .. MaxFaults /\ faults <= faults'
      BY <1>1, <1>7 DEF Cancel, JoinRefused, JoinFails
    <2>3. ThreadInv'
      BY <1>0, <2>1 DEF ThreadInv, Alive
    <2> QED
      BY <1>1, <2>1, <2>2, <2>3, UnmovedKeeps
  <1>8. CASE LoseReply
    <2>1. UNCHANGED <<stream, cancelled, joins, thread, stop, batch, loop, handled, redis, dead, faults>>
      BY <1>8 DEF LoseReply
    <2>2. knows' \in [Role -> Knowledge]
      BY <1>1, <1>8 DEF LoseReply, Knowledge
    <2>3. ThreadInv'
      BY <1>0, <1>1, <1>8 DEF ThreadInv, LoseReply, Alive
    <2> QED
      BY <1>1, <2>1, <2>2, <2>3, UnmovedKeeps
  <1>9. CASE PollTick
    <2>1. UNCHANGED <<stream, cancelled, joins, knows, thread, batch, loop, handled, redis, dead, faults>>
      BY <1>9 DEF PollTick
    <2>2. stop' \in [Role -> BOOLEAN]
      BY <1>1, <1>9 DEF PollTick
    <2>3. ThreadInv'
      BY <1>0, <2>1 DEF ThreadInv, Alive
    <2> QED
      BY <1>1, <2>1, <2>2, <2>3, UnmovedKeeps
  <1> QED
    BY <1>3, <1>4, <1>5, <1>6, <1>7, <1>8, <1>9

-----------------------------------------------------------------------------
(* The steps that move the events of one role. *)

\* It is enough to look at the role that moves: what the others hold is as before.
LEMMA MovedKeeps ==
    ASSUME BusInv, NEW r \in Role, NEW c, NEW p, NEW b, NEW l, NEW h, NEW t,
           UNCHANGED <<stream, cancelled, knows>>,
           cursor' = [cursor EXCEPT ![r] = c], pel' = [pel EXCEPT ![r] = p],
           batch' = [batch EXCEPT ![r] = b], loop' = [loop EXCEPT ![r] = l],
           handled' = [handled EXCEPT ![r] = h], thread' = [thread EXCEPT ![r] = t],
           stop' \in [Role -> BOOLEAN], joins' \in Nat, dead' \in {dead, dead \cup {r}},
           faults' \in 0 .. MaxFaults, faults <= faults',
           c \in 0 .. Len(stream), p \subseteq DOMAIN stream, b \in Seq(DOMAIN stream),
           l \in Seq(DOMAIN stream), h \in Seq(DOMAIN stream), t \in Thread,
           t = "batch" <=> b # <<>>,
           t = "none" <=> thread[r] = "none",
           r \in dead' => t \in {"none", "ended"} /\ l = <<>>,
           \A i \in p \cup ElementsOf(l) \cup ElementsOf(h) : i <= c,
           ElementsOf(b) \subseteq p, Distinct(b),
           r \notin dead' => \A i \in 1 .. c : Addressed(r, i) =>
                                 i \in ElementsOf(h) \cup ElementsOf(l) \cup ElementsOf(b) \cup p,
           OwedBy(h, l, p) - Owed(r) <= faults' - faults,
           faults' = 0 =>
               /\ Ascending(h) /\ Ascending(l) /\ Ascending(b)
               /\ Precedes(h, l) /\ Precedes(h, b) /\ Precedes(l, b)
               /\ \A i \in ElementsOf(h) \cup ElementsOf(l) \cup ElementsOf(b) : Addressed(r, i)
               /\ r \notin dead' => p = ElementsOf(b)
    PROVE  BusInv'
  <1>0. BusTypeOK /\ ThreadInv /\ PendingInv /\ NothingSlips /\ PaidInv /\ OrderInv
    BY DEF BusInv
  <1>1. /\ cursor \in [Role -> 0 .. Len(stream)] /\ pel \in [Role -> SUBSET DOMAIN stream]
        /\ batch \in [Role -> Seq(DOMAIN stream)] /\ loop \in [Role -> Seq(DOMAIN stream)]
        /\ handled \in [Role -> Seq(DOMAIN stream)] /\ thread \in [Role -> Thread]
        /\ dead \in SUBSET Role /\ faults \in 0 .. MaxFaults
    BY <1>0 DEF BusTypeOK
  <1>2. /\ cursor'[r] = c /\ pel'[r] = p /\ batch'[r] = b /\ loop'[r] = l /\ handled'[r] = h /\ thread'[r] = t
        /\ \A s \in Role \ {r} :
              /\ cursor'[s] = cursor[s] /\ pel'[s] = pel[s] /\ batch'[s] = batch[s]
              /\ loop'[s] = loop[s] /\ handled'[s] = handled[s] /\ thread'[s] = thread[s]
              /\ s \in dead' <=> s \in dead
    BY <1>1
  <1>3. BusTypeOK'
    <2>1. /\ cursor' \in [Role -> 0 .. Len(stream)] /\ pel' \in [Role -> SUBSET DOMAIN stream]
          /\ thread' \in [Role -> Thread] /\ dead' \in SUBSET Role
      BY <1>1
    <2>2. /\ batch' \in [Role -> Seq(DOMAIN stream)] /\ loop' \in [Role -> Seq(DOMAIN stream)]
          /\ handled' \in [Role -> Seq(DOMAIN stream)]
      BY <1>1
    <2> QED
      BY <1>0, <2>1, <2>2 DEF BusTypeOK
  <1>4. ThreadInv'
    <2> SUFFICES ASSUME NEW s \in Role
                 PROVE  /\ thread'[s] = "batch" <=> batch'[s] # <<>>
                        /\ knows[s] = "listens" <=> thread'[s] # "none"
                        /\ s \in dead' => thread'[s] \in {"none", "ended"} /\ loop'[s] = <<>>
      BY DEF ThreadInv, Alive
    <2>1. CASE s = r
      BY <1>0, <1>2, <2>1 DEF ThreadInv
    <2>2. CASE s # r
      BY <1>0, <1>2, <2>2 DEF ThreadInv, Alive
    <2> QED
      BY <2>1, <2>2
  <1>5. PendingInv'
    <2> SUFFICES ASSUME NEW s \in Role
                 PROVE  /\ \A i \in pel'[s] \cup ElementsOf(loop'[s]) \cup ElementsOf(handled'[s]) : i <= cursor'[s]
                        /\ ElementsOf(batch'[s]) \subseteq pel'[s]
                        /\ Distinct(batch'[s])
      BY DEF PendingInv
    <2>1. CASE s = r
      BY <1>2, <2>1
    <2>2. CASE s # r
      BY <1>0, <1>2, <2>2 DEF PendingInv
    <2> QED
      BY <2>1, <2>2
  <1>6. NothingSlips'
    <2> SUFFICES ASSUME NEW s \in Role, s \notin dead', NEW i \in 1 .. cursor'[s], Addressed(s, i)
                 PROVE  i \in ElementsOf(handled'[s]) \cup ElementsOf(loop'[s])
                                 \cup ElementsOf(batch'[s]) \cup pel'[s]
      BY DEF NothingSlips, Alive, Addressed
    <2>1. CASE s = r
      BY <1>2, <2>1
    <2>2. CASE s # r
      BY <1>0, <1>2, <2>2 DEF NothingSlips, Alive
    <2> QED
      BY <2>1, <2>2
  <1>7. PaidInv'
    <2>1. Owed(r)' = OwedBy(h, l, p) /\ \A s \in Role \ {r} : Owed(s)' = Owed(s)
      BY <1>2 DEF Owed
    <2>2. OwedBy(h, l, p) \in Int
      BY OwedCounts
    <2> QED
      BY <2>1, <2>2, StillPaid
  <1>8. OrderInv'
    <2> SUFFICES ASSUME faults' = 0, NEW s \in Role
                 PROVE  /\ Ascending(handled'[s]) /\ Ascending(loop'[s]) /\ Ascending(batch'[s])
                        /\ Precedes(handled'[s], loop'[s]) /\ Precedes(handled'[s], batch'[s])
                        /\ Precedes(loop'[s], batch'[s])
                        /\ \A i \in ElementsOf(handled'[s]) \cup ElementsOf(loop'[s]) \cup ElementsOf(batch'[s]) :
                              Addressed(s, i)
                        /\ s \notin dead' => pel'[s] = ElementsOf(batch'[s])
      BY DEF OrderInv, Alive, Addressed
    <2>1. CASE s = r
      BY <1>2, <2>1
    <2>2. CASE s # r
      <3>1. faults = 0
        BY <1>1
      <3> QED
        BY <1>0, <1>2, <2>2, <3>1 DEF OrderInv, Alive
    <2> QED
      BY <2>1, <2>2
  <1> QED
    BY <1>3, <1>4, <1>5, <1>6, <1>7, <1>8 DEF BusInv

\* The batch of a read: the fresh entries and then the stale ones, each once.
LEMMA BatchOf ==
    ASSUME BusInv, NEW r \in Role, NEW new \in SUBSET Fresh(r), NEW old \in SUBSET pel[r]
    PROVE  LET events == InOrder(new) \o InOrder(old)
           IN  /\ events \in Seq(DOMAIN stream)
               /\ ElementsOf(events) = new \cup old /\ Distinct(events)
               /\ old = {} => Ascending(events)
  <1> DEFINE p == InOrder(new)
             q == InOrder(old)
  <1>1. /\ Len(stream) \in Nat /\ DOMAIN stream = 1 .. Len(stream)
        /\ cursor[r] \in 0 .. Len(stream) /\ pel[r] \subseteq DOMAIN stream
    BY TypesOf DEF BusInv
  <1>2. IsFiniteSet(Fresh(r)) /\ Fresh(r) \subseteq DOMAIN stream /\ \A i \in Fresh(r) : cursor[r] < i
    BY FreshFollow DEF BusInv
  <1>3. IsFiniteSet(new) /\ new \subseteq DOMAIN stream /\ new \subseteq Int
    BY <1>1, <1>2, FS_Subset
  <1>4. IsFiniteSet(old) /\ old \subseteq DOMAIN stream /\ old \subseteq Int
    <2>1. IsFiniteSet(1 .. Len(stream))
      BY <1>1, FS_Interval
    <2> QED
      BY <1>1, <2>1, FS_Subset
  <1>5. p \in Seq(new) /\ ElementsOf(p) = new /\ Ascending(p) /\ Distinct(p)
    BY <1>3, Ordered
  <1>6. q \in Seq(old) /\ ElementsOf(q) = old /\ Distinct(q)
    BY <1>4, Ordered
  <1> HIDE DEF p, q
  <1>7. p \in Seq(DOMAIN stream) /\ q \in Seq(DOMAIN stream)
    BY <1>3, <1>4, <1>5, <1>6, Widened
  <1>8. new \cap old = {}
    <2>1. \A i \in old : i <= cursor[r]
      BY DEF BusInv, PendingInv
    <2> QED
      BY <1>1, <1>2, <1>3, <2>1
  <1>9. p \o q \in Seq(DOMAIN stream) /\ ElementsOf(p \o q) = new \cup old /\ Distinct(p \o q)
    BY <1>5, <1>6, <1>7, <1>8, Joins
  <1>10. ASSUME old = {} PROVE Ascending(p \o q)
    <2>1. q = <<>>
      BY <1>6, <1>10, Elements
    <2>2. p \o q = p
      BY <1>7, <2>1, ConcatEmptySeq
    <2> QED
      BY <1>5, <2>2
  <1> QED
    BY <1>9, <1>10 DEF p, q

\* A thread that polls or raises holds no batch.
LEMMA NoBatch ==
    ASSUME BusInv, NEW r \in Role, thread[r] = "poll"
    PROVE  batch[r] = <<>> /\ ElementsOf(batch[r]) = {} /\ Alive(r)
  BY Nothing DEF BusInv, ThreadInv

\* What was scheduled or handled is not pending afresh: a read owes nothing new.
LEMMA ReadOwes ==
    ASSUME BusInv, NEW r \in Role, NEW q, q \subseteq pel[r] \cup Fresh(r)
    PROVE  OwedBy(handled[r], loop[r], q) - Owed(r) <= 0
  <1>1. loop[r] \in Seq(DOMAIN stream) /\ handled[r] \in Seq(DOMAIN stream) /\ cursor[r] \in Int
    BY TypesOf DEF BusInv
  <1>2. \A i \in Fresh(r) : cursor[r] < i /\ i \in Int
    BY FreshFollow, TypesOf DEF BusInv
  <1>3. \A i \in ElementsOf(handled[r]) \cup ElementsOf(loop[r]) : i <= cursor[r]
    BY DEF BusInv, PendingInv
  <1>4. \A i \in q : i \in ElementsOf(handled[r]) \cup ElementsOf(loop[r]) => i \in pel[r]
    BY <1>1, <1>2, <1>3
  <1>5. OwedBy(handled[r], loop[r], q) <= Owed(r)
    BY <1>1, <1>4, OwedPending DEF Owed
  <1>6. OwedBy(handled[r], loop[r], q) \in Int /\ Owed(r) \in Int
    BY <1>1, OwedCounts DEF Owed
  <1> QED
    BY <1>5, <1>6

\* read_role_events and reclaim_stale_entries.
LEMMA ReadKeeps ==
    ASSUME BusInv, NEW r \in Role, Read(r)
    PROVE  BusInv'
  <1>0. BusTypeOK /\ ThreadInv /\ PendingInv /\ NothingSlips /\ PaidInv /\ OrderInv
    BY DEF BusInv
  <1>1. PICK stale \in SUBSET pel[r] :
          LET mine(S) == {i \in S : Addressed(r, i)}
              events  == InOrder(mine(Fresh(r))) \o InOrder(mine(stale))
          IN  /\ pel' = [pel EXCEPT ![r] = (@ \ stale) \cup mine(Fresh(r)) \cup mine(stale)]
              /\ batch' = [batch EXCEPT ![r] = events]
              /\ Turn(r, events)
    BY DEF Read, Reclaimable
  <1> DEFINE new == {i \in Fresh(r) : Addressed(r, i)}
             old == {i \in stale : Addressed(r, i)}
             b == InOrder(new) \o InOrder(old)
             p == (pel[r] \ stale) \cup new \cup old
             c == cursor[r] + Cardinality(Fresh(r))
             t == IF b # <<>> THEN "batch" ELSE IF stop[r] THEN "ended" ELSE "poll"
  <1>2. /\ cursor' = [cursor EXCEPT ![r] = c] /\ pel' = [pel EXCEPT ![r] = p]
        /\ batch' = [batch EXCEPT ![r] = b] /\ thread' = [thread EXCEPT ![r] = t]
        /\ thread[r] = "poll" /\ Alive(r)
        /\ UNCHANGED <<stream, cancelled, joins, knows, stop, loop, handled, dead, faults>>
    BY <1>1 DEF Read, Turn
  <1>3. /\ Len(stream) \in Nat /\ DOMAIN stream = 1 .. Len(stream)
        /\ cursor[r] \in 0 .. Len(stream) /\ pel[r] \subseteq DOMAIN stream
        /\ loop[r] \in Seq(DOMAIN stream) /\ handled[r] \in Seq(DOMAIN stream)
        /\ ElementsOf(loop[r]) \cup ElementsOf(handled[r]) \subseteq DOMAIN stream
    BY <1>0, TypesOf
  <1>4. /\ Fresh(r) \subseteq DOMAIN stream /\ c \in 0 .. Len(stream) /\ cursor[r] <= c
        /\ \A i \in DOMAIN stream : i <= c <=> i <= cursor[r] \/ i \in Fresh(r)
        /\ \A i \in Fresh(r) : cursor[r] < i
    BY <1>0, FreshFollow
  <1>5. /\ b \in Seq(DOMAIN stream) /\ ElementsOf(b) = new \cup old /\ Distinct(b)
        /\ old = {} => Ascending(b)
    BY BatchOf
  <1>6. batch[r] = <<>> /\ ElementsOf(batch[r]) = {}
    BY <1>2, NoBatch
  <1> HIDE DEF b, c
  <1>7. p \subseteq DOMAIN stream /\ p \subseteq pel[r] \cup Fresh(r) /\ ElementsOf(b) \subseteq p
    BY <1>3, <1>4, <1>5
  <1>8. loop' = [loop EXCEPT ![r] = loop[r]] /\ handled' = [handled EXCEPT ![r] = handled[r]]
    BY <1>0, <1>2 DEF BusTypeOK
  <1>9. \A i \in p \cup ElementsOf(loop[r]) \cup ElementsOf(handled[r]) : i <= c
    <2>1. \A i \in pel[r] \cup ElementsOf(loop[r]) \cup ElementsOf(handled[r]) : i <= cursor[r]
      BY <1>0 DEF PendingInv
    <2> QED
      BY <1>3, <1>4, <1>7, <2>1
  <1>10. ASSUME NEW i \in 1 .. c, Addressed(r, i)
         PROVE  i \in ElementsOf(handled[r]) \cup ElementsOf(loop[r]) \cup ElementsOf(b) \cup p
    <2>1. i \in DOMAIN stream
      BY <1>3, <1>4
    <2>2. CASE i \in Fresh(r)
      BY <1>10, <2>2
    <2>3. CASE i <= cursor[r]
      <3>1. i \in 1 .. cursor[r]
        BY <1>3, <2>1, <2>3
      <3>2. i \in ElementsOf(handled[r]) \cup ElementsOf(loop[r]) \cup ElementsOf(batch[r]) \cup pel[r]
        BY <1>0, <1>2, <1>10, <3>1 DEF NothingSlips
      <3> QED
        BY <1>6, <1>10, <3>2
    <2> QED
      BY <1>4, <2>1, <2>2, <2>3
  <1>11. OwedBy(handled[r], loop[r], p) - Owed(r) <= 0
    BY <1>7, ReadOwes
  <1>12. ASSUME faults = 0
         PROVE  /\ Ascending(handled[r]) /\ Ascending(loop[r]) /\ Ascending(b)
                /\ Precedes(handled[r], loop[r]) /\ Precedes(handled[r], b) /\ Precedes(loop[r], b)
                /\ \A i \in ElementsOf(handled[r]) \cup ElementsOf(loop[r]) \cup ElementsOf(b) : Addressed(r, i)
                /\ p = ElementsOf(b)
    <2>1. pel[r] = {} /\ Ascending(handled[r]) /\ Ascending(loop[r]) /\ Precedes(handled[r], loop[r])
      BY <1>0, <1>2, <1>6, <1>12 DEF OrderInv
    <2>2. old = {} /\ ElementsOf(b) = new /\ Ascending(b) /\ p = new
      BY <1>5, <2>1
    <2>3. \A i \in ElementsOf(handled[r]) \cup ElementsOf(loop[r]) : i <= cursor[r] /\ Addressed(r, i)
      BY <1>0, <1>12 DEF PendingInv, OrderInv
    <2>4. Precedes(handled[r], b) /\ Precedes(loop[r], b)
      <3>1. \A x \in ElementsOf(handled[r]) \cup ElementsOf(loop[r]), y \in new : x < y
        <4>1. \A y \in new : y \in Int /\ cursor[r] < y
          BY <1>3, <1>4
        <4>2. \A x \in ElementsOf(handled[r]) \cup ElementsOf(loop[r]) : x \in Int /\ x <= cursor[r]
          BY <1>3, <2>3
        <4> QED
          BY <1>3, <4>1, <4>2
      <3> QED
        BY <2>2, <3>1 DEF Precedes
    <2> QED
      BY <2>1, <2>2, <2>3, <2>4
  <1>13. /\ t \in Thread /\ (t = "batch" <=> b # <<>>) /\ t # "none"
         /\ stop' \in [Role -> BOOLEAN] /\ joins' \in Nat
         /\ faults' \in 0 .. MaxFaults /\ faults <= faults' /\ faults' - faults = 0
    BY <1>0, <1>2 DEF Thread, BusTypeOK
  <1> HIDE DEF p, t, new, old
  <1> QED
    BY <1>2, <1>3, <1>4, <1>5, <1>7, <1>8, <1>9, <1>10, <1>11, <1>12, <1>13, MovedKeeps DEF Alive

\* A command that raises after XREADGROUP: the entries wait in the pending list.
LEMMA ReadRaisesKeeps ==
    ASSUME BusInv, NEW r \in Role, ReadRaises(r)
    PROVE  BusInv'
  <1>0. BusTypeOK /\ ThreadInv /\ PendingInv /\ NothingSlips /\ PaidInv /\ OrderInv
    BY DEF BusInv
  <1> DEFINE p == pel[r] \cup Fresh(r)
             c == cursor[r] + Cardinality(Fresh(r))
             t == IF stop[r] THEN "ended" ELSE "poll"
  <1>1. /\ cursor' = [cursor EXCEPT ![r] = c] /\ pel' = [pel EXCEPT ![r] = p]
        /\ thread' = [thread EXCEPT ![r] = t] /\ faults' = faults + 1 /\ faults < MaxFaults
        /\ thread[r] = "poll" /\ Alive(r)
        /\ UNCHANGED <<stream, cancelled, joins, knows, stop, batch, loop, handled, dead>>
    BY DEF ReadRaises, Turn
  <1>2. /\ Len(stream) \in Nat /\ DOMAIN stream = 1 .. Len(stream)
        /\ cursor[r] \in 0 .. Len(stream) /\ pel[r] \subseteq DOMAIN stream
        /\ loop[r] \in Seq(DOMAIN stream) /\ handled[r] \in Seq(DOMAIN stream)
        /\ ElementsOf(loop[r]) \cup ElementsOf(handled[r]) \subseteq DOMAIN stream
    BY <1>0, TypesOf
  <1>3. /\ Fresh(r) \subseteq DOMAIN stream /\ c \in 0 .. Len(stream) /\ cursor[r] <= c
        /\ \A i \in DOMAIN stream : i <= c <=> i <= cursor[r] \/ i \in Fresh(r)
    BY <1>0, FreshFollow
  <1>4. batch[r] = <<>> /\ ElementsOf(batch[r]) = {}
    BY <1>1, NoBatch
  <1> HIDE DEF c
  <1>5. /\ loop' = [loop EXCEPT ![r] = loop[r]] /\ handled' = [handled EXCEPT ![r] = handled[r]]
        /\ batch' = [batch EXCEPT ![r] = batch[r]] /\ batch[r] \in Seq(DOMAIN stream)
    BY <1>0, <1>1 DEF BusTypeOK
  <1>6. \A i \in p \cup ElementsOf(loop[r]) \cup ElementsOf(handled[r]) : i <= c
    <2>1. \A i \in pel[r] \cup ElementsOf(loop[r]) \cup ElementsOf(handled[r]) : i <= cursor[r]
      BY <1>0 DEF PendingInv
    <2> QED
      BY <1>2, <1>3, <2>1
  <1>7. ASSUME NEW i \in 1 .. c, Addressed(r, i)
        PROVE  i \in ElementsOf(handled[r]) \cup ElementsOf(loop[r]) \cup ElementsOf(batch[r]) \cup p
    <2>1. i \in DOMAIN stream
      BY <1>2, <1>3
    <2>2. CASE i \in Fresh(r)
      BY <2>2
    <2>3. CASE i <= cursor[r]
      <3>1. i \in 1 .. cursor[r]
        BY <1>2, <2>1, <2>3
      <3> QED
        BY <1>0, <1>1, <1>7, <3>1 DEF NothingSlips
    <2> QED
      BY <1>3, <2>1, <2>2, <2>3
  <1>8. OwedBy(handled[r], loop[r], p) - Owed(r) <= 0
    BY ReadOwes
  <1>9. OwedBy(handled[r], loop[r], p) \in Int /\ Owed(r) \in Int
    BY <1>2, OwedCounts DEF Owed
  <1>10. faults \in 0 .. MaxFaults /\ MaxFaults \in Nat
    BY <1>0, CountAssumption DEF BusTypeOK
  <1>11. /\ faults' \in 0 .. MaxFaults /\ faults <= faults' /\ faults' # 0 /\ faults' - faults = 1
         /\ OwedBy(handled[r], loop[r], p) - Owed(r) <= faults' - faults
    BY <1>1, <1>8, <1>9, <1>10
  <1>12. /\ t \in Thread /\ (t = "batch" <=> batch[r] # <<>>) /\ t # "none"
         /\ stop' \in [Role -> BOOLEAN] /\ joins' \in Nat /\ Distinct(batch[r])
         /\ p \subseteq DOMAIN stream /\ ElementsOf(batch[r]) \subseteq p
    BY <1>0, <1>1, <1>2, <1>3, <1>4, Nothing DEF Thread, BusTypeOK
  <1> HIDE DEF p, t
  <1> QED
    BY <1>1, <1>2, <1>3, <1>5, <1>6, <1>7, <1>11, <1>12, MovedKeeps DEF Alive

\* The head of the batch: what the thread schedules, and what it leaves.
LEMMA HeadOf ==
    ASSUME BusInv, NEW r \in Role, thread[r] = "batch"
    PROVE  /\ batch[r] # <<>> /\ Head(batch[r]) \in pel[r] /\ Head(batch[r]) \in DOMAIN stream
           /\ Alive(r) /\ Tail(batch[r]) \in Seq(DOMAIN stream)
           /\ Head(batch[r]) \in ElementsOf(batch[r])
           /\ ElementsOf(batch[r]) = {Head(batch[r])} \cup ElementsOf(Tail(batch[r]))
           /\ Distinct(Tail(batch[r])) /\ Head(batch[r]) \notin ElementsOf(Tail(batch[r]))
           /\ Ascending(batch[r]) => /\ Ascending(Tail(batch[r]))
                                     /\ \A y \in ElementsOf(Tail(batch[r])) : Head(batch[r]) < y
           /\ Append(loop[r], Head(batch[r])) \in Seq(DOMAIN stream)
           /\ ElementsOf(Append(loop[r], Head(batch[r]))) = ElementsOf(loop[r]) \cup {Head(batch[r])}
           /\ (Ascending(loop[r]) /\ \A y \in ElementsOf(loop[r]) : y < Head(batch[r]))
                => Ascending(Append(loop[r], Head(batch[r])))
  <1> DEFINE q == batch[r]
             S == DOMAIN stream
             l == loop[r]
  <1>1. q \in Seq(S) /\ l \in Seq(S)
    BY TypesOf DEF BusInv
  <1>2. q # <<>> /\ Alive(r)
    BY DEF BusInv, ThreadInv
  <1>3. Distinct(q) /\ ElementsOf(q) \subseteq pel[r]
    BY DEF BusInv, PendingInv
  <1> HIDE DEF q, S, l
  <1>4. /\ Head(q) \in S /\ Tail(q) \in Seq(S) /\ Head(q) \in ElementsOf(q)
        /\ ElementsOf(q) = {Head(q)} \cup ElementsOf(Tail(q))
        /\ Distinct(q) => Distinct(Tail(q)) /\ Head(q) \notin ElementsOf(Tail(q))
        /\ Ascending(q) => Ascending(Tail(q)) /\ \A y \in ElementsOf(Tail(q)) : Head(q) < y
    BY <1>1, <1>2, Taken
  <1>5. /\ Append(l, Head(q)) \in Seq(S) /\ ElementsOf(Append(l, Head(q))) = ElementsOf(l) \cup {Head(q)}
        /\ (Ascending(l) /\ \A y \in ElementsOf(l) : y < Head(q)) => Ascending(Append(l, Head(q)))
    BY <1>1, <1>4, Appended
  <1> QED
    BY <1>2, <1>3, <1>4, <1>5 DEF q, S, l

\* What a dispatch owes, acked or not.
LEMMA DispatchOwes ==
    ASSUME BusInv, NEW r \in Role, NEW x \in pel[r]
    PROVE  /\ Owed(r) \in Int
           /\ OwedBy(handled[r], Append(loop[r], x), pel[r] \ {x}) = Owed(r)
           /\ OwedBy(handled[r], Append(loop[r], x), pel[r]) = Owed(r) + 1
  <1> DEFINE S == DOMAIN stream
             h == handled[r]
             l == loop[r]
             p == pel[r]
  <1>1. h \in Seq(S) /\ l \in Seq(S) /\ p \in SUBSET S /\ x \in p /\ Owed(r) = OwedBy(h, l, p)
    BY TypesOf DEF BusInv, Owed
  <1> HIDE DEF S, h, l, p
  <1>2. /\ OwedBy(h, Append(l, x), p \ {x}) = OwedBy(h, l, p)
        /\ OwedBy(h, Append(l, x), p) = OwedBy(h, l, p) + 1
    BY <1>1, OwedScheduled
  <1>3. OwedBy(h, l, p) \in Int
    BY <1>1, OwedCounts
  <1> QED
    BY <1>1, <1>2, <1>3 DEF h, l, p

\* _dispatch_event, and the ack after it.
LEMMA DispatchKeeps ==
    ASSUME BusInv, NEW r \in Role, Dispatch(r)
    PROVE  BusInv'
  <1>0. BusTypeOK /\ ThreadInv /\ PendingInv /\ NothingSlips /\ PaidInv /\ OrderInv
    BY DEF BusInv
  <1> DEFINE x == Head(batch[r])
             b == Tail(batch[r])
             l == Append(loop[r], x)
             p == pel[r] \ {x}
             t == IF b # <<>> THEN "batch" ELSE IF stop[r] THEN "ended" ELSE "poll"
  <1>1. /\ loop' = [loop EXCEPT ![r] = l] /\ pel' = [pel EXCEPT ![r] = p]
        /\ batch' = [batch EXCEPT ![r] = b] /\ thread' = [thread EXCEPT ![r] = t]
        /\ thread[r] = "batch" /\ Alive(r)
        /\ UNCHANGED <<stream, cancelled, joins, knows, stop, cursor, handled, dead, faults>>
    BY <1>0 DEF Dispatch, Schedule, Acked, Turn, BusTypeOK
  <1>2. /\ Len(stream) \in Nat /\ DOMAIN stream = 1 .. Len(stream)
        /\ cursor[r] \in 0 .. Len(stream) /\ pel[r] \subseteq DOMAIN stream
        /\ loop[r] \in Seq(DOMAIN stream) /\ handled[r] \in Seq(DOMAIN stream)
    BY <1>0, TypesOf
  <1>3. /\ x \in pel[r] /\ l \in Seq(DOMAIN stream) /\ b \in Seq(DOMAIN stream)
        /\ ElementsOf(batch[r]) = {x} \cup ElementsOf(b) /\ Distinct(b) /\ x \notin ElementsOf(b)
        /\ Ascending(batch[r]) => Ascending(b) /\ \A y \in ElementsOf(b) : x < y
        /\ ElementsOf(l) = ElementsOf(loop[r]) \cup {x}
        /\ (Ascending(loop[r]) /\ \A y \in ElementsOf(loop[r]) : y < x) => Ascending(l)
    BY <1>1, HeadOf
  <1>4. OwedBy(handled[r], l, p) = Owed(r) /\ Owed(r) \in Int
    BY <1>3, DispatchOwes
  <1> HIDE DEF x, b, l
  <1>5. handled' = [handled EXCEPT ![r] = handled[r]] /\ cursor' = [cursor EXCEPT ![r] = cursor[r]]
    BY <1>0, <1>1 DEF BusTypeOK
  <1>6. /\ \A i \in p \cup ElementsOf(l) \cup ElementsOf(handled[r]) : i <= cursor[r]
        /\ ElementsOf(b) \subseteq p
    <2>1. \A i \in pel[r] \cup ElementsOf(loop[r]) \cup ElementsOf(handled[r]) : i <= cursor[r]
      BY <1>0 DEF PendingInv
    <2>2. ElementsOf(batch[r]) \subseteq pel[r]
      BY <1>0 DEF PendingInv
    <2> QED
      BY <1>3, <2>1, <2>2
  <1>7. ASSUME NEW i \in 1 .. cursor[r], Addressed(r, i)
        PROVE  i \in ElementsOf(handled[r]) \cup ElementsOf(l) \cup ElementsOf(b) \cup p
    <2>1. i \in ElementsOf(handled[r]) \cup ElementsOf(loop[r]) \cup ElementsOf(batch[r]) \cup pel[r]
      BY <1>0, <1>1, <1>7 DEF NothingSlips
    <2> QED
      BY <1>3, <2>1
  <1>8. ASSUME faults = 0
        PROVE  /\ Ascending(handled[r]) /\ Ascending(l) /\ Ascending(b)
               /\ Precedes(handled[r], l) /\ Precedes(handled[r], b) /\ Precedes(l, b)
               /\ \A i \in ElementsOf(handled[r]) \cup ElementsOf(l) \cup ElementsOf(b) : Addressed(r, i)
               /\ p = ElementsOf(b)
    <2>1. /\ Ascending(handled[r]) /\ Ascending(loop[r]) /\ Ascending(batch[r])
          /\ Precedes(handled[r], loop[r]) /\ Precedes(handled[r], batch[r]) /\ Precedes(loop[r], batch[r])
          /\ \A i \in ElementsOf(handled[r]) \cup ElementsOf(loop[r]) \cup ElementsOf(batch[r]) : Addressed(r, i)
          /\ pel[r] = ElementsOf(batch[r])
      BY <1>0, <1>1, <1>8 DEF OrderInv
    <2>2. Ascending(b) /\ \A y \in ElementsOf(b) : x < y
      BY <1>3, <2>1
    <2>3. Ascending(l)
      BY <1>3, <2>1 DEF Precedes
    <2>4. Precedes(handled[r], l) /\ Precedes(handled[r], b) /\ Precedes(l, b)
      BY <1>3, <2>1, <2>2 DEF Precedes
    <2> QED
      BY <1>3, <2>1, <2>2, <2>3, <2>4
  <1>9. /\ t \in Thread /\ (t = "batch" <=> b # <<>>) /\ t # "none" /\ p \subseteq DOMAIN stream
        /\ stop' \in [Role -> BOOLEAN] /\ joins' \in Nat /\ faults' \in 0 .. MaxFaults /\ faults <= faults'
        /\ OwedBy(handled[r], l, p) - Owed(r) <= faults' - faults
    BY <1>0, <1>1, <1>2, <1>4 DEF Thread, BusTypeOK
  <1> HIDE DEF p, t
  <1> QED
    BY <1>1, <1>2, <1>3, <1>5, <1>6, <1>7, <1>8, <1>9, MovedKeeps DEF Alive

\* XACK raises: the rest of the batch is dropped, but it is pending.
LEMMA AckRaisesKeeps ==
    ASSUME BusInv, NEW r \in Role, AckRaises(r)
    PROVE  BusInv'
  <1>0. BusTypeOK /\ ThreadInv /\ PendingInv /\ NothingSlips /\ PaidInv /\ OrderInv
    BY DEF BusInv
  <1>1. PICK p \in {pel[r], Acked(r)} : pel' = [pel EXCEPT ![r] = p]
    BY DEF AckRaises
  <1> DEFINE x == Head(batch[r])
             b == <<>>
             l == Append(loop[r], x)
             t == IF stop[r] THEN "ended" ELSE "poll"
  <1>2. /\ loop' = [loop EXCEPT ![r] = l] /\ batch' = [batch EXCEPT ![r] = b]
        /\ thread' = [thread EXCEPT ![r] = t] /\ faults' = faults + 1 /\ faults < MaxFaults
        /\ thread[r] = "batch" /\ Alive(r)
        /\ UNCHANGED <<stream, cancelled, joins, knows, stop, cursor, handled, dead>>
    BY <1>0 DEF AckRaises, Schedule, Turn, BusTypeOK
  <1>3. /\ Len(stream) \in Nat /\ DOMAIN stream = 1 .. Len(stream)
        /\ cursor[r] \in 0 .. Len(stream) /\ pel[r] \subseteq DOMAIN stream
        /\ loop[r] \in Seq(DOMAIN stream) /\ handled[r] \in Seq(DOMAIN stream)
    BY <1>0, TypesOf
  <1>4. /\ x \in pel[r] /\ l \in Seq(DOMAIN stream)
        /\ ElementsOf(l) = ElementsOf(loop[r]) \cup {x}
    BY <1>2, HeadOf
  <1>5. p = pel[r] \/ p = pel[r] \ {x}
    BY <1>1 DEF Acked
  <1>6. OwedBy(handled[r], l, p) - Owed(r) <= 1
    <2>1. /\ OwedBy(handled[r], l, pel[r] \ {x}) = Owed(r)
          /\ OwedBy(handled[r], l, pel[r]) = Owed(r) + 1
          /\ Owed(r) \in Int
      BY <1>4, DispatchOwes
    <2>2. CASE p = pel[r]
      BY <2>1, <2>2
    <2>3. CASE p = pel[r] \ {x}
      BY <2>1, <2>3
    <2> QED
      BY <1>5, <2>2, <2>3
  <1> HIDE DEF x, l
  <1>7. handled' = [handled EXCEPT ![r] = handled[r]] /\ cursor' = [cursor EXCEPT ![r] = cursor[r]]
    BY <1>0, <1>2 DEF BusTypeOK
  <1>8. \A i \in p \cup ElementsOf(l) \cup ElementsOf(handled[r]) : i <= cursor[r]
    <2>1. \A i \in pel[r] \cup ElementsOf(loop[r]) \cup ElementsOf(handled[r]) : i <= cursor[r]
      BY <1>0 DEF PendingInv
    <2> QED
      BY <1>4, <1>5, <2>1
  <1>9. ASSUME NEW i \in 1 .. cursor[r], Addressed(r, i)
        PROVE  i \in ElementsOf(handled[r]) \cup ElementsOf(l) \cup ElementsOf(b) \cup p
    <2>1. i \in ElementsOf(handled[r]) \cup ElementsOf(loop[r]) \cup ElementsOf(batch[r]) \cup pel[r]
      BY <1>0, <1>2, <1>9 DEF NothingSlips
    <2>2. ElementsOf(batch[r]) \subseteq pel[r]
      BY <1>0 DEF PendingInv
    <2> QED
      BY <1>4, <1>5, <2>1, <2>2
  <1>10. faults \in 0 .. MaxFaults /\ MaxFaults \in Nat
    BY <1>0, CountAssumption DEF BusTypeOK
  <1>11. /\ faults' \in 0 .. MaxFaults /\ faults <= faults' /\ faults' # 0
         /\ OwedBy(handled[r], l, p) - Owed(r) <= faults' - faults
    BY <1>2, <1>6, <1>10
  <1>12. /\ t \in Thread /\ (t = "batch" <=> b # <<>>) /\ t # "none"
         /\ stop' \in [Role -> BOOLEAN] /\ joins' \in Nat /\ p \subseteq DOMAIN stream
         /\ b \in Seq(DOMAIN stream) /\ ElementsOf(b) \subseteq p /\ Distinct(b)
    BY <1>0, <1>2, <1>3, <1>5, Nothing DEF Thread, BusTypeOK
  <1> HIDE DEF b, t
  <1> QED
    BY <1>1, <1>2, <1>3, <1>4, <1>7, <1>8, <1>9, <1>11, <1>12, MovedKeeps DEF Alive

\* The loop runs the next handler: the first of what is scheduled.
LEMMA HandlerOf ==
    ASSUME BusInv, NEW r \in Role, Run(r)
    PROVE  /\ Head(loop[r]) \in DOMAIN stream /\ Tail(loop[r]) \in Seq(DOMAIN stream)
           /\ Append(handled[r], Head(loop[r])) \in Seq(DOMAIN stream)
           /\ ElementsOf(loop[r]) = {Head(loop[r])} \cup ElementsOf(Tail(loop[r]))
           /\ ElementsOf(Append(handled[r], Head(loop[r]))) = ElementsOf(handled[r]) \cup {Head(loop[r])}
           /\ Ascending(loop[r]) => /\ Ascending(Tail(loop[r]))
                                    /\ \A y \in ElementsOf(Tail(loop[r])) : Head(loop[r]) < y
           /\ (Ascending(handled[r]) /\ \A y \in ElementsOf(handled[r]) : y < Head(loop[r]))
                => Ascending(Append(handled[r], Head(loop[r])))
           /\ OwedBy(Append(handled[r], Head(loop[r])), Tail(loop[r]), pel[r]) = Owed(r)
           /\ Owed(r) \in Int
  <1> DEFINE S == DOMAIN stream
             h == handled[r]
             l == loop[r]
             p == pel[r]
  <1>1. h \in Seq(S) /\ l \in Seq(S) /\ l # <<>> /\ Owed(r) = OwedBy(h, l, p)
    BY TypesOf DEF BusInv, Owed, Run
  <1> HIDE DEF S, h, l, p
  <1>2. /\ Head(l) \in S /\ Tail(l) \in Seq(S) /\ ElementsOf(l) = {Head(l)} \cup ElementsOf(Tail(l))
        /\ Ascending(l) => Ascending(Tail(l)) /\ \A y \in ElementsOf(Tail(l)) : Head(l) < y
    BY <1>1, Taken
  <1>3. /\ Append(h, Head(l)) \in Seq(S) /\ ElementsOf(Append(h, Head(l))) = ElementsOf(h) \cup {Head(l)}
        /\ (Ascending(h) /\ \A y \in ElementsOf(h) : y < Head(l)) => Ascending(Append(h, Head(l)))
    BY <1>1, <1>2, Appended
  <1>4. OwedBy(Append(h, Head(l)), Tail(l), p) = OwedBy(h, l, p)
    BY <1>1, OwedRun
  <1>5. OwedBy(h, l, p) \in Int
    BY <1>1, OwedCounts
  <1> QED
    BY <1>1, <1>2, <1>3, <1>4, <1>5 DEF S, h, l, p

\* A handler runs on the node's loop.
LEMMA RunKeeps ==
    ASSUME BusInv, NEW r \in Role, Run(r)
    PROVE  BusInv'
  <1>0. BusTypeOK /\ ThreadInv /\ PendingInv /\ NothingSlips /\ PaidInv /\ OrderInv
    BY DEF BusInv
  <1> DEFINE x == Head(loop[r])
             l == Tail(loop[r])
             h == Append(handled[r], x)
             b == batch[r]
             p == pel[r]
  <1>1. /\ handled' = [handled EXCEPT ![r] = h] /\ loop' = [loop EXCEPT ![r] = l] /\ Alive(r)
        /\ UNCHANGED <<stream, cancelled, knows, thread, batch, cursor, pel, dead, faults>>
    BY <1>0 DEF Run, redis, BusTypeOK
  <1>2. stop' \in [Role -> BOOLEAN] /\ joins' \in Nat
    BY <1>0 DEF Run, EndsListening, BusTypeOK
  <1>3. /\ cursor[r] \in 0 .. Len(stream) /\ p \subseteq DOMAIN stream /\ b \in Seq(DOMAIN stream)
        /\ thread[r] \in Thread /\ Len(stream) \in Nat
    BY <1>0, TypesOf DEF BusTypeOK
  <1>4. /\ x \in DOMAIN stream /\ l \in Seq(DOMAIN stream) /\ h \in Seq(DOMAIN stream)
        /\ ElementsOf(loop[r]) = {x} \cup ElementsOf(l)
        /\ ElementsOf(h) = ElementsOf(handled[r]) \cup {x}
        /\ Ascending(loop[r]) => Ascending(l) /\ \A y \in ElementsOf(l) : x < y
        /\ (Ascending(handled[r]) /\ \A y \in ElementsOf(handled[r]) : y < x) => Ascending(h)
        /\ OwedBy(h, l, p) = Owed(r) /\ Owed(r) \in Int
    BY HandlerOf
  <1>5. /\ cursor' = [cursor EXCEPT ![r] = cursor[r]] /\ pel' = [pel EXCEPT ![r] = p]
        /\ batch' = [batch EXCEPT ![r] = b] /\ thread' = [thread EXCEPT ![r] = thread[r]]
    BY <1>0, <1>1 DEF BusTypeOK
  <1>6. /\ thread[r] = "batch" <=> b # <<>>
        /\ ElementsOf(b) \subseteq p /\ Distinct(b)
    BY <1>0 DEF ThreadInv, PendingInv
  <1> HIDE DEF x, l, h, b, p
  <1>7. \A i \in p \cup ElementsOf(l) \cup ElementsOf(h) : i <= cursor[r]
    <2>1. \A i \in p \cup ElementsOf(loop[r]) \cup ElementsOf(handled[r]) : i <= cursor[r]
      BY <1>0 DEF PendingInv, p
    <2> QED
      BY <1>4, <2>1
  <1>8. ASSUME NEW i \in 1 .. cursor[r], Addressed(r, i)
        PROVE  i \in ElementsOf(h) \cup ElementsOf(l) \cup ElementsOf(b) \cup p
    <2>1. i \in ElementsOf(handled[r]) \cup ElementsOf(loop[r]) \cup ElementsOf(b) \cup p
      BY <1>0, <1>1, <1>8 DEF NothingSlips, b, p
    <2> QED
      BY <1>4, <2>1
  <1>9. ASSUME faults = 0
        PROVE  /\ Ascending(h) /\ Ascending(l) /\ Ascending(b)
               /\ Precedes(h, l) /\ Precedes(h, b) /\ Precedes(l, b)
               /\ \A i \in ElementsOf(h) \cup ElementsOf(l) \cup ElementsOf(b) : Addressed(r, i)
               /\ p = ElementsOf(b)
    <2>1. /\ Ascending(handled[r]) /\ Ascending(loop[r]) /\ Ascending(b)
          /\ Precedes(handled[r], loop[r]) /\ Precedes(handled[r], b) /\ Precedes(loop[r], b)
          /\ \A i \in ElementsOf(handled[r]) \cup ElementsOf(loop[r]) \cup ElementsOf(b) : Addressed(r, i)
          /\ p = ElementsOf(b)
      BY <1>0, <1>1, <1>9 DEF OrderInv, b, p
    <2>2. Ascending(l) /\ \A y \in ElementsOf(l) : x < y
      BY <1>4, <2>1
    <2>3. Ascending(h)
      BY <1>4, <2>1 DEF Precedes
    <2>4. Precedes(h, l) /\ Precedes(h, b) /\ Precedes(l, b)
      BY <1>4, <2>1, <2>2 DEF Precedes
    <2> QED
      BY <1>4, <2>1, <2>2, <2>3, <2>4
  <1>10. /\ faults' \in 0 .. MaxFaults /\ faults <= faults'
         /\ OwedBy(h, l, p) - Owed(r) <= faults' - faults
    BY <1>0, <1>1, <1>4 DEF BusTypeOK
  <1> QED
    BY <1>1, <1>2, <1>3, <1>4, <1>5, <1>6, <1>7, <1>8, <1>9, <1>10, MovedKeeps DEF Alive

\* A process dies.
LEMMA CrashKeeps ==
    ASSUME BusInv, NEW r \in Role, Crash(r)
    PROVE  BusInv'
  <1>0. BusTypeOK /\ ThreadInv /\ PendingInv /\ NothingSlips /\ PaidInv /\ OrderInv
    BY DEF BusInv
  <1> DEFINE h == handled[r]
             p == pel[r]
             e == <<>>
             t == IF thread[r] = "none" THEN "none" ELSE "ended"
  <1>1. /\ thread' = [thread EXCEPT ![r] = t] /\ batch' = [batch EXCEPT ![r] = e]
        /\ loop' = [loop EXCEPT ![r] = e] /\ dead' = dead \cup {r}
        /\ UNCHANGED <<stream, cancelled, knows, stop, handled, cursor, pel, faults>>
        /\ joins' \in {0, joins}
    BY <1>0 DEF Crash, redis, BusTypeOK
  <1>2. /\ cursor[r] \in 0 .. Len(stream) /\ p \subseteq DOMAIN stream /\ h \in Seq(DOMAIN stream)
        /\ loop[r] \in Seq(DOMAIN stream) /\ stop' \in [Role -> BOOLEAN] /\ joins' \in Nat
    BY <1>0, <1>1, TypesOf DEF BusTypeOK
  <1>3. OwedBy(h, e, p) - Owed(r) <= 0
    <2>1. OwedBy(h, e, p) <= OwedBy(h, loop[r], p)
      BY <1>2, OwedCrashed
    <2>2. OwedBy(h, loop[r], p) \in Int /\ OwedBy(h, e, p) \in Int
      BY <1>2, OwedCounts, Nothing
    <2> QED
      BY <2>1, <2>2 DEF Owed
  <1>4. /\ cursor' = [cursor EXCEPT ![r] = cursor[r]] /\ pel' = [pel EXCEPT ![r] = p]
        /\ handled' = [handled EXCEPT ![r] = h]
    BY <1>0, <1>1 DEF BusTypeOK
  <1>5. ElementsOf(e) = {} /\ Distinct(e) /\ Ascending(e) /\ e \in Seq(DOMAIN stream)
    BY Nothing
  <1>6. \A i \in p \cup ElementsOf(e) \cup ElementsOf(h) : i <= cursor[r]
    BY <1>0, <1>5 DEF PendingInv
  <1>7. ASSUME faults = 0
        PROVE  /\ Ascending(h) /\ Ascending(e) /\ Precedes(h, e) /\ Precedes(e, e)
               /\ \A i \in ElementsOf(h) \cup ElementsOf(e) : Addressed(r, i)
    BY <1>0, <1>5, <1>7 DEF OrderInv, Precedes
  <1>8. /\ t \in Thread /\ t \in {"none", "ended"} /\ (t = "none" <=> thread[r] = "none")
        /\ faults' \in 0 .. MaxFaults /\ faults <= faults' /\ faults' - faults = 0 /\ r \in dead'
        /\ t # "batch" /\ ElementsOf(e) \subseteq p
    BY <1>0, <1>1, <1>5 DEF Thread, BusTypeOK
  <1>9. e = <<>>
    OBVIOUS
  <1> HIDE DEF t, e, h, p
  <1> QED
    BY <1>1, <1>2, <1>3, <1>4, <1>5, <1>6, <1>7, <1>8, <1>9, MovedKeeps

\* Every entry that the KME publishes is one of the protocol.
LEMMA KmePublishes ==
    ASSUME Kme, BusTypeOK
    PROVE  \/ \E e \in Entry : /\ stream' = Append(stream, e) /\ joins' \in Nat
                               /\ UNCHANGED <<cancelled, node, redis, dead, faults>>
           \/ \E r \in Listeners : Register(r)
           \/ Cancel \/ JoinRefused
  <1>1. "sender" \in Role /\ "receiver" \in Role /\ joins \in Nat
    BY RoleAssumption DEF BusTypeOK
  <1>2. ASSUME NEW n \in {"session_open", "receiver_joined", "measurements_ready", "sift_ready"} \cup Verdicts,
               NEW to \in Role \cup {"broadcast"}, Publish(n, to), joins' \in Nat
        PROVE  \E e \in Entry : /\ stream' = Append(stream, e) /\ joins' \in Nat
                                /\ UNCHANGED <<cancelled, node, redis, dead, faults>>
    BY <1>2 DEF Publish, Entry
  <1>3. ASSUME NEW r \in Listeners, Open(r)
        PROVE  Publish("session_open", r) /\ r \in Role /\ joins' \in Nat
    BY <1>1, <1>3 DEF Open, Listeners
  <1>4. Joined => Publish("receiver_joined", "sender") /\ joins' \in Nat
    BY <1>1 DEF Joined
  <1>5. MeasurementsReady => Publish("measurements_ready", "sender") /\ joins' \in Nat
    BY <1>1 DEF MeasurementsReady
  <1>6. SiftReady => Publish("sift_ready", "receiver") /\ joins' \in Nat
    BY <1>1 DEF SiftReady
  <1>7. \A v \in Verdicts : Verdict(v) => Publish(v, "broadcast") /\ joins' \in Nat
    BY <1>1 DEF Verdict
  <1> QED
    BY <1>1, <1>2, <1>3, <1>4, <1>5, <1>6, <1>7 DEF Kme

\* Every step keeps the invariant.
LEMMA BusKeeps ==
    BusInv /\ [BusNext]_busVars => BusInv'
  <1> SUFFICES ASSUME BusInv, [BusNext]_busVars PROVE BusInv'
    OBVIOUS
  <1>1. CASE Kme
    BY <1>1, KmePublishes, PublishKeeps, QuietKeeps DEF BusInv
  <1>2. CASE LoseReply \/ PollTick \/ JoinFails
    BY <1>2, QuietKeeps
  <1>3. ASSUME NEW r \in Listeners, Pop(r) \/ PopRaises(r) PROVE BusInv'
    BY <1>3, QuietKeeps
  <1>4. ASSUME NEW r \in Role, Begin(r) \/ ThreadEnds(r) PROVE BusInv'
    BY <1>4, QuietKeeps
  <1>5. ASSUME NEW r \in Role, Read(r) \/ Dispatch(r) \/ Run(r) PROVE BusInv'
    BY <1>5, ReadKeeps, DispatchKeeps, RunKeeps
  <1>6. ASSUME NEW r \in Role, Faults(r) PROVE BusInv'
    BY <1>6, ReadRaisesKeeps, AckRaisesKeeps, CrashKeeps DEF Faults
  <1>7. CASE UNCHANGED busVars
    <2>1. BusTypeOK'
      BY <1>7 DEF BusInv, BusTypeOK, busVars, node, redis
    <2>2. ThreadInv' /\ PendingInv' /\ NothingSlips'
      BY <1>7 DEF BusInv, ThreadInv, PendingInv, NothingSlips, Alive, Addressed, busVars, node, redis
    <2>3. PaidInv' /\ OrderInv'
      BY <1>7 DEF BusInv, PaidInv, OrderInv, Owed, Alive, Addressed, busVars, node, redis
    <2> QED
      BY <2>1, <2>2, <2>3 DEF BusInv
  <1> QED
    BY <1>1, <1>2, <1>3, <1>4, <1>5, <1>6, <1>7 DEF BusNext, Consumer

-----------------------------------------------------------------------------
(* What holds in every run. *)

\* The inductive invariant of the event bus.
THEOREM BusInvariant == BusSpec => []BusInv
  <1> QED
    BY BusBegins, BusKeeps, PTL DEF BusSpec

\* Streams, queues and pending lists hold what they may hold: nothing is
\* scheduled or pending that was not published (publish_event, read_role_events).
THEOREM BusTypeCorrect == BusSpec => []BusTypeOK
  <1>1. BusInv => BusTypeOK
    BY DEF BusInv
  <1> QED
    BY <1>1, BusInvariant, PTL

\* While a node lives, an event that its group has delivered is handled,
\* scheduled, in the batch or in the pending list (read_role_events,
\* _dispatch_event, ack_event), whatever commands fail and whoever else dies.
THEOREM NothingSlipsCorrect == BusSpec => []NothingSlips
  <1>1. BusInv => NothingSlips
    BY DEF BusInv
  <1> QED
    BY <1>1, BusInvariant, PTL

\* The repeats that have happened are among those a role owes.
LEMMA RepeatsOwed ==
    ASSUME BusInv, NEW r \in Role
    PROVE  Repeats(r) \in Int /\ Owed(r) \in Int /\ Repeats(r) <= Owed(r)
  <1> DEFINE h == handled[r]
             l == loop[r]
             p == pel[r]
             S == DOMAIN stream
             H == ElementsOf(h)
  <1>1. h \in Seq(S) /\ l \in Seq(S) /\ Owed(r) = OwedBy(h, l, p) /\ Repeats(r) = Len(h) - Cardinality(H)
    BY TypesOf DEF BusInv, Owed, Repeats
  <1> HIDE DEF h, l, p, S
  <1>2. OwedBy(h, <<>>, p) <= OwedBy(h, l, p) /\ OwedBy(h, l, p) \in Int
    <2>1. OwedBy(h, <<>>, p) <= OwedBy(h, l, p)
      BY <1>1, OwedCrashed
    <2>2. OwedBy(h, l, p) \in Int
      BY <1>1, OwedCounts
    <2> QED
      BY <2>1, <2>2
  <1>3. IsFiniteSet(H) /\ Cardinality(H) \in Nat /\ Len(h) \in Nat
    BY <1>1, Elements
  <1>4. H \cup ElementsOf(<<>>) = H /\ Len(<<>>) = 0
    BY Nothing
  <1> HIDE DEF H
  <1>5. Cardinality(p \cap H) \in Nat
    <2> DEFINE Q == p \cap H
    <2>1. Q \in SUBSET H
      OBVIOUS
    <2> HIDE DEF Q
    <2>2. IsFiniteSet(Q)
      BY <1>3, <2>1, FS_Subset
    <2> QED
      BY <2>2, FS_CardinalityType DEF Q
  <1>6. OwedBy(h, <<>>, p) = Len(h) + 0 - Cardinality(H) + Cardinality(p \cap H)
    BY <1>4 DEF OwedBy, H
  <1> QED
    BY <1>1, <1>2, <1>3, <1>5, <1>6

\* Handlers run twice at most once for every command of a consumer that raised
\* (_dispatch_event acks in its finally clause, reclaim_stale_entries).
THEOREM RepeatsPaidCorrect == BusSpec => []RepeatsPaid
  <1>1. BusInv => RepeatsPaid
    <2> SUFFICES ASSUME BusInv PROVE RepeatsPaid
      OBVIOUS
    <2>1. \A r \in Role : Repeats(r) \in Int /\ Owed(r) \in Int /\ Repeats(r) <= Owed(r)
      BY RepeatsOwed
    <2>2. PaidInv /\ faults \in Int
      BY DEF BusInv, BusTypeOK
    <2>3. "sender" \in Role /\ "receiver" \in Role
      BY RoleAssumption
    <2>4. CASE "monitor" \in Role
      BY <2>1, <2>2, <2>3, <2>4 DEF PaidInv, RepeatsPaid
    <2>5. CASE "monitor" \notin Role
      BY <2>1, <2>2, <2>3, <2>5 DEF PaidInv, RepeatsPaid
    <2> QED
      BY <2>4, <2>5
  <1> QED
    BY <1>1, BusInvariant, PTL

-----------------------------------------------------------------------------
(* The bus implements RoleDelivery. *)

\* Before the first fault, the handler that runs is the next one of the promise:
\* what lies between the last handled event and it is addressed to others.
LEMMA RunDelivers ==
    ASSUME BusInv, faults = 0, NEW r \in Role, Run(r)
    PROVE  Delivery!Deliver(r, Head(loop[r]))
  <1> DEFINE h == handled[r]
             l == loop[r]
             b == batch[r]
             x == Head(loop[r])
             last == Delivery!Last(r)
  <1>1. BusTypeOK /\ PendingInv /\ NothingSlips /\ OrderInv
    BY DEF BusInv
  <1>2. /\ Len(stream) \in Nat /\ DOMAIN stream = 1 .. Len(stream)
        /\ cursor[r] \in 0 .. Len(stream) /\ h \in Seq(DOMAIN stream)
        /\ ElementsOf(b) \cup ElementsOf(l) \cup ElementsOf(h) \subseteq DOMAIN stream
    BY <1>1, TypesOf
  <1>3. /\ Ascending(h) /\ Precedes(h, l) /\ Precedes(l, b) /\ Ascending(l)
        /\ \A i \in ElementsOf(h) \cup ElementsOf(l) \cup ElementsOf(b) : Addressed(r, i)
        /\ pel[r] = ElementsOf(b)
    BY <1>1 DEF OrderInv, Run
  <1>4. /\ x \in ElementsOf(l) /\ x \in DOMAIN stream /\ ElementsOf(l) = {x} \cup ElementsOf(Tail(l))
        /\ \A y \in ElementsOf(Tail(l)) : x < y
    BY <1>2, <1>3, HandlerOf
  <1>5. x <= cursor[r]
    BY <1>1, <1>4 DEF PendingInv
  <1>6. last = IF h = <<>> THEN 0 ELSE h[Len(h)]
    BY DEF Delivery!Last
  <1> HIDE DEF h, l, b, x, last
  <1>7. last \in Nat /\ last < x /\ \A i \in ElementsOf(h) : i <= last
    <2>1. CASE h = <<>>
      <3>1. last = 0 /\ ElementsOf(h) = {}
        BY <1>6, <2>1, Nothing
      <3> QED
        BY <1>2, <1>4, <3>1
    <2>2. CASE h # <<>>
      <3> DEFINE n == Len(h)
      <3>1. n \in Nat \ {0} /\ DOMAIN h = 1 .. n
        BY <1>2, <2>2, EmptySeq
      <3>2. last = h[n] /\ last \in ElementsOf(h)
        BY <1>6, <2>2, <3>1 DEF ElementsOf
      <3>3. last < x /\ last \in Nat
        BY <1>2, <1>3, <1>4, <3>2 DEF Precedes
      <3> HIDE DEF n
      <3>4. \A k \in 1 .. n : h[k] <= last
        <4> SUFFICES ASSUME NEW k \in 1 .. n PROVE h[k] <= last
          OBVIOUS
        <4>1. CASE k = n
          BY <3>2, <3>3, <4>1
        <4>2. CASE k # n
          <5>1. k < n /\ n \in DOMAIN h /\ k \in DOMAIN h
            BY <3>1, <4>2
          <5>2. h[k] < h[n]
            BY <1>3, <5>1 DEF Ascending
          <5>3. h[k] \in Int
            BY <1>2, <5>1 DEF ElementsOf
          <5> QED
            BY <3>2, <3>3, <5>2, <5>3
        <4> QED
          BY <4>1, <4>2
      <3> QED
        BY <3>1, <3>3, <3>4 DEF ElementsOf
    <2> QED
      BY <2>1, <2>2
  <1>8. Delivery!Addressed(r) = {i \in DOMAIN stream : Addressed(r, i)}
    BY DEF Delivery!Addressed, Addressed
  <1>9. x \in Delivery!Addressed(r)
    BY <1>3, <1>4, <1>8
  <1>10. ASSUME NEW j \in Delivery!Addressed(r), j > last
         PROVE  x <= j
    <2>1. j \in DOMAIN stream /\ Addressed(r, j)
      BY <1>8
    <2>2. CASE j > cursor[r]
      BY <1>2, <1>4, <1>5, <2>1, <2>2
    <2>3. CASE j <= cursor[r]
      <3>1. j \in 1 .. cursor[r] /\ Alive(r)
        BY <1>2, <2>1, <2>3 DEF Run
      <3>2. j \in ElementsOf(h) \cup ElementsOf(l) \cup ElementsOf(b) \cup pel[r]
        BY <1>1, <2>1, <3>1 DEF NothingSlips, h, l, b
      <3>3. j \notin ElementsOf(h)
        BY <1>2, <1>7, <1>10, <2>1
      <3>4. CASE j \in ElementsOf(l)
        BY <1>2, <1>4, <3>4
      <3>5. CASE j \in ElementsOf(b)
        <4>1. x < j
          BY <1>3, <1>4, <3>5 DEF Precedes
        <4> QED
          BY <1>2, <1>4, <2>1, <4>1
      <3> QED
        BY <1>3, <3>2, <3>3, <3>4, <3>5
    <2> QED
      BY <1>2, <2>1, <2>2, <2>3
  <1>11. handled' = [handled EXCEPT ![r] = Append(@, x)] /\ UNCHANGED stream
    BY <1>1 DEF Run, BusTypeOK, x
  <1> QED
    BY <1>7, <1>9, <1>10, <1>11 DEF Delivery!Deliver, x, last

\* Every step of the bus before the first fault is a step of the promise, or none.
LEMMA StepDelivers ==
    BusInv /\ faults = 0 /\ [BusNext]_busVars => [Delivery!Next]_<<stream, handled>>
  <1> SUFFICES ASSUME BusInv, faults = 0, BusNext
               PROVE  Delivery!Next \/ UNCHANGED <<stream, handled>>
    BY DEF busVars, node
  <1>1. CASE Kme
    <2>1. \/ \E e \in Entry : stream' = Append(stream, e) /\ UNCHANGED <<cancelled, node, redis, dead, faults>>
          \/ \E r \in Listeners : Register(r)
          \/ Cancel \/ JoinRefused
      BY <1>1, KmePublishes DEF BusInv
    <2> QED
      BY <2>1 DEF node, Register, Cancel, JoinRefused, Delivery!Next, Delivery!Publish
  <1>2. CASE LoseReply \/ PollTick \/ JoinFails
    BY <1>2 DEF LoseReply, PollTick, JoinFails, node
  <1>3. ASSUME NEW r \in Listeners, Pop(r) \/ PopRaises(r) PROVE UNCHANGED <<stream, handled>>
    BY <1>3 DEF Pop, PopRaises
  <1>4. ASSUME NEW r \in Role, Begin(r) \/ Consumer(r) \/ Faults(r) PROVE UNCHANGED <<stream, handled>>
    BY <1>4 DEF Begin, Consumer, Read, Dispatch, ThreadEnds, Faults, ReadRaises, AckRaises, Crash
  <1>5. ASSUME NEW r \in Role, Run(r) PROVE Delivery!Next
    <2>1. Head(loop[r]) \in DOMAIN stream /\ Delivery!Deliver(r, Head(loop[r]))
      BY <1>5, HandlerOf, RunDelivers
    <2> QED
      BY <2>1 DEF Delivery!Next
  <1> QED
    BY <1>1, <1>2, <1>3, <1>4, <1>5 DEF BusNext

\* As long as no command or request of a node raises, the event bus implements its
\* promise: every role handles what is addressed to it in the order of the
\* stream, each event once, whoever dies and however late a node discovers the
\* session (publish_event's groups at id "0", the one consumer of a role).
THEOREM InOrderUntilFault == BusSpec /\ [](faults = 0) => InOrderOnce
  <1>1. BusInit => Delivery!Init
    BY DEF BusInit, Delivery!Init
  <1> QED
    BY <1>1, StepDelivers, BusInvariant, PTL DEF BusSpec, InOrderOnce, Delivery!Spec

\* Where no command may raise, every run of the bus implements the promise.
THEOREM InOrderOnceCorrect ==
    ASSUME MaxFaults = 0
    PROVE  BusSpec => InOrderOnce
  <1>1. BusTypeOK => faults = 0
    BY DEF BusTypeOK
  <1> QED
    BY <1>1, BusTypeCorrect, InOrderUntilFault, PTL
=============================================================================
