--------------------------- MODULE SiftingProofs ---------------------------
(***************************************************************************)
(* Proofs about Sifting, for any number of qubits, any fraction that is    *)
(* sampled, any thresholds and any drift of the fibre.                     *)
(***************************************************************************)
EXTENDS Sifting, SortingProofs, SequenceTheorems

-----------------------------------------------------------------------------
(* One photon. *)

\* Preparing a bit and reading off bit and basis are inverse to each other.
LEMMA EncodeInverts ==
    /\ \A b \in Basis, x \in Bit : Encode(b, x) \in State /\ BasisOf(Encode(b, x)) = b /\ BitOf(Encode(b, x)) = x
    /\ \A s \in State : BasisOf(s) \in Basis /\ BitOf(s) \in Bit /\ Encode(BasisOf(s), BitOf(s)) = s
  BY DEF Encode, BasisOf, BitOf, Basis, Bit, State

\* Every angle is rounded to a state, and a photon that was turned by less than
\* pi/8 to the state it was prepared in.
LEMMA NearestFound ==
    ASSUME NEW s \in State, NEW turn \in Int
    PROVE  /\ NearestState(s + turn) \in State
           /\ Clear(s, turn) => NearestState(s + turn) = s
  <1> DEFINE a == (s + turn) % 16
             best == {r \in State : \A t \in State : Distance(a, r) <= Distance(a, t)}
  <1>1. a \in 0 .. 15
    BY DEF State
  <1>2. NearestState(s + turn) = CHOOSE r \in best : \A t \in best : r <= t
    BY DEF NearestState
  <1>3. Clear(s, turn) <=> Distance(a, s) < 2
    BY DEF Clear
  <1> HIDE DEF a
  <1>4. best # {}
    <2>1. a \in 14 .. 15 \/ a \in 0 .. 2 => 0 \in best
      BY DEF Distance, State
    <2>2. a \in 3 .. 6 => 4 \in best
      BY DEF Distance, State
    <2>3. a \in 7 .. 10 => 8 \in best
      BY DEF Distance, State
    <2>4. a \in 11 .. 13 => 12 \in best
      BY DEF Distance, State
    <2> HIDE DEF best
    <2>5. a \in 14 .. 15 \/ a \in 0 .. 2 \/ a \in 3 .. 6 \/ a \in 7 .. 10 \/ a \in 11 .. 13
      BY <1>1
    <2> QED
      BY <2>1, <2>2, <2>3, <2>4, <2>5
  <1>5. \E r \in best : \A t \in best : r <= t
    BY <1>4 DEF State
  <1>6. \A r \in best : r \in State
    OBVIOUS
  <1>7. Distance(a, s) < 2 => \A r \in best : r = s
    BY <1>1 DEF Distance, State
  <1> HIDE DEF best
  <1>8. NearestState(s + turn) \in best
    BY <1>2, <1>5
  <1> QED
    BY <1>3, <1>6, <1>7, <1>8

-----------------------------------------------------------------------------
(* Positions in the sifted lists. *)

\* A function on 1 .. n is a sequence of length n.
LEMMA ListOf ==
    ASSUME NEW S, NEW n \in Nat, NEW f \in [1 .. n -> S]
    PROVE  f \in Seq(S) /\ Len(f) = n /\ DOMAIN f = 1 .. n
  OBVIOUS

\* The sample is smaller than the list as soon as that has two bits.
LEMMA SampleFits ==
    ASSUME NEW n \in Nat
    PROVE  SampleSize(n) \in 0 .. n /\ (n >= 2 => SampleSize(n) < n) /\ (n > 0 => SampleSize(n) > 0)
  <1> DEFINE k == (n * SampleNum) \div SampleDen
  <1>1. SampleNum \in Nat /\ SampleDen \in Nat /\ SampleDen > 0 /\ SampleNum < SampleDen
    BY SiftSizes
  <1>2. k \in Int /\ SampleDen * k <= n * SampleNum
    <2>1. n * SampleNum \in Int
      BY <1>1
    <2> QED
      BY <1>1, <2>1
  <1>3. n > 0 => n * SampleNum < n * SampleDen
    BY <1>1
  <1>4. n > 0 => SampleDen * k < SampleDen * n
    <2>1. n * SampleNum \in Int /\ n * SampleDen \in Int /\ SampleDen * k \in Int /\ SampleDen * n = n * SampleDen
      BY <1>1, <1>2
    <2> QED
      BY <1>2, <1>3, <2>1
  <1>5. n > 0 => k < n
    <2> SUFFICES ASSUME n > 0, k >= n PROVE FALSE
      BY <1>2
    <2>1. SampleDen * k >= SampleDen * n
      BY <1>1, <1>2
    <2>2. SampleDen * k \in Int /\ SampleDen * n \in Int
      BY <1>1, <1>2
    <2> QED
      BY <1>4, <2>1, <2>2
  <1> HIDE DEF k
  <1>6. SampleSize(n) = IF n = 0 THEN 0 ELSE IF k > 1 THEN k ELSE 1
    BY DEF SampleSize, Fraction, k
  <1> QED
    BY <1>2, <1>5, <1>6

\* What remains of a list of n bits without the positions I.
LEMMA RemainderOf ==
    ASSUME NEW n \in Nat, NEW I \in SUBSET (1 .. n), NEW x, DOMAIN x = 1 .. n
    PROVE  LET rest == Increasing((1 .. n) \ I)
               m    == n - Cardinality(I)
           IN  /\ Cardinality(I) \in Nat /\ m \in Nat
               /\ rest \in Bijection(1 .. m, (1 .. n) \ I)
               /\ DOMAIN Remainder(x, I) = 1 .. m
               /\ \A i \in 1 .. m : rest[i] \in (1 .. n) \ I /\ Remainder(x, I)[i] = x[rest[i]]
  <1> DEFINE R == (1 .. n) \ I
             rest == Increasing(R)
             m == n - Cardinality(I)
  <1>1. IsFiniteSet(1 .. n) /\ Cardinality(1 .. n) = n
    BY FS_Interval
  <1>2. IsFiniteSet(R) /\ Cardinality(R) = n - Cardinality((1 .. n) \cap I)
    BY <1>1, FS_Difference
  <1>3. (1 .. n) \cap I = I
    OBVIOUS
  <1>4. IsFiniteSet(I) /\ Cardinality(I) <= n
    <2> HIDE DEF R, m
    <2>1. I \in SUBSET (1 .. n)
      OBVIOUS
    <2>2. IsFiniteSet(I) /\ Cardinality(I) <= Cardinality(1 .. n)
      BY <1>1, <2>1, FS_Subset
    <2> QED
      BY <1>1, <2>2
  <1>5. Cardinality(I) \in Nat
    BY <1>4, FS_CardinalityType
  <1>6. m \in Nat /\ Cardinality(R) = m
    <2> HIDE DEF R
    <2> QED
      BY <1>1, <1>2, <1>3, <1>4, <1>5
  <1>7. R \in SUBSET Int
    OBVIOUS
  <1> HIDE DEF R
  <1>8. rest \in Bijection(1 .. m, R)
    BY <1>2, <1>6, <1>7, IncreasingEnumerates
  <1>9. DOMAIN rest = 1 .. m /\ \A i \in 1 .. m : rest[i] \in R
    BY <1>8 DEF Bijection, Injection
  <1>10. Remainder(x, I) = [i \in 1 .. m |-> x[rest[i]]]
    BY <1>9 DEF Remainder, R
  <1> QED
    BY <1>5, <1>6, <1>8, <1>9, <1>10 DEF R

\* The positions at which two lists differ are those of the sample and those of
\* the remainders: none is lost and none is counted twice.
LEMMA ErrorsSplit ==
    ASSUME NEW n \in Nat, NEW I \in SUBSET (1 .. n),
           NEW x, NEW y, DOMAIN x = 1 .. n, DOMAIN y = 1 .. n
    PROVE  LET u == Remainder(x, I)
               v == Remainder(y, I)
           IN  Errors(u, v, DOMAIN u) + Errors(x, y, I) = Errors(x, y, 1 .. n)
  <1> DEFINE rest == Increasing((1 .. n) \ I)
             m == n - Cardinality(I)
             u == Remainder(x, I)
             v == Remainder(y, I)
             U == {i \in 1 .. m : u[i] # v[i]}
             W == {p \in (1 .. n) \ I : x[p] # y[p]}
             E == {p \in I : x[p] # y[p]}
             A == {p \in 1 .. n : x[p] # y[p]}
             h == [i \in U |-> rest[i]]
  <1>1. /\ m \in Nat
        /\ rest \in [1 .. m -> (1 .. n) \ I]
        /\ \A i, j \in 1 .. m : rest[i] = rest[j] => i = j
        /\ \A p \in (1 .. n) \ I : \E i \in 1 .. m : rest[i] = p
        /\ DOMAIN u = 1 .. m
        /\ \A i \in 1 .. m : u[i] = x[rest[i]] /\ v[i] = y[rest[i]]
    <2>1. m \in Nat /\ DOMAIN u = 1 .. m
      BY RemainderOf
    <2>2. rest \in Bijection(1 .. m, (1 .. n) \ I)
      BY RemainderOf
    <2>3. DOMAIN rest = 1 .. m
      BY <2>2 DEF Bijection, Injection
    <2>4. \A i \in 1 .. m : u[i] = x[rest[i]] /\ v[i] = y[rest[i]]
      BY <2>3 DEF Remainder
    <2> HIDE DEF rest, m, u, v
    <2>5. /\ rest \in [1 .. m -> (1 .. n) \ I]
          /\ \A i, j \in 1 .. m : rest[i] = rest[j] => i = j
          /\ \A p \in (1 .. n) \ I : \E i \in 1 .. m : rest[i] = p
      BY <2>2 DEF Bijection, Injection, Surjection, IsInjective
    <2> QED
      BY <2>1, <2>3, <2>4, <2>5
  <1>2. IsFiniteSet(1 .. n) /\ IsFiniteSet(1 .. m)
    BY <1>1, FS_Interval
  <1>3. h \in Bijection(U, W)
    <2>1. \A i \in 1 .. m : u[i] = x[rest[i]] /\ v[i] = y[rest[i]] /\ rest[i] \in (1 .. n) \ I
      BY <1>1
    <2> HIDE DEF rest, m, u, v
    <2>2. h \in [U -> W]
      BY <2>1
    <2>3. \A i, j \in U : h[i] = h[j] => i = j
      BY <1>1
    <2>4. \A p \in W : \E i \in U : h[i] = p
      BY <1>1, <2>1
    <2> HIDE DEF h, U, W
    <2> QED
      BY <2>2, <2>3, <2>4 DEF Bijection, Injection, Surjection, IsInjective
  <1>4. U \in SUBSET (1 .. m) /\ W \in SUBSET (1 .. n) /\ E \in SUBSET (1 .. n) /\ A = W \cup E /\ W \cap E = {}
    OBVIOUS
  <1>5. DOMAIN u = 1 .. m
    BY <1>1
  <1>6. /\ Errors(u, v, DOMAIN u) = Cardinality(U)
        /\ Errors(x, y, I) = Cardinality(E)
        /\ Errors(x, y, 1 .. n) = Cardinality(A)
    BY <1>5 DEF Errors
  <1> HIDE DEF U, W, E, A, h, u, v, m, rest
  <1>7. IsFiniteSet(U) /\ IsFiniteSet(W) /\ IsFiniteSet(E)
    BY <1>2, <1>4, FS_Subset
  <1>8. Cardinality(W) = Cardinality(U)
    BY <1>3, <1>7, FS_Bijection DEF ExistsBijection
  <1>9. Cardinality(A) = Cardinality(W) + Cardinality(E) - Cardinality({})
    BY <1>4, <1>7, FS_Union
  <1>10. Cardinality(W) \in Nat /\ Cardinality(E) \in Nat /\ Cardinality({}) = 0
    BY <1>7, FS_CardinalityType, FS_EmptySet
  <1>11. Errors(u, v, DOMAIN u) + Errors(x, y, I) = Errors(x, y, 1 .. n)
    BY <1>6, <1>8, <1>9, <1>10
  <1> QED
    BY <1>11 DEF u, v

-----------------------------------------------------------------------------
(***************************************************************************)
(* The invariant.  The fibre: a measurement in Alice's basis that differs  *)
(* from her bit is of a qubit that was disturbed.  The tasks: from ST on   *)
(* the sifted bits are what sent and heard give, and these do not change   *)
(* any more, so that Bob's own sifting, whenever it runs, sees the same.   *)
(***************************************************************************)
Agreeing == {q \in DOMAIN heard : q < Len(sent) /\ BasisOf(sent[q + 1]) = heard[q].basis}

PathInv ==
    /\ sent \in Seq(State) /\ Len(sent) <= NQubits
    /\ DOMAIN heard \subseteq 0 .. Len(sent) - 1
    /\ \A q \in DOMAIN heard : heard[q] \in Measurement
    /\ disturbed \subseteq 0 .. Len(sent) - 1
    /\ \A q \in Agreeing : heard[q].bit # BitOf(sent[q + 1]) => q \in disturbed

Handed ==
    /\ sifted = [alice |-> AliceSifted, bob |-> BobSifted]
    /\ sample \in Samples(Len(Matched))

TaskInv ==
    /\ stage \in {"sending", "QKT", "ended"}
    /\ verdict.status \in {"none", "success", "aborted"}
    /\ confidence \in {"none", "abort", "suspicious", "noisy", "clean"}
    /\ sample \subseteq 1 .. NQubits
    /\ stage # "sending" /\ heard # <<>> => Handed
    /\ stage = "sending" \/ heard = <<>> =>
           /\ sifted = [alice |-> <<>>, bob |-> <<>>] /\ ~bobDone
           /\ verdict.status # "success" /\ verdict.sampled = 0
    /\ stage = "QKT" => heard # <<>>
    /\ stage # "ended" => verdict = NoVerdict

VerdictInv ==
    verdict.status = "success" =>
        /\ Enough(Len(sifted.alice))
        /\ key = Remainder(sifted.alice, sample)
        /\ verdict.errors = Errors(sifted.alice, sifted.bob, sample)
        /\ verdict.sampled = SampleSize(Len(sifted.alice))

BobInv == bobDone => bobBits = BobSifted /\ bobKey = Remainder(BobSifted, sample)

SiftInv == PathInv /\ TaskInv /\ VerdictInv /\ BobInv /\ AnalysisAgrees

\* The matched ids are the agreeing ones, each once; both sifted lists have one
\* bit for each of them.
LEMMA MatchedIs ==
    ASSUME PathInv
    PROVE  /\ Len(Matched) \in Nat /\ Len(Matched) <= NQubits
           /\ DOMAIN Matched = 1 .. Len(Matched)
           /\ \A i \in DOMAIN Matched : Matched[i] \in Agreeing
           /\ AliceSifted \in [1 .. Len(Matched) -> Bit] /\ Len(AliceSifted) = Len(Matched)
           /\ BobSifted \in [1 .. Len(Matched) -> Bit] /\ Len(BobSifted) = Len(Matched)
  <1> DEFINE n == Cardinality(Agreeing)
  <1>1. NQubits \in Nat /\ Len(sent) \in Nat /\ Len(sent) <= NQubits
    BY SiftSizes DEF PathInv
  <1>2. Agreeing \in SUBSET (0 .. NQubits - 1) /\ Agreeing \in SUBSET Int
    BY <1>1 DEF PathInv, Agreeing
  <1>3. IsFiniteSet(0 .. NQubits - 1) /\ Cardinality(0 .. NQubits - 1) = NQubits
    <2> DEFINE top == NQubits - 1
    <2>1. top \in Int /\ NQubits = top + 1 /\ top >= -1
      BY <1>1
    <2> HIDE DEF top
    <2>2. IsFiniteSet(0 .. top) /\ Cardinality(0 .. top) = IF 0 > top THEN 0 ELSE top - 0 + 1
      BY <2>1, FS_Interval
    <2>3. Cardinality(0 .. top) = NQubits
      BY <2>1, <2>2
    <2> QED
      BY <2>2, <2>3 DEF top
  <1>4. IsFiniteSet(Agreeing) /\ n <= NQubits
    BY <1>2, <1>3, FS_Subset
  <1>5. n \in Nat /\ Increasing(Agreeing) \in Bijection(1 .. n, Agreeing)
    BY <1>2, <1>4, IncreasingEnumerates
  <1>6. Matched = Increasing(Agreeing)
    BY DEF Matched, Agreeing
  <1> HIDE DEF n
  <1>7. Matched \in [1 .. n -> Agreeing]
    BY <1>5, <1>6 DEF Bijection, Injection
  <1>8. Len(Matched) = n /\ DOMAIN Matched = 1 .. n
    BY <1>5, <1>7
  <1>9. \A q \in Agreeing : q + 1 \in 1 .. Len(sent) /\ sent[q + 1] \in State /\ heard[q].bit \in Bit
    BY <1>1 DEF PathInv, Agreeing, Measurement
  <1>10. \A i \in 1 .. n : BitOf(sent[Matched[i] + 1]) \in Bit /\ heard[Matched[i]].bit \in Bit
    BY <1>7, <1>9, EncodeInverts
  <1>11. AliceSifted \in [1 .. n -> Bit] /\ BobSifted \in [1 .. n -> Bit]
    BY <1>8, <1>10 DEF AliceSifted, BobSifted
  <1>12. Len(AliceSifted) = n /\ Len(BobSifted) = n
    BY <1>5, <1>11, ListOf
  <1> QED
    BY <1>4, <1>5, <1>7, <1>8, <1>11, <1>12

\* Before the first photon there are no measurements, lists or verdicts.
LEMMA SiftBegins == SiftInit => SiftInv
  <1> SUFFICES ASSUME SiftInit PROVE SiftInv
    OBVIOUS
  <1>1. sent = <<>> /\ heard = <<>> /\ disturbed = {} /\ DOMAIN heard = {} /\ Len(sent) = 0 /\ sent \in Seq(State)
    BY DEF SiftInit
  <1>2. PathInv
    BY <1>1, SiftSizes DEF PathInv, Agreeing
  <1>3. TaskInv
    BY DEF SiftInit, TaskInv, NoVerdict
  <1>4. VerdictInv /\ BobInv /\ AnalysisAgrees
    BY DEF SiftInit, VerdictInv, BobInv, AnalysisAgrees, NoVerdict
  <1> QED
    BY <1>2, <1>3, <1>4 DEF SiftInv

\* A measurement of Bob's in Alice's basis that differs from her bit is of a
\* disturbed qubit, whatever way the photon took.
LEMMA PathSound ==
    ASSUME NEW s \in State, NEW q, NEW m,
           \/ DarkCount(q) /\ heard'[q] = m
           \/ \E turn \in Drift : (Arrives(q, s, turn) \/ Intercepted(q, s, turn)) /\ heard'[q] = m
    PROVE  /\ m \in Measurement
           /\ heard' = [i \in DOMAIN heard \cup {q} |-> IF i = q THEN m ELSE heard[i]]
           /\ disturbed' \in {disturbed, disturbed \cup {q}}
           /\ m.basis = BasisOf(s) /\ m.bit # BitOf(s) => q \in disturbed'
  <1>1. CASE DarkCount(q) /\ heard'[q] = m
    <2>1. PICK r \in Measurement : heard' = [i \in DOMAIN heard \cup {q} |-> IF i = q THEN r ELSE heard[i]]
      BY <1>1 DEF DarkCount, Detected
    <2>2. r = m
      BY <1>1, <2>1
    <2> QED
      BY <1>1, <2>1, <2>2 DEF DarkCount, Disturb
  <1>2. ASSUME NEW turn \in Drift, Arrives(q, s, turn), heard'[q] = m
        PROVE  /\ m \in Measurement
               /\ heard' = [i \in DOMAIN heard \cup {q} |-> IF i = q THEN m ELSE heard[i]]
               /\ disturbed' \in {disturbed, disturbed \cup {q}}
               /\ m.basis = BasisOf(s) /\ m.bit # BitOf(s) => q \in disturbed'
    <2>1. PICK b \in Basis : \E x \in Read(NearestState(s + turn), b) :
              heard' = [i \in DOMAIN heard \cup {q} |-> IF i = q THEN [basis |-> b, bit |-> x] ELSE heard[i]]
      BY <1>2 DEF Arrives, Detected
    <2>2. PICK x \in Read(NearestState(s + turn), b) :
              heard' = [i \in DOMAIN heard \cup {q} |-> IF i = q THEN [basis |-> b, bit |-> x] ELSE heard[i]]
      BY <2>1
    <2>3. m = [basis |-> b, bit |-> x]
      BY <1>2, <2>2
    <2>4. turn \in Int
      BY SiftDrift
    <2>5. NearestState(s + turn) \in State /\ (Clear(s, turn) => NearestState(s + turn) = s)
      BY <2>4, NearestFound
    <2>6. x \in Bit
      BY <2>5, EncodeInverts DEF Read
    <2>7. b = BasisOf(s) /\ x # BitOf(s) => ~Clear(s, turn)
      BY <2>5 DEF Read
    <2>8. disturbed' = IF ~Clear(s, turn) THEN disturbed \cup {q} ELSE disturbed
      BY <1>2 DEF Arrives, Disturb
    <2> QED
      BY <2>2, <2>3, <2>6, <2>7, <2>8 DEF Measurement
  <1>3. ASSUME NEW turn \in Drift, Intercepted(q, s, turn), heard'[q] = m
        PROVE  /\ m \in Measurement
               /\ heard' = [i \in DOMAIN heard \cup {q} |-> IF i = q THEN m ELSE heard[i]]
               /\ disturbed' \in {disturbed, disturbed \cup {q}}
               /\ m.basis = BasisOf(s) /\ m.bit # BitOf(s) => q \in disturbed'
    <2>1. PICK e \in Basis : \E x \in Read(NearestState(s + turn), e) :
              /\ Disturb(q, ~Clear(s, turn) \/ e # BasisOf(s))
              /\ \E b \in Basis : \E y \in Read(Encode(e, x), b) : Detected(q, [basis |-> b, bit |-> y])
      BY <1>3 DEF Intercepted
    <2>2. PICK x \in Read(NearestState(s + turn), e) :
              /\ Disturb(q, ~Clear(s, turn) \/ e # BasisOf(s))
              /\ \E b \in Basis : \E y \in Read(Encode(e, x), b) : Detected(q, [basis |-> b, bit |-> y])
      BY <2>1
    <2>3. PICK b \in Basis : \E y \in Read(Encode(e, x), b) : Detected(q, [basis |-> b, bit |-> y])
      BY <2>2
    <2>4. PICK y \in Read(Encode(e, x), b) :
              heard' = [i \in DOMAIN heard \cup {q} |-> IF i = q THEN [basis |-> b, bit |-> y] ELSE heard[i]]
      BY <2>3 DEF Detected
    <2>5. m = [basis |-> b, bit |-> y]
      BY <1>3, <2>4
    <2>6. turn \in Int
      BY SiftDrift
    <2>7. NearestState(s + turn) \in State /\ (Clear(s, turn) => NearestState(s + turn) = s)
      BY <2>6, NearestFound
    <2>8. x \in Bit
      BY <2>7, EncodeInverts DEF Read
    <2>9. Encode(e, x) \in State /\ BasisOf(Encode(e, x)) = e /\ BitOf(Encode(e, x)) = x
      BY <2>8, EncodeInverts
    <2>10. y \in Bit
      BY <2>9, EncodeInverts DEF Read
    <2>11. b = BasisOf(s) /\ y # BitOf(s) => ~Clear(s, turn) \/ e # BasisOf(s)
      BY <2>7, <2>9 DEF Read
    <2>12. disturbed' = IF ~Clear(s, turn) \/ e # BasisOf(s) THEN disturbed \cup {q} ELSE disturbed
      BY <2>2 DEF Disturb
    <2> QED
      BY <2>4, <2>5, <2>10, <2>11, <2>12 DEF Measurement
  <1> QED
    BY <1>1, <1>2, <1>3

\* A photon travels: one more measurement, or none, and what disturbed it.
LEMMA TravelKeeps == SiftInv /\ Travel => SiftInv'
  <1> SUFFICES ASSUME SiftInv, Travel PROVE SiftInv'
    OBVIOUS
  <1> DEFINE q == Len(sent)
  <1>1. PICK b \in Basis, x \in Bit :
           /\ sent' = Append(sent, Encode(b, x))
           /\ \/ Lost
              \/ DarkCount(q)
              \/ \E turn \in Drift : Arrives(q, Encode(b, x), turn) \/ Intercepted(q, Encode(b, x), turn)
    BY DEF Travel
  <1> DEFINE s == Encode(b, x)
  <1>2. s \in State
    BY EncodeInverts
  <1>3. PathInv /\ q \in Nat /\ q < NQubits /\ stage = "sending" /\ NQubits \in Nat
    BY SiftSizes DEF Travel, SiftInv, PathInv
  <1> HIDE DEF s
  <1>4. /\ sent' \in Seq(State) /\ Len(sent') = q + 1 /\ sent'[q + 1] = s
        /\ \A i \in 0 .. q - 1 : sent'[i + 1] = sent[i + 1]
    BY <1>1, <1>2, <1>3 DEF PathInv, s
  <1> HIDE DEF q
  <1>5. PathInv'
    <2>1. CASE Lost
      <3>1. heard' = heard /\ disturbed' = disturbed
        BY <2>1 DEF Lost
      <3>2. \A i \in DOMAIN heard : i \in 0 .. q - 1
        BY <1>3 DEF PathInv, q
      <3>3. Agreeing' \subseteq Agreeing
        BY <1>3, <1>4, <3>1, <3>2 DEF Agreeing, q
      <3>4. \A i \in Agreeing' : heard'[i].bit # BitOf(sent'[i + 1]) => i \in disturbed'
        BY <1>3, <1>4, <3>1, <3>2, <3>3 DEF PathInv, Agreeing
      <3> QED
        BY <1>3, <1>4, <3>1, <3>4 DEF PathInv, q
    <2>2. CASE ~Lost
      <3>1. \/ DarkCount(q)
            \/ \E turn \in Drift : Arrives(q, s, turn) \/ Intercepted(q, s, turn)
        BY <1>1, <2>2 DEF s
      <3> DEFINE m == heard'[q]
      <3>2. /\ m \in Measurement
            /\ heard' = [i \in DOMAIN heard \cup {q} |-> IF i = q THEN m ELSE heard[i]]
            /\ disturbed' \in {disturbed, disturbed \cup {q}}
            /\ m.basis = BasisOf(s) /\ m.bit # BitOf(s) => q \in disturbed'
        BY <1>2, <3>1, PathSound
      <3> HIDE DEF m
      <3>3. DOMAIN heard' = DOMAIN heard \cup {q} /\ heard'[q] = m
        BY <3>2
      <3>4. \A i \in DOMAIN heard : i \in 0 .. q - 1
        BY <1>3 DEF PathInv, q
      <3>5. \A i \in DOMAIN heard : i # q /\ heard'[i] = heard[i]
        BY <1>3, <3>2, <3>4
      <3>6. ASSUME NEW i \in Agreeing', heard'[i].bit # BitOf(sent'[i + 1])
            PROVE  i \in disturbed'
        <4>1. CASE i = q
          BY <1>4, <3>2, <3>3, <3>6, <4>1 DEF Agreeing
        <4>2. CASE i # q
          <5>1. i \in DOMAIN heard /\ i \in 0 .. q - 1
            BY <3>3, <3>4, <4>2 DEF Agreeing
          <5>2. heard'[i] = heard[i] /\ sent'[i + 1] = sent[i + 1]
            BY <1>4, <3>5, <5>1
          <5>3. i \in Agreeing
            BY <1>3, <5>1, <5>2 DEF Agreeing, q
          <5> QED
            BY <1>3, <3>2, <3>6, <5>2, <5>3 DEF PathInv
        <4> QED
          BY <4>1, <4>2
      <3>7. DOMAIN heard' \subseteq 0 .. Len(sent') - 1
        BY <1>3, <1>4, <3>3, <3>4
      <3>8. \A i \in DOMAIN heard' : heard'[i] \in Measurement
        BY <1>3, <3>2, <3>3, <3>5 DEF PathInv
      <3>9. disturbed' \subseteq 0 .. Len(sent') - 1
        <4>1. \A i \in disturbed : i \in 0 .. q - 1
          BY <1>3 DEF PathInv, q
        <4>2. \A i \in disturbed' : i \in disturbed \/ i = q
          BY <3>2
        <4> QED
          BY <1>3, <1>4, <4>1, <4>2
      <3> QED
        BY <1>3, <1>4, <3>6, <3>7, <3>8, <3>9 DEF PathInv
    <2> QED
      BY <2>1, <2>2
  <1>6. /\ stage' = "sending" /\ sample' = sample /\ sifted' = sifted /\ verdict' = verdict
        /\ confidence' = confidence /\ key' = key /\ bobBits' = bobBits /\ bobKey' = bobKey /\ bobDone' = bobDone
    BY <1>3 DEF Travel, postVars, bobVars
  <1>7. TaskInv'
    BY <1>3, <1>6 DEF SiftInv, TaskInv, NoVerdict
  <1>8. VerdictInv' /\ BobInv' /\ AnalysisAgrees'
    BY <1>3, <1>6 DEF SiftInv, TaskInv, VerdictInv, BobInv, AnalysisAgrees
  <1> QED
    BY <1>5, <1>7, <1>8 DEF SiftInv

\* While the qubits stay, so do the lists that are sifted from them.
LEMMA PathKept ==
    ASSUME PathInv, UNCHANGED pathVars
    PROVE  /\ PathInv' /\ heard' = heard
           /\ Matched' = Matched /\ AliceSifted' = AliceSifted /\ BobSifted' = BobSifted
  <1>1. sent' = sent /\ heard' = heard /\ disturbed' = disturbed
    BY DEF pathVars
  <1>2. PathInv'
    BY <1>1 DEF PathInv, Agreeing
  <1>3. Matched' = Matched
    BY <1>1 DEF Matched
  <1> QED
    BY <1>1, <1>2, <1>3 DEF AliceSifted, BobSifted

\* ST sifts the measurements, and stops where there are too few.
LEMMA AssembleKeeps == SiftInv /\ Assemble => SiftInv'
  <1> SUFFICES ASSUME SiftInv, Assemble PROVE SiftInv'
    OBVIOUS
  <1>1. /\ PathInv' /\ heard' = heard
        /\ Matched' = Matched /\ AliceSifted' = AliceSifted /\ BobSifted' = BobSifted
    BY PathKept DEF SiftInv, Assemble
  <1>2. /\ stage = "sending" /\ ~bobDone /\ bobDone' = bobDone
        /\ verdict.status \in {"none", "success", "aborted"} /\ verdict.status # "success" /\ verdict.sampled = 0
        /\ sifted = [alice |-> <<>>, bob |-> <<>>]
        /\ confidence' = confidence /\ sample \subseteq 1 .. NQubits
        /\ confidence \in {"none", "abort", "suspicious", "noisy", "clean"}
    BY DEF Assemble, SiftInv, TaskInv, bobVars
  <1>3. CASE /\ heard # <<>>
             /\ stage' = "QKT" /\ sample' \in Samples(Len(Matched))
             /\ sifted' = [alice |-> AliceSifted, bob |-> BobSifted]
             /\ UNCHANGED <<verdict, confidence, key>>
    <2>1. sample' \subseteq 1 .. NQubits
      <3>1. Len(Matched) \in Nat /\ Len(Matched) <= NQubits /\ NQubits \in Nat
        BY MatchedIs, SiftSizes DEF SiftInv
      <3> QED
        BY <1>3, <3>1 DEF Samples
    <2>2. Handed'
      BY <1>1, <1>3 DEF Handed
    <2>3. verdict = NoVerdict
      BY <1>2 DEF SiftInv, TaskInv
    <2>4. TaskInv'
      BY <1>1, <1>2, <1>3, <2>1, <2>2, <2>3 DEF TaskInv
    <2> QED
      BY <1>1, <1>2, <1>3, <2>4 DEF SiftInv, VerdictInv, BobInv, AnalysisAgrees
  <1>4. CASE /\ heard = <<>>
             /\ stage' = "ended" /\ verdict' = [NoVerdict EXCEPT !.status = "aborted"]
             /\ UNCHANGED <<sample, sifted, confidence, key>>
    <2>1. verdict'.status = "aborted" /\ verdict'.sampled = 0
      BY <1>4 DEF NoVerdict
    <2>2. TaskInv'
      BY <1>1, <1>2, <1>4, <2>1 DEF TaskInv
    <2> QED
      BY <1>1, <1>2, <1>4, <2>1, <2>2 DEF SiftInv, VerdictInv, BobInv, AnalysisAgrees
  <1> QED
    BY <1>3, <1>4 DEF Assemble

\* decompose_qber reports "abort" from the limit on.
LEMMA ConfidenceAborts ==
    ASSUME NEW errors \in Nat, NEW n \in Nat, NEW floor \in Nat
    PROVE  /\ Confidence(errors, n, floor) \in {"abort", "suspicious", "noisy", "clean"}
           /\ Confidence(errors, n, floor) = "abort" <=> errors * 100 >= Limit * n
  <1> DEFINE excess == errors * 100 - floor * n
  <1>1. /\ errors * 100 \in Int /\ floor * n \in Int /\ Limit * n \in Int /\ Suspicion * n \in Int
        /\ 3 * floor * n \in Int
    BY SiftSizes
  <1>2. excess \in Int
    BY <1>1
  <1>3. Confidence(errors, n, floor) =
            CASE errors * 100 >= Limit * n -> "abort"
              [] errors * 100 < Limit * n /\ excess >= Suspicion * n -> "suspicious"
              [] errors * 100 < Limit * n /\ excess < Suspicion * n ->
                     IF errors * 100 > 3 * floor * n THEN "noisy" ELSE "clean"
    BY DEF Confidence
  <1> HIDE DEF excess
  <1>4. CASE errors * 100 >= Limit * n
    BY <1>1, <1>3, <1>4
  <1>5. CASE errors * 100 < Limit * n /\ excess >= Suspicion * n
    BY <1>1, <1>2, <1>3, <1>5
  <1>6. CASE errors * 100 < Limit * n /\ excess < Suspicion * n
    BY <1>1, <1>2, <1>3, <1>6
  <1> QED
    BY <1>1, <1>2, <1>4, <1>5, <1>6

\* QKT draws the sample, judges it and derives the key.
LEMMA DeriveKeeps == SiftInv /\ Derive => SiftInv'
  <1> SUFFICES ASSUME SiftInv, Derive PROVE SiftInv'
    OBVIOUS
  <1> DEFINE n == Len(sifted.alice)
             errors == Errors(sifted.alice, sifted.bob, sample)
             k == SampleSize(n)
  <1>1. /\ PathInv' /\ heard' = heard
        /\ Matched' = Matched /\ AliceSifted' = AliceSifted /\ BobSifted' = BobSifted
    BY PathKept DEF SiftInv, Derive
  <1>2. /\ stage = "QKT" /\ stage' = "ended" /\ heard # <<>> /\ verdict = NoVerdict /\ Handed
        /\ sample' = sample /\ sifted' = sifted /\ sample \subseteq 1 .. NQubits
        /\ confidence \in {"none", "abort", "suspicious", "noisy", "clean"}
        /\ bobBits' = bobBits /\ bobKey' = bobKey /\ bobDone' = bobDone
    BY DEF Derive, SiftInv, TaskInv, bobVars
  <1>3. Handed'
    BY <1>1, <1>2 DEF Handed
  <1>4. BobInv'
    BY <1>1, <1>2 DEF BobInv, SiftInv
  <1>5. n \in Nat
    BY <1>2, MatchedIs DEF Handed, SiftInv
  <1>6. k \in Nat
    BY <1>5, SampleFits
  <1>7. errors \in Nat
    <2>1. IsFiniteSet(1 .. NQubits)
      BY SiftSizes, FS_Interval
    <2> DEFINE E == {i \in sample : sifted.alice[i] # sifted.bob[i]}
    <2>2. E \in SUBSET (1 .. NQubits)
      BY <1>2
    <2> HIDE DEF E
    <2>3. IsFiniteSet(E)
      BY <2>1, <2>2, FS_Subset
    <2>4. Cardinality(E) \in Nat
      BY <2>3, FS_CardinalityType
    <2> QED
      BY <2>4 DEF Errors, E
  <1>8. \/ /\ verdict' = [NoVerdict EXCEPT !.status = "aborted"]
           /\ UNCHANGED <<confidence, key>>
        \/ /\ Enough(n)
           /\ \E floor \in Floor \cup {0} : confidence' = Confidence(errors, k, floor)
           /\ verdict' = [status  |-> IF TooHigh(errors, k) THEN "aborted" ELSE "success",
                          errors  |-> errors,
                          sampled |-> k]
           /\ key' = IF TooHigh(errors, k) THEN <<>> ELSE Remainder(sifted.alice, sample)
    BY DEF Derive
  <1> HIDE DEF n, errors, k
  <1>9. CASE /\ verdict' = [NoVerdict EXCEPT !.status = "aborted"]
             /\ UNCHANGED <<confidence, key>>
    <2>1. verdict'.status = "aborted" /\ verdict'.sampled = 0
      BY <1>9 DEF NoVerdict
    <2>2. TaskInv'
      BY <1>1, <1>2, <1>3, <1>9, <2>1 DEF TaskInv
    <2> QED
      BY <1>1, <1>4, <2>1, <2>2 DEF SiftInv, VerdictInv, AnalysisAgrees
  <1>10. CASE /\ Enough(n)
              /\ \E floor \in Floor \cup {0} : confidence' = Confidence(errors, k, floor)
              /\ verdict' = [status  |-> IF TooHigh(errors, k) THEN "aborted" ELSE "success",
                             errors  |-> errors,
                             sampled |-> k]
              /\ key' = IF TooHigh(errors, k) THEN <<>> ELSE Remainder(sifted.alice, sample)
    <2>1. PICK floor \in Floor \cup {0} : confidence' = Confidence(errors, k, floor)
      BY <1>10
    <2>2. floor \in Nat
      BY SiftSizes
    <2>3. /\ confidence' \in {"abort", "suspicious", "noisy", "clean"}
          /\ confidence' = "abort" <=> errors * 100 >= Limit * k
      BY <1>6, <1>7, <2>1, <2>2, ConfidenceAborts
    <2>4. /\ verdict'.status = IF TooHigh(errors, k) THEN "aborted" ELSE "success"
          /\ verdict'.errors = errors /\ verdict'.sampled = k
      BY <1>10
    <2>5. AnalysisAgrees'
      <3>1. errors * 100 \in Int /\ Limit * k \in Int
        BY <1>6, <1>7, SiftSizes
      <3>2. TooHigh(errors, k) <=> errors * 100 > Limit * k
        BY DEF TooHigh
      <3>3. verdict'.status = "aborted" <=> errors * 100 > Limit * k
        BY <2>4, <3>2
      <3> QED
        BY <2>3, <2>4, <3>1, <3>3 DEF AnalysisAgrees
    <2>6. VerdictInv'
      BY <1>2, <1>10, <2>4 DEF VerdictInv, n, errors, k
    <2>7. bobDone' = bobDone /\ ~(stage' = "sending" \/ heard' = <<>>) /\ stage' # "QKT"
      BY <1>1, <1>2
    <2>8. TaskInv'
      BY <1>2, <1>3, <2>3, <2>4, <2>7 DEF TaskInv
    <2> QED
      BY <1>1, <1>4, <2>5, <2>6, <2>8 DEF SiftInv
  <1> QED
    BY <1>8, <1>9, <1>10

\* Bob sifts with the same sample.
LEMMA BobSiftsKeeps == SiftInv /\ BobSifts => SiftInv'
  <1> SUFFICES ASSUME SiftInv, BobSifts PROVE SiftInv'
    OBVIOUS
  <1>1. /\ PathInv' /\ heard' = heard
        /\ Matched' = Matched /\ AliceSifted' = AliceSifted /\ BobSifted' = BobSifted
    BY PathKept DEF SiftInv, BobSifts
  <1>2. /\ stage # "sending" /\ heard # <<>>
        /\ bobBits' = BobSifted /\ bobKey' = Remainder(BobSifted, sample)
        /\ stage' = stage /\ sample' = sample /\ sifted' = sifted
        /\ verdict' = verdict /\ confidence' = confidence /\ key' = key
    BY DEF BobSifts, SiftReady, postVars
  <1>3. BobInv'
    BY <1>1, <1>2 DEF BobInv
  <1>4. Handed'
    BY <1>1, <1>2 DEF SiftInv, TaskInv, Handed
  <1>5. TaskInv'
    BY <1>1, <1>2, <1>4 DEF SiftInv, TaskInv
  <1>6. VerdictInv' /\ AnalysisAgrees'
    BY <1>2 DEF SiftInv, VerdictInv, AnalysisAgrees
  <1> QED
    BY <1>1, <1>3, <1>5, <1>6 DEF SiftInv

\* The invariant holds in every state, for any number of qubits and any drift.
THEOREM SiftInvariant == SiftSpec => []SiftInv
  <1>1. SiftInv /\ [SiftNext]_siftVars => SiftInv'
    <2> SUFFICES ASSUME SiftInv, [SiftNext]_siftVars PROVE SiftInv'
      OBVIOUS
    <2>1. CASE UNCHANGED siftVars
      <3>1. /\ PathInv' /\ heard' = heard
            /\ Matched' = Matched /\ AliceSifted' = AliceSifted /\ BobSifted' = BobSifted
        BY <2>1, PathKept DEF SiftInv, siftVars
      <3>2. /\ stage' = stage /\ sample' = sample /\ sifted' = sifted /\ verdict' = verdict
            /\ confidence' = confidence /\ key' = key
            /\ bobBits' = bobBits /\ bobKey' = bobKey /\ bobDone' = bobDone
        BY <2>1 DEF siftVars, postVars, bobVars
      <3>3. Handed' <=> Handed
        BY <3>1, <3>2 DEF Handed
      <3>4. TaskInv'
        BY <3>1, <3>2, <3>3 DEF SiftInv, TaskInv
      <3>5. VerdictInv' /\ BobInv' /\ AnalysisAgrees'
        BY <3>1, <3>2 DEF SiftInv, VerdictInv, BobInv, AnalysisAgrees
      <3> QED
        BY <3>1, <3>4, <3>5 DEF SiftInv
    <2> QED
      BY <2>1, TravelKeeps, AssembleKeeps, DeriveKeeps, BobSiftsKeeps DEF SiftNext
  <1> QED
    BY <1>1, SiftBegins, PTL DEF SiftSpec

-----------------------------------------------------------------------------
(* What follows from the invariant. *)

\* Every variable keeps its type.
THEOREM SiftTypeCorrect == SiftSpec => []SiftTypeOK
  <1>1. SiftInv => SiftTypeOK
    <2> SUFFICES ASSUME SiftInv PROVE SiftTypeOK
      OBVIOUS
    <2>1. NQubits \in Nat /\ Len(sent) \in Nat /\ Len(sent) <= NQubits
      BY SiftSizes DEF SiftInv, PathInv
    <2>2. 0 .. Len(sent) - 1 \subseteq Qubit
      BY <2>1 DEF Qubit
    <2>3. DOMAIN heard \subseteq Qubit /\ disturbed \subseteq Qubit
      BY <2>2 DEF SiftInv, PathInv
    <2> QED
      BY <2>3 DEF SiftTypeOK, SiftInv, PathInv, TaskInv
  <1> QED
    BY <1>1, SiftInvariant, PTL

\* A wrong bit among the sifted ones is of a qubit that was disturbed on its way
\* (rotate_state, intercept-resend, dark counts): what QBER counts is disturbance.
THEOREM ErrorsExplainedCorrect == SiftSpec => []ErrorsExplained
  <1>1. SiftInv => ErrorsExplained
    <2> SUFFICES ASSUME SiftInv, NEW i \in DOMAIN sifted.alice, sifted.alice[i] # sifted.bob[i]
                 PROVE  Matched[i] \in disturbed
      BY DEF ErrorsExplained
    <2>1. stage # "sending" /\ heard # <<>>
      BY DEF SiftInv, TaskInv
    <2>2. sifted.alice = AliceSifted /\ sifted.bob = BobSifted
      BY <2>1 DEF SiftInv, TaskInv, Handed
    <2>3. i \in DOMAIN Matched /\ Matched[i] \in Agreeing
      BY <2>2, MatchedIs DEF SiftInv, AliceSifted
    <2>4. sifted.alice[i] = BitOf(sent[Matched[i] + 1]) /\ sifted.bob[i] = heard[Matched[i]].bit
      BY <2>2, <2>3 DEF AliceSifted, BobSifted
    <2> QED
      BY <2>3, <2>4 DEF SiftInv, PathInv
  <1> QED
    BY <1>1, SiftInvariant, PTL

\* The final keys differ in exactly the errors that the sample did not show,
\* and are as long as what was sifted without the sample (compute_qber,
\* qber_key_task, _do_local_sift).
THEOREM KeysDifferUnseenCorrect == SiftSpec => []KeysDifferUnseen
  <1>1. SiftInv => KeysDifferUnseen
    <2> SUFFICES ASSUME SiftInv, verdict.status = "success", bobDone
                 PROVE  /\ Len(key) = Len(bobKey)
                        /\ Len(key) + verdict.sampled = Len(sifted.alice)
                        /\ Errors(key, bobKey, DOMAIN key) + verdict.errors
                               = Errors(sifted.alice, bobBits, DOMAIN bobBits)
      BY DEF KeysDifferUnseen
    <2> DEFINE n == Len(Matched)
               x == AliceSifted
               y == BobSifted
               m == n - Cardinality(sample)
    <2>1. stage # "sending" /\ heard # <<>>
      BY DEF SiftInv, TaskInv
    <2>2. sifted.alice = x /\ sifted.bob = y /\ sample \in Samples(n)
      BY <2>1 DEF SiftInv, TaskInv, Handed
    <2>3. /\ n \in Nat /\ Len(x) = n
          /\ x \in [1 .. n -> Bit] /\ y \in [1 .. n -> Bit]
      BY MatchedIs DEF SiftInv
    <2>4. DOMAIN x = 1 .. n /\ DOMAIN y = 1 .. n
      BY <2>3
    <2>5. /\ key = Remainder(x, sample) /\ bobKey = Remainder(y, sample) /\ bobBits = y
          /\ verdict.errors = Errors(x, y, sample) /\ verdict.sampled = SampleSize(n)
      BY <2>2, <2>3 DEF SiftInv, VerdictInv, BobInv
    <2>6. sample \in SUBSET (1 .. n) /\ Cardinality(sample) = SampleSize(n)
      BY <2>2 DEF Samples
    <2>7. Len(Remainder(x, sample)) = m /\ Len(Remainder(y, sample)) = m /\ m \in Nat /\ Cardinality(sample) \in Nat
      <3> HIDE DEF n, x, y
      <3> DEFINE rest == Increasing((1 .. n) \ sample)
      <3>1. Cardinality(sample) \in Nat /\ m \in Nat /\ rest \in Bijection(1 .. m, (1 .. n) \ sample)
        BY <2>3, <2>4, <2>6, RemainderOf
      <3>2. DOMAIN rest = 1 .. m /\ \A i \in 1 .. m : rest[i] \in 1 .. n
        BY <3>1 DEF Bijection, Injection
      <3>3. /\ Remainder(x, sample) = [i \in 1 .. m |-> x[rest[i]]]
            /\ Remainder(y, sample) = [i \in 1 .. m |-> y[rest[i]]]
        BY <2>4, <3>2 DEF Remainder
      <3> HIDE DEF rest, m
      <3>4. Remainder(x, sample) \in [1 .. m -> Bit] /\ Remainder(y, sample) \in [1 .. m -> Bit]
        BY <2>3, <3>2, <3>3
      <3> QED
        BY <3>1, <3>4, ListOf
    <2>8. Errors(Remainder(x, sample), Remainder(y, sample), DOMAIN Remainder(x, sample)) + Errors(x, y, sample)
              = Errors(x, y, 1 .. n)
      <3> HIDE DEF n, x, y, m
      <3> QED
        BY <2>3, <2>4, <2>6, ErrorsSplit
    <2> HIDE DEF x, y, n
    <2> QED
      BY <2>2, <2>3, <2>4, <2>5, <2>6, <2>7, <2>8
  <1> QED
    BY <1>1, SiftInvariant, PTL

\* A key that is delivered has a bit, when at least two sifted bits are asked
\* for: qber_key_task asks for 10.
THEOREM KeyNotEmptyCorrect ==
    ASSUME MinSifted >= 2
    PROVE  SiftSpec => []KeyNotEmpty
  <1>1. SiftInv => KeyNotEmpty
    <2> SUFFICES ASSUME SiftInv, verdict.status = "success" PROVE key # <<>>
      BY DEF KeyNotEmpty
    <2> DEFINE n == Len(Matched)
               x == AliceSifted
               rest == Increasing((1 .. n) \ sample)
               m == n - Cardinality(sample)
    <2>1. stage # "sending" /\ heard # <<>>
      BY DEF SiftInv, TaskInv
    <2>2. sifted.alice = x /\ sample \in Samples(n)
      BY <2>1 DEF SiftInv, TaskInv, Handed
    <2>3. n \in Nat /\ Len(x) = n /\ x \in [1 .. n -> Bit]
      BY MatchedIs DEF SiftInv
    <2>4. key = Remainder(x, sample) /\ n >= MinSifted
      BY <2>2, <2>3 DEF SiftInv, VerdictInv, Enough
    <2>5. n >= 2
      BY <2>3, <2>4, SiftSizes
    <2>6. sample \in SUBSET (1 .. n) /\ Cardinality(sample) = SampleSize(n)
      BY <2>2 DEF Samples
    <2>7. SampleSize(n) \in 0 .. n /\ SampleSize(n) < n
      <3> HIDE DEF n
      <3> QED
        BY <2>3, <2>5, SampleFits
    <2>8. DOMAIN x = 1 .. n
      BY <2>3
    <2>9. DOMAIN Remainder(x, sample) = 1 .. m
      <3> HIDE DEF n, x, rest
      <3> QED
        BY <2>3, <2>6, <2>8, RemainderOf
    <2>10. 1 \in 1 .. m
      <3> HIDE DEF n, x, rest
      <3> QED
        BY <2>3, <2>6, <2>7
    <2>11. DOMAIN <<>> = {}
      OBVIOUS
    <2> HIDE DEF n, x, m
    <2> QED
      BY <2>4, <2>9, <2>10, <2>11
  <1> QED
    BY <1>1, SiftInvariant, PTL

\* The logged analysis and the verdict agree away from the limit, for any limit,
\* floor and sample (decompose_qber, qber_key_task).
THEOREM AnalysisAgreesCorrect == SiftSpec => []AnalysisAgrees
  <1>1. SiftInv => AnalysisAgrees
    BY DEF SiftInv
  <1> QED
    BY <1>1, SiftInvariant, PTL
=============================================================================
