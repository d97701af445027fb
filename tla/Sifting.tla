------------------------------ MODULE Sifting ------------------------------
(***************************************************************************)
(* What becomes of the bits: Alice's preparation, the fibre and its        *)
(* polarization drift (optical/channel.py, optical/polarization.py), Eve's *)
(* intercept-resend and Bob's measurement (qunetsim_service.py), then the  *)
(* sifting, the QBER estimate and the verdict (bb84_logic.py,              *)
(* workers/sifting_tasks.py, optical/metrics.py) and Bob's own sifting     *)
(* (nodes/bob/main.py).                                                    *)
(*                                                                         *)
(* Order, loss and retries are in Pipeline and Link.  Here each qubit is   *)
(* measured at most once, and the question is what both sides compute.     *)
(* A BB84 state is its polarization angle in units of pi/16; rates are     *)
(* compared in percent.                                                    *)
(***************************************************************************)
EXTENDS Integers, Sequences, FiniteSets, Sorting

CONSTANTS
    NQubits,
    SampleNum, SampleDen,  \* SAMPLE_FRACTION
    MinSifted,             \* fewer sifted bits are INSUFFICIENT_BITS
    Limit,                 \* QBER_THRESHOLD and ABORT_THRESHOLD, in percent
    Suspicion,             \* SUSPICION_THRESHOLD, in percent
    Floor,                 \* physical_floor the QKDL may answer, in percent
    Drift                  \* angles by which the fibre may turn a photon

ASSUME SiftSizes ==
    /\ NQubits \in Nat /\ MinSifted \in Nat
    /\ SampleNum \in Nat \ {0} /\ SampleDen \in Nat /\ SampleNum < SampleDen
    /\ Limit \in 1 .. 100 /\ Suspicion \in 1 .. 100 /\ Floor \subseteq 0 .. 100
\* pi/8 is half-way between two states, where rounding decides.
ASSUME SiftDrift == Drift \subseteq Int /\ \A d \in Drift : d % 4 # 2

Qubit == 0 .. NQubits - 1
Basis == {"Z", "X"}
Bit   == {0, 1}

State == {0, 4, 8, 12}          \* H, D, V, A

Encode(basis, bit) == 8 * bit + (IF basis = "X" THEN 4 ELSE 0)
BasisOf(s)         == IF s % 8 = 4 THEN "X" ELSE "Z"
BitOfSlip(s)       == s \div 4      \* the basis is left in
BitOf(s)           == s \div 8

Measurement == [basis : Basis, bit : Bit]
NoVerdict   == [status |-> "none", errors |-> 0, sampled |-> 0]

VARIABLES
    sent,       \* Alice's states so far, in the order of their ids
    heard,      \* Bob's measurements, by qubit id
    disturbed,  \* history: qubits that something happened to on their way
    stage,      \* "sending", then the task to run: "ST", "QKT", then "ended"
    sample,     \* the indices that Random(sample_seed).sample(range(n), ..) gives
    sifted,     \* what ST hands over: the bits of alice_sifted and bob_sifted
    verdict,    \* QKT's result, with the numbers its QBER came from
    confidence, \* what decompose_qber says of that QBER
    key,        \* key_final
    bobBits,    \* Bob's sifted_bits
    bobKey,     \* Bob's bob_final
    bobDone

pathVars == <<sent, heard, disturbed>>
postVars == <<sifted, verdict, confidence, key>>
bobVars  == <<bobBits, bobKey, bobDone>>
siftVars == <<pathVars, stage, sample, postVars, bobVars>>

SiftInit ==
    /\ sent = <<>> /\ heard = <<>> /\ disturbed = {}
    /\ stage = "sending" /\ sample = {}
    /\ sifted = [alice |-> <<>>, bob |-> <<>>]
    /\ verdict = NoVerdict /\ confidence = "none" /\ key = <<>>
    /\ bobBits = <<>> /\ bobKey = <<>> /\ bobDone = FALSE

-----------------------------------------------------------------------------
(* A photon on its way. *)

\* Angles are equal modulo pi.
Distance(a, s) ==
    LET d == IF a > s THEN a - s ELSE s - a
    IN  IF d < 16 - d THEN d ELSE 16 - d

\* The first of the sorted states at the least distance.
NearestStateSlip(angle) ==                                \* rounded down
    LET a == angle % 16 IN CHOOSE s \in State : s <= a /\ a < s + 4
NearestState(angle) ==
    LET a    == angle % 16
        best == {s \in State : \A t \in State : Distance(a, s) <= Distance(a, t)}
    IN  CHOOSE s \in best : \A t \in best : s <= t

\* The bit read in one basis from a photon prepared in another is a coin toss.
Read(s, basis) == IF basis = BasisOf(s) THEN {BitOf(s)} ELSE Bit

Clear(s, turn) == Distance((s + turn) % 16, s) < 2        \* within pi/8

Detected(q, m) == heard' = [i \in DOMAIN heard \cup {q} |-> IF i = q THEN m ELSE heard[i]]

Disturb(q, happened) == disturbed' = IF happened THEN disturbed \cup {q} ELSE disturbed

\* Nothing in the fibre, or nothing that the detector sees.
Lost == UNCHANGED <<heard, disturbed>>

\* A dark count makes up a measurement.
DarkCount(q) == Disturb(q, TRUE) /\ \E m \in Measurement : Detected(q, m)

\* Bob measures what has come through the fibre.
Arrives(q, s, turn) ==
    /\ Disturb(q, ~Clear(s, turn))
    /\ \E b \in Basis : \E x \in Read(NearestState(s + turn), b) :
          Detected(q, [basis |-> b, bit |-> x])

\* Eve measures and sends on what she has read, in the basis she chose.
Intercepted(q, s, turn) ==
    \E e \in Basis : \E x \in Read(NearestState(s + turn), e) :
      /\ Disturb(q, ~Clear(s, turn) \/ e # BasisOf(s))
      /\ \E b \in Basis : \E y \in Read(Encode(e, x), b) :
            Detected(q, [basis |-> b, bit |-> y])

\* One turn of _process_batch_sync.  Eve may have registered by then or not.
Travel ==
    /\ stage = "sending" /\ Len(sent) < NQubits
    /\ \E b \in Basis, x \in Bit :
         LET q == Len(sent)
             s == Encode(b, x)
         IN  /\ sent' = Append(sent, s)
             /\ \/ Lost
                \/ DarkCount(q)
                \/ \E turn \in Drift :
                     Arrives(q, s, turn) \/ Intercepted(q, s, turn)
    /\ UNCHANGED <<stage, sample, postVars, bobVars>>

-----------------------------------------------------------------------------
(* Sifting and the sample. *)

\* Ids that Bob measured in Alice's basis, in increasing order: the loop of ST,
\* of _do_local_sift and of perform_sifting_by_id.
Matched ==
    Increasing({q \in DOMAIN heard : q < Len(sent) /\ BasisOf(sent[q + 1]) = heard[q].basis})

AliceSifted == [i \in DOMAIN Matched |-> BitOf(sent[Matched[i] + 1])]
BobSifted   == [i \in DOMAIN Matched |-> heard[Matched[i]].bit]

Fraction(n) == (n * SampleNum) \div SampleDen

SampleSize(n) == IF n = 0 THEN 0 ELSE IF Fraction(n) > 1 THEN Fraction(n) ELSE 1

\* What random.sample may give for a list of n bits.  The same seed and the same
\* n give the same indices on both sides.
Samples(n) == {I \in SUBSET (1 .. n) : Cardinality(I) = SampleSize(n)}

Errors(x, y, I) == Cardinality({i \in I : x[i] # y[i]})

RemainderSlip(bits, I) == bits                            \* the sample stays in the key
Remainder(bits, I) ==
    LET rest == Increasing(DOMAIN bits \ I)
    IN  [i \in DOMAIN rest |-> bits[rest[i]]]

-----------------------------------------------------------------------------
(* The tasks. *)

\* assemble_and_sift_task once Bob has posted something, else BOB_TIMEOUT.
Assemble ==
    /\ stage = "sending" /\ Len(sent) = NQubits
    /\ \/ /\ heard # <<>>
          /\ stage' = "QKT" /\ sample' \in Samples(Len(Matched))
          /\ sifted' = [alice |-> AliceSifted, bob |-> BobSifted]
          /\ UNCHANGED <<verdict, confidence, key>>
       \/ /\ heard = <<>>
          /\ stage' = "ended" /\ verdict' = [NoVerdict EXCEPT !.status = "aborted"]
          /\ UNCHANGED <<sample, sifted, confidence, key>>
    /\ UNCHANGED <<pathVars, bobVars>>

\* decompose_qber, for errors of n sampled bits.
Confidence(errors, n, floor) ==
    LET excess == errors * 100 - floor * n
    IN  CASE errors * 100 >= Limit * n -> "abort"
          [] errors * 100 < Limit * n /\ excess >= Suspicion * n -> "suspicious"
          [] errors * 100 < Limit * n /\ excess < Suspicion * n ->
                 IF errors * 100 > 3 * floor * n THEN "noisy" ELSE "clean"

EnoughSlip(n) == n > 0
Enough(n)     == n >= MinSifted

TooHighSlip(errors, n) == errors > Limit * n              \* a count against percents
TooHigh(errors, n)     == errors * 100 > Limit * n

\* qber_key_task.  The floor is 0 when the QKDL does not answer.
Derive ==
    /\ stage = "QKT"
    /\ stage' = "ended"
    /\ LET n      == Len(sifted.alice)
           errors == Errors(sifted.alice, sifted.bob, sample)
       IN  \/ /\ ~Enough(n)
              /\ verdict' = [NoVerdict EXCEPT !.status = "aborted"]
              /\ UNCHANGED <<confidence, key>>
           \/ /\ Enough(n)
              /\ \E floor \in Floor \cup {0} :
                    confidence' = Confidence(errors, SampleSize(n), floor)
              /\ verdict' = [status  |-> IF TooHigh(errors, SampleSize(n)) THEN "aborted" ELSE "success",
                             errors  |-> errors,
                             sampled |-> SampleSize(n)]
              /\ key' = IF TooHigh(errors, SampleSize(n)) THEN <<>>
                        ELSE Remainder(sifted.alice, sample)
    /\ UNCHANGED <<pathVars, sample, sifted, bobVars>>

SiftReady == stage # "sending" /\ heard # <<>>

\* _do_local_sift, once the sift data is at the KME.
BobSifts ==
    /\ SiftReady /\ ~bobDone
    /\ bobDone' = TRUE
    /\ bobBits' = BobSifted
    /\ bobKey' = Remainder(BobSifted, sample)
    /\ UNCHANGED <<pathVars, stage, sample, postVars>>

SiftNext == Travel \/ Assemble \/ Derive \/ BobSifts

SiftSpec == SiftInit /\ [][SiftNext]_siftVars

-----------------------------------------------------------------------------
SiftTypeOK ==
    /\ sent \in Seq(State) /\ Len(sent) <= NQubits
    /\ DOMAIN heard \subseteq Qubit /\ \A q \in DOMAIN heard : heard[q] \in Measurement
    /\ disturbed \subseteq Qubit /\ sample \subseteq 1 .. NQubits
    /\ stage \in {"sending", "QKT", "ended"}
    /\ verdict.status \in {"none", "success", "aborted"}
    /\ confidence \in {"none", "abort", "suspicious", "noisy", "clean"}

\* A sifted bit of Bob's differs from Alice's only if something happened to its
\* photon: a drift past pi/8, a dark count, or Eve in the other basis.  On a
\* quiet line with an Eve who guesses right the QBER is zero, through encoding,
\* drift, resending, measuring and sifting.
ErrorsExplained ==
    \A i \in DOMAIN sifted.alice :
        sifted.alice[i] # sifted.bob[i] => Matched[i] \in disturbed

\* The bits in which the two final keys differ are the errors that the sample
\* did not show: both sides remove the same positions, whoever sifts first, and
\* reveal none of what they keep (compute_qber, _do_local_sift).
KeysDifferUnseen ==
    verdict.status = "success" /\ bobDone =>
        /\ Len(key) = Len(bobKey)
        /\ Len(key) + verdict.sampled = Len(sifted.alice)
        /\ Errors(key, bobKey, DOMAIN key) + verdict.errors
               = Errors(sifted.alice, bobBits, DOMAIN bobBits)

\* A session that succeeds has a key with at least one bit: the sample, which
\* has at least one bit itself, never takes all that INSUFFICIENT_BITS lets by.
KeyNotEmpty == verdict.status = "success" => key # <<>>

\* The analysis that is logged and the verdict tell the same story, whatever
\* floor the QKDL reports, except at the limit itself: decompose_qber aborts
\* from it on, qber_key_task above it.
AnalysisAgrees ==
    verdict.sampled > 0 /\ verdict.errors * 100 # Limit * verdict.sampled =>
        (confidence = "abort" <=> verdict.status = "aborted")
=============================================================================
