----------------------------- MODULE NodesProofs -----------------------------
(***************************************************************************)
(* Proofs about Nodes, for any peers, any calls of /start and any number   *)
(* of restarts, lost answers and drains that raise.                        *)
(***************************************************************************)
EXTENDS Nodes, FiniteSetTheorems, SequenceTheorems, TLAPS

(***************************************************************************)
(* The types are not inductive alone: that the ids suffice depends on how  *)
(* many were drawn.  Each peer that runs has one, and each restart and each*)
(* fault has cost at most one more.                                        *)
(***************************************************************************)
Named == {p \in Peer : self[p] # NoId}

Shapes ==
    /\ issued \in Nat /\ restarts \in 0 .. MaxRestarts /\ faults \in 0 .. MaxFaults
    /\ records \in [Peer -> Seq(Nat \ {0})]
    /\ self \in [Peer -> Nat]
    /\ pending \in [NodeId -> SUBSET Call] /\ popped \in [Peer -> SUBSET Call]
    /\ listens \in [Peer -> SUBSET Call] /\ missed \in [Peer -> SUBSET Call]
    /\ call \in [Call -> {"idle", "asked", "answered", "failed"}]
    /\ session \in [Call -> {"none", "starting", "open", "over", "gone"}]
    /\ to \in [Call -> [Peer -> Nat]]
    /\ busy \subseteq Call

IdsDrawn ==
    /\ issued <= Cardinality(Named) + restarts + faults
    /\ \A p \in Peer : Found(p) \subseteq 1 .. issued /\ self[p] \in 0 .. issued
    /\ \A c \in Call, p \in Peer : to[c][p] \in 0 .. issued

NodesInv == Shapes /\ IdsDrawn

\* What is appended to a record is found, what leaves it is not, and nothing
\* else changes (register_node, NODE_TTL).
LEMMA FoundAfter ==
    ASSUME NEW s \in Seq(Nat \ {0}), NEW i \in Nat \ {0}
    PROVE  /\ Append(s, i) \in Seq(Nat \ {0}) /\ Range(Append(s, i)) = Range(s) \cup {i}
           /\ s # <<>> => Tail(s) \in Seq(Nat \ {0}) /\ Range(Tail(s)) \subseteq Range(s)
  <1> DEFINE t == Append(s, i)
  <1>1. /\ t \in Seq(Nat \ {0}) /\ DOMAIN t = 1 .. Len(s) + 1 /\ t[Len(s) + 1] = i
        /\ \A k \in 1 .. Len(s) : t[k] = s[k]
    BY AppendProperties, LenProperties
  <1>2. Range(t) = Range(s) \cup {i}
    <2>1. DOMAIN s = 1 .. Len(s) /\ Len(s) \in Nat
      BY LenProperties
    <2> HIDE DEF t
    <2>2. Range(t) \subseteq Range(s) \cup {i}
      BY <1>1, <2>1 DEF Range
    <2>3. Range(s) \cup {i} \subseteq Range(t)
      BY <1>1, <2>1 DEF Range
    <2> QED BY <2>2, <2>3
  <1>3. ASSUME s # <<>> PROVE Tail(s) \in Seq(Nat \ {0}) /\ Range(Tail(s)) \subseteq Range(s)
    BY <1>3, HeadTailProperties, LenProperties DEF Range
  <1> QED BY <1>1, <1>2, <1>3

\* There are no more ids than the constant allows.
LEMMA IdsSuffice ==
    ASSUME NodesInv
    PROVE  issued \in Nat /\ 1 .. issued \subseteq NodeId /\ NodeId \subseteq Nat
           /\ issued <= Cardinality(Peer) + MaxRestarts + MaxFaults
  <1>1. /\ Cardinality(Named) \in Nat /\ Cardinality(Peer) \in Nat
        /\ Cardinality(Named) <= Cardinality(Peer)
    BY NodesBounds, FS_Subset, FS_CardinalityType DEF Named
  <1>2. issued <= Cardinality(Peer) + MaxRestarts + MaxFaults
    BY <1>1, NodesBounds DEF NodesInv, IdsDrawn, Shapes
  <1> QED BY <1>1, <1>2, NodesBounds DEF NodesInv, Shapes, NodeId

\* A peer that gets a name, or loses it, changes the count by one.
LEMMA NamedCount ==
    ASSUME Shapes, NEW p \in Peer
    PROVE  /\ Cardinality(Named) \in Nat /\ Cardinality(Named) <= Cardinality(Peer)
           /\ self[p] = NoId /\ self' \in [Peer -> Nat] /\ self'[p] # NoId
                 /\ (\A r \in Peer \ {p} : self'[r] = self[r])
                 => Cardinality(Named') = Cardinality(Named) + 1
           /\ self[p] # NoId /\ self' \in [Peer -> Nat] /\ self'[p] = NoId
                 /\ (\A r \in Peer \ {p} : self'[r] = self[r])
                 => Cardinality(Named') = Cardinality(Named) - 1
  <1>1. IsFiniteSet(Named) /\ Cardinality(Named) \in Nat /\ Cardinality(Named) <= Cardinality(Peer)
    BY NodesBounds, FS_Subset, FS_CardinalityType DEF Named
  <1>2. ASSUME self[p] = NoId, self'[p] # NoId, \A r \in Peer \ {p} : self'[r] = self[r]
        PROVE  Cardinality(Named') = Cardinality(Named) + 1
    <2>1. Named' = Named \cup {p} /\ p \notin Named
      BY <1>2 DEF Named
    <2> QED BY <1>1, <2>1, FS_AddElement
  <1>3. ASSUME self[p] # NoId, self'[p] = NoId, \A r \in Peer \ {p} : self'[r] = self[r]
        PROVE  Cardinality(Named') = Cardinality(Named) - 1
    <2>1. Named' = Named \ {p} /\ p \in Named
      BY <1>3 DEF Named
    <2> QED BY <1>1, <2>1, FS_RemoveElement
  <1> QED BY <1>1, <1>2, <1>3

\* Every step keeps the shapes.
LEMMA ShapesStep == NodesInv /\ [NodesNext]_nodesVars => Shapes'
  <1> SUFFICES ASSUME NodesInv, [NodesNext]_nodesVars PROVE Shapes'
    OBVIOUS
  <1> USE NodesBounds DEF NodesInv, registryVars, mailVars, aliceVars
  <1>1. ASSUME NEW p \in Peer, Register(p) PROVE Shapes'
    <2>1. issued' \in Nat \ {0} /\ issued' = issued + 1
      BY <1>1 DEF Register, Shapes
    <2>2. records' \in [Peer -> Seq(Nat \ {0})]
      <3>1. Append(records[p], issued') \in Seq(Nat \ {0})
        BY <2>1, AppendProperties DEF Shapes
      <3> QED BY <1>1, <3>1 DEF Register, Shapes
    <2>3. self' \in [Peer -> Nat]
      BY <1>1, <2>1 DEF Register, Shapes
    <2>4. faults' \in 0 .. MaxFaults
      BY <1>1 DEF Register, Shapes, Fail
    <2> QED BY <2>4, <1>1, <2>1, <2>2, <2>3 DEF Register, Shapes
  <1>2. ASSUME NEW p \in Peer, RecordExpires(p) PROVE Shapes'
    <2>1. Tail(records[p]) \in Seq(Nat \ {0})
      BY <1>2, HeadTailProperties DEF RecordExpires, Shapes
    <2> QED BY <1>2, <2>1 DEF RecordExpires, Shapes
  <1>3. ASSUME NEW p \in Peer, Restart(p) PROVE Shapes'
    BY <1>3 DEF Restart, Shapes, NoId
  <1>4. ASSUME NEW p \in Peer, NEW c \in Call, Pop(p, c) \/ Hear(p, c) PROVE Shapes'
    <2>1. /\ [popped EXCEPT ![p] = @ \cup {c}] \in [Peer -> SUBSET Call]
          /\ [popped EXCEPT ![p] = @ \ {c}] \in [Peer -> SUBSET Call]
          /\ [listens EXCEPT ![p] = @ \cup {c}] \in [Peer -> SUBSET Call]
      BY DEF Shapes
    <2>2. CASE Pop(p, c)
      <3>1. [pending EXCEPT ![Mailbox(p)] = @ \ {c}] \in [NodeId -> SUBSET Call]
        BY DEF Shapes
      <3> QED BY <2>1, <2>2, <3>1 DEF Pop, Shapes
    <2>3. CASE Hear(p, c)
      BY <2>1, <2>3 DEF Hear, Shapes
    <2> QED BY <1>4, <2>2, <2>3
  <1>4a. ASSUME NEW p \in Peer, DrainRaises(p) PROVE Shapes'
    <2>1. faults' \in 0 .. MaxFaults
      BY <1>4a DEF DrainRaises, Fail, Shapes
    <2>2. PICK gone \in SUBSET popped[p] :
            /\ popped' = [popped EXCEPT ![p] = @ \ gone]
            /\ missed' = [missed EXCEPT ![p] = @ \cup gone]
      BY <1>4a DEF DrainRaises
    <2>3. popped' \in [Peer -> SUBSET Call] /\ missed' \in [Peer -> SUBSET Call]
      BY <2>2 DEF Shapes
    <2> QED BY <1>4a, <2>1, <2>3 DEF DrainRaises, Shapes
  <1>5. ASSUME NEW c \in Call, Create(c) PROVE Shapes'
    <2>1. \A f \in [Peer -> NodeId] : f \in [Peer -> Nat]
      BY IdsSuffice
    <2>2. to' \in [Call -> [Peer -> Nat]]
      <3>1. CASE to' = to
        BY <3>1 DEF Shapes
      <3>2. ASSUME NEW f \in [Peer -> Nat], to' = [to EXCEPT ![c] = f]
            PROVE  to' \in [Call -> [Peer -> Nat]]
        BY <3>2 DEF Shapes
      <3> QED BY <1>5, <2>1, <3>1, <3>2 DEF Create
    <2>3. records' = records
      BY <1>5 DEF Create, LookedUp, Shapes
    <2>4. /\ call' \in [Call -> {"idle", "asked", "answered", "failed"}]
          /\ session' \in [Call -> {"none", "starting", "open", "over", "gone"}]
      BY <1>5 DEF Create, Shapes
    <2> QED BY <1>5, <2>2, <2>3, <2>4 DEF Create, Shapes
  <1>6. ASSUME NEW c \in Call, Open(c) PROVE Shapes'
    BY <1>6 DEF Open, Registered, Shapes
  <1>7. ASSUME NEW c \in Call, Start(c) \/ InitFails(c) PROVE Shapes'
    BY <1>7 DEF Start, InitFails, Shapes
  <1>8. ASSUME NEW c \in Call, Answer(c) \/ Cleanup(c) PROVE Shapes'
    BY <1>8 DEF Answer, Cleanup, Shapes
  <1>8a. ASSUME NEW c \in Call, AnswerLost(c) PROVE Shapes'
    <2>1. faults' \in 0 .. MaxFaults
      BY <1>8a DEF AnswerLost, Fail, Shapes
    <2> QED BY <1>8a, <2>1 DEF AnswerLost, Shapes
  <1>9. ASSUME NEW c \in Call, SessionEnds(c) \/ SessionVanishes(c) PROVE Shapes'
    BY <1>9 DEF SessionEnds, SessionVanishes, Shapes
  <1>10. CASE UNCHANGED nodesVars
    BY <1>10 DEF nodesVars, Shapes
  <1> QED BY <1>1, <1>2, <1>3, <1>4, <1>4a, <1>5, <1>6, <1>7, <1>8, <1>8a,
            <1>9, <1>10 DEF NodesNext

\* Every step keeps the count of the ids, and every record within them.
LEMMA IdsStep == NodesInv /\ [NodesNext]_nodesVars => IdsDrawn'
  <1> SUFFICES ASSUME NodesInv, [NodesNext]_nodesVars PROVE IdsDrawn'
    OBVIOUS
  <1> USE NodesBounds DEF NodesInv, registryVars, mailVars, aliceVars
  <1>1. CASE UNCHANGED <<issued, records, self, to, restarts, faults>>
    BY <1>1 DEF IdsDrawn, Named, Found
  <1>2. ASSUME NEW p \in Peer, Register(p) PROVE IdsDrawn'
    <2> DEFINE n == issued + 1
    <2>1. n \in Nat \ {0} /\ issued' = n /\ 1 .. issued \subseteq 1 .. n
      BY <1>2 DEF Register, Shapes
    <2>2. issued' <= Cardinality(Named)' + restarts' + faults'
      <3>1. CASE faults' = faults /\ self' = [self EXCEPT ![p] = n]
        <4>1. Cardinality(Named') = Cardinality(Named) + 1
          BY <1>2, <2>1, <3>1, NamedCount DEF Register, Shapes, NoId
        <4> QED BY <1>2, <2>1, <3>1, <4>1, NamedCount DEF Register, IdsDrawn, Shapes
      <3>2. CASE faults' = faults + 1 /\ self' = self
        <4>1. Cardinality(Named) \in Nat /\ Named' = Named
          BY <3>2, NamedCount DEF Named
        <4> QED BY <1>2, <2>1, <3>2, <4>1 DEF Register, IdsDrawn, Shapes
      <3> QED BY <1>2, <2>1, <3>1, <3>2 DEF Register, Fail
    <2>3. \A r \in Peer : Found(r)' \subseteq 1 .. issued'
      <3>1. \A r \in Peer \ {p} : Found(r)' = Found(r)
        BY <1>2 DEF Register, Found, Shapes
      <3>2. Found(p)' = Found(p) \cup {n}
        BY <1>2, <2>1, FoundAfter DEF Register, Found, Shapes
      <3> QED BY <2>1, <3>1, <3>2 DEF IdsDrawn
    <2>4. \A r \in Peer : self'[r] \in 0 .. issued'
      <3>1. issued \in Nat /\ issued' = issued + 1 /\ self \in [Peer -> Nat]
        BY <1>2, <2>1 DEF Register, Shapes
      <3>2. self' = self \/ self' = [self EXCEPT ![p] = issued']
        BY <1>2 DEF Register
      <3> QED BY <3>1, <3>2 DEF IdsDrawn
    <2>5. \A c \in Call, r \in Peer : to'[c][r] \in 0 .. issued'
      <3>1. to' = to /\ issued \in Nat /\ issued' = issued + 1
        BY <1>2, <2>1 DEF Register, Shapes
      <3> QED BY <3>1 DEF IdsDrawn
    <2> QED BY <2>2, <2>3, <2>4, <2>5 DEF IdsDrawn
  <1>3. ASSUME NEW p \in Peer, RecordExpires(p) PROVE IdsDrawn'
    <2>1. \A r \in Peer \ {p} : Found(r)' = Found(r)
      BY <1>3 DEF RecordExpires, Found, Shapes
    <2>2. Found(p)' \subseteq Found(p)
      <3>1. records[p] \in Seq(Nat \ {0}) /\ records'[p] = Tail(records[p]) /\ records[p] # <<>>
        BY <1>3 DEF RecordExpires, Shapes
      <3>2. Range(Tail(records[p])) \subseteq Range(records[p])
        BY <3>1, FoundAfter
      <3> QED BY <3>1, <3>2 DEF Found
    <2> QED BY <1>3, <2>1, <2>2 DEF RecordExpires, IdsDrawn, Named
  <1>4. ASSUME NEW p \in Peer, Restart(p) PROVE IdsDrawn'
    <2>1. Cardinality(Named') = Cardinality(Named) - 1
      BY <1>4, NamedCount DEF Restart, Shapes, NoId
    <2>2. \A r \in Peer : self'[r] \in 0 .. issued
      BY <1>4 DEF Restart, Shapes, IdsDrawn, NoId
    <2> QED BY <1>4, <2>1, <2>2, NamedCount DEF Restart, IdsDrawn, Found, Shapes
  <1>5. ASSUME NEW c \in Call, Create(c) PROVE IdsDrawn'
    <2>1. records' = records
      BY <1>5 DEF Create, LookedUp, Shapes
    <2>2. \A d \in Call, p \in Peer : to'[d][p] \in 0 .. issued
      <3>1. CASE to' = to
        BY <3>1 DEF IdsDrawn
      <3>2. ASSUME NEW f \in [Peer -> NodeId], \A p \in Peer : f[p] \in Found(p),
                   to' = [to EXCEPT ![c] = f]
            PROVE  \A d \in Call, p \in Peer : to'[d][p] \in 0 .. issued
        <4>1. \A p \in Peer : f[p] \in 0 .. issued
          BY <3>2 DEF IdsDrawn
        <4>2. to'[c] = f /\ \A d \in Call \ {c} : to'[d] = to[d]
          BY <3>2 DEF Shapes
        <4> QED BY <4>1, <4>2 DEF IdsDrawn
      <3> QED BY <1>5, <3>1, <3>2 DEF Create
    <2> QED BY <1>5, <2>1, <2>2 DEF Create, IdsDrawn, Named, Found
  <1>6. ASSUME (\E c \in Call : AnswerLost(c)) \/ (\E p \in Peer : DrainRaises(p))
        PROVE  IdsDrawn'
    <2>1. /\ UNCHANGED <<issued, records, self, to, restarts>>
          /\ faults' = faults + 1
      BY <1>6 DEF AnswerLost, DrainRaises, Fail
    <2>2. Cardinality(Named) \in Nat /\ Named' = Named
      BY <2>1, NodesBounds, FS_Subset, FS_CardinalityType DEF Named
    <2>3. UNCHANGED to
      BY <1>6 DEF AnswerLost, DrainRaises
    <2> QED BY <2>1, <2>2, <2>3 DEF IdsDrawn, Shapes, Found
  <1> QED BY <1>1, <1>2, <1>3, <1>4, <1>5, <1>6 DEF NodesNext, Pop, Hear, Start, Open, InitFails,
          Answer, SessionEnds, SessionVanishes, Cleanup, nodesVars

\* Nobody has a name, and no name has been drawn.
LEMMA NodesInitial == NodesInit => NodesInv
  <1> SUFFICES ASSUME NodesInit PROVE NodesInv
    OBVIOUS
  <1>1. Shapes
    BY NodesBounds DEF NodesInit, Shapes, NoId
  <1>2. Cardinality(Named) = 0
    <2>1. Named = {}
      BY DEF Named, NodesInit
    <2> QED BY <2>1, FS_EmptySet
  <1>3. IdsDrawn
    BY <1>2 DEF IdsDrawn, NodesInit, NoId, Found, Range
  <1> QED BY <1>1, <1>3 DEF NodesInv

\* Every id that the KME keeps, hands a session to or finds under a label has
\* been drawn, and there are never more than the peers, their restarts and the
\* lost answers account for.
THEOREM NodesInvariant == NodesSpec => []NodesInv
  <1>1. NodesInv /\ [NodesNext]_nodesVars => NodesInv'
    BY ShapesStep, IdsStep DEF NodesInv
  <1> QED BY <1>1, NodesInitial, PTL DEF NodesSpec

\* The nodes' state stays well typed.
THEOREM NodesTypeCorrect == NodesSpec => []NodesTypeOK
  <1>1. NodesInv => NodesTypeOK
    <2> SUFFICES ASSUME NodesInv PROVE NodesTypeOK
      OBVIOUS
    <2>1. issued \in 0 .. Cardinality(Peer) + MaxRestarts + MaxFaults
      <3>1. Cardinality(Peer) \in Nat
        BY NodesBounds, FS_CardinalityType
      <3> QED BY <3>1, NodesBounds, IdsSuffice
    <2>2. to \in [Call -> [Peer -> 0 .. issued]]
      BY DEF NodesInv, Shapes, IdsDrawn
    <2> QED BY <2>1, <2>2 DEF NodesInv, Shapes, IdsDrawn, NodesTypeOK
  <1> QED BY <1>1, NodesInvariant, PTL

-----------------------------------------------------------------------------
(* The newest record. *)

\* A node that runs has the last record of its label, as long as the label has
\* any: only a registration writes, at the end, and records leave at the front.
LEMMA NewestStep == NodesInv /\ NewestLasts /\ [NodesNext]_nodesVars => NewestLasts'
  <1> SUFFICES ASSUME NodesInv, NewestLasts, [NodesNext]_nodesVars PROVE NewestLasts'
    OBVIOUS
  <1> DEFINE Newest(r) == self[r] # NoId /\ records[r] # <<>> => self[r] = records[r][Len(records[r])]
  <1> USE DEF NodesInv, registryVars, mailVars, aliceVars
  <1>1. CASE UNCHANGED <<records, self>>
    BY <1>1 DEF NewestLasts
  <1>2. ASSUME NEW p \in Peer, Newest(p)',
               \A r \in Peer \ {p} : self'[r] = self[r] /\ records'[r] = records[r]
        PROVE  NewestLasts'
    BY <1>2 DEF NewestLasts
  <1>3. ASSUME NEW p \in Peer, Register(p) PROVE NewestLasts'
    <2>1. issued' \in Nat \ {0} /\ records[p] \in Seq(Nat \ {0})
      BY <1>3 DEF Register, Shapes
    <2>2. records'[p] = Append(records[p], issued') /\ self'[p] \in {issued', NoId}
      BY <1>3 DEF Register, Shapes
    <2>3. records'[p][Len(records'[p])] = issued'
      BY <2>1, <2>2, AppendProperties
    <2>4. \A r \in Peer \ {p} : self'[r] = self[r] /\ records'[r] = records[r]
      BY <1>3 DEF Register, Shapes
    <2> QED BY <1>2, <2>2, <2>3, <2>4
  <1>4. ASSUME NEW p \in Peer, RecordExpires(p) PROVE NewestLasts'
    <2>1. /\ records[p] \in Seq(Nat \ {0}) /\ records[p] # <<>>
          /\ records'[p] = Tail(records[p]) /\ UNCHANGED self
      BY <1>4 DEF RecordExpires, Shapes
    <2>2. records'[p] # <<>> => records'[p][Len(records'[p])] = records[p][Len(records[p])]
      BY <2>1, HeadTailProperties, EmptySeq, LenProperties
    <2>3. \A r \in Peer \ {p} : self'[r] = self[r] /\ records'[r] = records[r]
      BY <1>4 DEF RecordExpires, Shapes
    <2> QED BY <1>2, <2>1, <2>2, <2>3 DEF NewestLasts
  <1>5. ASSUME NEW p \in Peer, Restart(p) PROVE NewestLasts'
    BY <1>5, <1>2 DEF Restart, Shapes
  <1>6. ASSUME NEW c \in Call, Create(c) PROVE NewestLasts'
    <2>1. records' = records /\ self' = self
      BY <1>6 DEF Create, LookedUp, Shapes
    <2> QED BY <2>1, <1>1
  <1> QED BY <1>1, <1>3, <1>4, <1>5, <1>6 DEF NodesNext, Pop, Hear, Start, Open, InitFails,
          Answer, AnswerLost, DrainRaises, SessionEnds, SessionVanishes, Cleanup, nodesVars

\* A label that is found never leads to dead nodes only.
THEOREM NewestCorrect == NodesSpec => []NewestLasts
  <1>1. NodesInit => NewestLasts
    BY DEF NodesInit, NewestLasts
  <1> QED BY <1>1, NodesInvariant, NewestStep, PTL DEF NodesSpec

-----------------------------------------------------------------------------
(* One session of Alice's at a time. *)

\* A call that the KME is busy with, or whose session Alice has entered.  Any two
\* of them passed her check together, and a session in progress whose answer she
\* has not missed is one of them.
Held(c) == call[c] = "asked" \/ c \in busy

HeldOverlap  == \A c, d \in Call : c # d /\ Held(c) /\ Held(d) => {c, d} \in overlapped
InProgressHeld ==
    \A c \in Call : /\ session[c] \in {"starting", "open"} /\ call[c] # "failed" => Held(c)
                    /\ call[c] = "idle" => c \notin busy /\ session[c] = "none"

AliceInv == HeldOverlap /\ InProgressHeld

\* A step of one call that makes nothing held keeps the overlaps.
LEMMA OverlapFrame ==
    ASSUME HeldOverlap, overlapped \subseteq overlapped', \A c \in Call : Held(c)' => Held(c)
    PROVE  HeldOverlap'
  BY DEF HeldOverlap

\* The check of /start lets a call by only when nothing is entered, and the
\* history notes who else is on its way.
LEMMA AliceStep == NodesInv /\ AliceInv /\ [NodesNext]_nodesVars => AliceInv'
  <1> SUFFICES ASSUME NodesInv, AliceInv, [NodesNext]_nodesVars PROVE AliceInv'
    OBVIOUS
  <1> USE DEF NodesInv, AliceInv, registryVars, mailVars, aliceVars
  <1>1. CASE UNCHANGED <<aliceVars, session>>
    BY <1>1 DEF HeldOverlap, InProgressHeld, Held
  <1>2. ASSUME NEW c \in Call, Start(c) PROVE AliceInv'
    <2>1. /\ call[c] = "idle" /\ busy = {} /\ busy' = busy /\ session' = session
          /\ call'[c] = "asked" /\ \A d \in Call \ {c} : call'[d] = call[d]
          /\ overlapped' = overlapped \cup {{c, d} : d \in Waiting}
      BY <1>2 DEF Start, MayStart, Shapes
    <2>2. \A d \in Call \ {c} : Held(d)' => d \in Waiting
      BY <2>1 DEF Held, Waiting
    <2>3. HeldOverlap'
      <3> SUFFICES ASSUME NEW d \in Call, NEW e \in Call, d # e, Held(d)', Held(e)'
                   PROVE  {d, e} \in overlapped'
        BY DEF HeldOverlap
      <3>1. CASE d = c
        BY <3>1, <2>1, <2>2
      <3>2. CASE e = c
        <4>1. {d, e} = {c, d}
          BY <3>2
        <4> QED BY <3>2, <4>1, <2>1, <2>2
      <3>3. CASE d # c /\ e # c
        BY <3>3, <2>1 DEF HeldOverlap, Held
      <3> QED BY <3>1, <3>2, <3>3
    <2>4. InProgressHeld'
      BY <2>1 DEF InProgressHeld, Held
    <2> QED BY <2>3, <2>4
  <1>3. ASSUME NEW c \in Call, Create(c) PROVE AliceInv'
    <2>1. /\ call[c] = "asked" /\ busy' = busy /\ overlapped' = overlapped
          /\ \A d \in Call \ {c} : call'[d] = call[d] /\ session'[d] = session[d]
          /\ \/ call' = call
             \/ call'[c] = "failed"
      BY <1>3 DEF Create, Waiting, Shapes
    <2>2. HeldOverlap'
      BY <2>1, OverlapFrame DEF Held
    <2> QED BY <2>1, <2>2 DEF InProgressHeld, Held
  <1>4. ASSUME NEW c \in Call, Open(c) PROVE AliceInv'
    BY <1>4 DEF Open, HeldOverlap, InProgressHeld, Held, Shapes
  <1>5. ASSUME NEW c \in Call, InitFails(c) \/ AnswerLost(c) PROVE AliceInv'
    <2>1. /\ busy' = busy /\ overlapped' = overlapped /\ call'[c] = "failed"
          /\ \A d \in Call \ {c} : call'[d] = call[d] /\ session'[d] = session[d]
      BY <1>5 DEF InitFails, AnswerLost, Shapes
    <2>2. HeldOverlap'
      BY <2>1, OverlapFrame DEF Held
    <2> QED BY <2>1, <2>2 DEF InProgressHeld, Held
  <1>6. ASSUME NEW c \in Call, Answer(c) PROVE AliceInv'
    <2>1. /\ busy' = busy \cup {c} /\ overlapped' = overlapped /\ session' = session
          /\ call[c] = "asked" /\ call'[c] = "answered"
          /\ \A d \in Call \ {c} : call'[d] = call[d]
      BY <1>6 DEF Answer, Waiting, Shapes
    <2>2. HeldOverlap'
      BY <2>1, OverlapFrame DEF Held
    <2> QED BY <2>1, <2>2 DEF InProgressHeld, Held
  <1>7. ASSUME NEW c \in Call, SessionEnds(c) \/ SessionVanishes(c) PROVE AliceInv'
    BY <1>7 DEF SessionEnds, SessionVanishes, HeldOverlap, InProgressHeld, Held, Shapes
  <1>8. ASSUME NEW c \in Call, Cleanup(c) PROVE AliceInv'
    <2>1. /\ busy' = busy \ {c} /\ overlapped' = overlapped /\ session' = session
          /\ call' = call /\ session[c] = "over"
      BY <1>8 DEF Cleanup
    <2>2. HeldOverlap'
      BY <2>1, OverlapFrame DEF Held
    <2> QED BY <2>1, <2>2 DEF InProgressHeld, Held
  <1> QED BY <1>1, <1>2, <1>3, <1>4, <1>5, <1>6, <1>7, <1>8
          DEF NodesNext, Register, RecordExpires, Restart, Pop, Hear, DrainRaises, nodesVars

\* Alice has one session in progress at a time, but for requests that were on
\* their way together and answers that she missed.
THEOREM OneSession == NodesSpec => []OneSessionPerAlice
  <1>1. NodesInit => AliceInv
    BY DEF NodesInit, AliceInv, HeldOverlap, InProgressHeld, Held
  <1>2. AliceInv => OneSessionPerAlice
    BY DEF AliceInv, HeldOverlap, InProgressHeld, OneSessionPerAlice
  <1> QED BY <1>1, <1>2, NodesInvariant, AliceStep, PTL DEF NodesSpec
=============================================================================
