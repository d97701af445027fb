-------------------------------- MODULE Nodes --------------------------------
(***************************************************************************)
(* Who is who: the registration of nodes and the lookup by label           *)
(* (kme/node_registry.py), the hand-over of a session to the nodes found   *)
(* (create_session, kme/event_bus.py, node/base_node.py), and Alice's one  *)
(* session at a time (nodes/alice/main.py).                                *)
(*                                                                         *)
(* A peer is a node that is looked up by its label: Bob, or Eve.  Each run *)
(* of its process has a node_id of its own; the records of earlier runs    *)
(* stay for a day.  What a session does once its peers listen is in the    *)
(* other modules: here it opens, ends, or vanishes with its record.        *)
(***************************************************************************)
EXTENDS Naturals, Sequences, FiniteSets, Functions

CONSTANTS
    Peer,         \* labels a session needs: receiver_label, interceptor_label
    Call,         \* POST /start requests to Alice, each its own session
    MaxRestarts,  \* bound: restarts of peers
    MaxFaults     \* bound: HTTP answers that are lost, and drains that raise

ASSUME NodesBounds == MaxRestarts \in Nat /\ MaxFaults \in Nat /\ IsFiniteSet(Peer)

NodeId == 1 .. Cardinality(Peer) + MaxRestarts + MaxFaults
NoId   == 0

VARIABLES
    issued,     \* node ids so far
    records,    \* peer -> the ids that its label still finds, oldest first
    self,       \* peer -> the id its process runs under, or NoId while it registers
    pending,    \* id -> kme:pending_sessions
    popped,     \* peer -> sessions popped by a drain that has yet to listen to them
    listens,    \* peer -> sessions its process listens to
    missed,     \* history: peer -> sessions that a drain popped before it raised
    call,       \* "idle", "asked" the KME, "answered", "failed"
    session,    \* "none", "starting", "open", "over", "gone" with its record
    to,         \* call -> peer -> the node id the KME chose
    busy,       \* keys of _alice_state
    overlapped, \* history: pairs of calls that waited for the KME at one time
    restarts, faults

registryVars == <<issued, records, self>>
mailVars     == <<pending, popped, listens, missed>>
aliceVars    == <<call, busy, overlapped>>
nodesVars    == <<registryVars, mailVars, aliceVars, session, to, restarts, faults>>

NodesInit ==
    /\ issued = 0 /\ records = [p \in Peer |-> <<>>] /\ self = [p \in Peer |-> NoId]
    /\ pending = [i \in NodeId |-> {}]
    /\ popped = [p \in Peer |-> {}] /\ listens = [p \in Peer |-> {}] /\ missed = [p \in Peer |-> {}]
    /\ call = [c \in Call |-> "idle"] /\ session = [c \in Call |-> "none"]
    /\ to = [c \in Call |-> [p \in Peer |-> NoId]]
    /\ busy = {} /\ overlapped = {} /\ restarts = 0 /\ faults = 0

Fail == faults < MaxFaults /\ faults' = faults + 1

-----------------------------------------------------------------------------
(* The registry. *)

\* register_node.  _register asks again when it gets no answer, and then has two
\* records.
Register(p) ==
    /\ self[p] = NoId
    /\ issued' = issued + 1
    /\ records' = [records EXCEPT ![p] = Append(@, issued')]
    /\ \/ self' = [self EXCEPT ![p] = issued'] /\ UNCHANGED faults
       \/ Fail /\ UNCHANGED self
    /\ UNCHANGED <<mailVars, aliceVars, session, to, restarts>>

\* NODE_TTL: a record goes a day after its registration, whether or not its node
\* is still there.
RecordExpires(p) ==
    /\ records[p] # <<>>
    /\ records' = [records EXCEPT ![p] = Tail(@)]
    /\ UNCHANGED <<issued, self, mailVars, aliceVars, session, to, restarts, faults>>

\* The process dies and starts again, as nobody.
Restart(p) ==
    /\ self[p] # NoId /\ restarts < MaxRestarts
    /\ restarts' = restarts + 1
    /\ self' = [self EXCEPT ![p] = NoId]
    /\ popped' = [popped EXCEPT ![p] = {}]
    /\ listens' = [listens EXCEPT ![p] = {}]
    /\ UNCHANGED <<issued, records, pending, missed, aliceVars, session, to, faults>>

\* find_node_by_label: any of them, in the order of a Redis set.
Found(p) == Range(records[p])

\* What a lookup leaves of the records: it does not touch their time to live.
LookedUpSlip(p, i) == Append(SelectSeq(records[p], LAMBDA j : j # i), i)    \* a sliding TTL
LookedUp(p, i)     == records[p]

-----------------------------------------------------------------------------
(* Alice and the KME. *)

Waiting == {c \in Call : call[c] = "asked"}

MayStartSlip == TRUE                                      \* no 409
MayStart     == busy = {}

\* POST /start, unless 409.  The check is done before the await, the entry made
\* after it.
Start(c) ==
    /\ call[c] = "idle" /\ MayStart
    /\ call' = [call EXCEPT ![c] = "asked"]
    /\ overlapped' = overlapped \cup {{c, d} : d \in Waiting}
    /\ UNCHANGED <<registryVars, mailVars, busy, session, to, restarts, faults>>

\* create_session up to the network's init: a QKDL that is free, or 409, and a node
\* for every label, or 404.  Which QKDLs are free is QkdlPool's to say.
Create(c) ==
    /\ c \in Waiting /\ session[c] = "none"
    /\ \/ \E f \in [Peer -> NodeId] :
            /\ \A p \in Peer : f[p] \in Found(p)
            /\ to' = [to EXCEPT ![c] = f]
            /\ records' = [p \in Peer |-> LookedUp(p, f[p])]
            /\ session' = [session EXCEPT ![c] = "starting"]
            /\ UNCHANGED call
       \/ /\ \E free \in BOOLEAN : free => \E p \in Peer : Found(p) = {}
          /\ call' = [call EXCEPT ![c] = "failed"]
          /\ UNCHANGED <<records, session, to>>
    /\ UNCHANGED <<issued, self, mailVars, busy, overlapped, restarts, faults>>

\* register_pending_session for each of them.
RegisteredSlip(c) ==                                     \* arguments swapped
    [i \in NodeId |-> IF i \in Range(to[c]) THEN pending[i] \cup {i} ELSE pending[i]]
Registered(c) ==
    [i \in NodeId |-> IF i \in Range(to[c]) THEN pending[i] \cup {c} ELSE pending[i]]

\* The network is up.
Open(c) ==
    /\ session[c] = "starting"
    /\ session' = [session EXCEPT ![c] = "open"]
    /\ pending' = Registered(c)
    /\ UNCHANGED <<registryVars, popped, listens, missed, aliceVars, to, restarts, faults>>

\* _init_qkdl gives up: 503.
InitFails(c) ==
    /\ session[c] = "starting"
    /\ session' = [session EXCEPT ![c] = "over"]
    /\ call' = [call EXCEPT ![c] = "failed"]
    /\ UNCHANGED <<registryVars, mailVars, busy, overlapped, to, restarts, faults>>

\* The answer reaches Alice: begin_listening, and the entry.
Answer(c) ==
    /\ c \in Waiting /\ session[c] \in {"open", "over", "gone"}
    /\ call' = [call EXCEPT ![c] = "answered"]
    /\ busy' = busy \cup {c}
    /\ UNCHANGED <<registryVars, mailVars, overlapped, session, to, restarts, faults>>

\* Alice's client gives up after 30 s; the KME goes on.
AnswerLost(c) ==
    /\ c \in Waiting
    /\ call' = [call EXCEPT ![c] = "failed"]
    /\ Fail
    /\ UNCHANGED <<registryVars, mailVars, busy, overlapped, session, to, restarts>>

\* A verdict, or a user cancels.
SessionEnds(c) ==
    /\ session[c] = "open"
    /\ session' = [session EXCEPT ![c] = "over"]
    /\ UNCHANGED <<registryVars, mailVars, aliceVars, to, restarts, faults>>

\* SESSION_TTL: two hours after it opened, for nothing wrote to it since.
SessionVanishes(c) ==
    /\ session[c] = "open"
    /\ session' = [session EXCEPT ![c] = "gone"]
    /\ UNCHANGED <<registryVars, mailVars, aliceVars, to, restarts, faults>>

\* _poll_tick, or the event of the verdict.  For a session without a record the
\* poll gets a 404, which is swallowed: the entry stays.
Cleanup(c) ==
    /\ c \in busy /\ session[c] = "over"
    /\ busy' = busy \ {c}
    /\ UNCHANGED <<registryVars, mailVars, call, overlapped, session, to, restarts, faults>>

-----------------------------------------------------------------------------
(* Discovery. *)

MailboxSlip(p) == Head(Append(records[p], self[p]))       \* by label, not by id
Mailbox(p)     == self[p]

\* One SPOP of pop_pending_sessions, by the poll loop or the wake-up thread.
Pop(p, c) ==
    /\ self[p] # NoId /\ c \in pending[Mailbox(p)]
    /\ pending' = [pending EXCEPT ![Mailbox(p)] = @ \ {c}]
    /\ popped' = [popped EXCEPT ![p] = @ \cup {c}]
    /\ UNCHANGED <<registryVars, listens, missed, aliceVars, session, to, restarts, faults>>

\* begin_listening, for what pop_pending_sessions returned.
Hear(p, c) ==
    /\ c \in popped[p]
    /\ popped' = [popped EXCEPT ![p] = @ \ {c}]
    /\ listens' = [listens EXCEPT ![p] = @ \cup {c}]
    /\ UNCHANGED <<registryVars, pending, missed, aliceVars, session, to, restarts, faults>>

\* A Redis command of a drain raises: _drain_pending_sessions swallows it, and the
\* ids that this drain popped and does not listen to yet are gone with its list.
DrainRaises(p) ==
    /\ \E gone \in SUBSET popped[p] \ {{}} :
         /\ popped' = [popped EXCEPT ![p] = @ \ gone]
         /\ missed' = [missed EXCEPT ![p] = @ \cup gone]
    /\ Fail
    /\ UNCHANGED <<registryVars, pending, listens, aliceVars, session, to, restarts>>

NodesNext ==
    \/ \E p \in Peer : Register(p) \/ RecordExpires(p) \/ Restart(p) \/ DrainRaises(p)
    \/ \E p \in Peer, c \in Call : Pop(p, c) \/ Hear(p, c)
    \/ \E c \in Call : \/ Start(c) \/ Create(c) \/ Open(c) \/ InitFails(c) \/ Answer(c)
                       \/ AnswerLost(c) \/ SessionEnds(c) \/ SessionVanishes(c) \/ Cleanup(c)

NodesSpec == NodesInit /\ [][NodesNext]_nodesVars

\* The agents' loops, and the KME's coroutines with their timeouts.
NodesFairSpec ==
    /\ NodesSpec
    /\ \A p \in Peer : /\ WF_nodesVars(Register(p))
                       /\ \A c \in Call : WF_nodesVars(Pop(p, c)) /\ WF_nodesVars(Hear(p, c))
    /\ \A c \in Call : WF_nodesVars(Create(c)) /\ WF_nodesVars(Open(c) \/ InitFails(c))
                       /\ WF_nodesVars(Answer(c)) /\ WF_nodesVars(Cleanup(c))

-----------------------------------------------------------------------------
NodesTypeOK ==
    /\ issued \in 0 .. Cardinality(Peer) + MaxRestarts + MaxFaults
    /\ \A p \in Peer : Found(p) \subseteq 1 .. issued /\ self[p] \in 0 .. issued
    /\ \A i \in NodeId : pending[i] \subseteq Call
    /\ \A q \in {popped, listens, missed}, p \in Peer : q[p] \subseteq Call
    /\ call \in [Call -> {"idle", "asked", "answered", "failed"}]
    /\ session \in [Call -> {"none", "starting", "open", "over", "gone"}]
    /\ to \in [Call -> [Peer -> 0 .. issued]]
    /\ busy \subseteq Call

\* Two sessions of one Alice are in progress at the KME only if both requests
\* were on their way at one time, past a check that saw neither, or if she
\* missed the answer of one and takes it for failed (start_session,
\* _active_sessions).
OneSessionPerAlice ==
    \A c, d \in {e \in Call : session[e] \in {"starting", "open"} /\ call[e] # "failed"} :
        c # d => {c, d} \in overlapped

\* Of all the records of a label, that of the node that runs is the last to go:
\* a label that is found may lead to a dead node, but not only to dead ones
\* (register_node, NODE_TTL).
NewestLasts ==
    \A p \in Peer : self[p] # NoId /\ records[p] # <<>> =>
        self[p] = records[p][Len(records[p])]

\* A session that is handed to the node id under which a peer runs is listened
\* to by that peer, unless the peer dies first, or a command of the drain raises
\* between the SPOP and begin_listening: nobody puts back what was popped
\* (register_pending_session, pop_pending_sessions, _drain_pending_sessions).
HandedIsHeard ==
    \A c \in Call, p \in Peer :
        session[c] = "open" /\ to[c][p] = self[p] ~>
            c \in listens[p] \cup missed[p] \/ self[p] # to[c][p]
=============================================================================
