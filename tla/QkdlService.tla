---------------------------- MODULE QkdlService ----------------------------
(***************************************************************************)
(* The link layer (qunetsim_service.py): every QKDL instance of the pool   *)
(* keeps a registry of NetworkSession objects, and all the objects of one  *)
(* process share QuNetSim's Network singleton.                             *)
(*                                                                         *)
(* A handler checks the registry under _sessions_lock, then hands the slow *)
(* work to a thread of the executor and awaits it with the lock released.  *)
(* The check, the thread's work and the insertion are separate actions.    *)
(*                                                                         *)
(* A call is one POST /network/init; it names the object it creates, if it *)
(* creates one.  is_active() holds of every registered object, because     *)
(* start() ends before the insertion and stop() begins after the removal:  *)
(* the purge of dead sessions in init_network finds none, and is left out. *)
(***************************************************************************)
EXTENDS Naturals

CONSTANTS
    Session,
    Qkdl,
    MaxTries,   \* init calls one session may make
    NoCall      \* no network: Network._instance is None

Call == [session : Session, try : 1 .. MaxTries]

VARIABLES
    registry,   \* QKDL -> objects in _sessions, one per session id
    starting,   \* QKDL -> objects whose start() is in the executor
    stopping,   \* QKDL -> objects whose stop() is in the executor
    cooling,    \* QKDL -> time.time() < _cooldown_until
    network,    \* QKDL -> the Network singleton, named after its first object
    netOf,      \* object -> self.network
    up,         \* QKDL -> networks started and not stopped
    reply       \* call -> the reply of init_network

qkdlVars == <<registry, starting, stopping, cooling, network, netOf, up, reply>>

QkdlTypeOK ==
    /\ registry \in [Qkdl -> SUBSET Call]
    /\ starting \in [Qkdl -> SUBSET Call]
    /\ stopping \in [Qkdl -> SUBSET Call]
    /\ cooling \in [Qkdl -> BOOLEAN]
    /\ network \in [Qkdl -> Call \cup {NoCall}]
    /\ netOf \in [Call -> Call \cup {NoCall}]
    /\ up \in [Qkdl -> SUBSET Call]
    /\ reply \in [Call -> {"none", "ready", "cooling", "busy", "error"}]

QkdlInit ==
    /\ registry = [q \in Qkdl |-> {}]
    /\ starting = [q \in Qkdl |-> {}]
    /\ stopping = [q \in Qkdl |-> {}]
    /\ cooling = [q \in Qkdl |-> FALSE]
    /\ network = [q \in Qkdl |-> NoCall]
    /\ netOf = [c \in Call |-> NoCall]
    /\ up = [q \in Qkdl |-> {}]
    /\ reply = [c \in Call |-> "none"]

ObjectsOfSlip(s, q) == registry[q]      \* the session id is ignored
ObjectsOf(s, q)     == {c \in registry[q] : c.session = s}

Answer(c, r) == reply' = [reply EXCEPT ![c] = r]

-----------------------------------------------------------------------------
(* POST /network/init *)

\* 503: the last network was torn down less than COOLDOWN_S ago.
InitCooling(c, q) ==
    /\ cooling[q]
    /\ Answer(c, "cooling")
    /\ UNCHANGED <<registry, starting, stopping, cooling, network, netOf, up>>

\* "Already active": an earlier call of the same session has succeeded.
InitAlready(c, q) ==
    /\ ~cooling[q] /\ ObjectsOf(c.session, q) # {}
    /\ Answer(c, "ready")
    /\ UNCHANGED <<registry, starting, stopping, cooling, network, netOf, up>>

\* 409: another session is registered.
InitBusy(c, q) ==
    /\ ~cooling[q] /\ ObjectsOf(c.session, q) = {} /\ registry[q] # {}
    /\ Answer(c, "busy")
    /\ UNCHANGED <<registry, starting, stopping, cooling, network, netOf, up>>

AcceptableSlip(q) == ~cooling[q]                \* the registry is not looked at
Acceptable(q)     == ~cooling[q] /\ registry[q] = {}

\* The checks pass and start() goes to the executor.  The registry does not
\* show it before InitRegister, so a second call passes the same checks.
InitAccept(c, q) ==
    /\ Acceptable(q)
    /\ starting' = [starting EXCEPT ![q] = @ \cup {c}]
    /\ UNCHANGED <<registry, stopping, cooling, network, netOf, up, reply>>

\* start() in its thread: Network.get_instance(), network.start(), the hosts.
InitConnect(c, q) ==
    LET net == IF network[q] = NoCall THEN c ELSE network[q]
    IN  /\ c \in starting[q] /\ netOf[c] = NoCall
        /\ network' = [network EXCEPT ![q] = net]
        /\ netOf' = [netOf EXCEPT ![c] = net]
        /\ up' = [up EXCEPT ![q] = @ \cup {net}]
        /\ UNCHANGED <<registry, starting, stopping, cooling, reply>>

\* start() has returned; the object replaces any other of the same session.
InitRegister(c, q) ==
    /\ c \in starting[q] /\ netOf[c] # NoCall
    /\ starting' = [starting EXCEPT ![q] = @ \ {c}]
    /\ registry' = [registry EXCEPT ![q] = (@ \ ObjectsOf(c.session, q)) \cup {c}]
    /\ Answer(c, "ready")
    /\ UNCHANGED <<stopping, cooling, network, netOf, up>>

\* start() has raised: 500, and whatever it had started stays.
InitRaises(c, q) ==
    /\ c \in starting[q]
    /\ starting' = [starting EXCEPT ![q] = @ \ {c}]
    /\ Answer(c, "error")
    /\ UNCHANGED <<registry, stopping, cooling, network, netOf, up>>

-----------------------------------------------------------------------------
(* POST /network/stop *)

\* pop() takes the object out, then stop() goes to the executor.
StopPops(s, q) ==
    /\ ObjectsOf(s, q) # {}
    /\ registry' = [registry EXCEPT ![q] = @ \ ObjectsOf(s, q)]
    /\ stopping' = [stopping EXCEPT ![q] = @ \cup ObjectsOf(s, q)]
    /\ UNCHANGED <<starting, cooling, network, netOf, up, reply>>

\* Nothing under this session id: answered at once.
StopFindsNothing(s, q) ==
    /\ ObjectsOf(s, q) = {}
    /\ UNCHANGED qkdlVars

\* stop() in its thread: the network down, the singleton forgotten, whoever it
\* belongs to by now, and the cool-down begun.
StopEnds(c, q) ==
    /\ c \in stopping[q]
    /\ stopping' = [stopping EXCEPT ![q] = @ \ {c}]
    /\ up' = [up EXCEPT ![q] = @ \ {netOf[c]}]
    /\ network' = [network EXCEPT ![q] = NoCall]
    /\ cooling' = [cooling EXCEPT ![q] = TRUE]
    /\ UNCHANGED <<registry, starting, netOf, reply>>

\* COOLDOWN_S seconds later.
CooldownEnds(q) ==
    /\ cooling[q]
    /\ cooling' = [cooling EXCEPT ![q] = FALSE]
    /\ UNCHANGED <<registry, starting, stopping, network, netOf, up, reply>>
=============================================================================
