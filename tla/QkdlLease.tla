----------------------------- MODULE QkdlLease -----------------------------
(***************************************************************************)
(* What the pool of kme/main.py promises, without records, locks, retries  *)
(* or tasks: a QKDL instance serves at most one session at a time, and a   *)
(* session is served once, without interruption.                           *)
(***************************************************************************)
CONSTANTS Session, Qkdl

VARIABLES
    serving,   \* QKDL -> the sessions it serves
    served     \* the sessions that have been or are being served

vars == <<serving, served>>

Init == serving = [q \in Qkdl |-> {}] /\ served = {}

Begin(s, q) ==
    /\ s \notin served
    /\ serving[q] = {}
    /\ serving' = [serving EXCEPT ![q] = {s}]
    /\ served' = served \cup {s}

End(q) ==
    /\ serving' = [serving EXCEPT ![q] = {}]
    /\ UNCHANGED served

Next == \E q \in Qkdl : End(q) \/ \E s \in Session : Begin(s, q)

Spec == Init /\ [][Next]_vars
=============================================================================
