---------------------------- MODULE RoleDelivery ----------------------------
(***************************************************************************)
(* What the event bus of a session promises when no Redis command fails:   *)
(* every role handles the events addressed to it, or to everybody, in the  *)
(* order they were published, each of them once.  No streams, groups,      *)
(* pending lists or threads.                                               *)
(***************************************************************************)
EXTENDS Naturals, Sequences

CONSTANTS Role, Entry

VARIABLES
    stream,    \* the entries published so far
    handled    \* role -> positions in the stream, in the order they were handled

Addressed(r) == {i \in DOMAIN stream : stream[i].role \in {r, "broadcast"}}

Last(r) == IF handled[r] = <<>> THEN 0 ELSE handled[r][Len(handled[r])]

Init == stream = <<>> /\ handled = [r \in Role |-> <<>>]

Publish ==
    /\ \E e \in Entry : stream' = Append(stream, e)
    /\ UNCHANGED handled

Deliver(r, i) ==
    /\ i \in Addressed(r) /\ i > Last(r)
    /\ \A j \in Addressed(r) : j > Last(r) => i <= j
    /\ handled' = [handled EXCEPT ![r] = Append(@, i)]
    /\ UNCHANGED stream

Next == Publish \/ \E r \in Role, i \in DOMAIN stream : Deliver(r, i)

Spec == Init /\ [][Next]_<<stream, handled>>
=============================================================================
