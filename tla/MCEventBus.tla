----------------------------- MODULE MCEventBus -----------------------------
(* Small instances of EventBus for TLC. *)
EXTENDS EventBus

TwoRoles   == {"sender", "receiver"}
ThreeRoles == {"sender", "receiver", "monitor"}
=============================================================================
