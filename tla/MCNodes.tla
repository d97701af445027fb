------------------------------ MODULE MCNodes ------------------------------
(* Small instances of Nodes for TLC. *)
EXTENDS Nodes
=============================================================================
