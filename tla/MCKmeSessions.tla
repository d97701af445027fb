--------------------------- MODULE MCKmeSessions ---------------------------
(* Small instances of KmeSessions for TLC. *)
EXTENDS KmeSessions
=============================================================================
