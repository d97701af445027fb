----------------------------- MODULE MCSifting -----------------------------
(* Small instances of Sifting for TLC. *)
EXTENDS Sifting

Turns  == {-1, 3}
Floors == {20}
=============================================================================
