------------------------ MODULE MCSessionConnection ------------------------
(* Small instances of SessionConnection for TLC. *)
EXTENDS SessionConnection
=============================================================================
