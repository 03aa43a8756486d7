----------------------- MODULE MCSessionOrchestrator -----------------------
(* Small instances of SessionOrchestrator for TLC.                          *)
EXTENDS SessionOrchestrator, TLC

(* Turn and response identifiers are interchangeable.                       *)
Symmetry == Permutations(Turns) \cup Permutations(Responses)
=============================================================================
