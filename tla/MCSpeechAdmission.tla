------------------------- MODULE MCSpeechAdmission -------------------------
(* Small instances of SpeechAdmission for TLC.  The speeches are numbered   *)
(* in the order they begin, so no two states differ by their names alone.   *)
EXTENDS SpeechAdmission
=============================================================================
