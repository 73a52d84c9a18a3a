------------------------- MODULE MCDaybreakSession -------------------------
(* DaybreakSession for TLC.  Liveness is checked, so symmetry is not used.  *)
EXTENDS DaybreakSession
=============================================================================
