------------------------ MODULE MCDaybreakFragments ------------------------
(* DaybreakFragments for TLC.                                              *)
EXTENDS DaybreakFragments
=============================================================================
