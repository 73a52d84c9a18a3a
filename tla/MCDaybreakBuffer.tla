-------------------------- MODULE MCDaybreakBuffer --------------------------
(* DaybreakBuffer for TLC, with the sizes of the code.                     *)
EXTENDS DaybreakBuffer
=============================================================================
