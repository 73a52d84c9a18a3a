-------------------------- MODULE MCDaybreakStream --------------------------
(* DaybreakStream for TLC.  Sequence numbers wrap at SequenceSpace, so      *)
(* MaxPackets is larger than it; the sets are sets of small numbers and     *)
(* have no symmetry.                                                        *)
EXTENDS DaybreakStream
=============================================================================
