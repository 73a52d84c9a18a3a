--------------------------- MODULE SequenceOrder ---------------------------
(***************************************************************************)
(* The arithmetic of Daybreak's 16-bit sequence numbers                    *)
(* (common/net/daybreak_connection.cpp).  A packet of a reliable stream is *)
(* identified in the models by its ordinal, the number of packets queued   *)
(* before it; what travels on the wire, and the only thing the code ever   *)
(* compares, is Seq(ordinal).                                              *)
(***************************************************************************)
EXTENDS Integers

CONSTANTS
  SequenceSpace,   \* number of sequence numbers: 2^16, a uint16_t
  CompareLimit     \* the distance CompareSequence takes for a wrap: 10000

ASSUME SequenceAssumption ==
  /\ SequenceSpace \in Nat
  /\ CompareLimit \in Nat \ {0}
  /\ 2 * CompareLimit < SequenceSpace

\* The wire number of the packet with this ordinal.
Seq16(ordinal) == ordinal % SequenceSpace

\* CompareSequence(expected, actual), on wire numbers.
CompareSequence(expected, actual) ==
  LET diff == actual - expected
  IN  CASE diff = 0                               -> "Current"
        [] diff > CompareLimit                    -> "Past"
        [] diff > 0 /\ diff <= CompareLimit       -> "Future"
        [] diff < -CompareLimit                   -> "Future"
        [] diff < 0 /\ diff >= -CompareLimit      -> "Past"

\* The wire orders two packets as their ordinals are ordered.
OrderedAsQueued(a, b) ==
  CompareSequence(Seq16(a), Seq16(b)) =
    IF b = a THEN "Current" ELSE IF b > a THEN "Future" ELSE "Past"
=============================================================================
