---------------------------- MODULE FifoChannel ----------------------------
(***************************************************************************)
(* What a Daybreak reliable stream promises the code above it: the packets *)
(* queued on one side come out on the other side in the order they were    *)
(* queued, each exactly once; and while the session stays open every one   *)
(* of them does come out.  Packets are named by their ordinals, so what    *)
(* has been queued so far is <<0, 1, ..., offered - 1>>.                   *)
(***************************************************************************)
EXTENDS Integers, Sequences

CONSTANT Packets   \* the ordinals Delivery speaks of

VARIABLES
  offered,     \* how many packets have been queued
  delivered,   \* the packets handed out, in order
  open         \* FALSE once either end has begun to close

vars == <<offered, delivered, open>>

Init ==
  /\ offered = 0
  /\ delivered = <<>>
  /\ open = TRUE

\* The application queues some packets.
Offer ==
  /\ offered' \in Nat
  /\ offered' > offered
  /\ UNCHANGED <<delivered, open>>

\* The next packets, one or several, are handed out.
Deliver ==
  /\ \E k \in 1..(offered - Len(delivered)) :
       delivered' = delivered \o [i \in 1..k |-> Len(delivered) + i - 1]
  /\ UNCHANGED <<offered, open>>

Shut ==
  /\ open
  /\ open' = FALSE
  /\ UNCHANGED <<offered, delivered>>

Next == Offer \/ Deliver \/ Shut

Safety == Init /\ [][Next]_vars

Delivery ==
  \A n \in Packets : (n < offered) ~> (n < Len(delivered) \/ ~open)

Spec == Safety /\ Delivery
=============================================================================
