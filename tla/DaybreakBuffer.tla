--------------------------- MODULE DaybreakBuffer ---------------------------
(***************************************************************************)
(* The way out of a Daybreak connection: small packets are gathered into   *)
(* OP_Combined datagrams, large ones go out alone, and a data budget drops *)
(* what exceeds the configured rate (InternalBufferedSend, FlushBuffer,    *)
(* InternalSend in common/net/daybreak_connection.cpp).  Packets are       *)
(* numbered in the order they are handed over.                             *)
(***************************************************************************)
EXTENDS DaybreakSizes, SequencesExt

CONSTANTS
  SmallLimit,      \* longest packet that is combined: 0xFF
  HoldSize,        \* hold_size: 512
  Compressing,     \* TRUE if an encode pass is EncodeCompression
  Rate,            \* outgoing_data_rate, in bytes; 0 for none
  RatePerTick,     \* what UpdateDataBudget adds in a tick
  Lengths,         \* lengths of packets handed over
  MaxPackets       \* bound: packets handed over

ASSUME BufferAssumption ==
  /\ MaxPacketSize \in Nat /\ CrcBytes \in {0, 2, 4}
  /\ SmallLimit \in Nat /\ HoldSize \in Nat
  /\ Lengths \subseteq Nat \ {0}
  /\ Compressing \in BOOLEAN
  /\ Rate \in Nat /\ RatePerTick \in Nat

VARIABLES
  handed,     \* the lengths of the packets handed over
  buffered,   \* m_buffered_packets, by number
  counted,    \* m_buffered_packets_length
  budget,     \* m_outgoing_budget
  wire        \* datagrams in the order InternalSend was called

bufferVars == <<handed, buffered, counted, budget, wire>>

\* How long the packets are together.
Length(packets, lengths) ==
  LET upTo[n \in 0..Len(packets)] ==
        IF n = 0 THEN 0 ELSE upTo[n - 1] + lengths[packets[n]]
  IN  upTo[Len(packets)]

\* What FlushBuffer passes to InternalSend: the one packet as it is, several
\* behind an OP_Combined header with a length byte each.
RawSize(packets, lengths) ==
  IF Len(packets) > 1
  THEN Header + Length(packets, lengths) + Len(packets)
  ELSE Length(packets, lengths)

\* Compress leaves a packet no longer than it was, or one byte longer.
EncodedSizes(raw) ==
  {raw + CrcBytes} \union (IF Compressing THEN {raw + 1 + CrcBytes} ELSE {})

\* InternalSend: a datagram that would use up the budget is dropped.
Affordable(raw, left) == Rate = 0 \/ left - raw > 0

InternalSend(state, packets, lengths) ==
  LET raw  == RawSize(packets, lengths)
      paid == Affordable(raw, state.budget)
  IN  [state EXCEPT
         !.budget = IF paid /\ Rate > 0 THEN @ - raw ELSE @,
         !.wire = Append(@, [packets |-> packets, raw |-> raw,
                             dropped |-> ~paid])]

Flush(state, lengths) ==
  IF state.buffered = <<>> THEN state
  ELSE [InternalSend(state, state.buffered, lengths) EXCEPT
          !.buffered = <<>>, !.counted = 0]

\* Mutant: a large packet does not flush what is held.
LargeOvertakes(state, n, lengths) == InternalSend(state, <<n>>, lengths)

LargeSend(state, n, lengths) ==
  InternalSend(Flush(state, lengths), <<n>>, lengths)

\* Mutant: the length bytes are not counted.
RawSizeShort(state, n, lengths) ==
  Header + CrcBytes + state.counted + lengths[n]

\* raw_size in InternalBufferedSend, were packet n combined with the others.
RawSizeWith(state, n, lengths) ==
  Header + CrcBytes + state.counted + Len(state.buffered) + 1 + lengths[n]

Hold(state, n, lengths) ==
  LET room == IF RawSizeWith(state, n, lengths) > MaxPacketSize
              THEN Flush(state, lengths) ELSE state
      held == [room EXCEPT !.buffered = Append(@, n),
                           !.counted = @ + lengths[n]]
  IN  IF held.counted + Len(held.buffered) > HoldSize
      THEN Flush(held, lengths) ELSE held

Current ==
  [buffered |-> buffered, counted |-> counted, budget |-> budget, wire |-> wire]

Become(state) ==
  /\ buffered' = state.buffered
  /\ counted' = state.counted
  /\ budget' = state.budget
  /\ wire' = state.wire

BufferInit ==
  /\ handed = <<>>
  /\ buffered = <<>>
  /\ counted = 0
  /\ budget = Rate
  /\ wire = <<>>

\* InternalBufferedSend.
BufferedSend(length) ==
  /\ Len(handed) < MaxPackets
  /\ handed' = Append(handed, length)
  /\ Become(IF length > SmallLimit
            THEN LargeSend(Current, Len(handed'), handed')
            ELSE Hold(Current, Len(handed'), handed'))

\* UpdateDataBudget
UpdatedBudget(b) ==
  IF Rate = 0 THEN b
  ELSE IF b + RatePerTick > Rate THEN Rate ELSE b + RatePerTick

\* The timer: UpdateDataBudget, then Process, which flushes since
\* m_hold_time is never set again after the connection was made.
Tick ==
  /\ Become(Flush([Current EXCEPT !.budget = UpdatedBudget(@)], handed))
  /\ UNCHANGED handed

BufferNext ==
  \/ \E length \in Lengths : BufferedSend(length)
  \/ Tick

BufferSpec == BufferInit /\ [][BufferNext]_bufferVars

-----------------------------------------------------------------------------
(* Properties.                                                             *)

\* Packets go out in the order they were handed over, in whatever datagrams,
\* none twice: only those still held are missing at the end.  A datagram the
\* outgoing budget dropped counts as gone out (InternalSend): whether it
\* reached the socket, no packet is passed by another one.
OrderKept ==
  FlattenSeq([i \in 1..Len(wire) |-> wire[i].packets]) \o buffered
    = [i \in 1..Len(handed) |-> i]

\* A datagram with its CRC fits the session's packet size and the send
\* buffer of 512 bytes, compressed or not.
DatagramFits ==
  \A i \in 1..Len(wire) : \A size \in EncodedSizes(wire[i].raw) :
    size <= MaxPacketSize
=============================================================================
