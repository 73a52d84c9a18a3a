------------------------- MODULE DaybreakFragments -------------------------
(***************************************************************************)
(* How a reliable stream cuts a message into OP_Fragment packets and puts  *)
(* it together again (common/net/daybreak_connection.cpp).  The packets    *)
(* pass from one side to the other as FifoChannel promises: in order, each *)
(* once.  A payload is the range of bytes of a message that it holds.      *)
(***************************************************************************)
EXTENDS DaybreakSizes, Sequences

CONSTANTS
  MaxLength,       \* bound: longest message
  MaxMessages      \* bound: messages sent

VARIABLES
  lengths,    \* sender: the length of every message queued so far
  channel,    \* packets numbered but not yet accepted by the receiver
  total,      \* receiver: fragment_total_bytes
  current,    \* receiver: fragment_current_bytes
  assembly,   \* receiver: fragment_packet, the payloads put into it in order
  delivered   \* messages given to ProcessDecodedPacket, as their payloads

vars == <<lengths, channel, total, current, assembly, delivered>>

\* max_raw_size, and sublen for the first fragment.
MaxRaw == MaxPacketSize - CrcBytes - ReliableHeader - CompressFlag
FirstRaw == MaxPacketSize - CrcBytes - FragmentHeader - CompressFlag

ASSUME FragmentAssumption ==
  /\ MaxPacketSize \in Nat /\ MaxLength \in Nat /\ MaxMessages \in Nat
  /\ CrcBytes \in {0, 2, 4} /\ FirstRaw >= 1

Least(a, b) == IF a < b THEN a ELSE b

Packet(m, from, size, header, tot) ==
  [message |-> m, from |-> from, size |-> size, header |-> header,
   total |-> tot]

\* Mutant: the later fragments are cut as short as the first one.
LaterCutShort(m, length) ==
  [i \in 1..((length - FirstRaw + MaxRaw - 1) \div MaxRaw) |->
     LET from == FirstRaw + (i - 1) * FirstRaw
     IN  Packet(m, from, Least(MaxRaw, length - from), ReliableHeader, 0)]

\* The fragments after the first, of a message longer than max_raw_size.
LaterFragments(m, length) ==
  [i \in 1..((length - FirstRaw + MaxRaw - 1) \div MaxRaw) |->
     LET from == FirstRaw + (i - 1) * MaxRaw
     IN  Packet(m, from, Least(MaxRaw, length - from), ReliableHeader, 0)]

\* Mutant: no room is kept for the compress flag.
CutTight(m, length) ==
  IF length > MaxRaw + CompressFlag
  THEN <<Packet(m, 0, FirstRaw, FragmentHeader, length)>>
         \o LaterFragments(m, length)
  ELSE <<Packet(m, 0, length, ReliableHeader, 0)>>

\* The packets InternalQueuePacket makes of a message.
Cut(m, length) ==
  IF length > MaxRaw
  THEN <<Packet(m, 0, FirstRaw, FragmentHeader, length)>>
         \o LaterFragments(m, length)
  ELSE <<Packet(m, 0, length, ReliableHeader, 0)>>

\* OP_Fragment unless the message went out as a single OP_Packet.
IsFragment(p) == p.header = FragmentHeader \/ p.from > 0

Payload(p) == [message |-> p.message, from |-> p.from, size |-> p.size]

Init ==
  /\ lengths = <<>>
  /\ channel = <<>>
  /\ total = 0
  /\ current = 0
  /\ assembly = <<>>
  /\ delivered = <<>>

QueuePacket(length) ==
  /\ Len(lengths) < MaxMessages
  /\ lengths' = Append(lengths, length)
  /\ channel' = channel \o Cut(Len(lengths) + 1, length)
  /\ UNCHANGED <<total, current, assembly, delivered>>

\* OP_Packet in turn: handed on at once.
RecvWhole ==
  /\ channel # <<>>
  /\ ~IsFragment(Head(channel))
  /\ delivered' = Append(delivered, <<Payload(Head(channel))>>)
  /\ channel' = Tail(channel)
  /\ UNCHANGED <<lengths, total, current, assembly>>

\* OP_Fragment in turn while fragment_total_bytes is 0: it is read as a first
\* fragment, with the message's length in its header.
RecvFirst ==
  /\ channel # <<>>
  /\ IsFragment(Head(channel))
  /\ total = 0
  /\ total' = Head(channel).total
  /\ current' = Head(channel).size
  /\ assembly' = Append(assembly, Payload(Head(channel)))
  /\ channel' = Tail(channel)
  /\ UNCHANGED <<lengths, delivered>>

\* A later fragment; the one that fills the message hands it on.
RecvNext ==
  /\ channel # <<>>
  /\ IsFragment(Head(channel))
  /\ total # 0
  /\ LET now  == current + Head(channel).size
         parts == Append(assembly, Payload(Head(channel)))
     IN  IF now >= total
         THEN /\ delivered' = Append(delivered, parts)
              /\ assembly' = <<>> /\ total' = 0 /\ current' = 0
         ELSE /\ assembly' = parts /\ current' = now
              /\ UNCHANGED <<total, delivered>>
  /\ channel' = Tail(channel)
  /\ UNCHANGED lengths

Next ==
  \/ \E length \in 1..MaxLength : QueuePacket(length)
  \/ RecvWhole
  \/ RecvFirst
  \/ RecvNext

Spec == Init /\ [][Next]_vars

-----------------------------------------------------------------------------
(* Properties.                                                             *)

\* The payloads, laid end to end, are message m from its first byte to its
\* last: nothing missing, repeated or taken from another message.
IsMessage(parts, m) ==
  /\ \A i \in 1..Len(parts) :
       /\ parts[i].message = m
       /\ parts[i].from =
            IF i = 1 THEN 0 ELSE parts[i - 1].from + parts[i - 1].size
  /\ parts[Len(parts)].from + parts[Len(parts)].size = lengths[m]

\* Messages come out whole, in the order they went in, and none is held back:
\* fragments that are here never wait for those of a message yet to be sent.
Reassembled ==
  /\ \A m \in 1..Len(delivered) :
       m <= Len(lengths) /\ IsMessage(delivered[m], m)
  /\ channel = <<>> => assembly = <<>> /\ Len(delivered) = Len(lengths)

\* With its header, compress flag and CRC a packet fits the session's
\* packet size (the room InternalQueuePacket's comments speak of).
PacketFits ==
  \A i \in 1..Len(channel) :
    channel[i].header + channel[i].size + CompressFlag + CrcBytes
      <= MaxPacketSize
=============================================================================
