--------------------------- MODULE DaybreakStream ---------------------------
(***************************************************************************)
(* One direction of one reliable stream of a Daybreak session              *)
(* (DaybreakConnection in common/net/daybreak_connection.cpp): the sending *)
(* connection numbers, keeps and resends packets, the receiving connection *)
(* orders them, and datagrams between the two are lost, duplicated and     *)
(* reordered.                                                              *)
(*                                                                         *)
(* A packet is its ordinal; its key in sent_packets and packet_queue, and  *)
(* its header's sequence, is Seq16(ordinal).  sequence_out and sequence_in *)
(* are only ever incremented, so they are Seq16(queued), Seq16(accepted).  *)
(***************************************************************************)
EXTENDS SequenceOrder, Sequences, FiniteSets

CONSTANTS
  MaxPackets,     \* bound: packets queued in a behaviour
  MaxFragments,   \* bound: packets one application message is cut into
  ResendLimit     \* MAX_CLIENT_RECV_PACKETS_PER_WINDOW, 300

ASSUME StreamAssumption ==
  /\ MaxPackets \in Nat
  /\ MaxFragments \in Nat \ {0}
  /\ ResendLimit \in Nat \ {0}

VARIABLES
  queued,      \* sender: packets numbered so far (sequence_out)
  fragments,   \* the live packets that are OP_Fragment, the others are OP_Packet
  sent,        \* sender: sent_packets, the packets not acknowledged
  sender,      \* sender: m_status, "Disconnected" once the manager drops it
  accepted,    \* receiver: packets taken in order so far (sequence_in)
  queue,       \* receiver: packet_queue, the packets that came too early
  delivered,   \* receiver: the packets given to ProcessDecodedPacket
  receiver,    \* receiver: m_status
  data,        \* network: packets in flight
  acks,        \* network: OP_Ack in flight, by the ordinal they acknowledge
  oacks        \* network: OP_OutOfOrderAck in flight, likewise

senderVars == <<queued, fragments, sent, sender>>
receiverVars == <<accepted, queue, delivered, receiver>>
network == <<data, acks, oacks>>
vars == <<senderVars, receiverVars, network>>

Status == {"Connected", "Disconnecting", "Disconnected"}

\* The entry of a map keyed by sequence number, if it has one.
HasKey(map, ordinal) == \E n \in map : Seq16(n) = Seq16(ordinal)
AtKey(map, ordinal) == CHOOSE n \in map : Seq16(n) = Seq16(ordinal)
WithoutKey(map, ordinal) == {n \in map : Seq16(n) # Seq16(ordinal)}

\* std::map::emplace: an entry already at the key stays.
Emplace(map, n) == IF HasKey(map, n) THEN map ELSE map \union {n}

Order(expected, actual) == CompareSequence(Seq16(expected), Seq16(actual))

\* Environment: a datagram does not outlive CompareLimit later packets.
Alive(net, total) == {n \in net : total - n <= CompareLimit}

Init ==
  /\ queued = 0
  /\ fragments = {}
  /\ sent = {}
  /\ sender = "Connected"
  /\ accepted = 0
  /\ queue = {}
  /\ delivered = <<>>
  /\ receiver = "Connected"
  /\ data = {}
  /\ acks = {}
  /\ oacks = {}

-----------------------------------------------------------------------------
(* The sending connection.                                                 *)

\* Environment: fewer than CompareLimit packets are outstanding.  The code
\* has no send window of its own.
WindowAllows(total) ==
  /\ total - accepted <= CompareLimit
  /\ \A n \in sent : total - n <= CompareLimit

\* Mutant: one packet too many is kept.
EmplaceNewOneMore(k) ==
  sent \union {n \in queued..(queued + k) : ~HasKey(sent, n)}

\* sent_packets after k packets have been numbered and emplaced one by one.
EmplaceNew(k) ==
  sent \union {n \in queued..(queued + k - 1) : ~HasKey(sent, n)}

\* InternalQueuePacket with reliable set: one OP_Packet, or k fragments.
QueuePacket(k) ==
  /\ sender # "Disconnected"
  /\ queued + k <= MaxPackets
  /\ WindowAllows(queued + k)
  /\ queued' = queued + k
  /\ sent' = EmplaceNew(k)
  /\ fragments' = Alive(IF k = 1 THEN fragments
                        ELSE fragments \union queued..(queued + k - 1),
                        queued + k)
  /\ data' = Alive(data \union queued..(queued + k - 1), queued + k)
  /\ acks' = Alive(acks, queued + k)
  /\ oacks' = Alive(oacks, queued + k)
  /\ UNCHANGED <<sender, receiverVars>>

\* The packets one resend pass gets to: sent_packets is walked in the order
\* of its keys, and the pass stops at a limit.
ResendBatch ==
  {n \in sent : Cardinality({m \in sent : Seq16(m) < Seq16(n)}) < ResendLimit}

\* ProcessResend(stream), past its delay gate: the batch is sent again.
ProcessResend ==
  /\ sender # "Disconnected"
  /\ sent # {}
  /\ data' = Alive(data \union ResendBatch, queued)
  /\ UNCHANGED <<senderVars, receiverVars, acks, oacks>>

\* Ack(stream, seq): every packet that is not after seq is forgotten.
RecvAck(a) ==
  /\ sender # "Disconnected"
  /\ a \in acks
  /\ sent' = {n \in sent : Order(a, n) = "Future"}
  /\ UNCHANGED <<queued, fragments, sender, receiverVars, network>>

\* Mutant: taken for a cumulative acknowledgement.
RecvOutOfOrderAckAsAck(a) ==
  /\ sender # "Disconnected"
  /\ a \in oacks
  /\ sent' = {n \in sent : Order(a, n) = "Future"}
  /\ UNCHANGED <<queued, fragments, sender, receiverVars, network>>

\* OutOfOrderAck(stream, seq): the packet with that key is forgotten.
RecvOutOfOrderAck(a) ==
  /\ sender # "Disconnected"
  /\ a \in oacks
  /\ sent' = WithoutKey(sent, a)
  /\ UNCHANGED <<queued, fragments, sender, receiverVars, network>>

\* Close(), a disconnect from the peer, or the resend time-out; then the
\* manager's erase, which a stale session reaches without closing first.
CloseSender ==
  /\ \/ sender = "Connected" /\ sender' = "Disconnecting"
     \/ sender # "Disconnected" /\ sender' = "Disconnected"
  /\ UNCHANGED <<queued, fragments, sent, receiverVars, network>>

-----------------------------------------------------------------------------
(* The receiving connection.                                               *)

\* While disconnecting an OP_Packet is refused; an OP_Fragment is not.
Takes(n) ==
  \/ receiver = "Connected"
  \/ receiver = "Disconnecting" /\ n \in fragments

\* Mutant: acknowledged but not kept.
RecvFutureNotKept(n) ==
  /\ n \in data
  /\ Takes(n)
  /\ Order(accepted, n) = "Future"
  /\ oacks' = oacks \union {n}
  /\ UNCHANGED <<senderVars, receiverVars, data, acks>>

\* OP_Packet / OP_Fragment that is ahead of sequence_in.
RecvFuture(n) ==
  /\ n \in data
  /\ Takes(n)
  /\ Order(accepted, n) = "Future"
  /\ oacks' = oacks \union {n}
  /\ queue' = Emplace(queue, n)
  /\ UNCHANGED <<senderVars, accepted, delivered, receiver, data, acks>>

\* Mutant: a packet from the past is dropped in silence.
RecvPastNoAck(n) ==
  /\ n \in data
  /\ Takes(n)
  /\ Order(accepted, n) = "Past"
  /\ UNCHANGED vars

\* One that is behind it: the last packet taken is acknowledged again.
RecvPast(n) ==
  /\ n \in data
  /\ Takes(n)
  /\ Order(accepted, n) = "Past"
  /\ acks' = Alive(acks \union {accepted - 1}, queued)
  /\ UNCHANGED <<senderVars, receiverVars, data, oacks>>

\* Mutant: a packet that is ahead is handed on at once.
RecvCurrentOrLater(n) ==
  /\ n \in data
  /\ Takes(n)
  /\ Order(accepted, n) # "Past"
  /\ queue' = WithoutKey(queue, n)
  /\ acks' = acks \union {accepted}
  /\ accepted' = accepted + 1
  /\ delivered' = Append(delivered, n)
  /\ UNCHANGED <<senderVars, receiver, data, oacks>>

\* Mutant: RemoveFromQueue is not called.
RecvCurrentStillQueued(n) ==
  /\ n \in data
  /\ Takes(n)
  /\ Order(accepted, n) = "Current"
  /\ acks' = acks \union {accepted}
  /\ accepted' = accepted + 1
  /\ delivered' = Append(delivered, n)
  /\ UNCHANGED <<senderVars, queue, receiver, data, oacks>>

\* The one expected next.
RecvCurrent(n) ==
  /\ n \in data
  /\ Takes(n)
  /\ Order(accepted, n) = "Current"
  /\ queue' = WithoutKey(queue, n)
  /\ acks' = acks \union {accepted}
  /\ accepted' = accepted + 1
  /\ delivered' = Append(delivered, n)
  /\ UNCHANGED <<senderVars, receiver, data, oacks>>

\* ProcessQueue, from the connection's timer: packets are taken out of
\* packet_queue from sequence_in on and handled like received ones.  k of
\* them are accepted; a refused one is gone too, and ends the walk.
ProcessQueue ==
  /\ receiver # "Disconnected"
  /\ HasKey(queue, accepted)
  /\ \E k \in 0..(SequenceSpace - 1) :
       /\ \A i \in 0..(k - 1) :
            HasKey(queue, accepted + i) /\ Takes(AtKey(queue, accepted + i))
       /\ ~ ( HasKey(queue, accepted + k)
              /\ Takes(AtKey(queue, accepted + k)) )
       /\ queue' = {n \in queue :
                      \A i \in 0..k : Seq16(n) # Seq16(accepted + i)}
       /\ acks' = acks \union accepted..(accepted + k - 1)
       /\ accepted' = accepted + k
       /\ delivered' =
            delivered \o [i \in 1..k |-> AtKey(queue, accepted + i - 1)]
  /\ UNCHANGED <<senderVars, receiver, data, oacks>>

\* As CloseSender, for the other end.
CloseReceiver ==
  /\ \/ receiver = "Connected" /\ receiver' = "Disconnecting"
     \/ receiver # "Disconnected" /\ receiver' = "Disconnected"
  /\ UNCHANGED <<senderVars, accepted, queue, delivered, network>>

-----------------------------------------------------------------------------
(* The network.  A datagram that has been received is still there, which   *)
(* makes it a duplicate; only losing it removes it.                        *)
Lose ==
  /\ \/ \E n \in data : data' = data \ {n} /\ UNCHANGED <<acks, oacks>>
     \/ \E n \in acks : acks' = acks \ {n} /\ UNCHANGED <<data, oacks>>
     \/ \E n \in oacks : oacks' = oacks \ {n} /\ UNCHANGED <<data, acks>>
  /\ UNCHANGED <<senderVars, receiverVars>>

RecvData(n) == RecvFuture(n) \/ RecvPast(n) \/ RecvCurrent(n)

Ordinals == 0..(MaxPackets - 1)

Next ==
  \/ \E k \in 1..MaxFragments : QueuePacket(k)
  \/ ProcessResend
  \/ \E n \in Ordinals : RecvAck(n)
  \/ \E n \in Ordinals : RecvOutOfOrderAck(n)
  \/ \E n \in Ordinals : RecvFuture(n)
  \/ \E n \in Ordinals : RecvPast(n)
  \/ \E n \in Ordinals : RecvCurrent(n)
  \/ ProcessQueue
  \/ CloseSender
  \/ CloseReceiver
  \/ Lose

Spec == Init /\ [][Next]_vars

\* The two timers fire for ever; a datagram sent again and again arrives.
\* At most CompareLimit ordinals are in flight at a time, so a class modulo
\* CompareLimit stands for each of them without a condition per ordinal.
Slot(i) == {n \in Ordinals : n % CompareLimit = i}
Fairness ==
  /\ WF_vars(ProcessResend)
  /\ WF_vars(ProcessQueue)
  /\ \A i \in 0..(CompareLimit - 1) :
       /\ SF_vars(\E n \in Slot(i) : RecvData(n))
       /\ SF_vars(\E n \in Slot(i) : RecvAck(n))
       /\ SF_vars(\E n \in Slot(i) : RecvOutOfOrderAck(n))

FairSpec == Spec /\ Fairness

-----------------------------------------------------------------------------
(* Properties.                                                             *)

\* Every variable has its type: packets are named by their ordinals.
TypeOK ==
  /\ queued \in 0..MaxPackets
  /\ fragments \subseteq Ordinals
  /\ sent \subseteq Ordinals
  /\ sender \in Status
  /\ accepted \in 0..MaxPackets
  /\ queue \subseteq Ordinals
  /\ delivered \in Seq(Ordinals)
  /\ receiver \in Status
  /\ data \subseteq Ordinals
  /\ acks \subseteq Ordinals
  /\ oacks \subseteq Ordinals

\* What the receiver hands on is what was queued, in that order, each packet
\* once, although only numbers modulo SequenceSpace are compared.
InOrder ==
  /\ accepted <= queued
  /\ delivered = [i \in 1..accepted |-> i - 1]

\* A packet the receiver has not handed on is never forgotten by both ends:
\* the sender still resends it, or the receiver holds it in packet_queue.
NoLoss ==
  receiver = "Connected" =>
    \A n \in accepted..(queued - 1) : n \in sent \/ n \in queue

\* packet_queue holds no packet already handed on.  Such an entry would sit
\* at its key until the numbers come round and then pass for a new packet.
NothingStaleQueued == \A n \in queue : accepted <= n /\ n < queued

open == sender = "Connected" /\ receiver = "Connected"

\* The sender's buffer drains: every packet is acknowledged in the end, or
\* one of the ends closes.
EventuallyAcknowledged ==
  \A n \in Ordinals : (n \in sent) ~> (n \notin sent \/ ~open)

\* The stream is a FIFO channel: the abstract specification it implements.
Fifo == INSTANCE FifoChannel WITH
          Packets <- Ordinals, offered <- queued,
          delivered <- delivered, open <- open

FifoSafety == Fifo!Safety
FifoDelivery == Fifo!Delivery
=============================================================================
