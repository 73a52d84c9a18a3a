---------------------- MODULE DaybreakConnectionProofs ----------------------
(***************************************************************************)
(* The safety of a connection: the order of its sequence numbers, for any  *)
(* number space and comparison limit with 2 * CompareLimit <               *)
(* SequenceSpace; its reliable streams, for any number of packets and any  *)
(* resend limit; and the sessions a manager keeps, for any endpoints,      *)
(* number of connections and time-outs.                                    *)
(***************************************************************************)
EXTENDS DaybreakStream, DaybreakSession, SequenceTheorems, TLAPS

(* The order of sequence numbers: CompareSequence orders two wire numbers  *)
(* as their packets were queued, as long as the packets are no further     *)
(* apart than CompareLimit.                                                *)

\* Division with remainder by SequenceSpace.
LEMMA DivMod ==
  ASSUME NEW n \in Nat
  PROVE  /\ n \div SequenceSpace \in Nat
         /\ n % SequenceSpace \in 0..(SequenceSpace - 1)
         /\ n = (SequenceSpace * (n \div SequenceSpace)) + (n % SequenceSpace)
BY SequenceAssumption, Z3

\* Different multiples of SequenceSpace are at least SequenceSpace apart.
LEMMA MultiplesApart ==
  ASSUME NEW p \in Int, NEW q \in Int, p > q
  PROVE  (SequenceSpace * p) - (SequenceSpace * q) >= SequenceSpace
<1>1. PICK k \in Nat : p = q + 1 + k
  BY Z3
<1>2. (SequenceSpace * p) - (SequenceSpace * q)
        = SequenceSpace + (SequenceSpace * k)
  BY <1>1, SequenceAssumption, Z3
<1>3. SequenceSpace * k >= 0
  BY SequenceAssumption, Z3
<1> QED
  BY <1>2, <1>3, SequenceAssumption, Z3

\* The distance of two packets, from their wire numbers: it is the distance
\* of the numbers, or that with one turn of the number space added or taken.
LEMMA WireDistance ==
  ASSUME NEW a \in Nat, NEW b \in Nat,
         b - a < SequenceSpace, a - b < SequenceSpace
  PROVE  /\ Seq16(a) \in 0..(SequenceSpace - 1)
         /\ Seq16(b) \in 0..(SequenceSpace - 1)
         /\ \/ Seq16(b) - Seq16(a) = b - a
            \/ Seq16(b) - Seq16(a) = b - a + SequenceSpace
            \/ Seq16(b) - Seq16(a) = b - a - SequenceSpace
<1> DEFINE p == a \div SequenceSpace
           q == b \div SequenceSpace
<1>1. /\ p \in Nat /\ q \in Nat
      /\ a = (SequenceSpace * p) + Seq16(a)
      /\ b = (SequenceSpace * q) + Seq16(b)
      /\ Seq16(a) \in 0..(SequenceSpace - 1)
      /\ Seq16(b) \in 0..(SequenceSpace - 1)
  BY DivMod DEF Seq16
<1>2. /\ SequenceSpace * p \in Int
      /\ SequenceSpace * q \in Int
      /\ SequenceSpace * (q + 1) = (SequenceSpace * q) + SequenceSpace
      /\ SequenceSpace * (p + 1) = (SequenceSpace * p) + SequenceSpace
  BY <1>1, SequenceAssumption, Z3
<1> HIDE DEF p, q
<1>3. CASE p = q
  BY <1>1, <1>2, <1>3, SequenceAssumption, Z3
<1>4. CASE p = q + 1
  BY <1>1, <1>2, <1>4, SequenceAssumption, Z3
<1>5. CASE q = p + 1
  BY <1>1, <1>2, <1>5, SequenceAssumption, Z3
<1>6. CASE p > q + 1
  <2>1. (SequenceSpace * p) - (SequenceSpace * (q + 1)) >= SequenceSpace
    BY <1>1, <1>6, MultiplesApart
  <2> QED
    BY <2>1, <1>1, <1>2, SequenceAssumption, Z3
<1>7. CASE q > p + 1
  <2>1. (SequenceSpace * q) - (SequenceSpace * (p + 1)) >= SequenceSpace
    BY <1>1, <1>7, MultiplesApart
  <2> QED
    BY <2>1, <1>1, <1>2, SequenceAssumption, Z3
<1> QED
  BY <1>1, <1>3, <1>4, <1>5, <1>6, <1>7, Z3

\* Keys of packet_queue and sent_packets: two packets closer than a full
\* turn of the number space have the same key only if they are the same.
LEMMA SameKey ==
  ASSUME NEW a \in Nat, NEW b \in Nat,
         b - a < SequenceSpace, a - b < SequenceSpace,
         Seq16(a) = Seq16(b)
  PROVE  a = b
BY WireDistance, SequenceAssumption, Z3

\* CompareSequence is right about packets at most CompareLimit apart, in
\* either direction and across any wrap of the 16-bit numbers.
THEOREM CompareSequenceCorrect ==
  ASSUME NEW a \in Nat, NEW b \in Nat,
         b - a <= CompareLimit, a - b <= CompareLimit
  PROVE  OrderedAsQueued(a, b)
<1> DEFINE diff == Seq16(b) - Seq16(a)
<1>1. /\ Seq16(a) \in Int /\ Seq16(b) \in Int
      /\ diff \in Int
      /\ diff \in {b - a, b - a + SequenceSpace, b - a - SequenceSpace}
      /\ diff > -SequenceSpace /\ diff < SequenceSpace
  BY WireDistance, SequenceAssumption, Z3
<1>2. CASE b = a
  BY <1>2, <1>1, SequenceAssumption, Z3
     DEF OrderedAsQueued, CompareSequence
<1>3. CASE b > a
  <2>1. \/ diff > 0 /\ diff <= CompareLimit
        \/ diff < -CompareLimit
    BY <1>1, <1>3, SequenceAssumption, Z3
  <2> QED
    BY <2>1, <1>1, <1>3, SequenceAssumption, SMTT(30)
       DEF OrderedAsQueued, CompareSequence
<1>4. CASE b < a
  <2>1. \/ diff > CompareLimit
        \/ diff < 0 /\ diff >= -CompareLimit
    BY <1>1, <1>4, SequenceAssumption, Z3
  <2> QED
    BY <2>1, <1>1, <1>4, SequenceAssumption, SMTT(30)
       DEF OrderedAsQueued, CompareSequence
<1> QED
  BY <1>2, <1>3, <1>4, Z3

-----------------------------------------------------------------------------
(* Reliable streams.                                                       *)

\* The network holds only packets and acknowledgements near the newest
\* packet, and an acknowledgement names a packet the receiver has.
NetworkOK ==
  /\ \A n \in data : n < queued /\ queued - n <= CompareLimit
  /\ \A a \in acks : a < accepted /\ queued - a <= CompareLimit
  /\ \A a \in oacks :
       /\ queued - a <= CompareLimit
       /\ a < queued
       /\ receiver = "Connected" => a < accepted \/ a \in queue

\* What is kept for resending is near the newest packet too.
SentOK == \A n \in sent : n < queued /\ queued - n <= CompareLimit

\* The inductive invariant.
IInv ==
  /\ TypeOK
  /\ NetworkOK
  /\ SentOK
  /\ queued - accepted <= CompareLimit
  /\ InOrder
  /\ NoLoss
  /\ NothingStaleQueued

\* What the comparison in the handlers says of two packets close together.
LEMMA OrderTest ==
  ASSUME NEW e \in Nat, NEW n \in Nat,
         n - e <= CompareLimit, e - n <= CompareLimit
  PROVE  /\ Order(e, n) = "Future"  <=> n > e
         /\ Order(e, n) = "Past"    <=> n < e
         /\ Order(e, n) = "Current" <=> n = e
<1>1. OrderedAsQueued(e, n)
  BY CompareSequenceCorrect
<1> QED
  BY <1>1, Z3 DEF OrderedAsQueued, Order

\* Init establishes the invariant.
LEMMA InitIInv == Init => IInv
<1> SUFFICES ASSUME Init PROVE IInv
  OBVIOUS
<1> USE DEF Init
<1>1. TypeOK
  BY StreamAssumption DEF TypeOK, Status, Ordinals
<1>2. NetworkOK /\ SentOK /\ NothingStaleQueued
  BY DEF NetworkOK, SentOK, NothingStaleQueued
<1>3. queued - accepted <= CompareLimit
  BY SequenceAssumption
<1>4. InOrder
  BY DEF InOrder
<1>5. NoLoss
  BY DEF NoLoss
<1> QED
  BY <1>1, <1>2, <1>3, <1>4, <1>5 DEF IInv

-----------------------------------------------------------------------------
(* What the receiver has handed on, as a sequence.                         *)

\* Handing on the next ordinal extends the sequence of all before it.
LEMMA AppendNext ==
  ASSUME NEW a \in Nat
  PROVE  Append([i \in 1..a |-> i - 1], a) = [i \in 1..(a + 1) |-> i - 1]
<1> DEFINE s == [i \in 1..a |-> i - 1]
<1>1. s \in Seq(Int) /\ Len(s) = a
  OBVIOUS
<1> QED
  BY <1>1

\* So does handing on the next k of them.
LEMMA ConcatNext ==
  ASSUME NEW a \in Nat, NEW k \in Nat
  PROVE  [i \in 1..a |-> i - 1] \o [i \in 1..k |-> a + i - 1]
           = [i \in 1..(a + k) |-> i - 1]
<1> DEFINE s == [i \in 1..a |-> i - 1]
           t == [i \in 1..k |-> a + i - 1]
<1>1. s \in Seq(Int) /\ Len(s) = a /\ t \in Seq(Int) /\ Len(t) = k
  OBVIOUS
<1> QED
  BY <1>1

-----------------------------------------------------------------------------
(* One lemma per action: the step preserves the invariant.                 *)

\* New packets get keys that no outstanding packet has.
LEMMA QueuePacketStep ==
  ASSUME IInv, NEW k \in 1..MaxFragments, QueuePacket(k)
  PROVE  IInv'
<1> USE StreamAssumption, SequenceAssumption
<1>1. /\ k \in Nat /\ k >= 1
      /\ queued \in Nat /\ accepted \in Nat
      /\ queued' = queued + k
      /\ queued + k - accepted <= CompareLimit
      /\ queued + k <= MaxPackets
      /\ accepted <= queued
  BY DEF IInv, TypeOK, QueuePacket, WindowAllows, InOrder
<1>2. \A n \in sent : n \in Nat /\ n < queued /\ queued + k - n <= CompareLimit
  BY DEF IInv, TypeOK, Ordinals, SentOK, QueuePacket, WindowAllows
<1>3. sent' = sent \union queued..(queued + k - 1)
  <2>1. \A n \in queued..(queued + k - 1) : ~HasKey(sent, n)
    BY <1>1, <1>2, SameKey DEF HasKey
  <2> QED
    BY <2>1 DEF QueuePacket, EmplaceNew
<1>4. TypeOK'
  <2>1. queued..(queued + k - 1) \subseteq Ordinals
    BY <1>1 DEF Ordinals
  <2>2. /\ sent' \subseteq Ordinals
        /\ fragments' \subseteq Ordinals
        /\ data' \subseteq Ordinals
        /\ acks' \subseteq Ordinals
        /\ oacks' \subseteq Ordinals
    BY <2>1, <1>3 DEF IInv, TypeOK, QueuePacket, Alive
  <2>3. queued' \in 0..MaxPackets
    BY <1>1
  <2> QED
    BY <2>2, <2>3 DEF IInv, TypeOK, QueuePacket, receiverVars
<1>5. NetworkOK'
  <2>1. \A n \in data' : n < queued' /\ queued' - n <= CompareLimit
    BY <1>1 DEF IInv, TypeOK, Ordinals, NetworkOK, QueuePacket, Alive
  <2>2. \A a \in acks' : a < accepted' /\ queued' - a <= CompareLimit
    BY <1>1 DEF IInv, TypeOK, Ordinals, NetworkOK, QueuePacket, Alive,
                receiverVars
  <2>3. \A a \in oacks' :
          /\ queued' - a <= CompareLimit
          /\ a < queued'
          /\ receiver' = "Connected" => a < accepted' \/ a \in queue'
    BY <1>1 DEF IInv, TypeOK, Ordinals, NetworkOK, QueuePacket, Alive,
                receiverVars
  <2> QED
    BY <2>1, <2>2, <2>3 DEF NetworkOK
<1>6. SentOK'
  BY <1>1, <1>2, <1>3 DEF SentOK
<1>7. (queued - accepted <= CompareLimit)'
  BY <1>1 DEF QueuePacket, receiverVars
<1>8. InOrder'
  BY <1>1 DEF IInv, InOrder, QueuePacket, receiverVars
<1>9. NoLoss'
  BY <1>1, <1>3 DEF IInv, NoLoss, QueuePacket, receiverVars
<1>10. NothingStaleQueued'
  BY <1>1 DEF IInv, TypeOK, Ordinals, NothingStaleQueued, QueuePacket,
              receiverVars
<1> QED
  BY <1>4, <1>5, <1>6, <1>7, <1>8, <1>9, <1>10 DEF IInv

\* Only packets still kept are sent again.
LEMMA ProcessResendStep ==
  ASSUME IInv, ProcessResend
  PROVE  IInv'
<1>1. data' \subseteq data \union sent
  BY DEF ProcessResend, Alive, ResendBatch
<1>2. TypeOK'
  BY <1>1 DEF IInv, TypeOK, ProcessResend, senderVars, receiverVars
<1>3. NetworkOK'
  BY <1>1 DEF IInv, NetworkOK, SentOK, ProcessResend, senderVars, receiverVars
<1> QED
  BY <1>2, <1>3 DEF IInv, SentOK, InOrder, NoLoss, NothingStaleQueued,
     ProcessResend, senderVars, receiverVars

\* A cumulative acknowledgement forgets only packets the receiver took.
LEMMA RecvAckStep ==
  ASSUME IInv, NEW a \in Ordinals, RecvAck(a)
  PROVE  IInv'
<1> USE StreamAssumption, SequenceAssumption
<1>1. /\ a \in Nat /\ a < accepted /\ queued - a <= CompareLimit
      /\ queued \in Nat /\ accepted \in Nat /\ accepted <= queued
  BY DEF IInv, TypeOK, Ordinals, NetworkOK, RecvAck, InOrder
<1>2. \A n \in sent : n \in Nat /\ n < queued /\ queued - n <= CompareLimit
  BY DEF IInv, TypeOK, Ordinals, SentOK
<1>3. sent' = {n \in sent : n > a}
  <2>1. \A n \in sent : Order(a, n) = "Future" <=> n > a
    BY <1>1, <1>2, OrderTest
  <2> QED
    BY <2>1 DEF RecvAck
<1>4. TypeOK' /\ NetworkOK' /\ SentOK'
  BY <1>3 DEF IInv, TypeOK, NetworkOK, SentOK, RecvAck, receiverVars, network
<1>5. NoLoss'
  BY <1>1, <1>3 DEF IInv, NoLoss, RecvAck, receiverVars
<1> QED
  BY <1>4, <1>5 DEF IInv, InOrder, NothingStaleQueued, RecvAck, receiverVars

\* An out-of-order one forgets only a packet the receiver took or holds.
LEMMA RecvOutOfOrderAckStep ==
  ASSUME IInv, NEW a \in Ordinals, RecvOutOfOrderAck(a)
  PROVE  IInv'
<1> USE StreamAssumption, SequenceAssumption
<1>1. /\ a \in Nat /\ a < queued /\ queued - a <= CompareLimit
      /\ receiver = "Connected" => a < accepted \/ a \in queue
      /\ queued \in Nat /\ accepted \in Nat
  BY DEF IInv, TypeOK, Ordinals, NetworkOK, RecvOutOfOrderAck
<1>2. \A n \in sent : n \in Nat /\ n < queued /\ queued - n <= CompareLimit
  BY DEF IInv, TypeOK, Ordinals, SentOK
<1>3. sent' = sent \ {a}
  <2>1. \A n \in sent : Seq16(n) = Seq16(a) => n = a
    BY <1>1, <1>2, SameKey
  <2> QED
    BY <2>1 DEF RecvOutOfOrderAck, WithoutKey
<1>4. TypeOK' /\ NetworkOK' /\ SentOK'
  BY <1>3 DEF IInv, TypeOK, NetworkOK, SentOK, RecvOutOfOrderAck,
              receiverVars, network
<1>5. NoLoss'
  BY <1>1, <1>3 DEF IInv, NoLoss, RecvOutOfOrderAck, receiverVars
<1> QED
  BY <1>4, <1>5 DEF IInv, InOrder, NothingStaleQueued, RecvOutOfOrderAck,
                    receiverVars

\* What the three receive handlers know of the packet they are given.
LEMMA ReceivedPacket ==
  ASSUME IInv, NEW n \in data
  PROVE  /\ n \in Nat /\ accepted \in Nat /\ queued \in Nat
         /\ n \in Ordinals
         /\ n < queued /\ queued - n <= CompareLimit
         /\ accepted <= queued /\ queued - accepted <= CompareLimit
         /\ Order(accepted, n) = "Future"  <=> n > accepted
         /\ Order(accepted, n) = "Past"    <=> n < accepted
         /\ Order(accepted, n) = "Current" <=> n = accepted
<1> USE StreamAssumption, SequenceAssumption
<1>1. /\ n \in Nat /\ accepted \in Nat /\ queued \in Nat
      /\ n \in Ordinals
      /\ n < queued /\ queued - n <= CompareLimit
      /\ accepted <= queued /\ queued - accepted <= CompareLimit
  BY DEF IInv, TypeOK, Ordinals, NetworkOK, InOrder
<1> QED
  BY <1>1, OrderTest

\* The keys of packet_queue tell its packets apart.
LEMMA QueueKeys ==
  ASSUME IInv, NEW n \in Nat, accepted <= n, n < queued, NEW q \in queue,
         Seq16(q) = Seq16(n)
  PROVE  q = n
BY SameKey, SequenceAssumption, StreamAssumption
   DEF IInv, TypeOK, Ordinals, NothingStaleQueued

\* A packet that is early is kept under a free key, or is kept already.
LEMMA RecvFutureStep ==
  ASSUME IInv, NEW n \in Ordinals, RecvFuture(n)
  PROVE  IInv'
<1>1. n \in data
  BY DEF RecvFuture
<1>2. /\ n \in Nat /\ accepted \in Nat /\ queued \in Nat
      /\ n < queued /\ queued - n <= CompareLimit /\ n > accepted
  BY <1>1, ReceivedPacket DEF RecvFuture
<1>3. queue' = queue \union {n}
  <2>1. CASE HasKey(queue, n)
    <3>1. n \in queue
      BY <2>1, <1>2, QueueKeys DEF HasKey
    <3> QED
      BY <3>1, <2>1 DEF RecvFuture, Emplace
  <2> QED
    BY <2>1 DEF RecvFuture, Emplace
<1>4. TypeOK'
  BY <1>3 DEF IInv, TypeOK, RecvFuture, senderVars
<1>5. NetworkOK'
  BY <1>2, <1>3 DEF IInv, NetworkOK, RecvFuture, senderVars
<1>6. NoLoss' /\ NothingStaleQueued'
  BY <1>2, <1>3 DEF IInv, NoLoss, NothingStaleQueued, RecvFuture, senderVars
<1> QED
  BY <1>4, <1>5, <1>6 DEF IInv, SentOK, InOrder, RecvFuture, senderVars

\* The past is acknowledged again, up to the last packet taken.
LEMMA RecvPastStep ==
  ASSUME IInv, NEW n \in Ordinals, RecvPast(n)
  PROVE  IInv'
<1> USE StreamAssumption, SequenceAssumption
<1>1. n \in data
  BY DEF RecvPast
<1>2. /\ n \in Nat /\ accepted \in Nat /\ queued \in Nat
      /\ n < accepted /\ accepted <= queued
  BY <1>1, ReceivedPacket DEF RecvPast
<1>3. accepted - 1 \in Ordinals
  BY <1>2 DEF IInv, TypeOK, Ordinals
<1>4. TypeOK'
  BY <1>3 DEF IInv, TypeOK, RecvPast, Alive, senderVars, receiverVars
<1>5. NetworkOK'
  <2>1. \A a \in acks' : a < accepted /\ queued - a <= CompareLimit
    <3> TAKE a \in acks'
    <3>1. (a \in acks \/ a = accepted - 1) /\ queued - a <= CompareLimit
      BY DEF RecvPast, Alive
    <3> QED
      BY <3>1, <1>2 DEF IInv, NetworkOK
  <2> QED
    BY <2>1 DEF IInv, NetworkOK, RecvPast, senderVars, receiverVars
<1> QED
  BY <1>4, <1>5 DEF IInv, SentOK, InOrder, NoLoss, NothingStaleQueued,
                    RecvPast, senderVars, receiverVars

\* The packet taken for the expected one is the expected one.
LEMMA RecvCurrentStep ==
  ASSUME IInv, NEW n \in Ordinals, RecvCurrent(n)
  PROVE  IInv'
<1> USE StreamAssumption, SequenceAssumption
<1>1. n \in data
  BY DEF RecvCurrent
<1>2. /\ n \in Nat /\ accepted \in Nat /\ queued \in Nat
      /\ n < queued /\ queued - n <= CompareLimit /\ n = accepted
      /\ accepted <= queued /\ queued - accepted <= CompareLimit
  BY <1>1, ReceivedPacket DEF RecvCurrent
<1>3. queue' = queue \ {n}
  <2>1. \A q \in queue : Seq16(q) = Seq16(n) => q = n
    BY <1>2, QueueKeys
  <2> QED
    BY <2>1 DEF RecvCurrent, WithoutKey
<1>4. TypeOK'
  <2>1. delivered' \in Seq(Ordinals)
    BY DEF IInv, TypeOK, RecvCurrent
  <2>2. accepted' \in 0..MaxPackets /\ accepted \in Ordinals
    BY <1>2 DEF IInv, TypeOK, RecvCurrent, Ordinals
  <2> QED
    BY <2>1, <2>2, <1>3 DEF IInv, TypeOK, RecvCurrent, senderVars
<1>5. NetworkOK'
  <2>1. \A d \in data' : d < queued' /\ queued' - d <= CompareLimit
    BY DEF IInv, NetworkOK, RecvCurrent, senderVars
  <2>3. \A a \in acks' : a < accepted' /\ queued' - a <= CompareLimit
    <3> TAKE a \in acks'
    <3>1. CASE a \in acks
      <4>1. a \in Nat /\ a < accepted /\ queued - a <= CompareLimit
        BY <3>1 DEF IInv, TypeOK, Ordinals, NetworkOK
      <4> QED
        BY <4>1, <1>2 DEF RecvCurrent, senderVars
    <3>2. CASE a = accepted
      BY <3>2, <1>2 DEF RecvCurrent, senderVars
    <3> QED
      BY <3>1, <3>2 DEF RecvCurrent
  <2>2. \A a \in oacks' :
          /\ queued' - a <= CompareLimit
          /\ a < queued'
          /\ receiver' = "Connected" => a < accepted' \/ a \in queue'
    BY <1>2, <1>3 DEF IInv, TypeOK, Ordinals, NetworkOK, RecvCurrent,
                      senderVars
  <2> QED
    BY <2>1, <2>2, <2>3 DEF NetworkOK
<1>6. InOrder'
  BY <1>2, AppendNext DEF IInv, InOrder, RecvCurrent, senderVars
<1>7. NoLoss' /\ NothingStaleQueued'
  BY <1>2, <1>3 DEF IInv, TypeOK, Ordinals, NoLoss, NothingStaleQueued,
                    RecvCurrent, senderVars
<1>8. SentOK' /\ (queued - accepted <= CompareLimit)'
  BY <1>2 DEF IInv, SentOK, RecvCurrent, senderVars
<1> QED
  BY <1>4, <1>5, <1>6, <1>7, <1>8 DEF IInv

\* What ProcessQueue finds at a key: the packet whose turn it is, if at all.
LEMMA QueueHead ==
  ASSUME IInv, NEW i \in Nat, HasKey(queue, accepted + i),
         i <= CompareLimit
  PROVE  /\ AtKey(queue, accepted + i) = accepted + i
         /\ accepted + i \in queue
<1> USE StreamAssumption, SequenceAssumption
<1>1. accepted \in Nat /\ queued \in Nat /\ queued - accepted <= CompareLimit
  BY DEF IInv, TypeOK
<1>2. \A q \in queue : Seq16(q) = Seq16(accepted + i) => q = accepted + i
  <2> TAKE q \in queue
  <2>1. q \in Nat /\ accepted <= q /\ q < queued
    BY DEF IInv, TypeOK, Ordinals, NothingStaleQueued
  <2> QED
    BY <2>1, <1>1, SameKey
<1>3. PICK q \in queue : Seq16(q) = Seq16(accepted + i)
  BY DEF HasKey
<1>4. /\ AtKey(queue, accepted + i) \in queue
      /\ Seq16(AtKey(queue, accepted + i)) = Seq16(accepted + i)
  BY <1>3 DEF AtKey
<1> QED
  BY <1>2, <1>4

\* The packets popped from the queue are the next ones, one after the other.
LEMMA ProcessQueueStep ==
  ASSUME IInv, ProcessQueue
  PROVE  IInv'
<1> USE StreamAssumption, SequenceAssumption
<1>1. /\ accepted \in Nat /\ queued \in Nat /\ accepted <= queued
      /\ queued - accepted <= CompareLimit /\ queued <= MaxPackets
      /\ UNCHANGED <<queued, fragments, sent, sender, receiver, data, oacks>>
  BY DEF IInv, TypeOK, InOrder, ProcessQueue, senderVars
<1>2. PICK k \in 0..(SequenceSpace - 1) :
        /\ \A i \in 0..(k - 1) :
             HasKey(queue, accepted + i) /\ Takes(AtKey(queue, accepted + i))
        /\ ~ ( HasKey(queue, accepted + k)
               /\ Takes(AtKey(queue, accepted + k)) )
        /\ queue' = {n \in queue :
                       \A i \in 0..k : Seq16(n) # Seq16(accepted + i)}
        /\ acks' = acks \union accepted..(accepted + k - 1)
        /\ accepted' = accepted + k
        /\ delivered' =
             delivered \o [i \in 1..k |-> AtKey(queue, accepted + i - 1)]
  BY DEF ProcessQueue
<1>3. k \in Nat /\ k <= CompareLimit
  <2>1. SUFFICES ASSUME k > CompareLimit PROVE FALSE
    OBVIOUS
  <2>2. CompareLimit \in Nat /\ CompareLimit \in 0..(k - 1)
    BY <2>1
  <2>3. HasKey(queue, accepted + CompareLimit)
    BY <2>2, <1>2
  <2>4. accepted + CompareLimit \in queue
    BY <2>2, <2>3, QueueHead
  <2> QED
    BY <2>4, <1>1 DEF IInv, NothingStaleQueued
<1>4. \A i \in 0..(k - 1) :
        /\ accepted + i \in queue
        /\ AtKey(queue, accepted + i) = accepted + i
  <2> TAKE i \in 0..(k - 1)
  <2>1. i \in Nat /\ i <= CompareLimit /\ HasKey(queue, accepted + i)
    BY <1>2, <1>3
  <2> QED
    BY <2>1, QueueHead
<1>5. accepted + k <= queued
  <2>1. CASE k = 0
    BY <2>1, <1>1
  <2>2. CASE k > 0
    <3>1. accepted + (k - 1) \in queue
      BY <2>2, <1>4, <1>3
    <3>2. accepted + (k - 1) < queued
      BY <3>1 DEF IInv, NothingStaleQueued
    <3> QED
      BY <3>2, <1>1, <1>3
  <2> QED
    BY <2>1, <2>2, <1>3
<1>6. \A n \in queue : n \in Nat /\ accepted <= n /\ n < queued
  BY DEF IInv, TypeOK, Ordinals, NothingStaleQueued
<1>7. queue' = {n \in queue : n > accepted + k}
  <2>1. ASSUME NEW n \in queue, NEW i \in 0..k, Seq16(n) = Seq16(accepted + i)
        PROVE  n = accepted + i
    <3>1. accepted + i \in Nat /\ i <= CompareLimit
      BY <1>1, <1>3
    <3> QED
      BY <2>1, <3>1, <1>1, <1>6, SameKey
  <2>2. ASSUME NEW n \in queue
        PROVE  (\A i \in 0..k : Seq16(n) # Seq16(accepted + i))
                 <=> n > accepted + k
    <3>1. CASE n > accepted + k
      <4>1. \A i \in 0..k : n # accepted + i
        BY <3>1, <1>1, <1>3, <1>6
      <4> QED
        BY <4>1, <3>1, <2>1
    <3>2. CASE ~(n > accepted + k)
      <4>1. n - accepted \in 0..k /\ n = accepted + (n - accepted)
        BY <3>2, <1>1, <1>3, <1>6
      <4> QED
        BY <4>1, <3>2
    <3> QED
      BY <3>1, <3>2
  <2> QED
    BY <2>2, <1>2
<1>8. delivered' = [i \in 1..(accepted + k) |-> i - 1]
  <2>1. [i \in 1..k |-> AtKey(queue, accepted + i - 1)]
          = [i \in 1..k |-> accepted + i - 1]
    <3>1. \A i \in 1..k : AtKey(queue, accepted + i - 1) = accepted + i - 1
      <4> TAKE i \in 1..k
      <4>1. i - 1 \in 0..(k - 1) /\ accepted + (i - 1) = accepted + i - 1
        BY <1>1, <1>3
      <4> QED
        BY <4>1, <1>4
    <3> QED
      BY <3>1
  <2>2. delivered = [i \in 1..accepted |-> i - 1]
    BY DEF IInv, InOrder
  <2> QED
    BY <2>1, <2>2, <1>1, <1>2, <1>3, ConcatNext
<1>9. TypeOK'
  <2>1. accepted' \in 0..MaxPackets /\ accepted' \in Nat
    BY <1>1, <1>2, <1>3, <1>5
  <2>2. delivered' \in Seq(Ordinals)
    <3>1. \A i \in 1..accepted' : i - 1 \in Ordinals
      BY <2>1 DEF Ordinals
    <3>2. delivered' = [i \in 1..accepted' |-> i - 1]
      BY <1>8, <1>2
    <3> QED
      BY <3>1, <3>2, <2>1
  <2>3. queue' \subseteq Ordinals /\ acks' \subseteq Ordinals
    <3>1. accepted..(accepted + k - 1) \subseteq Ordinals
      BY <1>1, <1>3, <1>5 DEF Ordinals
    <3> QED
      BY <3>1, <1>2, <1>7 DEF IInv, TypeOK
  <2> QED
    BY <2>1, <2>2, <2>3, <1>1 DEF IInv, TypeOK
<1>10. InOrder'
  BY <1>1, <1>2, <1>5, <1>8 DEF InOrder
<1>11. NothingStaleQueued'
  <2> SUFFICES ASSUME NEW n \in queue' PROVE accepted' <= n /\ n < queued'
    BY DEF NothingStaleQueued
  <2>1. n \in Nat /\ n > accepted + k /\ n < queued
    BY <1>6, <1>7
  <2> QED
    BY <2>1, <1>1, <1>2, <1>3
<1>12. SentOK' /\ (queued - accepted <= CompareLimit)'
  BY <1>1, <1>2, <1>3 DEF IInv, SentOK
<1>13. ASSUME receiver = "Connected"
       PROVE  accepted + k \notin queue
  <2>1. ~HasKey(queue, accepted + k)
    BY <1>2, <1>13 DEF Takes
  <2> QED
    BY <2>1 DEF HasKey
<1>14. NoLoss'
  <2>1. SUFFICES ASSUME receiver = "Connected",
                        NEW n \in (accepted + k)..(queued - 1)
                 PROVE  n \in sent \/ n \in queue'
    BY <1>1, <1>2 DEF NoLoss
  <2>2. n \in sent \/ n \in queue
    BY <2>1, <1>1, <1>3 DEF IInv, NoLoss
  <2>3. n # accepted + k \/ n \in sent
    BY <2>1, <2>2, <1>13
  <2> QED
    BY <2>2, <2>3, <1>1, <1>3, <1>7
<1>15. NetworkOK'
  <2>1. \A n \in data' : n < queued' /\ queued' - n <= CompareLimit
    BY <1>1 DEF IInv, NetworkOK
  <2>2. \A a \in acks' : a < accepted' /\ queued' - a <= CompareLimit
    <3> TAKE a \in acks'
    <3>1. CASE a \in acks
      <4>1. a \in Nat /\ a < accepted /\ queued - a <= CompareLimit
        BY <3>1 DEF IInv, TypeOK, Ordinals, NetworkOK
      <4> QED
        BY <4>1, <1>1, <1>2, <1>3
    <3>2. CASE a \in accepted..(accepted + k - 1)
      BY <3>2, <1>1, <1>2, <1>3
    <3> QED
      BY <3>1, <3>2, <1>2
  <2>3. ASSUME NEW a \in oacks'
        PROVE  /\ queued' - a <= CompareLimit
               /\ a < queued'
               /\ receiver' = "Connected" => a < accepted' \/ a \in queue'
    <3>1. /\ a \in Nat /\ queued - a <= CompareLimit /\ a < queued
          /\ receiver = "Connected" => a < accepted \/ a \in queue
      BY <1>1 DEF IInv, TypeOK, Ordinals, NetworkOK
    <3>2. ASSUME receiver = "Connected"
          PROVE  a < accepted + k \/ a \in queue'
      <4>1. a < accepted \/ a \in queue
        BY <3>1, <3>2
      <4>2. a \in queue => a # accepted + k
        BY <3>2, <1>13
      <4> QED
        BY <4>1, <4>2, <3>1, <1>1, <1>3, <1>7
    <3> QED
      BY <3>1, <3>2, <1>1, <1>2
  <2> QED
    BY <2>1, <2>2, <2>3 DEF NetworkOK
<1> QED
  BY <1>9, <1>10, <1>11, <1>12, <1>14, <1>15 DEF IInv

\* Closing an end promises less and changes nothing else.
LEMMA CloseStep ==
  ASSUME IInv, CloseSender \/ CloseReceiver
  PROVE  IInv'
<1>1. /\ UNCHANGED <<queued, fragments, sent, accepted, queue, delivered>>
      /\ UNCHANGED <<data, acks, oacks>>
      /\ sender' \in Status /\ receiver' \in Status
      /\ receiver' = "Connected" => receiver = "Connected"
  BY DEF CloseSender, CloseReceiver, senderVars, receiverVars, network,
         IInv, TypeOK, Status
<1> QED
  BY <1>1 DEF IInv, TypeOK, NetworkOK, SentOK, InOrder, NoLoss,
              NothingStaleQueued

\* A smaller network satisfies what a larger one does.
LEMMA LoseStep ==
  ASSUME IInv, Lose
  PROVE  IInv'
<1>1. /\ UNCHANGED <<queued, fragments, sent, sender>>
      /\ UNCHANGED <<accepted, queue, delivered, receiver>>
      /\ data' \subseteq data /\ acks' \subseteq acks /\ oacks' \subseteq oacks
  BY DEF Lose, senderVars, receiverVars
<1> QED
  BY <1>1 DEF IInv, TypeOK, NetworkOK, SentOK, InOrder, NoLoss,
              NothingStaleQueued

-----------------------------------------------------------------------------
(* The theorems.                                                           *)

\* The invariant is inductive.
LEMMA NextIInv == IInv /\ [Next]_vars => IInv'
<1> SUFFICES ASSUME IInv, [Next]_vars PROVE IInv'
  OBVIOUS
<1>1. CASE \E k \in 1..MaxFragments : QueuePacket(k)
  BY <1>1, QueuePacketStep
<1>2. CASE ProcessResend
  BY <1>2, ProcessResendStep
<1>3. CASE \E n \in Ordinals : RecvAck(n)
  BY <1>3, RecvAckStep
<1>4. CASE \E n \in Ordinals : RecvOutOfOrderAck(n)
  BY <1>4, RecvOutOfOrderAckStep
<1>5. CASE \E n \in Ordinals : RecvFuture(n)
  BY <1>5, RecvFutureStep
<1>6. CASE \E n \in Ordinals : RecvPast(n)
  BY <1>6, RecvPastStep
<1>7. CASE \E n \in Ordinals : RecvCurrent(n)
  BY <1>7, RecvCurrentStep
<1>8. CASE ProcessQueue
  BY <1>8, ProcessQueueStep
<1>9. CASE CloseSender \/ CloseReceiver
  BY <1>9, CloseStep
<1>10. CASE Lose
  BY <1>10, LoseStep
<1>11. CASE UNCHANGED vars
  BY <1>11 DEF vars, senderVars, receiverVars, network, IInv, TypeOK,
               NetworkOK, SentOK, InOrder, NoLoss, NothingStaleQueued
<1> QED
  BY <1>1, <1>2, <1>3, <1>4, <1>5, <1>6, <1>7, <1>8, <1>9, <1>10, <1>11
     DEF Next

\* The invariant holds in every behaviour.
LEMMA Invariance == Spec => []IInv
BY InitIInv, NextIInv, PTL DEF Spec

\* Packets are named by ordinals in every reachable state.
THEOREM StreamTypeOK == Spec => []TypeOK
<1>1. IInv => TypeOK
  BY DEF IInv
<1> QED
  BY <1>1, Invariance, PTL

\* A reliable stream hands on what was queued, in order, each packet once.
THEOREM StreamInOrder == Spec => []InOrder
<1>1. IInv => InOrder
  BY DEF IInv
<1> QED
  BY <1>1, Invariance, PTL

\* No packet is forgotten by both ends while the receiver is connected.
THEOREM StreamNoLoss == Spec => []NoLoss
<1>1. IInv => NoLoss
  BY DEF IInv
<1> QED
  BY <1>1, Invariance, PTL

\* packet_queue never holds a packet that was handed on before.
THEOREM StreamNothingStaleQueued == Spec => []NothingStaleQueued
<1>1. IInv => NothingStaleQueued
  BY DEF IInv
<1> QED
  BY <1>1, Invariance, PTL

\* A step that moves sequence_in forward delivers the packets in between.
LEMMA AcceptingDelivers ==
  ASSUME IInv, IInv', UNCHANGED <<queued, sender, receiver>>,
         accepted' > accepted
  PROVE  Fifo!Deliver
<1>1. /\ accepted \in Nat /\ accepted' \in Nat /\ queued \in Nat
      /\ accepted' <= queued
      /\ delivered = [i \in 1..accepted |-> i - 1]
      /\ delivered' = [i \in 1..accepted' |-> i - 1]
  BY StreamAssumption DEF IInv, TypeOK, InOrder
<1>2. PICK k \in Nat : accepted' = accepted + k /\ k >= 1
  <2>1. ASSUME NEW x \in Nat, NEW y \in Nat, y > x
        PROVE  \E k \in Nat : y = x + k /\ k >= 1
    <3>1. y - x \in Nat /\ y = x + (y - x) /\ y - x >= 1
      BY <2>1
    <3> QED
      BY <3>1
  <2> QED
    BY <2>1, <1>1
<1>3. Len(delivered) = accepted
  BY <1>1
<1>4. k \in 1..(queued - Len(delivered))
  BY <1>1, <1>2, <1>3
<1>5. delivered' = delivered \o [i \in 1..k |-> Len(delivered) + i - 1]
  BY <1>1, <1>2, <1>3, ConcatNext
<1> QED
  BY <1>4, <1>5 DEF Fifo!Deliver, open

\* Every step is a step of the FIFO channel, or a stutter there.
LEMMA NextFifo ==
  ASSUME IInv, IInv', [Next]_vars
  PROVE  [Fifo!Next]_(Fifo!vars)
<1> USE StreamAssumption
<1> DEFINE Quiet == UNCHANGED <<queued, delivered, sender, receiver>>
<1>1. Quiet => UNCHANGED Fifo!vars
  BY DEF Fifo!vars, open
<1>2. ASSUME NEW k \in 1..MaxFragments, QueuePacket(k)
      PROVE  Fifo!Offer
  BY <1>2 DEF QueuePacket, receiverVars, IInv, TypeOK, Fifo!Offer, open
<1>3. CASE \/ ProcessResend
           \/ \E n \in Ordinals : RecvAck(n)
           \/ \E n \in Ordinals : RecvOutOfOrderAck(n)
           \/ Lose
  BY <1>1, <1>3 DEF ProcessResend, RecvAck, RecvOutOfOrderAck, Lose,
                    senderVars, receiverVars
<1>4. CASE \/ \E n \in Ordinals : RecvFuture(n)
           \/ \E n \in Ordinals : RecvPast(n)
  BY <1>1, <1>4 DEF RecvFuture, RecvPast, senderVars, receiverVars
<1>5. ASSUME NEW n \in Ordinals, RecvCurrent(n)
      PROVE  Fifo!Deliver
  <2>1. accepted' > accepted
    BY <1>5 DEF RecvCurrent, IInv, TypeOK
  <2> QED
    BY <2>1, <1>5, AcceptingDelivers DEF RecvCurrent, senderVars
<1>6. CASE ProcessQueue
  <2>1. accepted' >= accepted /\ accepted' \in Nat /\ accepted \in Nat
    BY <1>6, SequenceAssumption DEF ProcessQueue, IInv, TypeOK
  <2>2. UNCHANGED <<queued, sender, receiver>>
    BY <1>6 DEF ProcessQueue, senderVars
  <2>3. CASE accepted' > accepted
    BY <2>2, <2>3, AcceptingDelivers DEF Fifo!Next
  <2>4. CASE accepted' = accepted
    <3>1. delivered' = delivered
      BY <2>4 DEF IInv, InOrder
    <3> QED
      BY <3>1, <2>2, <1>1
  <2> QED
    BY <2>1, <2>3, <2>4
<1>7. CASE CloseSender \/ CloseReceiver
  <2>1. UNCHANGED <<queued, delivered>> /\ (open' => open)
    BY <1>7 DEF CloseSender, CloseReceiver, receiverVars, senderVars, open
  <2>2. CASE open = open'
    BY <2>1, <2>2 DEF Fifo!vars
  <2>3. CASE open # open'
    BY <2>1, <2>3 DEF Fifo!Next, Fifo!Shut, open
  <2> QED
    BY <2>2, <2>3
<1>8. CASE UNCHANGED vars
  BY <1>1, <1>8 DEF vars, senderVars, receiverVars
<1> QED
  BY <1>2, <1>3, <1>4, <1>5, <1>6, <1>7, <1>8 DEF Next, Fifo!Next

\* The reliable stream implements the FIFO channel.
THEOREM StreamIsFifo == Spec => FifoSafety
<1>1. Init => Fifo!Init
  BY DEF Init, Fifo!Init, open
<1>2. IInv /\ IInv' /\ [Next]_vars => [Fifo!Next]_(Fifo!vars)
  BY NextFifo
<1> QED
  BY <1>1, <1>2, Invariance, PTL DEF Spec, FifoSafety, Fifo!Safety

-----------------------------------------------------------------------------
(* Sessions.                                                               *)

\* The inductive invariant: the registry holds what the manager drives.
SessionInv == SessionTypeOK /\ ManagedHasStream

\* SessionInit establishes the invariant.
LEMMA SessionInitInv == SessionInit => SessionInv
<1> SUFFICES ASSUME SessionInit PROVE SessionInv
  OBVIOUS
<1>1. session \in Seq(Connection) /\ Len(session) = 0
  BY EmptySeq DEF SessionInit
<1> QED
  BY <1>1, SessionAssumption DEF SessionInit, SessionInv, SessionTypeOK, ManagedHasStream, None, Objects

\* What a datagram, a time-out or the owner may do to one connection.
MayBecome(s, t) ==
  /\ t \in Connection
  /\ t.endpoint = s.endpoint
  /\ s.status # "Connected" => t.status # "Connected"
  /\ s.status # "Disconnected" => t.status # "Disconnected"

\* A step that does no more than that to one connection is harmless.
LEMMA OneConnection ==
  ASSUME SessionInv, NEW o \in Objects, NEW t, MayBecome(session[o], t),
         session' = [session EXCEPT ![o] = t], UNCHANGED <<managed, streams>>
  PROVE  SessionInv' /\ NeverReopens
<1> USE DEF Objects
<1>1. session \in Seq(Connection) /\ o \in 1..Len(session) /\ t \in Connection
  BY DEF SessionInv, SessionTypeOK, MayBecome
<1>2. /\ session' \in Seq(Connection)
      /\ Len(session') = Len(session)
      /\ \A j \in Objects : session'[j] = IF j = o THEN t ELSE session[j]
  BY <1>1, ExceptSeq
<1>3. SessionTypeOK'
  BY <1>2 DEF SessionInv, SessionTypeOK
<1>4. ManagedHasStream'
  BY <1>2 DEF SessionInv, SessionTypeOK, ManagedHasStream, MayBecome, None
<1>5. NeverReopens
  BY <1>2 DEF NeverReopens, MayBecome, Managed
<1> QED
  BY <1>3, <1>4, <1>5 DEF SessionInv

\* The operators on one connection do no more than they may.
LEMMA HeardMayBecome ==
  ASSUME NEW s \in Connection PROVE MayBecome(s, Heard(s))
  BY SessionAssumption DEF MayBecome, Connection, Heard

\* Close does no more either, in whatever status it finds the connection.
LEMMA ClosedMayBecome ==
  ASSUME NEW s \in Connection PROVE MayBecome(s, Closed(s))
<1>1. CASE s.status = "Disconnecting"
  BY <1>1 DEF MayBecome, Closed
<1>2. CASE s.status # "Disconnecting"
  <2> DEFINE t == [s EXCEPT !.status = "Disconnecting", !.closing = 0]
  <2>1. t \in Connection
    <3>1. 0 \in 0..(CloseTicks + 1)
      BY SessionAssumption
    <3> QED
      BY <3>1 DEF Connection
  <2>2. t.endpoint = s.endpoint /\ t.status = "Disconnecting"
    BY DEF Connection
  <2> QED
    BY <1>2, <2>1, <2>2 DEF MayBecome, Closed
<1> QED
  BY <1>1, <1>2

\* The connection at a managed endpoint.
LEMMA ManagedObject ==
  ASSUME SessionInv, NEW e \in Endpoints, managed[e] # None
  PROVE  managed[e] \in Objects /\ session[managed[e]] \in Connection
<1>1. managed[e] \in Objects
  BY DEF SessionInv, SessionTypeOK, None, Objects
<1> QED
  BY <1>1, ElementOfSeq DEF SessionInv, SessionTypeOK, Objects

\* A new connection takes the endpoint that had none.
LEMMA NewConnectionStep ==
  ASSUME SessionInv, NEW e \in Endpoints, NEW c \in Codes,
         managed[e] = None, Len(session) < MaxSessions,
         session' = Append(session, NewSession(e, c)),
         managed' = [managed EXCEPT ![e] = Len(session) + 1],
         streams' = streams \union {Len(session) + 1}
  PROVE  SessionInv' /\ NeverReopens
<1> DEFINE new == Len(session) + 1
<1>1. NewSession(e, c) \in Connection
  BY SessionAssumption DEF NewSession, Connection, Never
<1>2. session \in Seq(Connection) /\ Len(session) \in Nat
  BY LenProperties DEF SessionInv, SessionTypeOK
<1>3. /\ session' \in Seq(Connection)
      /\ Len(session') = new
      /\ \A o \in Objects : session'[o] = session[o]
      /\ session'[new] = NewSession(e, c)
  BY <1>1, <1>2 DEF Objects
<1>4. managed \in [Endpoints -> 0..Len(session)] /\ streams \subseteq Objects
  BY DEF SessionInv, SessionTypeOK, None
<1>5. SessionTypeOK'
  <2>1. new <= MaxSessions
    BY <1>2, SessionAssumption
  <2>2. managed' \in [Endpoints -> 0..new]
    BY <1>2, <1>4
  <2>3. streams' \subseteq 1..new
    <3> SUFFICES ASSUME NEW o \in streams' PROVE o \in 1..new
      OBVIOUS
    <3>1. o \in streams \/ o = new
      OBVIOUS
    <3> QED
      BY <3>1, <1>2, <1>4 DEF Objects
  <2> QED
    BY <1>3, <2>1, <2>2, <2>3, Zenon DEF SessionTypeOK, Objects, None
<1>6. ManagedHasStream'
  <2> SUFFICES ASSUME NEW f \in Endpoints, managed'[f] # None
               PROVE  /\ session'[managed'[f]].endpoint = f
                      /\ session'[managed'[f]].status # "Disconnected"
                      /\ managed'[f] \in streams'
    BY DEF ManagedHasStream, None
  <2>1. CASE f = e
    BY <2>1, <1>3, <1>4 DEF NewSession
  <2>2. CASE f # e
    <3>1. managed'[f] = managed[f] /\ managed[f] \in Objects
      BY <2>2, <1>2, <1>4 DEF Objects, None
    <3>2. session'[managed[f]] = session[managed[f]]
      BY <3>1, <1>3
    <3>3. /\ session[managed[f]].endpoint = f
          /\ session[managed[f]].status # "Disconnected"
          /\ managed[f] \in streams
      BY <3>1 DEF SessionInv, ManagedHasStream
    <3>4. managed[f] \in streams'
      BY <3>3
    <3> QED
      BY <3>1, <3>2, <3>3, <3>4, Zenon
  <2> QED
    BY <2>1, <2>2
<1>7. NeverReopens
  <2> SUFFICES ASSUME NEW o \in Objects
               PROVE  /\ session'[o] = session[o]
                      /\ o \notin Managed => o \notin Managed'
    BY DEF NeverReopens
  <2>1. session'[o] = session[o] /\ session[o].endpoint \in Endpoints
    <3>1. session[o] \in Connection
      BY <1>2, ElementOfSeq DEF Objects
    <3> QED
      BY <3>1, <1>3 DEF Connection
  <2>2. o # new
    BY <1>2 DEF Objects
  <2> QED
    BY <1>4, <2>1, <2>2 DEF Managed
<1> QED
  BY <1>5, <1>6, <1>7 DEF SessionInv

\* A run of the timer: ages grow to their caps, nobody is Connected again,
\* and whoever ends Disconnected has left the manager.
LEMMA ProcessedConnection ==
  ASSUME NEW s \in Connection
  PROVE  /\ Aged(s) \in Connection
         /\ Aged(s).endpoint = s.endpoint /\ Aged(s).status = s.status
         /\ Processed(Aged(s)) \in Connection
         /\ Processed(Aged(s)).endpoint = s.endpoint
         /\ s.status # "Connected" => Processed(Aged(s)).status # "Connected"
         /\ ~CloseDone(Aged(s)) /\ s.status # "Disconnected"
              => Processed(Aged(s)).status # "Disconnected"
<1>1. /\ Aged(s) \in Connection
      /\ Aged(s).endpoint = s.endpoint /\ Aged(s).status = s.status
  <2>1. /\ Capped(s.quiet, StaleTicks) \in 0..(StaleTicks + 1)
        /\ Capped(s.closing, CloseTicks) \in 0..(CloseTicks + 1)
        /\ Capped(s.unacked, ResendTicks) \in Never..(ResendTicks + 1)
    BY SessionAssumption DEF Capped, Connection, Never
  <2> QED
    BY <2>1 DEF Aged, Connection
<1> DEFINE a == Aged(s)
<1> HIDE DEF a
<1>2. a \in Connection /\ a.endpoint = s.endpoint /\ a.status = s.status
  BY <1>1 DEF a
<1>3. MayBecome(a, Closed(a))
  BY <1>2, ClosedMayBecome
<1>4. Processed(a) \in Connection /\ Processed(a).endpoint = a.endpoint
  BY <1>2, <1>3 DEF Processed, ResendProcessed, MayBecome, Connection
<1>5. a.status # "Connected" => Processed(a).status # "Connected"
  BY <1>2, <1>3 DEF Processed, ResendProcessed, MayBecome, Connection
<1>6. ~CloseDone(a) /\ a.status # "Disconnected"
        => Processed(a).status # "Disconnected"
  BY <1>2, <1>3 DEF Processed, ResendProcessed, MayBecome, Connection
<1> QED
  BY <1>1, <1>2, <1>4, <1>5, <1>6 DEF a

\* The timer takes out of the registry only what it takes out of the manager.
LEMMA TickStep ==
  ASSUME SessionInv, Tick
  PROVE  SessionInv' /\ NeverReopens
<1> DEFINE aged == [o \in Objects |->
                      IF o \in Managed THEN Aged(session[o]) ELSE session[o]]
           done == {o \in Managed : CloseDone(aged[o])}
           gone == done \union {o \in Managed : Stale(aged[o])}
<1>1. /\ session' = [o \in Objects |->
                       IF o \in Managed THEN Processed(aged[o])
                       ELSE session[o]]
      /\ managed' = [e \in Endpoints |->
                       IF managed[e] \in gone THEN None ELSE managed[e]]
      /\ streams' = streams \ done
  BY DEF Tick, Unregistered
<1>2. /\ session \in Seq(Connection) /\ Len(session) \in Nat
      /\ \A o \in Objects : session[o] \in Connection
  BY LenProperties, ElementOfSeq DEF SessionInv, SessionTypeOK, Objects
<1>3. \A o \in Managed : o \in Objects /\ aged[o] = Aged(session[o])
  BY DEF Managed
<1>4. \A o \in Objects :
        /\ session'[o] = IF o \in Managed THEN Processed(Aged(session[o]))
                         ELSE session[o]
        /\ session'[o] \in Connection
        /\ session'[o].endpoint = session[o].endpoint
  BY <1>1, <1>2, <1>3, ProcessedConnection
<1>5. session' \in Seq(Connection) /\ Len(session') = Len(session)
  <2>1. session' \in [1..Len(session) -> Connection]
    BY <1>1, <1>4 DEF Objects
  <2> QED
    BY <2>1, <1>2, SeqDef
<1>6. /\ managed \in [Endpoints -> 0..Len(session)]
      /\ managed' \in [Endpoints -> 0..Len(session)]
      /\ streams \subseteq Objects
  BY <1>1, <1>2 DEF SessionInv, SessionTypeOK, None
<1>7. SessionTypeOK'
  BY <1>1, <1>5, <1>6 DEF SessionInv, SessionTypeOK, Objects, None
<1>8. ManagedHasStream'
  <2> SUFFICES ASSUME NEW e \in Endpoints, managed'[e] # None
               PROVE  /\ session'[managed'[e]].endpoint = e
                      /\ session'[managed'[e]].status # "Disconnected"
                      /\ managed'[e] \in streams'
    BY DEF ManagedHasStream, None
  <2> DEFINE o == managed[e]
  <2>1. managed'[e] = o /\ o \notin gone /\ o # None
    BY <1>1
  <2>2. /\ session[o].endpoint = e
        /\ session[o].status # "Disconnected"
        /\ o \in streams
    BY <2>1 DEF SessionInv, ManagedHasStream
  <2>3. o \in Objects /\ o \in Managed
    BY <2>1, <2>2, <1>2, <1>6 DEF Managed, Objects, None
  <2>4. ~CloseDone(Aged(session[o]))
    BY <2>1, <2>3, <1>3
  <2>5. session'[o].status # "Disconnected"
    BY <2>2, <2>3, <2>4, <1>2, <1>4, ProcessedConnection
  <2> QED
    BY <2>1, <2>2, <2>3, <2>5, <1>1, <1>4
<1>9. NeverReopens
  <2> SUFFICES ASSUME NEW o \in Objects
               PROVE  /\ session[o].status # "Connected"
                           => session'[o].status # "Connected"
                      /\ o \notin Managed => o \notin Managed'
    BY DEF NeverReopens
  <2>1. session[o].status # "Connected" => session'[o].status # "Connected"
    BY <1>2, <1>4, ProcessedConnection
  <2>2. o # None /\ session[o].endpoint \in Endpoints
    BY <1>2 DEF Objects, None, Connection
  <2>3. o \notin Managed => o \notin Managed'
    BY <2>2, <1>1, <1>4 DEF Managed
  <2> QED
    BY <2>1, <2>3
<1> QED
  BY <1>7, <1>8, <1>9 DEF SessionInv

\* Every step keeps the invariant and reopens nothing.
LEMMA SessionNextInv ==
  ASSUME SessionInv, [SessionNext]_sessionVars
  PROVE  SessionInv' /\ [NeverReopens]_sessionVars
<1>1. ASSUME NEW e \in Endpoints, NEW c \in Codes, RecvRequest(e, c)
      PROVE  SessionInv' /\ NeverReopens
  <2>1. CASE managed[e] = None
    BY <1>1, <2>1, NewConnectionStep DEF RecvRequest
  <2>2. CASE managed[e] # None
    <3>1. session[managed[e]] \in Connection /\ managed[e] \in Objects
      BY <2>2, ManagedObject
    <3>2. MayBecome(session[managed[e]], Heard(session[managed[e]]))
      BY <3>1, HeardMayBecome
    <3>3. /\ session' = [session EXCEPT ![managed[e]] =
                           Heard(session[managed[e]])]
          /\ UNCHANGED <<managed, streams>>
      BY <1>1, <2>2 DEF RecvRequest, Requested
    <3> QED
      BY <3>1, <3>2, <3>3, OneConnection
  <2> QED
    BY <2>1, <2>2
<1>2. ASSUME NEW e \in Endpoints, RecvOther(e)
      PROVE  SessionInv' /\ NeverReopens
  <2>1. session[managed[e]] \in Connection /\ managed[e] \in Objects
    BY <1>2, ManagedObject DEF RecvOther
  <2>2. MayBecome(session[managed[e]], Heard(session[managed[e]]))
    BY <2>1, HeardMayBecome
  <2> QED
    BY <1>2, <2>1, <2>2, OneConnection DEF RecvOther
<1>3. ASSUME NEW e \in Endpoints, RecvAckFrom(e)
      PROVE  SessionInv' /\ NeverReopens
  <2> DEFINE s == session[managed[e]]
  <2>1. s \in Connection /\ managed[e] \in Objects
    BY <1>3, ManagedObject DEF RecvAckFrom
  <2>2. PICK age \in Never..s.unacked :
          session' = [session EXCEPT ![managed[e]] =
                        [Heard(s) EXCEPT !.unacked = age]]
    BY <1>3 DEF RecvAckFrom
  <2>3. Heard(s) \in Connection /\ MayBecome(s, Heard(s))
    BY <2>1, HeardMayBecome DEF MayBecome
  <2>4. age \in Never..(ResendTicks + 1)
    BY <2>1, SessionAssumption DEF Connection, Never
  <2>5. MayBecome(s, [Heard(s) EXCEPT !.unacked = age])
    BY <2>3, <2>4 DEF MayBecome, Connection
  <2> QED
    BY <1>3, <2>1, <2>2, <2>5, OneConnection DEF RecvAckFrom
<1>4. ASSUME NEW e \in Endpoints, RecvDisconnect(e)
      PROVE  SessionInv' /\ NeverReopens
  <2> DEFINE s == session[managed[e]]
             t == [Heard(s) EXCEPT !.status = "Disconnecting"]
  <2>1. s \in Connection /\ managed[e] \in Objects
    BY <1>4, ManagedObject DEF RecvDisconnect
  <2>2. MayBecome(s, t)
    <3>1. Heard(s) \in Connection /\ MayBecome(s, Heard(s))
      BY <2>1, HeardMayBecome DEF MayBecome
    <3> QED
      BY <3>1 DEF MayBecome, Connection
  <2>3. session' = [session EXCEPT ![managed[e]] = t]
    BY <1>4 DEF RecvDisconnect
  <2> QED
    BY <1>4, <2>1, <2>2, <2>3, OneConnection DEF RecvDisconnect
<1>5. ASSUME NEW o \in Objects, AppQueue(o)
      PROVE  SessionInv' /\ NeverReopens
  <2> DEFINE t == [session[o] EXCEPT !.unacked = 0]
  <2>1. session[o] \in Connection
    BY ElementOfSeq DEF SessionInv, SessionTypeOK, Objects
  <2>2. MayBecome(session[o], t)
    BY <2>1, SessionAssumption DEF MayBecome, Connection, Never
  <2>3. session' = [session EXCEPT ![o] = t]
    BY <1>5 DEF AppQueue
  <2> QED
    BY <1>5, <2>2, <2>3, OneConnection DEF AppQueue
<1>6. ASSUME NEW o \in Objects, AppClose(o)
      PROVE  SessionInv' /\ NeverReopens
  <2>1. session[o] \in Connection
    BY ElementOfSeq DEF SessionInv, SessionTypeOK, Objects
  <2>2. MayBecome(session[o], Closed(session[o]))
    BY <2>1, ClosedMayBecome
  <2> QED
    BY <1>6, <2>2, OneConnection DEF AppClose
<1>7. CASE Tick
  BY <1>7, TickStep
<1>8. CASE UNCHANGED sessionVars
  BY <1>8 DEF sessionVars, SessionInv, SessionTypeOK, ManagedHasStream, Objects
<1> QED
  BY <1>1, <1>2, <1>3, <1>4, <1>5, <1>6, <1>7, <1>8 DEF SessionNext

\* The types and bounds of SessionTypeOK, for every constant.
THEOREM SessionTypes == SessionSpec => []SessionTypeOK
<1>1. SessionInv => SessionTypeOK
  BY DEF SessionInv
<1> QED
  BY <1>1, SessionInitInv, SessionNextInv, PTL DEF SessionSpec

\* What m_connections holds is registered in m_streams and not Disconnected.
THEOREM SessionManagedHasStream == SessionSpec => []ManagedHasStream
<1>1. SessionInv => ManagedHasStream
  BY DEF SessionInv
<1> QED
  BY <1>1, SessionInitInv, SessionNextInv, PTL DEF SessionSpec

\* No datagram, owner or timer brings a closing or dropped session back.
THEOREM SessionClosingIsFinal == SessionSpec => ClosingIsFinal
  BY SessionInitInv, SessionNextInv, PTL DEF SessionSpec, ClosingIsFinal
=============================================================================
