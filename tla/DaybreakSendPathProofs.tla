----------------------- MODULE DaybreakSendPathProofs -----------------------
(***************************************************************************)
(* What happens to a message on its way out: cutting and reassembly are    *)
(* right for every packet size, every number of messages and every length, *)
(* and packets leave in order, in datagrams that fit, for all sizes and    *)
(* rates.                                                                  *)
(***************************************************************************)
EXTENDS DaybreakFragments, DaybreakBuffer, SequenceLemmas

(* Cutting and reassembly.                                                 *)

Packets == [message : Nat, from : Nat, size : Nat, header : Nat, total : Nat]
Payloads == [message : Nat, from : Nat, size : Nat]

TypeOK ==
  /\ lengths \in Seq(1..MaxLength)
  /\ channel \in Seq(Packets)
  /\ total \in Nat /\ current \in Nat
  /\ assembly \in Seq(Payloads)
  /\ delivered \in Seq(Seq(Payloads))

End(p) == p.from + p.size

\* p is one of the packets a message of this length is cut into.
IsPiece(p, length) ==
  \/ /\ length <= MaxRaw
     /\ p.from = 0 /\ p.size = length
     /\ p.header = ReliableHeader /\ p.total = 0
  \/ /\ length > MaxRaw
     /\ p.from = 0 /\ p.size = FirstRaw
     /\ p.header = FragmentHeader /\ p.total = length
  \/ /\ length > MaxRaw
     /\ p.from > 0 /\ p.from < length /\ p.size = Least(MaxRaw, length - p.from)
     /\ p.header = ReliableHeader /\ p.total = 0

\* q is what comes after p: the next bytes, or the next message.
Follows(p, q, length) ==
  IF End(p) < length THEN q.message = p.message /\ q.from = End(p)
                     ELSE q.message = p.message + 1 /\ q.from = 0

\* The channel holds a part of the messages up to the last one queued.
ChannelFits(packets, sizes) ==
  /\ \A i \in 1..Len(packets) :
       /\ packets[i].message \in 1..Len(sizes)
       /\ IsPiece(packets[i], sizes[packets[i].message])
       /\ i < Len(packets) =>
            Follows(packets[i], packets[i + 1], sizes[packets[i].message])
       /\ i = Len(packets) =>
            /\ packets[i].message = Len(sizes)
            /\ End(packets[i]) = sizes[Len(sizes)]

\* parts are the bytes of message m from the first one to end.
Chain(parts, m, end) ==
  /\ Len(parts) >= 1
  /\ \A i \in 1..Len(parts) :
       /\ parts[i].message = m
       /\ parts[i].from = IF i = 1 THEN 0 ELSE End(parts[i - 1])
  /\ End(parts[Len(parts)]) = end

Done == Len(delivered)

\* The next packet goes on where the receiver stands.
ReceiverFits ==
  /\ channel # <<>> => channel[1].message = Done + 1 /\ channel[1].from = current
  /\ channel = <<>> => assembly = <<>> /\ Done = Len(lengths)
  /\ assembly = <<>> => total = 0 /\ current = 0
  /\ assembly # <<>> =>
       /\ Done + 1 \in 1..Len(lengths)
       /\ total = lengths[Done + 1] /\ 0 < current /\ current < total
       /\ Chain(assembly, Done + 1, current)

DeliveredFits ==
  \A m \in 1..Done : m <= Len(lengths) /\ Chain(delivered[m], m, lengths[m])

\* The inductive invariant.
IInv == /\ TypeOK
        /\ ChannelFits(channel, lengths)
        /\ ReceiverFits
        /\ DeliveredFits

-----------------------------------------------------------------------------
(* Cutting.                                                                *)

\* Multiples of a number are in the order of their factors.
LEMMA TimesMonotone ==
  ASSUME NEW a \in Int, NEW b \in Int, NEW r \in Nat, a <= b
  PROVE  a * r <= b * r
<1>1. (b - a) * r >= 0
  OBVIOUS
<1>2. (b - a) * r = b * r - a * r
  OBVIOUS
<1> QED
  BY <1>1, <1>2

\* Rounding up: the multiples of r below n are those of the factors below k.
LEMMA RoundUp ==
  ASSUME NEW n \in Nat, NEW r \in Nat, r > 0, n > 0
  PROVE  LET k == (n + r - 1) \div r
         IN  k \in Nat /\ k >= 1 /\ k * r >= n /\ (k - 1) * r < n
<1> DEFINE k == (n + r - 1) \div r
<1>1. k \in Int /\ k * r <= n + r - 1 /\ n + r - 1 < (k + 1) * r
  OBVIOUS
<1>2. (k + 1) * r = k * r + r /\ (k - 1) * r = k * r - r
  BY <1>1
<1>3. k * r >= n /\ (k - 1) * r < n
  BY <1>1, <1>2
<1>4. k >= 1
  <2>1. ASSUME k <= 0 PROVE FALSE
    <3>1. k * r <= 0 * r
      BY <1>1, <2>1, TimesMonotone
    <3> QED
      BY <1>3, <3>1
  <2> QED
    BY <1>1, <2>1
<1> QED
  BY <1>1, <1>3, <1>4

\* The sizes of the pieces.
LEMMA Sizes ==
  /\ FirstRaw \in Nat /\ FirstRaw >= 1 /\ MaxRaw \in Nat /\ MaxRaw > FirstRaw
  /\ ReliableHeader = 4 /\ FragmentHeader = 8 /\ CompressFlag = 1
  BY FragmentAssumption DEF FirstRaw, MaxRaw, ReliableHeader, FragmentHeader,
     CompressFlag

\* The fragments after the first are pieces, each begins where the one before it
\* ends, and the last one ends with the message.
LEMMA LaterFits ==
  ASSUME NEW m \in Nat, NEW length \in Nat, length > MaxRaw
  PROVE  LET later == LaterFragments(m, length)
         IN  /\ later \in Seq(Packets) /\ Len(later) >= 1
             /\ later[1].from = FirstRaw
             /\ \A i \in 1..Len(later) :
                  /\ later[i].message = m /\ IsPiece(later[i], length)
                  /\ i < Len(later) => /\ End(later[i]) < length
                                       /\ later[i + 1].from = End(later[i])
                  /\ i = Len(later) => End(later[i]) = length
<1> DEFINE k == (length - FirstRaw + MaxRaw - 1) \div MaxRaw
           Start(i) == FirstRaw + (i - 1) * MaxRaw
           Later(i) == Packet(m, Start(i), Least(MaxRaw, length - Start(i)),
                              ReliableHeader, 0)
           later == [i \in 1..k |-> Later(i)]
<1>1. length - FirstRaw \in Nat /\ length - FirstRaw > 0 /\ MaxRaw > 0
  BY Sizes
<1>2. /\ k \in Nat /\ k >= 1
      /\ k * MaxRaw >= length - FirstRaw /\ (k - 1) * MaxRaw < length - FirstRaw
  BY <1>1, Sizes, RoundUp
<1>3. LaterFragments(m, length) = later
  BY DEF LaterFragments
<1>4. ASSUME NEW i \in 1..k
      PROVE  /\ Start(i) \in Nat /\ Start(i) > 0 /\ Start(i) < length
             /\ i < k => Start(i + 1) = Start(i) + MaxRaw /\ Start(i + 1) < length
             /\ i = k => Start(i) + MaxRaw >= length
  <2>1. (i - 1) * MaxRaw >= 0 /\ (i - 1) * MaxRaw \in Int
    <3>1. 0 * MaxRaw <= (i - 1) * MaxRaw
      BY Sizes, TimesMonotone
    <3> QED
      BY Sizes, <3>1
  <2>2. (i - 1) * MaxRaw <= (k - 1) * MaxRaw
    BY <1>2, Sizes, TimesMonotone
  <2>3. Start(i) \in Nat /\ Start(i) > 0 /\ Start(i) < length
    BY <1>2, <2>1, <2>2, Sizes
  <2>4. ASSUME i < k
        PROVE  Start(i + 1) = Start(i) + MaxRaw /\ Start(i + 1) < length
    <3>1. i * MaxRaw <= (k - 1) * MaxRaw
      BY <1>2, <2>4, Sizes, TimesMonotone
    <3>2. i * MaxRaw = (i - 1) * MaxRaw + MaxRaw /\ i * MaxRaw \in Int
      BY Sizes
    <3>3. Start(i + 1) = FirstRaw + i * MaxRaw
      BY Sizes
    <3> QED
      BY <1>2, <2>1, <3>1, <3>2, <3>3, Sizes
  <2>5. ASSUME i = k PROVE Start(i) + MaxRaw >= length
    <3>1. k * MaxRaw = (k - 1) * MaxRaw + MaxRaw
      BY <1>2, Sizes
    <3> QED
      BY <1>2, <2>1, <2>5, <3>1, Sizes
  <2> QED
    BY <2>3, <2>4, <2>5
<1>5. ASSUME NEW i \in 1..k
      PROVE  /\ Later(i) \in Packets /\ Later(i).message = m
             /\ Later(i).from = Start(i) /\ IsPiece(Later(i), length)
             /\ i < k => End(Later(i)) = Start(i + 1)
             /\ i = k => End(Later(i)) = length
  <2> DEFINE f == Start(i)
  <2>1. f \in Nat /\ f > 0 /\ f < length
        /\ (i < k => f + MaxRaw < length /\ Start(i + 1) = f + MaxRaw)
        /\ (i = k => f + MaxRaw >= length)
    BY <1>4
  <2>2. Least(MaxRaw, length - f) \in Nat
    BY <2>1, Sizes DEF Least
  <2> HIDE DEF f
  <2> DEFINE p == Packet(m, f, Least(MaxRaw, length - f), ReliableHeader, 0)
  <2>3. /\ p \in Packets /\ p.message = m /\ p.from = f
        /\ p.size = Least(MaxRaw, length - f)
        /\ p.header = ReliableHeader /\ p.total = 0
    BY <2>1, <2>2, Sizes DEF Packet, Packets
  <2>4. p = Later(i)
    BY DEF f
  <2> HIDE DEF p
  <2>5. IsPiece(p, length)
    BY <2>1, <2>3 DEF IsPiece
  <2>6. (i < k => End(p) = Start(i + 1)) /\ (i = k => End(p) = length)
    BY <2>1, <2>3, Sizes DEF End, Least
  <2> QED
    BY <2>3, <2>4, <2>5, <2>6 DEF f
<1> HIDE DEF k
<1>6. later \in Seq(Packets) /\ Len(later) = k
      /\ \A i \in 1..k : later[i] = Later(i)
  BY <1>2, <1>5
<1>7. later[1].from = FirstRaw
  <2>1. later[1] = Later(1) /\ 1 \in 1..k
    BY <1>2, <1>6
  <2>2. Start(1) = FirstRaw
    BY Sizes
  <2> QED
    BY <1>5, <2>1, <2>2
<1>8. ASSUME NEW i \in 1..k
      PROVE  /\ later[i].message = m /\ IsPiece(later[i], length)
             /\ i < k => /\ End(later[i]) < length
                         /\ later[i + 1].from = End(later[i])
             /\ i = k => End(later[i]) = length
  <2>1. later[i] = Later(i)
    BY <1>6
  <2>2. ASSUME i < k PROVE later[i + 1].from = Start(i + 1) /\ Start(i + 1) < length
    <3>1. i + 1 \in 1..k
      BY <1>2, <2>2
    <3> QED
      BY <1>4, <1>5, <1>6, <2>2, <3>1
  <2> QED
    BY <1>5, <2>1, <2>2
<1> QED
  BY <1>2, <1>3, <1>6, <1>7, <1>8

\* What is said of a message's packets.
CutFits(packets, m, length) ==
  /\ packets \in Seq(Packets) /\ Len(packets) >= 1
  /\ packets[1].from = 0
  /\ \A i \in 1..Len(packets) :
       /\ packets[i].message = m /\ IsPiece(packets[i], length)
       /\ i < Len(packets) => /\ End(packets[i]) < length
                              /\ packets[i + 1].from = End(packets[i])
       /\ i = Len(packets) => End(packets[i]) = length

\* One sequence after the other.
LEMMA OneBehindOther ==
  ASSUME NEW S, NEW s \in Seq(S), NEW t \in Seq(S)
  PROVE  /\ s \o t \in Seq(S) /\ Len(s \o t) = Len(s) + Len(t)
         /\ Len(s) \in Nat /\ Len(t) \in Nat
         /\ \A i \in 1..Len(s) : (s \o t)[i] = s[i]
         /\ \A i \in (Len(s) + 1)..Len(s \o t) :
              i - Len(s) \in 1..Len(t) /\ (s \o t)[i] = t[i - Len(s)]
  OBVIOUS

\* InternalQueuePacket cuts a message into pieces that follow each other.
LEMMA CutIsFit ==
  ASSUME NEW m \in Nat, NEW length \in Nat, length >= 1
  PROVE  CutFits(Cut(m, length), m, length)
<1>1. CASE length <= MaxRaw
  <2> DEFINE p == Packet(m, 0, length, ReliableHeader, 0)
  <2>1. /\ p \in Packets /\ p.message = m /\ p.from = 0 /\ p.size = length
        /\ p.header = ReliableHeader /\ p.total = 0
    BY Sizes DEF Packet, Packets
  <2>2. Cut(m, length) = <<p>>
    BY <1>1, Sizes DEF Cut
  <2> HIDE DEF p
  <2>3. IsPiece(p, length) /\ End(p) = length
    BY <1>1, <2>1 DEF IsPiece, End
  <2> QED
    BY <2>1, <2>2, <2>3 DEF CutFits
<1>2. CASE length > MaxRaw
  <2> DEFINE p == Packet(m, 0, FirstRaw, FragmentHeader, length)
             later == LaterFragments(m, length)
             cut == <<p>> \o later
  <2>1. /\ p \in Packets /\ p.message = m /\ p.from = 0 /\ p.size = FirstRaw
        /\ p.header = FragmentHeader /\ p.total = length
    BY Sizes DEF Packet, Packets
  <2>2. Cut(m, length) = cut
    BY <1>2 DEF Cut
  <2> HIDE DEF p
  <2>3. IsPiece(p, length) /\ End(p) = FirstRaw /\ End(p) < length
    BY <1>2, <2>1, Sizes DEF IsPiece, End
  <2>4. /\ later \in Seq(Packets) /\ Len(later) >= 1 /\ later[1].from = FirstRaw
        /\ \A i \in 1..Len(later) :
             /\ later[i].message = m /\ IsPiece(later[i], length)
             /\ i < Len(later) => /\ End(later[i]) < length
                                  /\ later[i + 1].from = End(later[i])
             /\ i = Len(later) => End(later[i]) = length
    BY <1>2, LaterFits
  <2> HIDE DEF later
  <2>5. <<p>> \in Seq(Packets) /\ Len(<<p>>) = 1 /\ <<p>>[1] = p
    BY <2>1
  <2>6. /\ cut \in Seq(Packets) /\ Len(cut) = 1 + Len(later) /\ Len(later) \in Nat
        /\ cut[1] = p
        /\ \A i \in 2..Len(cut) : i - 1 \in 1..Len(later) /\ cut[i] = later[i - 1]
    BY <2>4, <2>5, OneBehindOther
  <2> HIDE DEF cut
  <2>7. ASSUME NEW i \in 1..Len(cut)
        PROVE  /\ cut[i].message = m /\ IsPiece(cut[i], length)
               /\ i < Len(cut) => /\ End(cut[i]) < length
                                  /\ cut[i + 1].from = End(cut[i])
               /\ i = Len(cut) => End(cut[i]) = length
    <3>1. CASE i = 1
      <4>1. cut[i + 1] = later[1]
        BY <2>4, <2>6, <3>1
      <4> QED
        BY <2>1, <2>3, <2>4, <2>6, <3>1, <4>1
    <3>2. CASE i # 1
      <4>1. i - 1 \in 1..Len(later) /\ cut[i] = later[i - 1]
        BY <2>6, <3>2
      <4>2. ASSUME i < Len(cut) PROVE cut[i + 1] = later[(i - 1) + 1]
        BY <2>6, <4>2
      <4>3. (i < Len(cut) <=> i - 1 < Len(later)) /\ (i = Len(cut) <=> i - 1 = Len(later))
        BY <2>6, <4>1
      <4> QED
        BY <2>4, <4>1, <4>2, <4>3
    <3> QED
      BY <3>1, <3>2
  <2> QED
    BY <2>1, <2>2, <2>6, <2>7 DEF CutFits
<1> QED
  BY <1>1, <1>2, Sizes

-----------------------------------------------------------------------------
(* Steps.                                                                  *)

\* A message is queued.
LEMMA QueuePacketStep ==
  ASSUME IInv, NEW length \in 1..MaxLength, QueuePacket(length)
  PROVE  IInv'
<1> USE DEF IInv
<1> DEFINE n == Len(lengths)
           cut == Cut(n + 1, length)
<1>1. /\ lengths' = Append(lengths, length) /\ channel' = channel \o cut
      /\ UNCHANGED <<total, current, assembly, delivered>>
  BY DEF QueuePacket
<1>2. lengths \in Seq(1..MaxLength) /\ channel \in Seq(Packets)
  BY DEF TypeOK
<1>3. n \in Nat /\ length \in Nat /\ length >= 1
  BY <1>2, FragmentAssumption
<1>4. CutFits(cut, n + 1, length)
  BY <1>3, CutIsFit
<1> HIDE DEF cut
<1>5. cut \in Seq(Packets) /\ Len(cut) >= 1
  BY <1>4 DEF CutFits
<1>6. /\ channel' \in Seq(Packets) /\ Len(channel') = Len(channel) + Len(cut)
      /\ Len(channel) \in Nat /\ Len(cut) \in Nat
      /\ \A i \in 1..Len(channel) : channel'[i] = channel[i]
      /\ \A i \in (Len(channel) + 1)..Len(channel') :
           /\ i - Len(channel) \in 1..Len(cut)
           /\ channel'[i] = cut[i - Len(channel)]
  BY <1>1, <1>2, <1>5, OneBehindOther
<1>7. /\ lengths' \in Seq(1..MaxLength) /\ Len(lengths') = n + 1
      /\ lengths'[n + 1] = length /\ \A i \in 1..n : lengths'[i] = lengths[i]
  BY <1>1, <1>2
<1>8. TypeOK'
  BY <1>1, <1>6, <1>7 DEF TypeOK
<1>9. ChannelFits(channel, lengths)'
  <2> SUFFICES ASSUME NEW i \in 1..Len(channel')
               PROVE  /\ channel'[i].message \in 1..(n + 1)
                      /\ IsPiece(channel'[i], lengths'[channel'[i].message])
                      /\ i < Len(channel') =>
                           Follows(channel'[i], channel'[i + 1],
                                   lengths'[channel'[i].message])
                      /\ i = Len(channel') =>
                           /\ channel'[i].message = n + 1
                           /\ End(channel'[i]) = lengths'[n + 1]
    BY <1>7 DEF ChannelFits
  <2>1. CASE i <= Len(channel)
    <3>1. /\ i \in 1..Len(channel) /\ channel'[i] = channel[i]
          /\ channel[i].message \in 1..n
          /\ IsPiece(channel[i], lengths[channel[i].message])
          /\ lengths'[channel[i].message] = lengths[channel[i].message]
      BY <1>6, <1>7, <2>1 DEF ChannelFits
    <3>2. CASE i < Len(channel)
      <4>1. channel'[i + 1] = channel[i + 1]
        BY <1>6, <3>2
      <4>2. Follows(channel[i], channel[i + 1], lengths[channel[i].message])
        BY <3>1, <3>2 DEF ChannelFits
      <4>3. Follows(channel'[i], channel'[i + 1], lengths'[channel'[i].message])
        BY <3>1, <4>1, <4>2
      <4>4. i < Len(channel') /\ i # Len(channel')
        BY <1>5, <1>6, <3>2
      <4>5. channel'[i].message \in 1..(n + 1)
        BY <1>3, <3>1
      <4> QED
        BY <3>1, <4>3, <4>4, <4>5
    <3>3. CASE i = Len(channel)
      <4>1. channel[i].message = n /\ End(channel[i]) = lengths[n]
        BY <3>1, <3>3 DEF ChannelFits
      <4>2. channel'[i + 1] = cut[1]
        BY <1>5, <1>6, <3>3
      <4>3. cut[1].message = n + 1 /\ cut[1].from = 0
        BY <1>4, <1>5 DEF CutFits
      <4>4. lengths[n] \in Nat
        BY <1>2, <3>1, <4>1, FragmentAssumption
      <4>5. Follows(channel'[i], channel'[i + 1], lengths'[channel'[i].message])
        BY <3>1, <4>1, <4>2, <4>3, <4>4 DEF Follows
      <4> QED
        BY <1>3, <1>5, <1>6, <3>1, <3>3, <4>5
    <3> QED
      BY <2>1, <3>2, <3>3, <1>6
  <2>2. CASE i > Len(channel)
    <3> DEFINE j == i - Len(channel)
    <3>1. j \in 1..Len(cut) /\ channel'[i] = cut[j]
      BY <1>6, <2>2
    <3>2. /\ cut[j].message = n + 1 /\ IsPiece(cut[j], length)
          /\ j < Len(cut) => /\ End(cut[j]) < length
                             /\ cut[j + 1].from = End(cut[j])
                             /\ cut[j + 1].message = n + 1
          /\ j = Len(cut) => End(cut[j]) = length
      <4>1. j < Len(cut) => j + 1 \in 1..Len(cut)
        BY <1>6, <3>1
      <4>2. \A h \in 1..Len(cut) :
              /\ cut[h].message = n + 1 /\ IsPiece(cut[h], length)
              /\ h < Len(cut) => /\ End(cut[h]) < length
                                 /\ cut[h + 1].from = End(cut[h])
              /\ h = Len(cut) => End(cut[h]) = length
        BY <1>4 DEF CutFits
      <4> HIDE DEF j
      <4> QED
        BY <3>1, <4>1, <4>2
    <3>3. ASSUME i < Len(channel')
          PROVE  j < Len(cut) /\ channel'[i + 1] = cut[j + 1]
      <4>1. i + 1 \in (Len(channel) + 1)..Len(channel')
        BY <1>6, <2>2, <3>3
      <4>2. (i + 1) - Len(channel) = j + 1 /\ j + 1 \in 1..Len(cut)
        <5>1. (i + 1) - Len(channel) \in 1..Len(cut)
          BY <1>6, <4>1
        <5> QED
          BY <1>6, <5>1
      <4>3. channel'[i + 1] = cut[(i + 1) - Len(channel)]
        BY <1>6, <4>1
      <4> QED
        BY <1>6, <3>1, <4>2, <4>3
    <3>4. ASSUME i < Len(channel')
          PROVE  Follows(channel'[i], channel'[i + 1], lengths'[channel'[i].message])
      BY <1>7, <3>1, <3>2, <3>3, <3>4 DEF Follows
    <3>5. i = Len(channel') => j = Len(cut)
      BY <1>6
    <3> QED
      BY <1>3, <1>7, <3>1, <3>2, <3>4, <3>5
  <2> QED
    BY <1>6, <2>1, <2>2
<1>10. ReceiverFits'
  <2>1. channel' # <<>>
    BY <1>5, <1>6
  <2>2. channel'[1].message = Done' + 1 /\ channel'[1].from = current'
    <3>1. CASE channel = <<>>
      <4>1. channel'[1] = cut[1]
        BY <1>5, <1>6, <3>1
      <4>2. cut[1].message = n + 1 /\ cut[1].from = 0
        BY <1>4, <1>5 DEF CutFits
      <4>3. Done = n /\ current = 0
        BY <3>1 DEF ReceiverFits
      <4> QED
        BY <1>1, <4>1, <4>2, <4>3 DEF Done
    <3>2. CASE channel # <<>>
      <4>1. channel'[1] = channel[1]
        BY <1>2, <1>6, <3>2
      <4> QED
        BY <1>1, <3>2, <4>1 DEF ReceiverFits, Done
    <3> QED
      BY <3>1, <3>2
  <2>3. ASSUME assembly # <<>>
        PROVE  /\ Done' + 1 \in 1..Len(lengths')
               /\ total' = lengths'[Done' + 1] /\ 0 < current' /\ current' < total'
               /\ Chain(assembly, Done + 1, current)'
    BY <1>1, <1>3, <1>7, <2>3 DEF ReceiverFits, Done, Chain, End
  <2> QED
    BY <1>1, <2>1, <2>2, <2>3 DEF ReceiverFits, Done
<1>11. DeliveredFits'
  BY <1>1, <1>3, <1>7 DEF DeliveredFits, Done, TypeOK
<1> QED
  BY <1>8, <1>9, <1>10, <1>11

\* The receiver takes a packet: what it is, and what comes next.
LEMMA PacketTaken ==
  ASSUME IInv, channel # <<>>, channel' = Tail(channel), lengths' = lengths,
         NEW p, p = Head(channel), NEW length, length = lengths[p.message]
  PROVE  /\ p \in Packets /\ p.message = Done + 1 /\ p.from = current
         /\ p.message \in 1..Len(lengths) /\ length \in Nat /\ length >= 1
         /\ IsPiece(p, length) /\ End(p) <= length
         /\ channel' \in Seq(Packets) /\ ChannelFits(channel, lengths)'
         /\ End(p) < length =>
              /\ channel' # <<>>
              /\ channel'[1].message = p.message /\ channel'[1].from = End(p)
         /\ End(p) = length =>
              /\ channel' # <<>> =>
                   channel'[1].message = p.message + 1 /\ channel'[1].from = 0
              /\ channel' = <<>> => p.message = Len(lengths)
<1> USE DEF IInv
<1>1. lengths \in Seq(1..MaxLength) /\ channel \in Seq(Packets)
  BY DEF TypeOK
<1>2. /\ Len(channel) \in Nat /\ Len(channel) >= 1 /\ p = channel[1]
      /\ p \in Packets
      /\ channel' \in Seq(Packets) /\ Len(channel') = Len(channel) - 1
      /\ \A i \in 1..Len(channel') : channel'[i] = channel[i + 1]
      /\ channel' = <<>> <=> Len(channel) = 1
  <2>1. Len(channel) \in Nat /\ Len(channel) >= 1
    BY <1>1
  <2>2. /\ Tail(channel) \in Seq(Packets) /\ Len(Tail(channel)) = Len(channel) - 1
        /\ \A i \in 1..Len(Tail(channel)) : Tail(channel)[i] = channel[i + 1]
        /\ Head(channel) = channel[1] /\ channel[1] \in Packets
    BY <1>1, <2>1
  <2>3. Tail(channel) = <<>> <=> Len(Tail(channel)) = 0
    BY <2>2
  <2> QED
    BY <2>1, <2>2, <2>3
<1>3. /\ p.message \in 1..Len(lengths) /\ IsPiece(p, length)
      /\ 1 < Len(channel) => Follows(p, channel[2], length)
      /\ 1 = Len(channel) => p.message = Len(lengths) /\ End(p) = length
  <2>1. 1 \in 1..Len(channel) /\ 1 + 1 = 2
    BY <1>2
  <2> QED
    BY <1>2, <2>1 DEF ChannelFits
<1>4. length \in Nat /\ length >= 1
  BY <1>1, <1>3, FragmentAssumption
<1>5. p.message = Done + 1 /\ p.from = current
  BY <1>2 DEF ReceiverFits
<1>6. End(p) <= length
  <2>1. p.from \in Nat /\ p.size \in Nat
    BY <1>2 DEF Packets
  <2>2. Least(MaxRaw, length - p.from) <= length - p.from
    BY <1>4, <2>1, Sizes DEF Least
  <2> QED
    BY <1>3, <1>4, <2>1, <2>2, Sizes DEF IsPiece, End
<1>7. ChannelFits(channel, lengths)'
  <2> SUFFICES ASSUME NEW i \in 1..Len(channel')
               PROVE  /\ channel'[i].message \in 1..Len(lengths)
                      /\ IsPiece(channel'[i], lengths[channel'[i].message])
                      /\ i < Len(channel') =>
                           Follows(channel'[i], channel'[i + 1],
                                   lengths[channel'[i].message])
                      /\ i = Len(channel') =>
                           /\ channel'[i].message = Len(lengths)
                           /\ End(channel'[i]) = lengths[Len(lengths)]
    BY DEF ChannelFits
  <2>1. i + 1 \in 1..Len(channel) /\ channel'[i] = channel[i + 1]
    BY <1>2
  <2>2. i < Len(channel') => /\ i + 1 < Len(channel)
                             /\ channel'[i + 1] = channel[(i + 1) + 1]
    BY <1>2
  <2>3. i = Len(channel') => i + 1 = Len(channel)
    BY <1>2
  <2> QED
    BY <2>1, <2>2, <2>3 DEF ChannelFits
<1>8. Len(channel) > 1 => channel' # <<>> /\ channel'[1] = channel[2]
  BY <1>2
<1>9. ASSUME End(p) < length
      PROVE  /\ channel' # <<>>
             /\ channel'[1].message = p.message /\ channel'[1].from = End(p)
  <2>1. Len(channel) > 1
    BY <1>2, <1>3, <1>4, <1>9
  <2> QED
    BY <1>3, <1>8, <1>9, <2>1 DEF Follows
<1>10. ASSUME End(p) = length
       PROVE  /\ channel' # <<>> =>
                   channel'[1].message = p.message + 1 /\ channel'[1].from = 0
              /\ channel' = <<>> => p.message = Len(lengths)
  <2>1. CASE Len(channel) > 1
    BY <1>3, <1>4, <1>8, <1>10, <2>1 DEF Follows
  <2>2. CASE Len(channel) = 1
    BY <1>2, <1>3, <2>2
  <2> QED
    BY <1>2, <2>1, <2>2
<1> QED
  BY <1>2, <1>3, <1>4, <1>5, <1>6, <1>7, <1>9, <1>10

\* One more part at the end of a chain.
LEMMA ChainGrows ==
  ASSUME NEW parts \in Seq(Payloads), NEW m \in Nat, NEW part \in Payloads,
         part.message = m,
         IF parts = <<>> THEN part.from = 0 ELSE Chain(parts, m, part.from)
  PROVE  /\ Append(parts, part) \in Seq(Payloads) /\ Append(parts, part) # <<>>
         /\ Chain(Append(parts, part), m, End(part))
<1> DEFINE more == Append(parts, part)
<1>1. /\ more \in Seq(Payloads) /\ Len(more) = Len(parts) + 1 /\ Len(parts) \in Nat
      /\ more[Len(parts) + 1] = part
      /\ \A i \in 1..Len(parts) : more[i] = parts[i]
      /\ parts = <<>> <=> Len(parts) = 0
  OBVIOUS
<1> HIDE DEF more
<1>2. ASSUME NEW i \in 1..Len(more)
      PROVE  /\ more[i].message = m
             /\ more[i].from = IF i = 1 THEN 0 ELSE End(more[i - 1])
  <2>1. CASE i <= Len(parts)
    <3>1. i \in 1..Len(parts) /\ more[i] = parts[i] /\ parts # <<>>
      BY <1>1, <2>1
    <3>2. i # 1 => more[i - 1] = parts[i - 1]
      BY <1>1, <2>1
    <3> QED
      BY <3>1, <3>2 DEF Chain
  <2>2. CASE i = Len(parts) + 1
    <3>1. CASE parts = <<>>
      BY <1>1, <2>2, <3>1
    <3>2. CASE parts # <<>>
      <4>1. i # 1 /\ more[i - 1] = parts[Len(parts)]
        BY <1>1, <2>2, <3>2
      <4> QED
        BY <1>1, <2>2, <3>2, <4>1 DEF Chain
    <3> QED
      BY <3>1, <3>2
  <2> QED
    BY <1>1, <2>1, <2>2
<1>3. Chain(more, m, End(part))
  BY <1>1, <1>2 DEF Chain
<1> QED
  BY <1>1, <1>3 DEF more

\* The payload of a packet.
LEMMA PayloadFits ==
  ASSUME NEW p \in Packets
  PROVE  /\ Payload(p) \in Payloads /\ Payload(p).message = p.message
         /\ Payload(p).from = p.from /\ End(Payload(p)) = End(p)
  BY DEF Packets, Payloads, Payload, End

\* Another message is delivered.
LEMMA DeliveredGrows ==
  ASSUME IInv, NEW parts \in Seq(Payloads), lengths' = lengths,
         Done + 1 \in 1..Len(lengths), Chain(parts, Done + 1, lengths[Done + 1]),
         delivered' = Append(delivered, parts)
  PROVE  /\ delivered' \in Seq(Seq(Payloads)) /\ Done' = Done + 1
         /\ DeliveredFits'
<1>1. delivered \in Seq(Seq(Payloads))
  BY DEF IInv, TypeOK
<1>2. /\ delivered' \in Seq(Seq(Payloads)) /\ Len(delivered') = Len(delivered) + 1
      /\ Len(delivered) \in Nat
      /\ delivered'[Len(delivered) + 1] = parts
      /\ \A m \in 1..Len(delivered) : delivered'[m] = delivered[m]
  BY <1>1
<1>3. Done' = Done + 1 /\ Done \in Nat
  BY <1>2 DEF Done
<1>4. ASSUME NEW m \in 1..Done'
      PROVE  m <= Len(lengths) /\ Chain(delivered'[m], m, lengths[m])
  <2>1. CASE m = Done + 1
    BY <1>2, <2>1 DEF Done
  <2>2. CASE m # Done + 1
    <3>1. m \in 1..Done /\ delivered'[m] = delivered[m]
      BY <1>2, <1>3, <2>2 DEF Done
    <3> QED
      BY <3>1 DEF IInv, DeliveredFits
  <2> QED
    BY <2>1, <2>2
<1>5. DeliveredFits'
  BY <1>4 DEF DeliveredFits, Chain, End
<1> QED
  BY <1>2, <1>3, <1>5

\* A whole message arrives.
LEMMA RecvWholeStep ==
  ASSUME IInv, RecvWhole
  PROVE  IInv'
<1> USE DEF IInv
<1> DEFINE p == Head(channel)
           length == lengths[p.message]
<1>1. /\ channel # <<>> /\ ~IsFragment(p) /\ channel' = Tail(channel)
      /\ delivered' = Append(delivered, <<Payload(p)>>)
      /\ UNCHANGED <<lengths, total, current, assembly>>
  BY DEF RecvWhole
<1>2. /\ p \in Packets /\ p.message = Done + 1 /\ p.from = current
      /\ p.message \in 1..Len(lengths) /\ length \in Nat /\ length >= 1
      /\ IsPiece(p, length) /\ End(p) <= length
      /\ channel' \in Seq(Packets) /\ ChannelFits(channel, lengths)'
      /\ End(p) = length =>
           /\ channel' # <<>> =>
                channel'[1].message = p.message + 1 /\ channel'[1].from = 0
           /\ channel' = <<>> => p.message = Len(lengths)
  BY <1>1, PacketTaken
<1> HIDE DEF p
<1>3. p.from = 0 /\ p.size = length /\ End(p) = length
  BY <1>1, <1>2, Sizes DEF IsFragment, IsPiece, End, Packets
<1>4. assembly = <<>>
  BY <1>2, <1>3 DEF ReceiverFits
<1>5. /\ <<Payload(p)>> \in Seq(Payloads) /\ Chain(<<Payload(p)>>, Done + 1, length)
  <2>1. /\ Payload(p) \in Payloads /\ Payload(p).message = Done + 1
        /\ Payload(p).from = 0 /\ End(Payload(p)) = length
    BY <1>2, <1>3, PayloadFits
  <2> QED
    BY <2>1 DEF Chain
<1>6. /\ delivered' \in Seq(Seq(Payloads)) /\ Done' = Done + 1 /\ DeliveredFits'
  BY <1>1, <1>2, <1>5, DeliveredGrows
<1>7. TypeOK'
  BY <1>1, <1>2, <1>6 DEF TypeOK
<1>8. ReceiverFits'
  BY <1>1, <1>2, <1>3, <1>4, <1>6 DEF ReceiverFits
<1> QED
  BY <1>2, <1>6, <1>7, <1>8

\* The first fragment of a message arrives.
LEMMA RecvFirstStep ==
  ASSUME IInv, RecvFirst
  PROVE  IInv'
<1> USE DEF IInv
<1> DEFINE p == Head(channel)
           length == lengths[p.message]
<1>1. /\ channel # <<>> /\ IsFragment(p) /\ channel' = Tail(channel) /\ total = 0
      /\ total' = p.total /\ current' = p.size
      /\ assembly' = Append(assembly, Payload(p))
      /\ UNCHANGED <<lengths, delivered>>
  BY DEF RecvFirst
<1>2. /\ p \in Packets /\ p.message = Done + 1 /\ p.from = current
      /\ p.message \in 1..Len(lengths) /\ length \in Nat /\ length >= 1
      /\ IsPiece(p, length) /\ End(p) <= length
      /\ channel' \in Seq(Packets) /\ ChannelFits(channel, lengths)'
      /\ End(p) < length =>
           /\ channel' # <<>>
           /\ channel'[1].message = p.message /\ channel'[1].from = End(p)
  BY <1>1, PacketTaken
<1>3. assembly = <<>> /\ current = 0
  <2>1. current \in Nat /\ total = 0
    BY <1>1 DEF TypeOK
  <2> QED
    BY <2>1 DEF ReceiverFits
<1> HIDE DEF p, length
<1>4. /\ p.from = 0 /\ p.size = FirstRaw /\ p.total = length
      /\ End(p) = p.size /\ p.size > 0 /\ p.size < length
  <2>1. p.from = 0 /\ p.size \in Nat /\ p.header = FragmentHeader
    BY <1>1, <1>2, <1>3 DEF IsFragment, Packets
  <2>2. length > MaxRaw /\ p.size = FirstRaw /\ p.total = length
    BY <1>2, <2>1, Sizes DEF IsPiece
  <2> QED
    BY <1>2, <2>1, <2>2, Sizes DEF End
<1>5. /\ assembly' \in Seq(Payloads) /\ assembly' # <<>>
      /\ Chain(assembly', Done + 1, p.size)
  <2>1. /\ Payload(p) \in Payloads /\ Payload(p).message = Done + 1
        /\ Payload(p).from = 0 /\ End(Payload(p)) = p.size /\ Done + 1 \in Nat
    BY <1>2, <1>4, PayloadFits DEF Packets
  <2>2. assembly \in Seq(Payloads)
    BY DEF TypeOK
  <2> QED
    BY <1>1, <1>3, <2>1, <2>2, ChainGrows
<1>6. TypeOK'
  BY <1>1, <1>2, <1>5 DEF TypeOK, Packets
<1>7. Done' = Done /\ DeliveredFits'
  BY <1>1 DEF Done, DeliveredFits, Chain, End
<1>8. ReceiverFits'
  <2>1. Chain(assembly, Done + 1, current)'
    BY <1>1, <1>5, <1>7 DEF Chain, End
  <2> QED
    BY <1>1, <1>2, <1>4, <1>5, <1>7, <2>1 DEF ReceiverFits, length
<1> QED
  BY <1>2, <1>6, <1>7, <1>8

\* A later fragment arrives.
LEMMA RecvNextStep ==
  ASSUME IInv, RecvNext
  PROVE  IInv'
<1> USE DEF IInv
<1> DEFINE p == Head(channel)
           length == lengths[p.message]
           now == current + p.size
           parts == Append(assembly, Payload(p))
<1>1. /\ channel # <<>> /\ IsFragment(p) /\ channel' = Tail(channel) /\ total # 0
      /\ IF now >= total
         THEN /\ delivered' = Append(delivered, parts)
              /\ assembly' = <<>> /\ total' = 0 /\ current' = 0
         ELSE /\ assembly' = parts /\ current' = now
              /\ UNCHANGED <<total, delivered>>
      /\ lengths' = lengths
  BY DEF RecvNext
<1>2. /\ p \in Packets /\ p.message = Done + 1 /\ p.from = current
      /\ p.message \in 1..Len(lengths) /\ length \in Nat /\ length >= 1
      /\ IsPiece(p, length) /\ End(p) <= length
      /\ channel' \in Seq(Packets) /\ ChannelFits(channel, lengths)'
      /\ End(p) < length =>
           /\ channel' # <<>>
           /\ channel'[1].message = p.message /\ channel'[1].from = End(p)
      /\ End(p) = length =>
           /\ channel' # <<>> =>
                channel'[1].message = p.message + 1 /\ channel'[1].from = 0
           /\ channel' = <<>> => p.message = Len(lengths)
  BY <1>1, PacketTaken
<1>3. /\ assembly # <<>> /\ total = length /\ 0 < current
      /\ Chain(assembly, Done + 1, current)
  BY <1>1, <1>2 DEF ReceiverFits
<1>4. parts \in Seq(Payloads) /\ parts # <<>> /\ Chain(parts, Done + 1, End(p))
  <2>1. /\ Payload(p) \in Payloads /\ Payload(p).message = Done + 1
        /\ Payload(p).from = current /\ End(Payload(p)) = End(p) /\ Done + 1 \in Nat
    BY <1>2, PayloadFits DEF Packets
  <2>2. assembly \in Seq(Payloads)
    BY DEF TypeOK
  <2> QED
    BY <1>3, <2>1, <2>2, ChainGrows
<1>5. now = End(p) /\ now \in Nat /\ now > 0
  BY <1>2, <1>3 DEF End, Packets
<1> HIDE DEF p, parts
<1>6. CASE now >= total
  <2>1. End(p) = length
    BY <1>2, <1>3, <1>5, <1>6
  <2>2. delivered' = Append(delivered, parts)
        /\ assembly' = <<>> /\ total' = 0 /\ current' = 0
    BY <1>1, <1>6
  <2>3. /\ delivered' \in Seq(Seq(Payloads)) /\ Done' = Done + 1 /\ DeliveredFits'
    BY <1>1, <1>2, <1>4, <2>1, <2>2, DeliveredGrows
  <2>4. TypeOK'
    BY <1>1, <1>2, <2>2, <2>3 DEF TypeOK
  <2>5. ReceiverFits'
    BY <1>1, <1>2, <2>1, <2>2, <2>3 DEF ReceiverFits
  <2> QED
    BY <1>2, <2>3, <2>4, <2>5
<1>7. CASE ~(now >= total)
  <2>1. End(p) < length
    BY <1>2, <1>3, <1>5, <1>7
  <2>2. assembly' = parts /\ current' = now /\ total' = total /\ delivered' = delivered
    BY <1>1, <1>7
  <2>3. TypeOK'
    BY <1>1, <1>2, <1>4, <1>5, <2>2 DEF TypeOK
  <2>4. Done' = Done /\ DeliveredFits'
    BY <1>1, <2>2 DEF Done, DeliveredFits, Chain, End
  <2>5. Chain(assembly, Done + 1, current)'
    BY <1>4, <1>5, <2>2, <2>4 DEF Chain, End
  <2>6. ReceiverFits'
    BY <1>1, <1>2, <1>3, <1>4, <1>5, <2>1, <2>2, <2>4, <2>5 DEF ReceiverFits
  <2> QED
    BY <1>2, <2>3, <2>4, <2>6
<1> QED
  BY <1>6, <1>7

-----------------------------------------------------------------------------
(* The invariant.                                                          *)

\* The invariant holds at first.
LEMMA InitInv == Init => IInv
  BY DEF Init, IInv, TypeOK, ChannelFits, ReceiverFits, DeliveredFits, Done

\* Every step keeps it.
LEMMA NextInv == IInv /\ [Next]_vars => IInv'
<1> SUFFICES ASSUME IInv, [Next]_vars PROVE IInv'
  OBVIOUS
<1>1. CASE \E length \in 1..MaxLength : QueuePacket(length)
  BY <1>1, QueuePacketStep
<1>2. CASE RecvWhole
  BY <1>2, RecvWholeStep
<1>3. CASE RecvFirst
  BY <1>3, RecvFirstStep
<1>4. CASE RecvNext
  BY <1>4, RecvNextStep
<1>5. CASE UNCHANGED vars
  <2>1. /\ lengths' = lengths /\ channel' = channel /\ total' = total
        /\ current' = current /\ assembly' = assembly
        /\ delivered' = delivered
    BY <1>5 DEF vars
  <2>2. TypeOK'
    BY <2>1 DEF IInv, TypeOK
  <2>3. ChannelFits(channel, lengths)'
    BY <2>1 DEF IInv
  <2>4. ReceiverFits'
    BY <2>1 DEF IInv, ReceiverFits, Done
  <2>5. DeliveredFits'
    <3>1. Done' = Done
      BY <2>1 DEF Done
    <3> QED
      BY <2>1, <3>1 DEF IInv, DeliveredFits, Chain, End
  <2> QED
    BY <2>2, <2>3, <2>4, <2>5 DEF IInv
<1> QED
  BY <1>1, <1>2, <1>3, <1>4, <1>5 DEF Next

\* The invariant holds always.
LEMMA Invariance == Spec => []IInv
  BY InitInv, NextInv, PTL DEF Spec

\* Messages come out of the fragments whole and in order, and none is held back,
\* for every packet size, CRC, length and number of messages.
THEOREM FragmentsReassembled == Spec => []Reassembled
<1>1. IInv => Reassembled
  <2> SUFFICES ASSUME IInv PROVE Reassembled
    OBVIOUS
  <2>1. ASSUME NEW m \in 1..Len(delivered)
        PROVE  m <= Len(lengths) /\ IsMessage(delivered[m], m)
    BY DEF IInv, DeliveredFits, Done, Chain, End, IsMessage
  <2>2. channel = <<>> => assembly = <<>> /\ Len(delivered) = Len(lengths)
    BY DEF IInv, ReceiverFits, Done
  <2> QED
    BY <2>1, <2>2 DEF Reassembled
<1> QED
  BY <1>1, Invariance, PTL

\* A packet with its header, compress flag and CRC fits the session's packet
\* size, for every packet size and length.
THEOREM FragmentsPacketFits == Spec => []PacketFits
<1>1. IInv => PacketFits
  <2> SUFFICES ASSUME IInv, NEW i \in 1..Len(channel)
               PROVE  channel[i].header + channel[i].size + CompressFlag + CrcBytes
                        <= MaxPacketSize
    BY DEF PacketFits
  <2> DEFINE p == channel[i]
             length == lengths[p.message]
  <2>1. p \in Packets /\ p.message \in 1..Len(lengths) /\ IsPiece(p, length)
    BY DEF IInv, TypeOK, ChannelFits
  <2>2. length \in Nat
    BY <2>1, FragmentAssumption DEF IInv, TypeOK
  <2>3. /\ p.from \in Nat /\ p.size \in Nat /\ p.header \in Nat
    BY <2>1 DEF Packets
  <2> HIDE DEF p, length
  <2>4. \/ p.size <= MaxRaw /\ p.header = ReliableHeader
        \/ p.size = FirstRaw /\ p.header = FragmentHeader
    BY <2>1, <2>2, <2>3, Sizes DEF IsPiece, Least
  <2>5. p.header + p.size + CompressFlag + CrcBytes <= MaxPacketSize
    BY <2>3, <2>4, FragmentAssumption DEF MaxRaw, FirstRaw, ReliableHeader,
       FragmentHeader, CompressFlag
  <2> QED
    BY <2>5 DEF p
<1> QED
  BY <1>1, Invariance, PTL

-----------------------------------------------------------------------------
(* How long packets are together.                                          *)

\* The packets are numbers of packets whose sizes are known.
Known(packets, sizes) ==
  sizes \in Seq(Nat) /\ packets \in Seq(1..Len(sizes))

\* f[i] is how long the first i packets are together.
Totals(f, packets, sizes) ==
  /\ f \in [0..Len(packets) -> Nat]
  /\ f[0] = 0
  /\ \A i \in 1..Len(packets) : f[i] = f[i - 1] + sizes[packets[i]]

\* The recursive function in Length exists, and is what its equation says.
LEMMA LengthDef ==
  ASSUME NEW packets, NEW sizes, Known(packets, sizes)
  PROVE  \E f : /\ Totals(f, packets, sizes)
                /\ Length(packets, sizes) = f[Len(packets)]
<1> DEFINE n == Len(packets)
           size(i) == sizes[packets[i]]
           Good(f) == f = [i \in 0..n |->
                             IF i = 0 THEN 0 ELSE f[i - 1] + size(i)]
           step == [i \in 1..n |-> [x \in Nat |-> x + size(i)]]
           sum   == CHOOSE f : Good(f)
<1>1. n \in Nat /\ \A i \in 1..n : size(i) \in Nat
  BY DEF Known
<1>2. Length(packets, sizes) = sum[n]
  BY <1>1 DEF Length
<1> HIDE DEF n, size
<1>3. step \in [1..n -> [Nat -> Nat]]
  BY <1>1
<1>4. \A i \in 1..n : \A x \in Nat : step[i][x] = x + size(i)
  OBVIOUS
<1>5. PICK h : Iterates(h, n, Nat, 0, step)
  <2> HIDE DEF step
  <2> QED
    BY <1>1, <1>3, RecursionTo
<1>6. /\ h \in [0..n -> Nat] /\ h[0] = 0
      /\ \A i \in 1..n : h[i] = step[i][h[i - 1]]
  BY <1>5 DEF Iterates
<1>7. \A i \in 1..n : i - 1 \in 0..n /\ h[i - 1] \in Nat
  BY <1>1, <1>6
<1>8. \A i \in 1..n : h[i] = h[i - 1] + size(i)
  <2> HIDE DEF step
  <2> QED
    BY <1>4, <1>6, <1>7
<1>9. Good(h)
  <2> DEFINE e(i) == IF i = 0 THEN 0 ELSE h[i - 1] + size(i)
  <2>1. \A i \in 0..n : h[i] = e(i)
    BY <1>1, <1>6, <1>8
  <2>2. h = [i \in 0..n |-> h[i]]
    BY <1>6
  <2>3. h = [i \in 0..n |-> e(i)]
    <3> HIDE DEF e
    <3> QED
      BY <2>1, <2>2
  <2> QED
    BY <2>3
<1>10. Good(sum)
  BY <1>9
<1>11. /\ sum = [i \in 0..n |-> sum[i]]
       /\ \A i \in 0..n : sum[i] = IF i = 0 THEN 0 ELSE sum[i - 1] + size(i)
  BY <1>10
<1> HIDE DEF sum, Good, step
<1>12. sum[0] = 0 /\ \A i \in 1..n : sum[i] = sum[i - 1] + size(i)
  <2>1. 0 \in 0..n /\ \A i \in 1..n : i \in 0..n /\ i # 0
    BY <1>1
  <2> QED
    BY <2>1, <1>11
<1>13. \A k \in 0..n : sum[k] \in Nat
  <2> DEFINE G == {k \in 0..n : sum[k] \in Nat}
  <2>1. 0 \in G
    BY <1>1, <1>12
  <2>2. ASSUME NEW k \in 0..(n - 1), k \in G PROVE k + 1 \in G
    <3>1. k + 1 \in 1..n /\ (k + 1) - 1 = k
      BY <1>1
    <3>2. sum[k + 1] = sum[k] + size(k + 1)
      BY <3>1, <1>12
    <3> QED
      BY <1>1, <2>2, <3>1, <3>2
  <2> HIDE DEF G
  <2>3. \A k \in 0..n : k \in G
    BY <1>1, <2>1, <2>2, InductionTo
  <2> QED
    BY <2>3 DEF G
<1>14. sum \in [0..n -> Nat]
  BY <1>11, <1>13
<1>15. Totals(sum, packets, sizes)
  BY <1>12, <1>14 DEF Totals, n, size
<1> QED
  BY <1>2, <1>15 DEF n

\* The totals of sequences agree as far as the sizes do.
LEMMA TotalsAgree ==
  ASSUME NEW packets, NEW sizes, NEW f, Totals(f, packets, sizes),
         NEW others, NEW measures, NEW g, Totals(g, others, measures),
         NEW n \in Nat, 0..n \subseteq 0..Len(packets),
         0..n \subseteq 0..Len(others),
         \A i \in 1..n : sizes[packets[i]] = measures[others[i]]
  PROVE  f[n] = g[n]
<1> DEFINE G == {k \in 0..n : f[k] = g[k]}
<1>1. 0 \in G
  BY DEF Totals
<1>2. ASSUME NEW k \in 0..(n - 1), k \in G PROVE k + 1 \in G
  <2>1. /\ k + 1 \in 0..n /\ k + 1 \in 1..n /\ (k + 1) - 1 = k
        /\ k + 1 \in 1..Len(packets) /\ k + 1 \in 1..Len(others)
    OBVIOUS
  <2>2. /\ f[k + 1] = f[k] + sizes[packets[k + 1]]
        /\ g[k + 1] = g[k] + measures[others[k + 1]]
    BY <2>1 DEF Totals
  <2> QED
    BY <1>2, <2>1, <2>2
<1> HIDE DEF G
<1>3. \A k \in 0..n : k \in G
  BY <1>1, <1>2, InductionTo
<1> QED
  BY <1>3 DEF G

\* No packets.
LEMMA LengthEmpty ==
  ASSUME NEW sizes
  PROVE  Length(<<>>, sizes) = 0
<1> DEFINE n == Len(<<>>)
           e(f, i) == IF i = 0 THEN 0 ELSE f[i - 1] + sizes[<<>>[i]]
           Good(f) == f = [i \in 0..n |-> e(f, i)]
           sum == CHOOSE f : Good(f)
<1>1. n = 0 /\ 0..n = {0}
  OBVIOUS
<1>2. Length(<<>>, sizes) = sum[0]
  BY DEF Length
<1>3. Good([i \in {0} |-> 0])
  <2> HIDE DEF n
  <2> QED
    BY <1>1
<1>4. Good(sum)
  BY <1>3
<1>5. sum = [i \in {0} |-> e(sum, i)]
  BY <1>1, <1>4
<1>6. sum[0] = e(sum, 0)
  <2> HIDE DEF sum, e
  <2> QED
    BY <1>5
<1> QED
  BY <1>2, <1>6

\* One more packet.
LEMMA LengthAppend ==
  ASSUME NEW packets, NEW sizes, Known(packets, sizes), NEW p \in 1..Len(sizes)
  PROVE  /\ Known(Append(packets, p), sizes)
         /\ Length(packets, sizes) \in Nat
         /\ Length(Append(packets, p), sizes)
              = Length(packets, sizes) + sizes[p]
<1> DEFINE more == Append(packets, p)
           n == Len(packets)
<1>1. /\ n \in Nat /\ Len(more) = n + 1 /\ more[n + 1] = p
      /\ \A i \in 1..n : more[i] = packets[i]
      /\ Known(more, sizes)
  BY DEF Known
<1> HIDE DEF more
<1>2. PICK f : Totals(f, packets, sizes) /\ Length(packets, sizes) = f[n]
  BY LengthDef
<1>3. PICK g : Totals(g, more, sizes) /\ Length(more, sizes) = g[n + 1]
  BY <1>1, LengthDef
<1>4. f[n] = g[n]
  <2>1. 0..n \subseteq 0..Len(packets) /\ 0..n \subseteq 0..Len(more)
    BY <1>1
  <2>2. \A i \in 1..n : sizes[packets[i]] = sizes[more[i]]
    BY <1>1
  <2> QED
    BY <1>1, <1>2, <1>3, <2>1, <2>2, TotalsAgree
<1>5. g[n + 1] = g[n] + sizes[p]
  <2>1. n + 1 \in 1..Len(more) /\ (n + 1) - 1 = n
    BY <1>1
  <2> QED
    BY <1>1, <1>3, <2>1 DEF Totals
<1>6. f[n] \in Nat
  BY <1>1, <1>2 DEF Totals
<1> QED
  BY <1>1, <1>2, <1>3, <1>4, <1>5, <1>6 DEF more

\* More sizes than those of the packets.
LEMMA LengthKept ==
  ASSUME NEW packets, NEW sizes, Known(packets, sizes), NEW s \in Nat
  PROVE  /\ Known(packets, Append(sizes, s))
         /\ Length(packets, Append(sizes, s)) = Length(packets, sizes)
<1> DEFINE more == Append(sizes, s)
           n == Len(packets)
<1>1. /\ n \in Nat /\ \A i \in 1..n : more[packets[i]] = sizes[packets[i]]
      /\ Known(packets, more)
  BY DEF Known
<1> HIDE DEF more
<1>2. PICK f : Totals(f, packets, sizes) /\ Length(packets, sizes) = f[n]
  BY LengthDef
<1>3. PICK g : Totals(g, packets, more) /\ Length(packets, more) = g[n]
  BY <1>1, LengthDef
<1>4. f[n] = g[n]
  <2>1. 0..n \subseteq 0..Len(packets)
    BY <1>1
  <2>2. \A i \in 1..n : sizes[packets[i]] = more[packets[i]]
    BY <1>1
  <2> QED
    BY <1>1, <1>2, <1>3, <2>1, <2>2, TotalsAgree
<1> QED
  BY <1>1, <1>2, <1>3, <1>4 DEF more

\* A single packet.
LEMMA LengthOne ==
  ASSUME NEW sizes \in Seq(Nat), NEW p \in 1..Len(sizes)
  PROVE  /\ Known(<<p>>, sizes) /\ Length(<<p>>, sizes) = sizes[p]
         /\ sizes[p] \in Nat
<1>1. Known(<<>>, sizes) /\ sizes[p] \in Nat /\ Append(<<>>, p) = <<p>>
  BY DEF Known
<1>2. /\ Known(Append(<<>>, p), sizes)
      /\ Length(Append(<<>>, p), sizes) = Length(<<>>, sizes) + sizes[p]
  BY <1>1, LengthAppend
<1>3. Length(<<>>, sizes) = 0
  BY LengthEmpty
<1> QED
  BY <1>1, <1>2, <1>3

-----------------------------------------------------------------------------
(* The buffer.                                                             *)

Datagram == [packets : Seq(Nat), raw : Nat, dropped : BOOLEAN]

Ways == [buffered : Seq(Nat), counted : Nat, budget : Int, wire : Seq(Datagram)]

Sent(datagrams) == [i \in 1..Len(datagrams) |-> datagrams[i].packets]

\* The first n packets, in their order.
UpTo(n) == [i \in 1..n |-> i]

\* What InternalQueuePacket and SendPacket hand over: every packet fits a
\* datagram by itself.
LengthsFit == \A length \in Lengths : length + CrcBytes <= MaxPacketSize

Fits(raw) == raw + CrcBytes <= MaxPacketSize

\* After n packets: each is sent or held, in order, what is held is counted
\* rightly, and fits a datagram, as did what was sent.
Holds(state, n, sizes) ==
  /\ state \in Ways
  /\ sizes \in Seq(Nat) /\ n \in 0..Len(sizes)
  /\ state.buffered \in Seq(1..n)
  /\ FlattenSeq(Sent(state.wire)) \o state.buffered = UpTo(n)
  /\ state.counted = Length(state.buffered, sizes)
  /\ LengthsFit =>
       /\ state.buffered # <<>> => Fits(RawSize(state.buffered, sizes))
       /\ \A i \in 1..Len(state.wire) : Fits(state.wire[i].raw)

\* One more datagram on the wire.
LEMMA SentAppend ==
  ASSUME NEW w \in Seq(Datagram), NEW d \in Datagram
  PROVE  /\ Append(w, d) \in Seq(Datagram) /\ Sent(w) \in Seq(Seq(Nat))
         /\ d.packets \in Seq(Nat) /\ FlattenSeq(Sent(w)) \in Seq(Nat)
         /\ FlattenSeq(Sent(Append(w, d))) = FlattenSeq(Sent(w)) \o d.packets
<1> DEFINE v == Append(w, d)
           n == Len(w)
           X == Seq(Nat)
<1>1. /\ n \in Nat /\ v \in Seq(Datagram) /\ Len(v) = n + 1 /\ v[n + 1] = d
      /\ \A i \in 1..n : v[i] = w[i] /\ w[i].packets \in X
      /\ d.packets \in X
  <2>1. \A e \in Datagram : e.packets \in X
    BY DEF Datagram
  <2> HIDE DEF X
  <2> QED
    BY <2>1
<1> HIDE DEF v, X
<1>2. Sent(w) \in Seq(X) /\ Len(Sent(w)) = n
      /\ \A i \in 1..n : Sent(w)[i] = w[i].packets
  BY <1>1 DEF Sent
<1>3. Sent(v) = [i \in 1..(n + 1) |-> v[i].packets]
  BY <1>1 DEF Sent
<1>4. Append(Sent(w), d.packets)
        = [i \in 1..(n + 1) |-> IF i = n + 1 THEN d.packets ELSE Sent(w)[i]]
  BY <1>1, <1>2
<1>5. \A i \in 1..(n + 1) :
        v[i].packets = IF i = n + 1 THEN d.packets ELSE Sent(w)[i]
  BY <1>1, <1>2
<1>6. Sent(v) = Append(Sent(w), d.packets)
  BY <1>3, <1>4, <1>5
<1>7. FlattenSeq(Append(Sent(w), d.packets)) = FlattenSeq(Sent(w)) \o d.packets
  BY <1>1, <1>2, FlattenAppend DEF X
<1>8. FlattenSeq(Sent(w)) \in Seq(Nat)
  BY <1>2, FlattenType DEF X
<1> QED
  BY <1>1, <1>2, <1>6, <1>7, <1>8 DEF v, X

\* next is state after packets went out in one datagram.
SentOut(state, next, packets, sizes) ==
  /\ next \in Ways
  /\ next.buffered = state.buffered /\ next.counted = state.counted
  /\ FlattenSeq(Sent(state.wire)) \in Seq(Nat)
  /\ FlattenSeq(Sent(next.wire)) = FlattenSeq(Sent(state.wire)) \o packets
  /\ Len(state.wire) \in Nat /\ Len(next.wire) = Len(state.wire) + 1
  /\ \A i \in 1..Len(state.wire) : next.wire[i] = state.wire[i]
  /\ next.wire[Len(state.wire) + 1].raw = RawSize(packets, sizes)

\* InternalSend puts one datagram on the wire and holds nothing back.
LEMMA SendKeeps ==
  ASSUME NEW state \in Ways, NEW packets \in Seq(Nat), NEW sizes,
         RawSize(packets, sizes) \in Nat
  PROVE  SentOut(state, InternalSend(state, packets, sizes), packets, sizes)
<1> DEFINE raw  == RawSize(packets, sizes)
           paid == Affordable(raw, state.budget)
           next == InternalSend(state, packets, sizes)
           d    == [packets |-> packets, raw |-> raw, dropped |-> ~paid]
           w    == state.wire
           left == IF paid /\ Rate > 0 THEN state.budget - raw ELSE state.budget
<1>1. /\ state.buffered \in Seq(Nat) /\ state.counted \in Nat
      /\ state.budget \in Int /\ w \in Seq(Datagram)
  BY DEF Ways
<1>2. d \in Datagram /\ d.packets = packets /\ d.raw = raw
  BY DEF Datagram
<1>3. /\ next.buffered = state.buffered /\ next.counted = state.counted
      /\ next.budget = left /\ next.wire = Append(w, d)
      /\ next = [buffered |-> state.buffered, counted |-> state.counted,
                 budget |-> left, wire |-> Append(w, d)]
  <2>1. next = [state EXCEPT !.budget = IF paid /\ Rate > 0 THEN @ - raw ELSE @,
                             !.wire = Append(@, d)]
    BY DEF InternalSend
  <2> HIDE DEF next, d, raw, paid
  <2> QED
    BY <2>1 DEF Ways
<1> HIDE DEF d, next, w, raw, paid
<1>4. left \in Int
  BY <1>1 DEF raw
<1>5. /\ Append(w, d) \in Seq(Datagram) /\ FlattenSeq(Sent(w)) \in Seq(Nat)
      /\ FlattenSeq(Sent(Append(w, d))) = FlattenSeq(Sent(w)) \o packets
  BY <1>1, <1>2, SentAppend
<1> HIDE DEF left
<1>6. next \in Ways
  BY <1>1, <1>3, <1>4, <1>5 DEF Ways
<1>7. /\ Len(w) \in Nat /\ Len(Append(w, d)) = Len(w) + 1
      /\ \A i \in 1..Len(w) : Append(w, d)[i] = w[i]
      /\ Append(w, d)[Len(w) + 1] = d
  BY <1>1, <1>2
<1> QED
  BY <1>2, <1>3, <1>5, <1>6, <1>7 DEF SentOut, next, w, raw

\* The size of what is passed to InternalSend.
LEMMA RawSizeIs ==
  ASSUME NEW packets, NEW sizes, Known(packets, sizes)
  PROVE  /\ Length(packets, sizes) \in Nat /\ RawSize(packets, sizes) \in Nat
         /\ packets \in Seq(Nat) /\ Len(packets) \in Nat
         /\ RawSize(packets, sizes) =
              IF Len(packets) > 1
              THEN Header + Length(packets, sizes) + Len(packets)
              ELSE Length(packets, sizes)
<1>1. PICK f : Totals(f, packets, sizes) /\ Length(packets, sizes) = f[Len(packets)]
  BY LengthDef
<1>2. packets \in Seq(Nat) /\ Len(packets) \in Nat
  BY DEF Known
<1>3. Length(packets, sizes) \in Nat
  BY <1>1, <1>2 DEF Totals
<1> QED
  BY <1>2, <1>3 DEF RawSize, Header

\* A packet behind those before it.
LEMMA OneBehind ==
  ASSUME NEW n \in Nat, NEW s \in Seq(Nat), NEW t \in Seq(1..n),
         s \o t = UpTo(n)
  PROVE  /\ s \o Append(t, n + 1) = UpTo(n + 1)
         /\ Append(t, n + 1) \in Seq(1..(n + 1))
         /\ (s \o t) \o <<n + 1>> = UpTo(n + 1)
         /\ s \o t \in Seq(Nat) /\ (s \o t) \o <<>> = UpTo(n)
<1>1. t \in Seq(Nat) /\ n + 1 \in Nat
  OBVIOUS
<1>2. /\ s \o t \in Seq(Nat) /\ (s \o t) \o <<>> = s \o t
      /\ s \o Append(t, n + 1) = Append(s \o t, n + 1)
      /\ (s \o t) \o <<n + 1>> = Append(s \o t, n + 1)
  <2> DEFINE e == n + 1
  <2> HIDE DEF e
  <2>1. e \in Nat
    BY <1>1 DEF e
  <2>2. /\ s \o t \in Seq(Nat) /\ (s \o t) \o <<>> = s \o t
        /\ s \o Append(t, e) = Append(s \o t, e)
        /\ (s \o t) \o <<e>> = Append(s \o t, e)
    BY ONLY <2>1, <1>1, ConcatAppend, s \in Seq(Nat)
  <2> QED
    BY <2>2 DEF e
<1>3. Append(UpTo(n), n + 1) = UpTo(n + 1)
  BY DEF UpTo
<1>4. Append(t, n + 1) \in Seq(1..(n + 1))
  OBVIOUS
<1> QED
  BY <1>2, <1>3, <1>4

\* FlushBuffer sends what is held.
LEMMA FlushKeeps ==
  ASSUME NEW state, NEW n, NEW sizes, Holds(state, n, sizes)
  PROVE  LET next == Flush(state, sizes)
         IN  /\ Holds(next, n, sizes)
             /\ next.buffered = <<>> /\ next.counted = 0
<1> DEFINE held == state.buffered
           sent == InternalSend(state, held, sizes)
           next == Flush(state, sizes)
<1>1. /\ state \in Ways /\ sizes \in Seq(Nat) /\ n \in Nat /\ n \in 0..Len(sizes)
      /\ held \in Seq(1..n) /\ Known(held, sizes)
      /\ FlattenSeq(Sent(state.wire)) \o held = UpTo(n)
      /\ state.counted = Length(held, sizes)
  <2>1. \A q \in Seq(1..n) : n \in 0..Len(sizes) => q \in Seq(1..Len(sizes))
    OBVIOUS
  <2> QED
    BY <2>1 DEF Holds, Known
<1>2. CASE held = <<>>
  <2>1. next = state
    BY <1>2 DEF Flush
  <2>2. state.counted = 0
    BY <1>1, <1>2, LengthEmpty
  <2> QED
    BY <1>2, <2>1, <2>2
<1>3. CASE held # <<>>
  <2>1. RawSize(held, sizes) \in Nat /\ held \in Seq(Nat)
    BY <1>1, RawSizeIs
  <2>2. next = [sent EXCEPT !.buffered = <<>>, !.counted = 0]
    BY <1>3 DEF Flush
  <2>3. /\ sent \in Ways
        /\ FlattenSeq(Sent(state.wire)) \in Seq(Nat)
        /\ FlattenSeq(Sent(sent.wire)) = FlattenSeq(Sent(state.wire)) \o held
        /\ Len(state.wire) \in Nat /\ Len(sent.wire) = Len(state.wire) + 1
        /\ \A i \in 1..Len(state.wire) : sent.wire[i] = state.wire[i]
        /\ sent.wire[Len(state.wire) + 1].raw = RawSize(held, sizes)
    <3>1. SentOut(state, sent, held, sizes)
      BY <1>1, <2>1, SendKeeps
    <3> QED
      BY <3>1 DEF SentOut
  <2> HIDE DEF held, sent, next
  <2>4. /\ next \in Ways /\ next.buffered = <<>> /\ next.counted = 0
        /\ next.wire = sent.wire
    <3>1. <<>> \in Seq(Nat) /\ 0 \in Nat
      OBVIOUS
    <3>2. /\ sent.budget \in Int /\ sent.wire \in Seq(Datagram)
          /\ next = [buffered |-> <<>>, counted |-> 0, budget |-> sent.budget,
                     wire |-> sent.wire]
      BY <2>2, <2>3 DEF Ways
    <3> QED
      BY <3>1, <3>2 DEF Ways
  <2>5. FlattenSeq(Sent(next.wire)) \o next.buffered = UpTo(n)
    BY <1>1, <2>3, <2>4, OneBehind
  <2>6. next.counted = Length(next.buffered, sizes)
    BY <2>4, LengthEmpty
  <2>7. ASSUME LengthsFit, NEW i \in 1..Len(next.wire)
        PROVE  Fits(next.wire[i].raw)
    <3>1. CASE i \in 1..Len(state.wire)
      BY <2>3, <2>4, <2>7, <3>1 DEF Holds
    <3>2. CASE i = Len(state.wire) + 1
      BY <1>3, <2>3, <2>4, <2>7, <3>2 DEF Holds, held
    <3> QED
      BY <2>3, <2>4, <3>1, <3>2
  <2>8. next.buffered \in Seq(1..n)
    BY <2>4
  <2>9. Holds(next, n, sizes)
    BY <1>1, <2>4, <2>5, <2>6, <2>7, <2>8 DEF Holds
  <2> QED
    BY <2>4, <2>9 DEF next
<1> QED
  BY <1>2, <1>3

\* Another packet is handed over.
LEMMA MoreSizes ==
  ASSUME NEW state, NEW sizes, NEW s \in Nat, Holds(state, Len(sizes), sizes)
  PROVE  Holds(state, Len(sizes), Append(sizes, s))
<1> DEFINE n == Len(sizes)
           more == Append(sizes, s)
<1>1. /\ sizes \in Seq(Nat) /\ n \in Nat /\ more \in Seq(Nat)
      /\ n \in 0..Len(more) /\ Known(state.buffered, sizes)
  BY DEF Holds, Known
<1>2. Length(state.buffered, more) = Length(state.buffered, sizes)
  BY <1>1, LengthKept
<1>3. RawSize(state.buffered, more) = RawSize(state.buffered, sizes)
  BY <1>2 DEF RawSize
<1> HIDE DEF more, n
<1> QED
  BY <1>1, <1>2, <1>3 DEF Holds, n, more

\* A large packet goes out alone, behind what was held.
LEMMA LargeKeeps ==
  ASSUME NEW state, NEW n \in Nat, NEW sizes, Holds(state, n, sizes),
         n + 1 \in 1..Len(sizes), LengthsFit => Fits(sizes[n + 1])
  PROVE  Holds(LargeSend(state, n + 1, sizes), n + 1, sizes)
<1> DEFINE room == Flush(state, sizes)
           next == InternalSend(room, <<n + 1>>, sizes)
<1>1. /\ Holds(room, n, sizes) /\ room.buffered = <<>> /\ room.counted = 0
  BY FlushKeeps
<1>2. /\ sizes \in Seq(Nat) /\ Known(<<n + 1>>, sizes)
      /\ Length(<<n + 1>>, sizes) = sizes[n + 1] /\ sizes[n + 1] \in Nat
  <2>1. sizes \in Seq(Nat)
    BY DEF Holds
  <2> QED
    BY <2>1, LengthOne
<1>3. /\ RawSize(<<n + 1>>, sizes) = sizes[n + 1]
      /\ <<n + 1>> \in Seq(Nat)
  BY <1>2 DEF RawSize
<1>4. next = LargeSend(state, n + 1, sizes)
  BY DEF LargeSend
<1> HIDE DEF room
<1>5. room \in Ways
  BY <1>1 DEF Holds
<1>6. /\ next \in Ways
      /\ next.buffered = room.buffered /\ next.counted = room.counted
      /\ FlattenSeq(Sent(room.wire)) \in Seq(Nat)
      /\ FlattenSeq(Sent(next.wire)) = FlattenSeq(Sent(room.wire)) \o <<n + 1>>
      /\ Len(room.wire) \in Nat /\ Len(next.wire) = Len(room.wire) + 1
      /\ \A i \in 1..Len(room.wire) : next.wire[i] = room.wire[i]
      /\ next.wire[Len(room.wire) + 1].raw = sizes[n + 1]
  <2>1. SentOut(room, next, <<n + 1>>, sizes)
    BY <1>2, <1>3, <1>5, SendKeeps
  <2> QED
    BY <1>3, <2>1 DEF SentOut
<1> HIDE DEF next
<1>7. FlattenSeq(Sent(next.wire)) \o next.buffered = UpTo(n + 1)
  <2> DEFINE s == FlattenSeq(Sent(room.wire))
  <2>1. s \o <<>> = UpTo(n) /\ <<>> \in Seq(1..n) /\ s \in Seq(Nat)
    BY <1>1, <1>6 DEF Holds
  <2> HIDE DEF s
  <2>2. (s \o <<>>) \o <<n + 1>> = UpTo(n + 1)
    BY <2>1, OneBehind
  <2>4. s \o <<>> = s
    BY <2>1
  <2>3. UpTo(n + 1) \o <<>> = UpTo(n + 1)
    BY DEF UpTo
  <2> QED
    BY <1>1, <1>6, <2>2, <2>3, <2>4 DEF s
<1>8. ASSUME LengthsFit, NEW i \in 1..Len(next.wire)
      PROVE  Fits(next.wire[i].raw)
  <2>1. CASE i \in 1..Len(room.wire)
    BY <1>1, <1>6, <1>8, <2>1 DEF Holds
  <2>2. CASE i = Len(room.wire) + 1
    BY <1>6, <1>8, <2>2
  <2> QED
    BY <1>6, <2>1, <2>2
<1>9. next.buffered = <<>> /\ next.counted = Length(next.buffered, sizes)
      /\ next.buffered \in Seq(1..(n + 1)) /\ n + 1 \in 0..Len(sizes)
  BY <1>1, <1>6, LengthEmpty
<1>10. Holds(next, n + 1, sizes)
  BY <1>2, <1>6, <1>7, <1>8, <1>9 DEF Holds
<1> QED
  BY <1>4, <1>10


\* The record with another buffer.
WithBuffer(state, q, c) == [state EXCEPT !.buffered = q, !.counted = c]

\* The fields of that record.
LEMMA WithBufferIs ==
  ASSUME NEW state \in Ways, NEW q, NEW c
  PROVE  WithBuffer(state, q, c)
           = [buffered |-> q, counted |-> c, budget |-> state.budget,
              wire |-> state.wire]
<1> DEFINE one  == [state EXCEPT !.buffered = q]
           both == [one EXCEPT !.counted = c]
<1>1. both = WithBuffer(state, q, c)
  BY DEF Ways, WithBuffer
<1>2. one = [buffered |-> q, counted |-> state.counted,
             budget |-> state.budget, wire |-> state.wire]
  BY DEF Ways
<1> HIDE DEF one
<1>3. both = [buffered |-> q, counted |-> c, budget |-> state.budget,
              wire |-> state.wire]
  BY <1>2
<1> QED
  BY <1>1, <1>3

\* A small packet is held, and what is held goes out when it has to.
LEMMA HoldKeeps ==
  ASSUME NEW state, NEW n \in Nat, NEW sizes, Holds(state, n, sizes),
         n + 1 \in 1..Len(sizes), LengthsFit => Fits(sizes[n + 1])
  PROVE  Holds(Hold(state, n + 1, sizes), n + 1, sizes)
<1> DEFINE p == n + 1
           room == IF RawSizeWith(state, p, sizes) > MaxPacketSize
                   THEN Flush(state, sizes) ELSE state
           held == [room EXCEPT !.buffered = Append(@, p),
                                !.counted = @ + sizes[p]]
           next == IF held.counted + Len(held.buffered) > HoldSize
                   THEN Flush(held, sizes) ELSE held
<1>1. next = Hold(state, p, sizes)
  BY DEF Hold
<1>2. /\ sizes \in Seq(Nat) /\ p \in 1..Len(sizes) /\ sizes[p] \in Nat
      /\ CrcBytes \in Nat /\ MaxPacketSize \in Nat
  BY BufferAssumption DEF Holds
<1>3. /\ Holds(room, n, sizes)
      /\ \/ room.buffered = <<>>
         \/ Header + CrcBytes + room.counted + Len(room.buffered) + 1 + sizes[p]
              <= MaxPacketSize
  <2>1. CASE RawSizeWith(state, p, sizes) > MaxPacketSize
    <3>1. room = Flush(state, sizes)
      BY <2>1
    <3> HIDE DEF room
    <3> QED
      BY <3>1, FlushKeeps
  <2>2. CASE ~(RawSizeWith(state, p, sizes) > MaxPacketSize)
    <3>1. room = state
      BY <2>2
    <3>2. /\ state.counted \in Nat /\ Len(state.buffered) \in Nat
      BY DEF Holds, Ways
    <3>3. RawSizeWith(state, p, sizes) <= MaxPacketSize
      BY <1>2, <2>2, <3>2 DEF RawSizeWith, Header
    <3> HIDE DEF room
    <3> QED
      BY <3>1, <3>3 DEF RawSizeWith
  <2> QED
    BY <2>1, <2>2
<1> HIDE DEF room
<1>4. /\ room \in Ways /\ room.buffered \in Seq(1..n) /\ room.counted \in Nat
      /\ room.counted = Length(room.buffered, sizes)
      /\ FlattenSeq(Sent(room.wire)) \o room.buffered = UpTo(n)
      /\ n \in 0..Len(sizes) /\ room.wire \in Seq(Datagram)
      /\ room.budget \in Int /\ room.buffered \in Seq(Nat)
  BY <1>3 DEF Holds, Ways
<1>5. /\ held.buffered = Append(room.buffered, p)
      /\ held.counted = room.counted + sizes[p] /\ held.wire = room.wire
      /\ held = [buffered |-> Append(room.buffered, p),
                 counted |-> room.counted + sizes[p], budget |-> room.budget,
                 wire |-> room.wire]
  <2> DEFINE q == Append(room.buffered, p)
             c == room.counted + sizes[p]
  <2>1. held = WithBuffer(room, q, c)
    BY DEF WithBuffer
  <2> HIDE DEF q, c, held
  <2>2. held = [buffered |-> q, counted |-> c, budget |-> room.budget,
                wire |-> room.wire]
    BY <1>4, <2>1, WithBufferIs
  <2>3. held.buffered = q /\ held.counted = c /\ held.wire = room.wire
    BY <2>2
  <2> QED
    BY <2>2, <2>3 DEF q, c
<1> HIDE DEF held
<1>6. held \in Ways
  <2>1. Append(room.buffered, p) \in Seq(Nat) /\ room.counted + sizes[p] \in Nat
    BY <1>2, <1>4
  <2> QED
    BY <1>4, <1>5, <2>1 DEF Ways
<1>7. FlattenSeq(Sent(room.wire)) \in Seq(Nat)
  <2>1. Sent(room.wire) \in Seq(Seq(Nat))
    <3>1. \A d \in Datagram : d.packets \in Seq(Nat)
      BY DEF Datagram
    <3> QED
      BY <1>4, <3>1 DEF Sent
  <2> QED
    BY <2>1, FlattenType
<1>8. /\ held.buffered \in Seq(1..p)
      /\ FlattenSeq(Sent(held.wire)) \o held.buffered = UpTo(p)
  BY <1>4, <1>5, <1>7, OneBehind
<1>9. Known(room.buffered, sizes)
  <2>1. \A q \in Seq(1..n) : n \in 0..Len(sizes) => q \in Seq(1..Len(sizes))
    OBVIOUS
  <2> QED
    BY <1>2, <1>4, <2>1 DEF Known
<1>10. /\ held.counted = Length(held.buffered, sizes)
       /\ Known(held.buffered, sizes)
  BY <1>2, <1>4, <1>5, <1>9, LengthAppend
<1>11. ASSUME LengthsFit PROVE Fits(RawSize(held.buffered, sizes))
  <2>1. Len(held.buffered) = Len(room.buffered) + 1 /\ Len(room.buffered) \in Nat
    BY <1>4, <1>5
  <2>2. CASE room.buffered = <<>>
    <3>1. Len(held.buffered) = 1
      BY <2>1, <2>2
    <3>2. RawSize(held.buffered, sizes) = Length(held.buffered, sizes)
      BY <3>1 DEF RawSize
    <3>3. room.counted = 0
      BY <1>4, <2>2, LengthEmpty
    <3>4. RawSize(held.buffered, sizes) = sizes[p]
      BY <1>2, <1>5, <1>10, <3>2, <3>3
    <3> QED
      BY <1>11, <3>4
  <2>3. CASE room.buffered # <<>>
    <3>1. Len(held.buffered) > 1
      BY <1>4, <2>1, <2>3
    <3>2. RawSize(held.buffered, sizes)
            = Header + held.counted + Len(held.buffered)
      BY <1>10, <3>1 DEF RawSize
    <3>3. Header + CrcBytes + room.counted + Len(room.buffered) + 1 + sizes[p]
            <= MaxPacketSize
      BY <1>3, <2>3
    <3>4. /\ held.counted = room.counted + sizes[p] /\ room.counted \in Nat
          /\ sizes[p] \in Nat /\ CrcBytes \in Nat
      BY <1>2, <1>4, <1>5
    <3>6. MaxPacketSize \in Nat
      BY <1>2
    <3> HIDE DEF p
    <3>5. RawSize(held.buffered, sizes) + CrcBytes <= MaxPacketSize
      BY ONLY <2>1, <3>2, <3>3, <3>4, <3>6 DEF Header
    <3> QED
      BY <3>5 DEF Fits
  <2> QED
    BY <2>2, <2>3
<1>12. LengthsFit => \A i \in 1..Len(held.wire) : Fits(held.wire[i].raw)
  BY <1>3, <1>5 DEF Holds
<1>13. Holds(held, p, sizes)
  <2>1. p \in 0..Len(sizes)
    BY <1>2
  <2> HIDE DEF p
  <2> QED
    BY <1>2, <1>6, <1>8, <1>10, <1>11, <1>12, <2>1 DEF Holds
<1>14. Holds(next, p, sizes)
  <2>1. Holds(Flush(held, sizes), p, sizes)
    BY <1>13, FlushKeeps
  <2> QED
    BY <1>13, <2>1
<1> QED
  BY <1>1, <1>14

-----------------------------------------------------------------------------
\* The inductive invariant.
BufferInv == handed \in Seq(Lengths) /\ Holds(Current, Len(handed), handed)

\* A step that becomes a state leads there.
LEMMA BecomeIs ==
  ASSUME NEW CONSTANT state, state \in Ways, Become(state)
  PROVE  Current' = state
BY DEF Become, Current, Ways

\* A new budget changes nothing else.
LEMMA BudgetKeeps ==
  ASSUME NEW state, NEW n, NEW sizes, Holds(state, n, sizes), NEW b \in Int
  PROVE  Holds([state EXCEPT !.budget = b], n, sizes)
<1> DEFINE next == [state EXCEPT !.budget = b]
<1>1. /\ next \in Ways /\ next.buffered = state.buffered
      /\ next.counted = state.counted /\ next.wire = state.wire
  BY DEF Holds, Ways
<1> HIDE DEF next
<1>2. Holds(next, n, sizes)
  BY <1>1 DEF Holds
<1> QED
  BY <1>2 DEF next

\* At the start nothing is held or sent.
LEMMA BufferInitInv == BufferInit => BufferInv
<1> SUFFICES ASSUME BufferInit PROVE BufferInv
  OBVIOUS
<1>1. /\ handed = <<>> /\ Current.buffered = <<>> /\ Current.counted = 0
      /\ Current.wire = <<>> /\ Current.budget = Rate /\ Current \in Ways
  <2>1. <<>> \in Seq(Nat) /\ <<>> \in Seq(Datagram) /\ Rate \in Int
    BY BufferAssumption
  <2> QED
    BY <2>1 DEF BufferInit, Current, Ways
<1>2. FlattenSeq(Sent(<<>>)) = <<>>
  BY DEF Sent, FlattenSeq
<1>3. UpTo(0) = <<>>
  BY DEF UpTo
<1>4. Length(<<>>, <<>>) = 0
  BY LengthEmpty
<1>5. Holds(Current, 0, <<>>)
  BY <1>1, <1>2, <1>3, <1>4 DEF Holds
<1> QED
  BY <1>1, <1>5 DEF BufferInv

\* A packet is handed over.
LEMMA BufferedSendStep ==
  ASSUME BufferInv, NEW length \in Lengths, BufferedSend(length)
  PROVE  BufferInv'
<1> DEFINE n == Len(handed)
           more == Append(handed, length)
<1>1. /\ handed \in Seq(Lengths) /\ Lengths \subseteq Nat /\ length \in Nat
      /\ handed \in Seq(Nat) /\ n \in Nat /\ Holds(Current, n, handed)
  <2>1. handed \in Seq(Lengths) /\ Holds(Current, n, handed)
    BY DEF BufferInv
  <2>2. Lengths \subseteq Nat /\ length \in Nat
    BY BufferAssumption
  <2>3. handed \in Seq(Nat) /\ n \in Nat
    BY <2>1, <2>2, SeqWider
  <2> QED
    BY <2>1, <2>2, <2>3
<1>2. /\ more \in Seq(Lengths) /\ Len(more) = n + 1 /\ more[n + 1] = length
      /\ n + 1 \in 1..Len(more)
  BY <1>1
<1>3. /\ handed' = more
      /\ Become(IF length > SmallLimit THEN LargeSend(Current, n + 1, more)
                                       ELSE Hold(Current, n + 1, more))
  BY <1>2 DEF BufferedSend
<1>4. Holds(Current, n, more)
  BY <1>1, MoreSizes
<1>5. LengthsFit => Fits(more[n + 1])
  BY <1>2 DEF LengthsFit, Fits
<1> HIDE DEF more
<1>6. PICK state : /\ Holds(state, n + 1, more) /\ Become(state)
  <2>1. CASE length > SmallLimit
    <3>1. Holds(LargeSend(Current, n + 1, more), n + 1, more)
      BY <1>1, <1>2, <1>4, <1>5, LargeKeeps
    <3> QED
      BY <1>3, <2>1, <3>1
  <2>2. CASE ~(length > SmallLimit)
    <3>1. Holds(Hold(Current, n + 1, more), n + 1, more)
      BY <1>1, <1>2, <1>4, <1>5, HoldKeeps
    <3> QED
      BY <1>3, <2>2, <3>1
  <2> QED
    BY <2>1, <2>2
<1>7. Current' = state
  BY <1>6, BecomeIs DEF Holds
<1> QED
  BY <1>2, <1>3, <1>6, <1>7 DEF BufferInv

\* The timer.
LEMMA TickStep ==
  ASSUME BufferInv, Tick
  PROVE  BufferInv'
<1> DEFINE b == UpdatedBudget(Current.budget)
           paid == [Current EXCEPT !.budget = b]
           next == Flush(paid, handed)
<1>1. Holds(Current, Len(handed), handed) /\ Current.budget \in Int
  BY DEF BufferInv, Holds, Ways
<1>2. b \in Int
  BY <1>1, BufferAssumption DEF UpdatedBudget
<1>3. Become(next) /\ handed' = handed
  BY DEF Tick
<1> HIDE DEF b
<1>4. Holds(paid, Len(handed), handed)
  BY <1>1, <1>2, BudgetKeeps
<1> HIDE DEF paid
<1>5. Holds(next, Len(handed), handed)
  BY <1>4, FlushKeeps
<1>6. Current' = next
  BY <1>3, <1>5, BecomeIs DEF Holds
<1> QED
  BY <1>3, <1>5, <1>6 DEF BufferInv

\* Every step keeps it.
LEMMA BufferNextInv == BufferInv /\ [BufferNext]_bufferVars => BufferInv'
<1> SUFFICES ASSUME BufferInv, [BufferNext]_bufferVars PROVE BufferInv'
  OBVIOUS
<1>1. CASE \E length \in Lengths : BufferedSend(length)
  BY <1>1, BufferedSendStep
<1>2. CASE Tick
  BY <1>2, TickStep
<1>3. CASE UNCHANGED bufferVars
  <2>1. Current' = Current /\ handed' = handed
    BY <1>3 DEF bufferVars, Current
  <2> QED
    BY <2>1 DEF BufferInv
<1> QED
  BY <1>1, <1>2, <1>3 DEF BufferNext

\* The invariant holds always.
LEMMA BufferInvariance == BufferSpec => []BufferInv
BY BufferInitInv, BufferNextInv, PTL DEF BufferSpec

\* Packets leave in the order in which they were handed over, none is lost
\* between the buffer and the socket and none leaves twice (InternalBufferedSend,
\* FlushBuffer), for all sizes, limits and rates.
THEOREM BufferOrderKept == BufferSpec => []OrderKept
<1>1. BufferInv => OrderKept
  BY DEF BufferInv, Holds, Current, Sent, UpTo, OrderKept
<1> QED
  BY <1>1, BufferInvariance, PTL

\* Where nothing is compressed, every datagram fits the session's packet size,
\* if every packet by itself does (raw_size in InternalBufferedSend).
THEOREM BufferDatagramFits ==
  LengthsFit /\ ~Compressing => (BufferSpec => []DatagramFits)
<1> SUFFICES ASSUME LengthsFit, ~Compressing
             PROVE  BufferSpec => []DatagramFits
  OBVIOUS
<1>1. BufferInv => DatagramFits
  BY DEF BufferInv, Holds, Current, Fits, EncodedSizes, DatagramFits
<1> QED
  BY <1>1, BufferInvariance, PTL

\* Compression makes a datagram at most one byte too long.
THEOREM BufferOneByteOver ==
  LengthsFit =>
    (BufferSpec => [](\A i \in 1..Len(wire) : \A size \in EncodedSizes(wire[i].raw) :
                        size <= MaxPacketSize + CompressFlag))
<1> DEFINE Over == \A i \in 1..Len(wire) : \A size \in EncodedSizes(wire[i].raw) :
                     size <= MaxPacketSize + CompressFlag
<1> SUFFICES ASSUME LengthsFit
             PROVE  BufferSpec => []Over
  OBVIOUS
<1>1. BufferInv => Over
  <2> SUFFICES ASSUME BufferInv, NEW i \in 1..Len(wire),
                      NEW size \in EncodedSizes(wire[i].raw)
               PROVE  size <= MaxPacketSize + CompressFlag
    OBVIOUS
  <2>1. wire[i].raw \in Nat /\ wire[i].raw + CrcBytes <= MaxPacketSize
    <3>1. Current \in Ways /\ Current.wire = wire /\ Fits(wire[i].raw)
      BY DEF BufferInv, Holds, Current
    <3>2. wire \in Seq(Datagram)
      BY <3>1 DEF Ways
    <3>3. wire[i] \in Datagram
      BY <3>2
    <3>4. wire[i].raw \in Nat
      BY <3>3 DEF Datagram
    <3> QED
      BY <3>1, <3>4 DEF Fits
  <2>2. size \in {wire[i].raw + CrcBytes, wire[i].raw + 1 + CrcBytes}
    BY DEF EncodedSizes
  <2> QED
    BY <2>1, <2>2, BufferAssumption DEF CompressFlag
<1> QED
  BY <1>1, BufferInvariance, PTL
=============================================================================
