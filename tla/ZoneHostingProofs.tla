------------------------- MODULE ZoneHostingProofs -------------------------
(***************************************************************************)
(* What world believes of its zone servers, and whom they let in: for any  *)
(* servers, zones and clients, and any number of requests and incidents.   *)
(***************************************************************************)
EXTENDS ZoneHosting, SequenceLemmas

\* Messages to a process.
DownMessage ==
  [op : {"ZoneBootup"}, zone : Zones]
    \union [op : {"ZoneIncClient"}, client : Clients, zone : Zones]
    \union [op : {"AcceptWorldEntrance"}, client : Clients]
    \union [op : {"DropClient"}, client : Clients]
    \union [op : {"ZoneShutdown"}]

\* Messages to world.
UpMessage ==
  [op : {"SetZone"}, zone : Zones \union {None}]
    \union [op : {"AcceptWorldEntrance"}, client : Clients, ok : BOOLEAN]

\* What a Client may ask and wait for.
Request ==
  [zone : Zones \union {None}, waiting : Servers \union {None, Gone},
   triggered : BOOLEAN, timer : BOOLEAN]

\* Type correctness.
TypeOK ==
  /\ list \in Seq(Servers)
  /\ view \in [Servers -> Zones \union {None}]
  /\ named \in [Servers -> Zones \union {None}]
  /\ booting \in [Servers -> BOOLEAN]
  /\ client \in [Clients -> Request]
  /\ hosted \in [Servers -> Zones \union {None}]
  /\ auth \in [Servers -> SUBSET Clients]
  /\ link \in [Servers -> {"none", "linked", "closed"}]
  /\ down \in [Servers -> Seq(DownMessage)]
  /\ up \in [Servers -> Seq(UpMessage)]
  /\ warned \in [Clients -> Servers \union {None}]

\* World lists the servers it has a connection to, each once.
ListInv ==
  /\ \A s \in Servers : s \in Listed <=> link[s] # "none"
  /\ \A i, j \in 1..Len(list) : list[i] = list[j] => i = j

-----------------------------------------------------------------------------
(* Queues of messages.                                                     *)

\* An authorization of c is not withdrawn by what is in q.
NoDrop(q, c) == \A i \in 1..Len(q) : q[i] # DropClient(c)

\* c is asked about in q.
Asks(q, c) == \E i \in 1..Len(q) : q[i] = AcceptWorldEntrance(c)

\* c is announced for z in q, then neither dropped nor asked about, except
\* directly after the announcement.
Coming(q, c, z) ==
  \E i \in 1..Len(q) :
    /\ q[i] = ZoneIncClient(c, z)
    /\ \A j \in (i + 1)..Len(q) :
         q[j] # DropClient(c) /\ (q[j] = AcceptWorldEntrance(c) => j = i + 1)

\* c is asked about first, and then no more.
AskedNow(q, c) ==
  /\ q # <<>>
  /\ q[1] = AcceptWorldEntrance(c)
  /\ \A i \in 2..Len(q) : q[i] # AcceptWorldEntrance(c)

\* There is an answer about c in q.
Answers(q, c) == \E i \in 1..Len(q) : \E ok \in BOOLEAN : q[i] = Response(c, ok)

\* There is a message of kind op in q.
Mentions(q, op) == \E i \in 1..Len(q) : q[i].op = op

\* If there are announcements in q, the last one is of z.
LastSays(q, z) ==
  \A i \in 1..Len(q) :
    (/\ q[i].op = "SetZone"
     /\ \A j \in (i + 1)..Len(q) : q[j].op # "SetZone")
    => q[i].zone = z

\* q neither drops c nor asks about it.
Silent(q, c) ==
  \A i \in 1..Len(q) : q[i] # DropClient(c) /\ q[i] # AcceptWorldEntrance(c)

\* The kinds of messages to a process are apart, and tell their arguments.
LEMMA DownKinds ==
  /\ \A c \in Clients, z \in Zones :
       /\ ZoneIncClient(c, z) \in DownMessage
       /\ ZoneIncClient(c, z).op = "ZoneIncClient"
  /\ \A z \in Zones : ZoneBootup(z) \in DownMessage /\ ZoneBootup(z).op = "ZoneBootup"
  /\ \A c \in Clients :
       /\ AcceptWorldEntrance(c) \in DownMessage
       /\ AcceptWorldEntrance(c).op = "AcceptWorldEntrance"
       /\ DropClient(c) \in DownMessage
       /\ DropClient(c).op = "DropClient"
  /\ ZoneShutdown \in DownMessage /\ ZoneShutdown.op = "ZoneShutdown"
  /\ \A c, d \in Clients, y, z \in Zones :
       ZoneIncClient(c, y) = ZoneIncClient(d, z) => c = d /\ y = z
  /\ \A c, d \in Clients :
       /\ AcceptWorldEntrance(c) = AcceptWorldEntrance(d) => c = d
       /\ DropClient(c) = DropClient(d) => c = d
BY DEF DownMessage, ZoneIncClient, ZoneBootup, AcceptWorldEntrance, DropClient,
       ZoneShutdown

\* So are those to world.
LEMMA UpKinds ==
  /\ \A z \in Zones \union {None} :
       SetZone(z) \in UpMessage /\ SetZone(z).op = "SetZone" /\ SetZone(z).zone = z
  /\ \A c \in Clients, ok \in BOOLEAN :
       /\ Response(c, ok) \in UpMessage
       /\ Response(c, ok).op = "AcceptWorldEntrance"
  /\ \A c, d \in Clients, ok, no \in BOOLEAN :
       Response(c, ok) = Response(d, no) => c = d
BY DEF UpMessage, SetZone, Response

\* Taking the first message.
LEMMA TailAt ==
  ASSUME NEW M, NEW q \in Seq(M), q # <<>>
  PROVE  /\ Tail(q) \in Seq(M) /\ Head(q) = q[1] /\ Head(q) \in M
         /\ Len(q) \in Nat /\ Len(q) >= 1 /\ Len(Tail(q)) = Len(q) - 1
         /\ \A i \in 1..(Len(q) - 1) : Tail(q)[i] = q[i + 1]
OBVIOUS

\* Putting a message at the end.
LEMMA AppendAt ==
  ASSUME NEW M, NEW q \in Seq(M), NEW m \in M
  PROVE  Append(q, m) = q \o <<m>> /\ <<m>> \in Seq(M) /\ Append(q, m) \in Seq(M)
OBVIOUS

\* What is left of a queue to a process when its first message is taken.
LEMMA DownTail ==
  ASSUME NEW q \in Seq(DownMessage), q # <<>>, NEW c \in Clients
  PROVE  /\ NoDrop(q, c) => NoDrop(Tail(q), c) /\ Head(q) # DropClient(c)
         /\ ~Asks(q, c) => ~Asks(Tail(q), c) /\ Head(q) # AcceptWorldEntrance(c)
         /\ AskedNow(q, c) => Head(q) = AcceptWorldEntrance(c) /\ ~Asks(Tail(q), c)
<1> DEFINE t == Tail(q)
<1>1. /\ t \in Seq(DownMessage) /\ Head(q) = q[1]
      /\ Len(q) \in Nat /\ Len(q) >= 1 /\ Len(t) = Len(q) - 1
      /\ \A i \in 1..(Len(q) - 1) : t[i] = q[i + 1]
  BY TailAt
<1> HIDE DEF t
<1>2. \A i \in 1..Len(t) : t[i] = q[i + 1] /\ i + 1 \in 1..Len(q) /\ i + 1 \in 2..Len(q)
  BY <1>1
<1>3. 1 \in 1..Len(q)
  BY <1>1
<1>5. NoDrop(q, c) => NoDrop(t, c) /\ Head(q) # DropClient(c)
  BY <1>1, <1>2, <1>3 DEF NoDrop
<1>6. ~Asks(q, c) => ~Asks(t, c) /\ Head(q) # AcceptWorldEntrance(c)
  BY <1>1, <1>2, <1>3 DEF Asks
<1>7. AskedNow(q, c) => Head(q) = AcceptWorldEntrance(c) /\ ~Asks(t, c)
  BY <1>1, <1>2, <1>3 DEF Asks, AskedNow
<1> QED
  BY <1>5, <1>6, <1>7 DEF t

\* A client that is coming still is, unless it is announced by the message
\* that is taken; then at most the question about it comes next.
LEMMA ComingTail ==
  ASSUME NEW q \in Seq(DownMessage), q # <<>>, NEW c \in Clients, NEW z \in Zones,
         Coming(q, c, z)
  PROVE  \/ Coming(Tail(q), c, z)
         \/ /\ Head(q) = ZoneIncClient(c, z)
            /\ NoDrop(Tail(q), c)
            /\ ~Asks(Tail(q), c) \/ AskedNow(Tail(q), c)
<1> DEFINE t == Tail(q)
<1>1. /\ t \in Seq(DownMessage) /\ Head(q) = q[1]
      /\ Len(q) \in Nat /\ Len(q) >= 1 /\ Len(t) = Len(q) - 1
      /\ \A i \in 1..(Len(q) - 1) : t[i] = q[i + 1]
  BY TailAt
<1> HIDE DEF t
<1>2. PICK i \in 1..Len(q) :
        /\ q[i] = ZoneIncClient(c, z)
        /\ \A j \in (i + 1)..Len(q) :
             q[j] # DropClient(c) /\ (q[j] = AcceptWorldEntrance(c) => j = i + 1)
  BY DEF Coming
<1>3. CASE i = 1
  <2>1. \A j \in 1..Len(t) : j + 1 \in 2..Len(q) /\ t[j] = q[j + 1]
    BY <1>1
  <2>2. NoDrop(t, c)
    BY <2>1, <1>2, <1>3 DEF NoDrop
  <2>3. \A j \in 1..Len(t) : t[j] = AcceptWorldEntrance(c) => j = 1
    <3> TAKE j \in 1..Len(t)
    <3> HAVE t[j] = AcceptWorldEntrance(c)
    <3>1. j + 1 \in (i + 1)..Len(q) /\ q[j + 1] = AcceptWorldEntrance(c)
      BY <2>1, <1>3
    <3>2. j + 1 = i + 1
      BY <3>1, <1>2
    <3> QED
      BY <3>2, <1>3
  <2>4. ASSUME Asks(t, c) PROVE AskedNow(t, c)
    <3>1. PICK j \in 1..Len(t) : t[j] = AcceptWorldEntrance(c)
      BY <2>4 DEF Asks
    <3>2. j = 1 /\ t[1] = AcceptWorldEntrance(c)
      BY <3>1, <2>3
    <3>3. t # <<>>
      BY <3>1, <1>1
    <3>4. \A k \in 2..Len(t) : t[k] # AcceptWorldEntrance(c)
      BY <2>3, <1>1
    <3> QED
      BY <3>2, <3>3, <3>4 DEF AskedNow
  <2> QED
    BY <2>2, <2>4, <1>1, <1>2, <1>3 DEF t
<1>4. CASE i # 1
  <2>1. i - 1 \in 1..Len(t) /\ t[i - 1] = q[i]
    BY <1>1, <1>4
  <2>2. ASSUME NEW j \in ((i - 1) + 1)..Len(t)
        PROVE  /\ t[j] # DropClient(c)
               /\ t[j] = AcceptWorldEntrance(c) => j = (i - 1) + 1
    <3>1. j + 1 \in (i + 1)..Len(q) /\ t[j] = q[j + 1]
      BY <1>1, <1>4
    <3>2. /\ q[j + 1] # DropClient(c)
          /\ q[j + 1] = AcceptWorldEntrance(c) => j + 1 = i + 1
      BY <3>1, <1>2
    <3> QED
      BY <3>1, <3>2
  <2>3. Coming(t, c, z)
    BY <2>1, <2>2, <1>2 DEF Coming
  <2> QED
    BY <2>3 DEF t
<1> QED
  BY <1>3, <1>4

\* What messages behind it change for a client they leave alone.
LEMMA SilentBehind ==
  ASSUME NEW q \in Seq(DownMessage), NEW r \in Seq(DownMessage),
         NEW c \in Clients, Silent(r, c)
  PROVE  /\ NoDrop(q, c) => NoDrop(q \o r, c)
         /\ ~Asks(q, c) => ~Asks(q \o r, c)
         /\ AskedNow(q, c) => AskedNow(q \o r, c)
         /\ \A z \in Zones : Coming(q, c, z) => Coming(q \o r, c, z)
<1> DEFINE w == q \o r
<1>1. /\ w \in Seq(DownMessage) /\ Len(w) = Len(q) + Len(r)
      /\ \A i \in 1..Len(q) : w[i] = q[i]
      /\ \A i \in 1..Len(r) : w[Len(q) + i] = r[i]
      /\ Len(q) \in Nat /\ Len(r) \in Nat
  BY ConcatAt
<1> HIDE DEF w
<1>2. \A i \in 1..Len(w) :
        \/ i \in 1..Len(q) /\ w[i] = q[i]
        \/ w[i] # DropClient(c) /\ w[i] # AcceptWorldEntrance(c)
  <2> TAKE i \in 1..Len(w)
  <2>1. i \in 1..Len(q) \/ (i - Len(q) \in 1..Len(r) /\ Len(q) + (i - Len(q)) = i)
    BY <1>1
  <2> QED
    BY <2>1, <1>1 DEF Silent
<1>3. \A i \in 1..Len(q) : i \in 1..Len(w)
  BY <1>1
<1>4. NoDrop(q, c) => NoDrop(w, c)
  BY <1>2 DEF NoDrop
<1>5. ~Asks(q, c) => ~Asks(w, c)
  BY <1>2 DEF Asks
<1>6. ASSUME AskedNow(q, c) PROVE AskedNow(w, c)
  <2>1. q # <<>> /\ q[1] = AcceptWorldEntrance(c)
        /\ \A i \in 2..Len(q) : q[i] # AcceptWorldEntrance(c)
    BY <1>6 DEF AskedNow
  <2>2. Len(q) >= 1
    BY <2>1
  <2>3. w # <<>> /\ w[1] = q[1]
    BY <2>2, <1>1
  <2>4. \A i \in 2..Len(w) : w[i] # AcceptWorldEntrance(c)
    <3> TAKE i \in 2..Len(w)
    <3>1. i \in 1..Len(w)
      OBVIOUS
    <3>2. i \in 1..Len(q) => i \in 2..Len(q)
      OBVIOUS
    <3> QED
      BY <3>1, <3>2, <2>1, <1>2
  <2> QED
    BY <2>1, <2>3, <2>4 DEF AskedNow
<1>7. ASSUME NEW z \in Zones, Coming(q, c, z) PROVE Coming(w, c, z)
  <2>1. PICK i \in 1..Len(q) :
          /\ q[i] = ZoneIncClient(c, z)
          /\ \A j \in (i + 1)..Len(q) :
               q[j] # DropClient(c) /\ (q[j] = AcceptWorldEntrance(c) => j = i + 1)
    BY <1>7 DEF Coming
  <2>2. i \in 1..Len(w) /\ w[i] = ZoneIncClient(c, z)
    BY <2>1, <1>1, <1>3
  <2>3. ASSUME NEW j \in (i + 1)..Len(w)
        PROVE  /\ w[j] # DropClient(c)
               /\ w[j] = AcceptWorldEntrance(c) => j = i + 1
    <3>1. j \in 1..Len(w)
      OBVIOUS
    <3>2. j \in 1..Len(q) => j \in (i + 1)..Len(q)
      OBVIOUS
    <3> QED
      BY <3>1, <3>2, <2>1, <1>2
  <2> QED
    BY <2>2, <2>3 DEF Coming
<1> QED
  BY <1>4, <1>5, <1>6, <1>7 DEF w

\* A client whose announcement is put behind is coming.
LEMMA ComingBehind ==
  ASSUME NEW q \in Seq(DownMessage), NEW r \in Seq(DownMessage),
         NEW c \in Clients, NEW z \in Zones, Coming(r, c, z)
  PROVE  Coming(q \o r, c, z)
<1> DEFINE w == q \o r
           n == Len(q)
<1>1. /\ w \in Seq(DownMessage) /\ Len(w) = n + Len(r)
      /\ \A i \in 1..Len(r) : w[n + i] = r[i]
      /\ n \in Nat /\ Len(r) \in Nat
  BY ConcatAt
<1> HIDE DEF w, n
<1>2. PICK i \in 1..Len(r) :
        /\ r[i] = ZoneIncClient(c, z)
        /\ \A j \in (i + 1)..Len(r) :
             r[j] # DropClient(c) /\ (r[j] = AcceptWorldEntrance(c) => j = i + 1)
  BY DEF Coming
<1>3. n + i \in 1..Len(w) /\ w[n + i] = ZoneIncClient(c, z)
  BY <1>1, <1>2
<1>4. ASSUME NEW j \in ((n + i) + 1)..Len(w)
      PROVE  /\ w[j] # DropClient(c)
             /\ w[j] = AcceptWorldEntrance(c) => j = (n + i) + 1
  <2> DEFINE k == j - n
  <2>1. k \in (i + 1)..Len(r) /\ k \in 1..Len(r) /\ n + k = j
    BY <1>1
  <2>2. w[j] = r[k]
    BY <2>1, <1>1
  <2>3. r[k] # DropClient(c) /\ (r[k] = AcceptWorldEntrance(c) => k = i + 1)
    BY <2>1, <1>2
  <2> QED
    BY <2>1, <2>2, <2>3, <1>1
<1> QED
  BY <1>3, <1>4 DEF Coming, w

\* What is mentioned in a queue is in its first message or behind it.
LEMMA TailMentions ==
  ASSUME NEW M, NEW q \in Seq(M), q # <<>>, NEW op
  PROVE  /\ Mentions(q, op) => Head(q).op = op \/ Mentions(Tail(q), op)
         /\ Mentions(Tail(q), op) => Mentions(q, op)
<1> DEFINE t == Tail(q)
<1>1. /\ Head(q) = q[1] /\ Len(q) \in Nat /\ Len(t) = Len(q) - 1
      /\ \A i \in 1..(Len(q) - 1) : t[i] = q[i + 1]
  BY TailAt
<1> HIDE DEF t
<1>2. \A i \in 1..Len(q) : i = 1 \/ (i - 1 \in 1..Len(t) /\ t[i - 1] = q[i])
  BY <1>1
<1>3. \A i \in 1..Len(t) : t[i] = q[i + 1] /\ i + 1 \in 1..Len(q)
  BY <1>1
<1> QED
  BY <1>1, <1>2, <1>3 DEF Mentions, t

\* What is mentioned in two queues.
LEMMA MentionsConcat ==
  ASSUME NEW M, NEW q \in Seq(M), NEW r \in Seq(M), NEW op
  PROVE  Mentions(q \o r, op) <=> Mentions(q, op) \/ Mentions(r, op)
<1> DEFINE w == q \o r
<1>1. /\ Len(w) = Len(q) + Len(r)
      /\ \A i \in 1..Len(q) : w[i] = q[i]
      /\ \A i \in 1..Len(r) : w[Len(q) + i] = r[i]
      /\ Len(q) \in Nat /\ Len(r) \in Nat
  BY ConcatAt
<1> HIDE DEF w
<1>2. \A i \in 1..Len(q) : i \in 1..Len(w)
  BY <1>1
<1>3. \A i \in 1..Len(r) : Len(q) + i \in 1..Len(w)
  BY <1>1
<1>4. \A i \in 1..Len(w) :
        i \in 1..Len(q) \/ (i - Len(q) \in 1..Len(r) /\ Len(q) + (i - Len(q)) = i)
  BY <1>1
<1>5. ASSUME Mentions(w, op) PROVE Mentions(q, op) \/ Mentions(r, op)
  <2>1. PICK i \in 1..Len(w) : w[i].op = op
    BY <1>5 DEF Mentions
  <2> QED
    BY <2>1, <1>1, <1>4 DEF Mentions
<1>6. Mentions(q, op) => Mentions(w, op)
  BY <1>1, <1>2 DEF Mentions
<1>7. Mentions(r, op) => Mentions(w, op)
  BY <1>1, <1>3 DEF Mentions
<1> QED
  BY <1>5, <1>6, <1>7 DEF w

\* What is left of a queue to world when its first message is taken.
LEMMA UpTail ==
  ASSUME NEW q \in Seq(UpMessage), q # <<>>
  PROVE  /\ \A c \in Clients : ~Answers(q, c) => ~Answers(Tail(q), c)
         /\ \A z : LastSays(q, z) => LastSays(Tail(q), z)
         /\ \A z : LastSays(q, z) /\ ~Mentions(Tail(q), "SetZone")
                     => (Head(q).op = "SetZone" => Head(q).zone = z)
<1> DEFINE t == Tail(q)
<1>1. /\ t \in Seq(UpMessage) /\ Head(q) = q[1]
      /\ Len(q) \in Nat /\ Len(q) >= 1 /\ Len(t) = Len(q) - 1
      /\ \A i \in 1..(Len(q) - 1) : t[i] = q[i + 1]
  BY TailAt
<1> HIDE DEF t
<1>2. \A i \in 1..Len(t) : t[i] = q[i + 1] /\ i + 1 \in 1..Len(q)
  BY <1>1
<1>4. \A c \in Clients : ~Answers(q, c) => ~Answers(t, c)
  BY <1>2 DEF Answers
<1>7. ASSUME NEW z, LastSays(q, z) PROVE LastSays(t, z)
  <2> SUFFICES ASSUME NEW i \in 1..Len(t), t[i].op = "SetZone",
                      \A j \in (i + 1)..Len(t) : t[j].op # "SetZone"
               PROVE  t[i].zone = z
    BY DEF LastSays
  <2>1. \A j \in ((i + 1) + 1)..Len(q) : q[j].op # "SetZone"
    <3> TAKE j \in ((i + 1) + 1)..Len(q)
    <3>1. j - 1 \in (i + 1)..Len(t) /\ t[j - 1] = q[j]
      BY <1>1
    <3> QED
      BY <3>1
  <2> QED
    BY <2>1, <1>2, <1>7 DEF LastSays
<1>8. ASSUME NEW z, LastSays(q, z), ~Mentions(t, "SetZone"), Head(q).op = "SetZone"
      PROVE  Head(q).zone = z
  <2>1. 1 \in 1..Len(q) /\ q[1].op = "SetZone"
    BY <1>1, <1>8
  <2>2. \A j \in (1 + 1)..Len(q) : q[j].op # "SetZone"
    <3> TAKE j \in (1 + 1)..Len(q)
    <3>1. j - 1 \in 1..Len(t) /\ t[j - 1] = q[j]
      BY <1>1
    <3> QED
      BY <3>1, <1>8 DEF Mentions
  <2> QED
    BY <2>1, <2>2, <1>1, <1>8 DEF LastSays
<1> QED
  BY <1>4, <1>7, <1>8 DEF t

\* An announcement behind the others is the last one.
LEMMA SaysBehind ==
  ASSUME NEW q \in Seq(UpMessage), NEW z \in Zones \union {None}
  PROVE  /\ Append(q, SetZone(z)) \in Seq(UpMessage)
         /\ LastSays(Append(q, SetZone(z)), z)
         /\ Mentions(Append(q, SetZone(z)), "SetZone")
         /\ \A c \in Clients : ~Answers(q, c) => ~Answers(Append(q, SetZone(z)), c)
<1> DEFINE m == SetZone(z)
           w == Append(q, m)
<1>1. m \in UpMessage /\ m.op = "SetZone" /\ m.zone = z
  BY UpKinds
<1>2. \A c \in Clients, ok \in BOOLEAN : m # Response(c, ok)
  BY <1>1, UpKinds
<1> HIDE DEF m
<1>3. /\ w \in Seq(UpMessage) /\ Len(w) = Len(q) + 1 /\ Len(q) \in Nat
      /\ w[Len(q) + 1] = m /\ \A i \in 1..Len(q) : w[i] = q[i]
  BY <1>1
<1> HIDE DEF w
<1>4. Len(q) + 1 \in 1..Len(w)
  BY <1>3
<1>5. LastSays(w, z)
  <2> SUFFICES ASSUME NEW i \in 1..Len(w),
                      \A j \in (i + 1)..Len(w) : w[j].op # "SetZone"
               PROVE  w[i].zone = z
    BY DEF LastSays
  <2>1. i = Len(q) + 1
    <3>1. CASE i # Len(q) + 1
      <4>1. Len(q) + 1 \in (i + 1)..Len(w)
        BY <3>1, <1>3
      <4> QED
        BY <4>1, <1>1, <1>3
    <3> QED
      BY <3>1
  <2> QED
    BY <2>1, <1>1, <1>3
<1>6. Mentions(w, "SetZone")
  BY <1>1, <1>3, <1>4 DEF Mentions
<1>7. ASSUME NEW c \in Clients, Answers(w, c) PROVE Answers(q, c)
  <2>1. PICK i \in 1..Len(w), ok \in BOOLEAN : w[i] = Response(c, ok)
    BY <1>7 DEF Answers
  <2>2. i # Len(q) + 1
    BY <2>1, <1>2, <1>3
  <2>3. i \in 1..Len(q)
    BY <2>2, <1>3
  <2> QED
    BY <2>1, <2>3, <1>3 DEF Answers
<1> QED
  BY <1>3, <1>5, <1>6, <1>7 DEF w, m

\* An answer behind changes neither what is announced nor the other answers.
LEMMA AnswerBehind ==
  ASSUME NEW q \in Seq(UpMessage), NEW d \in Clients, NEW ok \in BOOLEAN
  PROVE  /\ Append(q, Response(d, ok)) \in Seq(UpMessage)
         /\ \A z : LastSays(q, z) => LastSays(Append(q, Response(d, ok)), z)
         /\ Mentions(Append(q, Response(d, ok)), "SetZone") <=> Mentions(q, "SetZone")
         /\ \A c \in Clients : c # d /\ ~Answers(q, c)
              => ~Answers(Append(q, Response(d, ok)), c)
<1> DEFINE m == Response(d, ok)
           w == Append(q, m)
<1>1. m \in UpMessage /\ m.op # "SetZone"
  BY UpKinds
<1>2. \A c \in Clients, no \in BOOLEAN : m = Response(c, no) => c = d
  BY UpKinds
<1> HIDE DEF m
<1>3. /\ w \in Seq(UpMessage) /\ Len(w) = Len(q) + 1 /\ Len(q) \in Nat
      /\ w[Len(q) + 1] = m /\ \A i \in 1..Len(q) : w[i] = q[i]
  BY <1>1
<1> HIDE DEF w
<1>4. \A i \in 1..Len(w) : i = Len(q) + 1 \/ i \in 1..Len(q)
  BY <1>3
<1>5. ASSUME NEW z, LastSays(q, z) PROVE LastSays(w, z)
  <2> SUFFICES ASSUME NEW i \in 1..Len(w), w[i].op = "SetZone",
                      \A j \in (i + 1)..Len(w) : w[j].op # "SetZone"
               PROVE  w[i].zone = z
    BY DEF LastSays
  <2>1. i \in 1..Len(q) /\ q[i].op = "SetZone" /\ w[i] = q[i]
    BY <1>1, <1>3, <1>4
  <2>2. \A j \in (i + 1)..Len(q) : q[j].op # "SetZone"
    <3> TAKE j \in (i + 1)..Len(q)
    <3>1. j \in 1..Len(q) /\ j \in (i + 1)..Len(w)
      BY <1>3
    <3> QED
      BY <3>1, <1>3
  <2> QED
    BY <2>1, <2>2, <1>5 DEF LastSays
<1>6. \A i \in 1..Len(q) : i \in 1..Len(w)
  BY <1>3
<1>7. Mentions(w, "SetZone") <=> Mentions(q, "SetZone")
  BY <1>1, <1>3, <1>4, <1>6 DEF Mentions
<1>8. ASSUME NEW c \in Clients, c # d, Answers(w, c) PROVE Answers(q, c)
  <2>1. PICK i \in 1..Len(w), no \in BOOLEAN : w[i] = Response(c, no)
    BY <1>8 DEF Answers
  <2>2. i \in 1..Len(q)
    BY <2>1, <1>2, <1>3, <1>4, <1>8
  <2> QED
    BY <2>1, <2>2, <1>3 DEF Answers
<1> QED
  BY <1>3, <1>5, <1>7, <1>8 DEF w, m

-----------------------------------------------------------------------------
(* World's list, and what its servers are sent when clients enter a zone.  *)

\* FirstOf finds a listed server, if there is one.
LEMMA FirstOfFinds ==
  ASSUME NEW S \in SUBSET Servers, list \in Seq(Servers), HostingAssumption
  PROVE  /\ FirstOf(S) = None \/ FirstOf(S) \in Listed \intersect S
         /\ (Listed \intersect S) # {} => FirstOf(S) \in Listed \intersect S
<1> DEFINE n == Len(list)
           I == {i \in 1..n : list[i] \in S}
<1>1. n \in Nat /\ DOMAIN list = 1..n /\ \A i \in 1..n : list[i] \in Servers
  OBVIOUS
<1>2. CASE I = {}
  <2>1. \A i \in 1..n : list[i] \notin S
    BY <1>2
  <2>2. SelectInSeq(list, LAMBDA s : s \in S) = 0
    BY <2>1, <1>1 DEF SelectInSeq
  <2>3. FirstOf(S) = None
    BY <2>2 DEF FirstOf
  <2>4. Listed \intersect S = {}
    BY <2>1, <1>1 DEF Listed
  <2> QED
    BY <2>3, <2>4
<1>3. CASE I # {}
  <2>1. I \subseteq Nat
    OBVIOUS
  <2>2. Min(I) \in I
    <3> HIDE DEF I
    <3> QED
      BY <1>3, <2>1, MinIsLeast
  <2>3. SelectInSeq(list, LAMBDA s : s \in S) = Min(I)
    BY <1>3 DEF SelectInSeq
  <2>4. FirstOf(S) = list[Min(I)]
    BY <2>2, <2>3, <1>1 DEF FirstOf
  <2>5. Min(I) \in 1..n /\ list[Min(I)] \in S
    BY <2>2
  <2>6. list[Min(I)] \in Listed
    BY <2>5, <1>1 DEF Listed
  <2> QED
    BY <2>4, <2>5, <2>6
<1> QED
  BY <1>2, <1>3

\* Two messages at most, one after the other.
LEMMA ShortConcat ==
  ASSUME NEW x, NEW y
  PROVE  /\ <<x>> \o <<y>> = <<x, y>> /\ <<x>> \o <<>> = <<x>>
         /\ <<>> \o <<y>> = <<y>> /\ <<>> \o <<>> = <<>>
<1>1. <<x>> \in Seq({x, y}) /\ <<y>> \in Seq({x, y}) /\ <<>> \in Seq({x, y})
  OBVIOUS
<1>2. <<x>> \o <<y>> = <<x, y>>
  <2> DEFINE w == <<x>> \o <<y>>
  <2>1. w \in Seq({x, y}) /\ Len(w) = 2 /\ w[1] = x /\ w[2] = y
    BY <1>1
  <2>2. <<x, y>> \in Seq({x, y}) /\ Len(<<x, y>>) = 2
    OBVIOUS
  <2> HIDE DEF w
  <2>3. \A i \in 1..2 : w[i] = <<x, y>>[i]
    BY <2>1
  <2>4. w = <<x, y>>
    BY <2>1, <2>2, <2>3, SeqEqual
  <2> QED
    BY <2>4 DEF w
<1>3. <<x>> \o <<>> = <<x>> /\ <<>> \o <<y>> = <<y>> /\ <<>> \o <<>> = <<>>
  BY <1>1
<1> QED
  BY <1>2, <1>3

\* What a server is sent about one client.
LEMMA MessagesOf ==
  ASSUME NEW c \in Clients, NEW z \in Zones, NEW t, NEW u, NEW refused
  PROVE  /\ Messages(c, z, t, u, refused) \in Seq(DownMessage)
         /\ \A d \in Clients : d # c => Silent(Messages(c, z, t, u, refused), d)
         /\ u = t /\ ~client[c].triggered
              => Coming(Messages(c, z, t, u, refused), c, z)
<1> DEFINE inc == ZoneIncClient(c, z)
           ask == AcceptWorldEntrance(c)
           drop == DropClient(c)
           m == Messages(c, z, t, u, refused)
<1>1. /\ {inc, ask, drop} \subseteq DownMessage
      /\ inc # ask /\ inc # drop /\ drop # ask
  BY DownKinds
<1>2. \A d \in Clients : d # c =>
        \A x \in {inc, ask, drop} : x # DropClient(d) /\ x # AcceptWorldEntrance(d)
  <2> SUFFICES ASSUME NEW d \in Clients, d # c, NEW x \in {inc, ask, drop}
               PROVE  x # DropClient(d) /\ x # AcceptWorldEntrance(d)
    OBVIOUS
  <2> QED
    BY DownKinds
<1>3. m \in {<<>>, <<inc>>, <<ask>>, <<inc, ask>>, <<drop>>}
  <2>1. CASE u = t
    <3> DEFINE a == IF c \in Announced({c}) THEN <<inc>> ELSE <<>>
               b == IF c \in SeenCharacterSelect \ refused THEN <<ask>> ELSE <<>>
    <3>1. m = a \o b
      BY <2>1 DEF Messages
    <3>2. a \in {<<inc>>, <<>>} /\ b \in {<<ask>>, <<>>}
      OBVIOUS
    <3> HIDE DEF a, b, m, inc, ask
    <3> QED
      BY <3>1, <3>2, ShortConcat
  <2>2. CASE u # t
    BY <2>2 DEF Messages
  <2> QED
    BY <2>1, <2>2
<1>4. ASSUME u = t, ~client[c].triggered PROVE m \in {<<inc>>, <<inc, ask>>}
  <2> DEFINE b == IF c \in SeenCharacterSelect \ refused THEN <<ask>> ELSE <<>>
  <2>1. m = <<inc>> \o b
    BY <1>4 DEF Messages, Announced
  <2>2. b \in {<<ask>>, <<>>}
    OBVIOUS
  <2> HIDE DEF b, m, inc, ask
  <2> QED
    BY <2>1, <2>2, ShortConcat
<1> HIDE DEF m
<1>5. m \in Seq(DownMessage) /\ \A i \in 1..Len(m) : m[i] \in {inc, ask, drop}
  <2> HIDE DEF inc, ask, drop
  <2>1. \A i \in 1..Len(<<inc, ask>>) : i = 1 \/ i = 2
    OBVIOUS
  <2>2. CASE m = <<>>
    BY <2>2
  <2>3. CASE m = <<inc>>
    BY <2>3, <1>1
  <2>4. CASE m = <<ask>>
    BY <2>4, <1>1
  <2>5. CASE m = <<drop>>
    BY <2>5, <1>1
  <2>6. CASE m = <<inc, ask>>
    BY <2>6, <2>1, <1>1
  <2> QED
    BY <1>3, <2>2, <2>3, <2>4, <2>5, <2>6
<1>6. ASSUME NEW d \in Clients, d # c PROVE Silent(m, d)
  BY <1>2, <1>5, <1>6 DEF Silent
<1>7. ASSUME m = <<inc>> PROVE Coming(m, c, z)
  <2>1. 1 \in 1..Len(m) /\ m[1] = inc /\ (1 + 1)..Len(m) = {}
    BY <1>7
  <2> QED
    BY <2>1 DEF Coming
<1>8. ASSUME m = <<inc, ask>> PROVE Coming(m, c, z)
  <2>1. 1 \in 1..Len(m) /\ m[1] = inc /\ \A j \in (1 + 1)..Len(m) : j = 1 + 1 /\ m[j] = ask
    BY <1>8
  <2>2. \A j \in (1 + 1)..Len(m) :
          m[j] # DropClient(c) /\ (m[j] = AcceptWorldEntrance(c) => j = 1 + 1)
    BY <2>1, <1>1
  <2> HIDE DEF inc
  <2> QED
    BY <2>1, <2>2 DEF Coming, inc
<1> QED
  BY <1>4, <1>5, <1>6, <1>7, <1>8 DEF m

\* What server u is sent when clients enter z at t in the given order.
Batch(order, z, t, u, refused) ==
  FlattenSeq([i \in 1..Len(order) |-> Messages(order[i], z, t, u, refused)])

\* It leaves other clients alone, and those that are announced are coming.
LEMMA BatchOf ==
  ASSUME NEW order \in Seq(Clients), NEW z \in Zones, NEW t, NEW u, NEW refused,
         \A i, j \in 1..Len(order) : order[i] = order[j] => i = j
  PROVE  /\ Batch(order, z, t, u, refused) \in Seq(DownMessage)
         /\ \A d \in Clients :
              (\A i \in 1..Len(order) : order[i] # d)
                => Silent(Batch(order, z, t, u, refused), d)
         /\ \A i \in 1..Len(order) : u = t /\ ~client[order[i]].triggered
              => Coming(Batch(order, z, t, u, refused), order[i], z)
<1> DEFINE n == Len(order)
           ss == [i \in 1..n |-> Messages(order[i], z, t, u, refused)]
           b == Batch(order, z, t, u, refused)
<1>1. n \in Nat /\ \A i \in 1..n : order[i] \in Clients
  OBVIOUS
<1>2. \A i \in 1..n :
        /\ ss[i] \in Seq(DownMessage)
        /\ \A d \in Clients : d # order[i] => Silent(ss[i], d)
        /\ u = t /\ ~client[order[i]].triggered => Coming(ss[i], order[i], z)
  BY <1>1, MessagesOf
<1>3. ss \in Seq(Seq(DownMessage)) /\ Len(ss) = n
  <2> DEFINE Y == Seq(DownMessage)
  <2>1. \A i \in 1..n : ss[i] \in Y
    BY <1>2
  <2> HIDE DEF Y
  <2>2. ss \in [1..n -> Y]
    BY <2>1
  <2>3. ss \in Seq(Y) /\ Len(ss) = n
    <3> HIDE DEF ss, n
    <3> QED
      BY <1>1, <2>2
  <2> QED
    BY <2>3 DEF Y
<1>4. b = FlattenSeq(ss)
  BY DEF Batch
<1> HIDE DEF ss, b, n
<1>5. b \in Seq(DownMessage)
  BY <1>3, <1>4, FlattenType
<1>6. ASSUME NEW d \in Clients, \A i \in 1..n : order[i] # d
      PROVE  Silent(b, d)
  <2>1. From(b, ss, 1, n)
    BY <1>3, <1>4, FlattenFrom
  <2>2. ASSUME NEW k \in 1..Len(b)
        PROVE  b[k] # DropClient(d) /\ b[k] # AcceptWorldEntrance(d)
    <3>1. PICK j \in 1..n : \E l \in 1..Len(ss[j]) : b[k] = ss[j][l]
      BY <2>1 DEF From
    <3>2. Silent(ss[j], d)
      BY <1>2, <1>6
    <3> QED
      BY <3>1, <3>2 DEF Silent
  <2> QED
    BY <2>2 DEF Silent
<1>7. ASSUME NEW i \in 1..n, u = t, ~client[order[i]].triggered
      PROVE  Coming(b, order[i], z)
  <2> DEFINE c == order[i]
             m == ss[i]
  <2>1. c \in Clients /\ m \in Seq(DownMessage) /\ Coming(m, c, z)
    BY <1>1, <1>2, <1>7
  <2>2. PICK p, q \in Seq(DownMessage) : /\ b = (p \o m) \o q
                                         /\ From(q, ss, i + 1, n)
    BY <1>3, <1>4, FlattenSplit
  <2>3. Silent(q, c)
    <3>1. ASSUME NEW k \in 1..Len(q)
          PROVE  q[k] # DropClient(c) /\ q[k] # AcceptWorldEntrance(c)
      <4>1. PICK j \in (i + 1)..n : \E l \in 1..Len(ss[j]) : q[k] = ss[j][l]
        BY <2>2 DEF From
      <4>2. j \in 1..n /\ j # i
        BY <1>1
      <4>3. c # order[j]
        BY <4>2 DEF n
      <4>4. Silent(ss[j], c)
        BY <4>2, <4>3, <2>1, <1>2
      <4> QED
        BY <4>1, <4>4 DEF Silent
    <3> QED
      BY <3>1 DEF Silent
  <2> HIDE DEF c, m
  <2>4. Coming(p \o m, c, z)
    BY <2>1, ComingBehind
  <2>5. p \o m \in Seq(DownMessage)
    BY <2>1, ConcatAt
  <2>6. Coming((p \o m) \o q, c, z)
    BY <2>1, <2>3, <2>4, <2>5, SilentBehind
  <2> QED
    BY <2>2, <2>6 DEF c
<1> QED
  BY <1>5, <1>6, <1>7 DEF b, n

-----------------------------------------------------------------------------
(* The invariant.                                                          *)

\* AnswerComing, for a server with the queues d and u.
Answering(d, u) ==
  \/ Mentions(u, "SetZone")
  \/ Mentions(d, "ZoneBootup") \/ Mentions(d, "ZoneIncClient")

\* What world believes of a server with link l, queues d and u and zone h: the
\* zone n it announced, the zone v it is to have, b if it is being booted.  The
\* last announcement under way is true; without one what was announced is,
\* and without an answer to come the rest is.
Settled(l, d, u, h, n, v, b) ==
  l = "linked" =>
    /\ LastSays(u, h)
    /\ ~Mentions(u, "SetZone") => n = h
    /\ ~Answering(d, u) => v = h /\ b = FALSE

TruthInv ==
  \A s \in Servers :
    Settled(link[s], down[s], up[s], hosted[s], named[s], view[s], booting[s])

\* A process that ends with its zone leaves no answer behind that would be
\* taken for one of its next zone.
QuietInv ==
  \A s \in Servers, c \in Clients :
    link[s] = "linked" /\ hosted[s] = None => ~Answers(up[s], c)

\* Client c, who was announced for zone z to a server with queues d and u, zone
\* h, link l and authorizations A, is expected when it is answered that it may
\* come: it is coming, or authorized; or the server hosts another zone, or has
\* lost its own; or it is about to find that it hosts none, and will not answer;
\* or nothing has been asked, and world lets nobody pass.
Awaited(d, u, h, l, A, c, z) ==
  \/ Coming(d, c, z)
  \/ c \in A /\ NoDrop(d, c)
  \/ h \notin {None, z}
  \/ h = None /\ l # "linked"
  \/ h = None /\ AskedNow(d, c) /\ ~Answers(u, c)
  \/ ~Asks(d, c) /\ ~Answers(u, c)

SentInv ==
  \A s \in Servers, c \in Clients :
    warned[c] = s =>
      /\ link[s] # "none"
      /\ client[c].zone # None
      /\ Awaited(down[s], up[s], hosted[s], link[s], auth[s], c, client[c].zone)

IInv ==
  /\ TypeOK
  /\ ListInv
  /\ TruthInv
  /\ WaitIsFounded
  /\ KillProcessOnDynamicShutdown => QuietInv /\ SentInv

\* AnswerComing says what Answering says.
LEMMA AnsweringIs ==
  ASSUME TypeOK, NEW s \in Servers
  PROVE  AnswerComing(s) <=> Answering(down[s], up[s])
<1>1. down[s] \in Seq(DownMessage) /\ up[s] \in Seq(UpMessage)
  BY DEF TypeOK
<1>2. DOMAIN down[s] = 1..Len(down[s]) /\ DOMAIN up[s] = 1..Len(up[s])
  BY <1>1
<1> QED
  BY <1>2 DEF AnswerComing, Answering, InUp, InDown, Mentions

\* What world knows is as true when it has sent something.
LEMMA SettledSent ==
  ASSUME NEW d \in Seq(DownMessage), NEW r \in Seq(DownMessage),
         NEW l, NEW u, NEW h, NEW n, NEW v, NEW b
  PROVE  /\ Answering(d, u) => Answering(d \o r, u)
         /\ Settled(l, d, u, h, n, v, b) => Settled(l, d \o r, u, h, n, v, b)
<1>1. \A op : Mentions(d \o r, op) <=> Mentions(d, op) \/ Mentions(r, op)
  BY MentionsConcat
<1>2. Answering(d, u) => Answering(d \o r, u)
  BY <1>1 DEF Answering
<1> QED
  BY <1>2 DEF Settled

\* A boot or an announcement behind the queue has an answer to come, so that
\* nothing need be true of what world has asked for.
LEMMA SettledAsked ==
  ASSUME NEW d, NEW u, NEW l, NEW h, NEW n, NEW v, NEW b, NEW e, NEW w, NEW a,
         Settled(l, e, u, h, n, w, a),
         Mentions(d, "ZoneBootup") \/ Mentions(d, "ZoneIncClient")
  PROVE  Settled(l, d, u, h, n, v, b)
BY DEF Settled, Answering

\* World takes an announcement.
LEMMA SettledHeard ==
  ASSUME NEW d, NEW e, NEW u \in Seq(UpMessage), u # <<>>,
         NEW z \in Zones \union {None}, Head(u) = SetZone(z),
         NEW l, NEW h, NEW n, NEW v, NEW b, NEW a,
         Settled(l, d, u, h, n, v, b),
         a = FALSE \/ Mentions(e, "ZoneIncClient")
  PROVE  Settled(l, e, Tail(u), h, z, z, a)
<1>1. Head(u).op = "SetZone" /\ Head(u).zone = z
  BY UpKinds
<1>2. /\ LastSays(u, h) => LastSays(Tail(u), h)
      /\ LastSays(u, h) /\ ~Mentions(Tail(u), "SetZone") => z = h
  BY <1>1, UpTail
<1> QED
  BY <1>2 DEF Settled, Answering

\* World takes another message.
LEMMA SettledAnswered ==
  ASSUME NEW d, NEW u \in Seq(UpMessage), u # <<>>, Head(u).op # "SetZone",
         NEW l, NEW h, NEW n, NEW v, NEW b
  PROVE  /\ Answering(d, u) => Answering(d, Tail(u))
         /\ Settled(l, d, u, h, n, v, b) => Settled(l, d, Tail(u), h, n, v, b)
<1>1. /\ LastSays(u, h) => LastSays(Tail(u), h)
      /\ Mentions(Tail(u), "SetZone") <=> Mentions(u, "SetZone")
  BY UpTail, TailMentions
<1> QED
  BY <1>1 DEF Settled, Answering

\* The process says what it hosts.
LEMMA SettledSaid ==
  ASSUME NEW u \in Seq(UpMessage), NEW h \in Zones \union {None},
         NEW d, NEW l, NEW n, NEW v, NEW b
  PROVE  /\ Answering(d, Append(u, SetZone(h)))
         /\ Settled(l, d, Append(u, SetZone(h)), h, n, v, b)
BY SaysBehind DEF Settled, Answering

\* The process takes a message that boots nothing.
LEMMA SettledTaken ==
  ASSUME NEW d \in Seq(DownMessage), d # <<>>,
         Head(d).op # "ZoneBootup", Head(d).op # "ZoneIncClient",
         NEW u, NEW l, NEW h, NEW n, NEW v, NEW b
  PROVE  /\ Answering(d, u) => Answering(Tail(d), u)
         /\ Settled(l, d, u, h, n, v, b) => Settled(l, Tail(d), u, h, n, v, b)
<1>1. /\ Mentions(d, "ZoneBootup") => Mentions(Tail(d), "ZoneBootup")
      /\ Mentions(d, "ZoneIncClient") => Mentions(Tail(d), "ZoneIncClient")
  BY TailMentions
<1> QED
  BY <1>1 DEF Settled, Answering

\* The process answers about a client.
LEMMA SettledReplied ==
  ASSUME NEW u \in Seq(UpMessage), NEW c \in Clients, NEW ok \in BOOLEAN,
         NEW d, NEW l, NEW h, NEW n, NEW v, NEW b
  PROVE  /\ Answering(d, u) => Answering(d, Append(u, Response(c, ok)))
         /\ Settled(l, d, u, h, n, v, b)
              => Settled(l, d, Append(u, Response(c, ok)), h, n, v, b)
BY AnswerBehind DEF Settled, Answering

\* A client is awaited as before when messages about others are sent.
LEMMA AwaitedSent ==
  ASSUME NEW d \in Seq(DownMessage), NEW r \in Seq(DownMessage),
         NEW c \in Clients, NEW z \in Zones, Silent(r, c),
         NEW u, NEW h, NEW l, NEW A, Awaited(d, u, h, l, A, c, z)
  PROVE  Awaited(d \o r, u, h, l, A, c, z)
BY SilentBehind DEF Awaited

\* Also when world takes a message.
LEMMA AwaitedHeard ==
  ASSUME NEW d, NEW u \in Seq(UpMessage), u # <<>>, NEW c \in Clients,
         NEW z, NEW h, NEW l, NEW A, Awaited(d, u, h, l, A, c, z)
  PROVE  Awaited(d, Tail(u), h, l, A, c, z)
BY UpTail DEF Awaited

\* And when the link is lost.
LEMMA AwaitedCut ==
  ASSUME NEW d, NEW u, NEW c, NEW z, NEW h, NEW l, NEW A, NEW k, k # "linked",
         Awaited(d, u, h, l, A, c, z)
  PROVE  Awaited(d, u, h, k, A, c, z)
BY DEF Awaited

\* A process whose zone is gone, and its link, has nobody to answer.
LEMMA AwaitedEnded ==
  ASSUME NEW d, NEW u, NEW c, NEW z, NEW A, NEW l, l # "linked"
  PROVE  Awaited(d, u, None, l, A, c, z)
BY DEF Awaited

\* The process handles ZoneBootup, or a ZoneShutdown without a zone.
LEMMA AwaitedBooted ==
  ASSUME NEW d \in Seq(DownMessage), d # <<>>,
         Head(d).op \in {"ZoneBootup", "ZoneShutdown"},
         NEW u \in Seq(UpMessage), NEW h \in Zones \union {None},
         NEW k \in Zones \union {None}, k = h \/ h = None,
         NEW A, NEW c \in Clients, NEW z \in Zones,
         Awaited(d, u, h, "linked", A, c, z)
  PROVE  Awaited(Tail(d), Append(u, SetZone(k)), k, "linked", A, c, z)
<1>1. /\ Head(d) # ZoneIncClient(c, z) /\ Head(d) # AcceptWorldEntrance(c)
  BY DownKinds
<1>2. ~Answers(u, c) => ~Answers(Append(u, SetZone(k)), c)
  BY SaysBehind
<1>3. Coming(d, c, z) => Coming(Tail(d), c, z)
  BY <1>1, ComingTail
<1>4. NoDrop(d, c) => NoDrop(Tail(d), c)
  BY DownTail
<1>5. ~Asks(d, c) => ~Asks(Tail(d), c)
  BY DownTail
<1>6. ~AskedNow(d, c)
  BY <1>1, DownTail
<1>7. k \notin {None, z} \/ k = h \/ (h = None /\ k = z)
  OBVIOUS
<1> QED
  BY <1>2, <1>3, <1>4, <1>5, <1>6, <1>7 DEF Awaited

\* The process handles ZoneIncClient for e and y: it hosts k then, and has let
\* e in if that is y.
LEMMA AwaitedIncoming ==
  ASSUME NEW d \in Seq(DownMessage), d # <<>>,
         NEW e \in Clients, NEW y \in Zones, Head(d) = ZoneIncClient(e, y),
         NEW u \in Seq(UpMessage), NEW h \in Zones \union {None},
         NEW k \in Zones \union {None}, k = h \/ (h = None /\ k = y),
         NEW A, NEW B, B = IF k = y THEN A \union {e} ELSE A,
         NEW c \in Clients, NEW z \in Zones, None \notin Zones,
         h = None => ~Answers(u, c),
         Awaited(d, u, h, "linked", A, c, z)
  PROVE  Awaited(Tail(d), Append(u, SetZone(k)), k, "linked", B, c, z)
<1>1. /\ Head(d) # AcceptWorldEntrance(c)
      /\ Head(d) = ZoneIncClient(c, z) => e = c /\ y = z
  BY DownKinds
<1>2. ~Answers(u, c) => ~Answers(Append(u, SetZone(k)), c)
  BY SaysBehind
<1>3. Coming(d, c, z) =>
        \/ Coming(Tail(d), c, z)
        \/ /\ e = c /\ y = z
           /\ NoDrop(Tail(d), c)
           /\ ~Asks(Tail(d), c) \/ AskedNow(Tail(d), c)
  BY <1>1, ComingTail
<1>4. NoDrop(d, c) => NoDrop(Tail(d), c)
  BY DownTail
<1>5. ~Asks(d, c) => ~Asks(Tail(d), c)
  BY DownTail
<1>6. ~AskedNow(d, c)
  BY <1>1, DownTail
<1>7. CASE Coming(d, c, z)
  <2>1. CASE k = None
    <3>1. h = None /\ ~Answers(Append(u, SetZone(k)), c)
      BY <2>1, <1>2
    <3> QED
      BY <2>1, <3>1, <1>3, <1>7 DEF Awaited
  <2>2. CASE k # None
    <3>1. e = c /\ y = z => k \notin {None, z} \/ c \in B
      BY <2>2
    <3> QED
      BY <3>1, <1>3, <1>7 DEF Awaited
  <2> QED
    BY <2>1, <2>2
<1>8. CASE ~Coming(d, c, z)
  <2>1. A \subseteq B
    OBVIOUS
  <2>2. k = h \/ h = None
    OBVIOUS
  <2> QED
    BY <1>2, <1>4, <1>5, <1>6, <1>8, <2>1, <2>2 DEF Awaited
<1> QED
  BY <1>7, <1>8

\* The process is asked about e: it answers if it hosts a zone.
LEMMA AwaitedAsked ==
  ASSUME NEW d \in Seq(DownMessage), d # <<>>,
         NEW e \in Clients, Head(d) = AcceptWorldEntrance(e),
         NEW u \in Seq(UpMessage), NEW h, NEW ok \in BOOLEAN, NEW w,
         w = IF h = None THEN u ELSE Append(u, Response(e, ok)),
         NEW A, NEW c \in Clients, NEW z \in Zones,
         Awaited(d, u, h, "linked", A, c, z)
  PROVE  Awaited(Tail(d), w, h, "linked", A, c, z)
<1>1. /\ Head(d) # ZoneIncClient(c, z)
      /\ Head(d) = AcceptWorldEntrance(c) => e = c
  BY DownKinds
<1>2. ~Answers(u, c) /\ e # c => ~Answers(w, c)
  BY AnswerBehind
<1>3. Coming(d, c, z) => Coming(Tail(d), c, z)
  BY <1>1, ComingTail
<1>4. NoDrop(d, c) => NoDrop(Tail(d), c)
  BY DownTail
<1>5. ~Asks(d, c) => ~Asks(Tail(d), c) /\ e # c
  BY DownTail
<1>6. AskedNow(d, c) => ~Asks(Tail(d), c)
  BY DownTail
<1> QED
  BY <1>2, <1>3, <1>4, <1>5, <1>6 DEF Awaited

\* The process drops e.
LEMMA AwaitedDropped ==
  ASSUME NEW d \in Seq(DownMessage), d # <<>>,
         NEW e \in Clients, Head(d) = DropClient(e),
         NEW u, NEW h, NEW A, NEW c \in Clients, NEW z \in Zones,
         Awaited(d, u, h, "linked", A, c, z)
  PROVE  Awaited(Tail(d), u, h, "linked", A \ {e}, c, z)
<1>1. Head(d) # ZoneIncClient(c, z) /\ Head(d) # AcceptWorldEntrance(c)
  BY DownKinds
<1>2. Coming(d, c, z) => Coming(Tail(d), c, z)
  BY <1>1, ComingTail
<1>3. NoDrop(d, c) => NoDrop(Tail(d), c) /\ e # c
  BY DownTail
<1>4. ~Asks(d, c) => ~Asks(Tail(d), c)
  BY DownTail
<1>5. ~AskedNow(d, c)
  BY <1>1, DownTail
<1> QED
  BY <1>2, <1>3, <1>4, <1>5 DEF Awaited

\* The same of the next state.
LEMMA AnsweringIsNext ==
  ASSUME TypeOK', NEW s \in Servers
  PROVE  AnswerComing(s)' <=> Answering(down'[s], up'[s])
<1>1. down'[s] \in Seq(DownMessage) /\ up'[s] \in Seq(UpMessage)
  BY DEF TypeOK
<1>2. DOMAIN down'[s] = 1..Len(down'[s]) /\ DOMAIN up'[s] = 1..Len(up'[s])
  BY <1>1
<1> QED
  BY <1>2 DEF AnswerComing, Answering, InUp, InDown, Mentions

\* The types of what a step reads.
LEMMA TypesAt ==
  ASSUME TypeOK
  PROVE  /\ \A s \in Servers :
              /\ view[s] \in Zones \union {None} /\ named[s] \in Zones \union {None}
              /\ booting[s] \in BOOLEAN /\ hosted[s] \in Zones \union {None}
              /\ auth[s] \in SUBSET Clients
              /\ link[s] \in {"none", "linked", "closed"}
              /\ down[s] \in Seq(DownMessage) /\ up[s] \in Seq(UpMessage)
         /\ \A c \in Clients :
              /\ client[c] \in Request
              /\ client[c].zone \in Zones \union {None}
              /\ client[c].waiting \in Servers \union {None, Gone}
              /\ client[c].triggered \in BOOLEAN /\ client[c].timer \in BOOLEAN
              /\ warned[c] \in Servers \union {None}
         /\ Listed \subseteq Servers
<1>1. list \in Seq(Servers)
  BY DEF TypeOK
<1>2. Listed \subseteq Servers
  BY <1>1 DEF Listed
<1>3. \A c \in Clients : client[c] \in Request
  BY DEF TypeOK
<1> QED
  BY <1>2, <1>3 DEF TypeOK, Request

\* A wait that goes on is founded if the server is still to answer, and a new
\* one, or one for a server that is gone, by itself.
LEMMA FoundedKept ==
  ASSUME IInv, TypeOK', HostingAssumption,
         \A c \in Clients : client'[c].waiting # None =>
           \/ client'[c] = client[c]
           \/ /\ client'[c].zone # None /\ client'[c].timer
              /\ \/ client'[c].waiting = Gone
                 \/ /\ client'[c].waiting \in Servers
                    /\ Answering(down'[client'[c].waiting], up'[client'[c].waiting]),
         \A c \in Clients, w \in Servers :
           client'[c] = client[c] /\ client[c].waiting = w =>
             /\ link[w] = "closed" => link'[w] = "closed"
             /\ Answering(down[w], up[w])
                  => link'[w] = "closed" \/ Answering(down'[w], up'[w])
  PROVE  WaitIsFounded'
<1>1. TypeOK
  BY DEF IInv
<1>2. ASSUME NEW c \in Clients, NEW w, w = client'[c].waiting, w # None
      PROVE  /\ client'[c].zone # None
             /\ client'[c].timer
             /\ w = Gone \/ link'[w] = "closed" \/ AnswerComing(w)'
  <2>1. CASE client'[c] = client[c]
    <3>1. w = client[c].waiting /\ w \in Servers \union {None, Gone}
      BY <1>1, <1>2, <2>1, TypesAt
    <3>2. /\ client[c].zone # None
          /\ client[c].timer
          /\ w = Gone \/ link[w] = "closed" \/ AnswerComing(w)
      BY <1>2, <3>1 DEF IInv, WaitIsFounded, AnswerComing, InUp, InDown
    <3>3. CASE w = Gone
      BY <3>2, <3>3, <2>1
    <3>4. CASE w \in Servers
      <4>1. w # Gone
        BY <3>4 DEF HostingAssumption
      <4>2. link[w] = "closed" \/ Answering(down[w], up[w])
        BY <1>1, <3>2, <3>4, <4>1, AnsweringIs
      <4>3. link'[w] = "closed" \/ Answering(down'[w], up'[w])
        BY <4>2, <2>1, <3>1, <3>4
      <4>4. link'[w] = "closed" \/ AnswerComing(w)'
        BY <4>3, <3>4, AnsweringIsNext
      <4> QED
        BY <4>4, <2>1, <3>2
    <3> QED
      BY <1>2, <3>1, <3>3, <3>4
  <2>2. CASE client'[c] # client[c]
    <3>1. /\ client'[c].zone # None /\ client'[c].timer
          /\ w = Gone \/ (w \in Servers /\ Answering(down'[w], up'[w]))
      BY <1>2, <2>2
    <3>2. w \in Servers /\ Answering(down'[w], up'[w]) => AnswerComing(w)'
      BY AnsweringIsNext
    <3> QED
      BY <3>1, <3>2
  <2> QED
    BY <2>1, <2>2
<1> QED
  BY <1>2 DEF WaitIsFounded, AnswerComing, InUp, InDown

\* What a step of process s has to keep.
LEMMA ProcessStep ==
  ASSUME IInv, TypeOK', HostingAssumption, NEW s \in Servers,
         UNCHANGED world,
         \A u \in Servers \ {s} :
           /\ down'[u] = down[u] /\ up'[u] = up[u]
           /\ hosted'[u] = hosted[u] /\ auth'[u] = auth[u] /\ link'[u] = link[u],
         link'[s] = "none" <=> link[s] = "none",
         link[s] = "closed" => link'[s] = "closed",
         Settled(link'[s], down'[s], up'[s], hosted'[s], named[s], view[s], booting[s]),
         Answering(down[s], up[s]) =>
           link'[s] = "closed" \/ Answering(down'[s], up'[s]),
         KillProcessOnDynamicShutdown =>
           \A c \in Clients :
             /\ link'[s] = "linked" /\ hosted'[s] = None => ~Answers(up'[s], c)
             /\ /\ link[s] # "none" /\ client[c].zone \in Zones
                /\ Awaited(down[s], up[s], hosted[s], link[s], auth[s], c, client[c].zone)
                => Awaited(down'[s], up'[s], hosted'[s], link'[s], auth'[s], c,
                           client[c].zone)
  PROVE  IInv'
<1>1. /\ list' = list /\ view' = view /\ named' = named /\ booting' = booting
      /\ client' = client /\ warned' = warned
  BY DEF world
<1>2. TypeOK
  BY DEF IInv
<1>3. \A u \in Servers : link'[u] = "none" <=> link[u] = "none"
  OBVIOUS
<1>4. ListInv'
  BY <1>1, <1>3 DEF IInv, ListInv, Listed
<1>5. TruthInv'
  <2> SUFFICES ASSUME NEW u \in Servers
               PROVE  Settled(link'[u], down'[u], up'[u], hosted'[u], named'[u],
                              view'[u], booting'[u])
    BY DEF TruthInv
  <2>1. CASE u = s
    BY <2>1, <1>1
  <2>2. CASE u # s
    BY <2>2, <1>1 DEF IInv, TruthInv
  <2> QED
    BY <2>1, <2>2
<1>6. WaitIsFounded'
  <2>1. \A w \in Servers :
          /\ link[w] = "closed" => link'[w] = "closed"
          /\ Answering(down[w], up[w])
               => link'[w] = "closed" \/ Answering(down'[w], up'[w])
    <3> TAKE w \in Servers
    <3>1. CASE w = s
      BY <3>1
    <3>2. CASE w # s
      BY <3>2
    <3> QED
      BY <3>1, <3>2
  <2> QED
    BY <2>1, <1>1, FoundedKept
<1>7. ASSUME KillProcessOnDynamicShutdown PROVE QuietInv'
  <2> SUFFICES ASSUME NEW u \in Servers, NEW c \in Clients,
                      link'[u] = "linked", hosted'[u] = None
               PROVE  ~Answers(up'[u], c)
    BY DEF QuietInv
  <2>1. CASE u = s
    BY <2>1, <1>7
  <2>2. CASE u # s
    BY <2>2, <1>7 DEF IInv, QuietInv
  <2> QED
    BY <2>1, <2>2
<1>8. ASSUME KillProcessOnDynamicShutdown PROVE SentInv'
  <2> SUFFICES ASSUME NEW u \in Servers, NEW c \in Clients, warned'[c] = u
               PROVE  /\ link'[u] # "none"
                      /\ client'[c].zone # None
                      /\ Awaited(down'[u], up'[u], hosted'[u], link'[u], auth'[u], c,
                                 client'[c].zone)
    BY DEF SentInv
  <2>1. /\ link[u] # "none"
        /\ client[c].zone # None
        /\ Awaited(down[u], up[u], hosted[u], link[u], auth[u], c, client[c].zone)
    BY <1>1, <1>8 DEF IInv, SentInv
  <2>2. link'[u] # "none" /\ client'[c].zone # None /\ client[c].zone \in Zones
    BY <2>1, <1>1, <1>2, <1>3, TypesAt
  <2>3. CASE u = s
    BY <2>1, <2>2, <2>3, <1>1, <1>8
  <2>4. CASE u # s
    BY <2>1, <2>2, <2>4, <1>1
  <2> QED
    BY <2>2, <2>3, <2>4
<1> QED
  BY <1>4, <1>5, <1>6, <1>7, <1>8 DEF IInv

\* What a step of world has to keep.
LEMMA WorldStep ==
  ASSUME IInv, TypeOK', HostingAssumption, UNCHANGED <<list, hosted, link>>,
         WaitIsFounded',
         \A s \in Servers :
           Settled(link[s], down'[s], up'[s], hosted[s], named'[s], view'[s], booting'[s]),
         \A s \in Servers, c \in Clients : ~Answers(up[s], c) => ~Answers(up'[s], c),
         \A s \in Servers, c \in Clients :
           KillProcessOnDynamicShutdown /\ warned'[c] = s =>
             /\ link[s] # "none"
             /\ client'[c].zone # None
             /\ Awaited(down'[s], up'[s], hosted[s], link[s], auth'[s], c,
                        client'[c].zone)
  PROVE  IInv'
<1>1. list' = list /\ hosted' = hosted /\ link' = link
  OBVIOUS
<1>2. ListInv'
  BY <1>1 DEF IInv, ListInv, Listed
<1>3. TruthInv'
  BY <1>1 DEF TruthInv
<1>4. KillProcessOnDynamicShutdown => QuietInv'
  BY <1>1 DEF IInv, QuietInv
<1>5. KillProcessOnDynamicShutdown => SentInv'
  BY <1>1 DEF SentInv
<1> QED
  BY <1>2, <1>3, <1>4, <1>5 DEF IInv

-----------------------------------------------------------------------------
(* The steps of a process.                                                 *)

\* The process takes its first message.
LEMMA Handled ==
  ASSUME TypeOK, NEW s \in Servers, NEW m, Handles(s, m)
  PROVE  /\ link[s] = "linked" /\ down[s] # <<>> /\ m = Head(down[s])
         /\ down' \in [Servers -> Seq(DownMessage)]
         /\ down'[s] = Tail(down[s])
         /\ \A u \in Servers \ {s} : down'[u] = down[u]
<1>1. down \in [Servers -> Seq(DownMessage)]
  BY DEF TypeOK
<1>2. link[s] = "linked" /\ down[s] # <<>> /\ m = Head(down[s])
      /\ down' = [down EXCEPT ![s] = Tail(down[s])]
  BY DEF Handles
<1>3. Tail(down[s]) \in Seq(DownMessage)
  BY <1>1, <1>2, TailAt
<1> QED
  BY <1>1, <1>2, <1>3

\* The process sends a message.
LEMMA Sent ==
  ASSUME TypeOK, NEW s \in Servers, NEW m \in UpMessage, Sends(s, m)
  PROVE  /\ up' \in [Servers -> Seq(UpMessage)]
         /\ up'[s] = Append(up[s], m)
         /\ \A u \in Servers \ {s} : up'[u] = up[u]
<1>1. up \in [Servers -> Seq(UpMessage)]
  BY DEF TypeOK
<1>2. up' = [up EXCEPT ![s] = Append(up[s], m)]
  BY DEF Sends
<1>3. Append(up[s], m) \in Seq(UpMessage)
  BY <1>1, AppendAt
<1> QED
  BY <1>1, <1>2, <1>3

\* What a process says of the zone k it hosts: that a boot failed, twice.
Announces(s, k) ==
  \/ Sends(s, SetZone(k))
  \/ k = None /\ FailureAnnounced(s)

\* Queue w is q with k announced behind it, once or twice.
Behind(q, w, k) ==
  \/ w = Append(q, SetZone(k))
  \/ w = Append(Append(q, SetZone(k)), SetZone(k))

\* The process announces k.
LEMMA AnnouncedAt ==
  ASSUME TypeOK, NEW s \in Servers, NEW k \in Zones \union {None}, Announces(s, k)
  PROVE  /\ up' \in [Servers -> Seq(UpMessage)]
         /\ Behind(up[s], up'[s], k)
         /\ \A u \in Servers \ {s} : up'[u] = up[u]
<1>1. SetZone(k) \in UpMessage
  BY UpKinds
<1>2. up \in [Servers -> Seq(UpMessage)]
  BY DEF TypeOK
<1>3. CASE Sends(s, SetZone(k))
  BY <1>1, <1>3, Sent DEF Behind
<1>4. CASE k = None /\ FailureAnnounced(s)
  <2> DEFINE m == SetZone(k)
  <2>1. up' = [up EXCEPT ![s] = up[s] \o <<m, m>>]
    BY <1>4 DEF FailureAnnounced
  <2>2. m \in UpMessage
    BY <1>1
  <2> HIDE DEF m
  <2>3. /\ up[s] \o <<m, m>> = Append(Append(up[s], m), m)
        /\ up[s] \o <<m, m>> \in Seq(UpMessage)
    BY <1>2, <2>2
  <2>4. up'[s] = Append(Append(up[s], m), m)
    BY <1>2, <2>1, <2>3
  <2>5. Behind(up[s], up'[s], k)
    BY <2>4 DEF Behind, m
  <2> QED
    BY <1>2, <2>1, <2>3, <2>5
<1> QED
  BY <1>3, <1>4 DEF Announces

\* Saying it a second time changes nothing.
LEMMA AnnouncedSaid ==
  ASSUME NEW q \in Seq(UpMessage), NEW k \in Zones \union {None},
         NEW w, Behind(q, w, k), NEW d, NEW l, NEW n, NEW v, NEW b
  PROVE  /\ Answering(d, w) /\ Settled(l, d, w, k, n, v, b)
         /\ \A c \in Clients : ~Answers(q, c) => ~Answers(w, c)
         /\ \A c \in Clients : ~Answers(Append(q, SetZone(k)), c) => ~Answers(w, c)
<1>1. PICK t \in Seq(UpMessage) :
        /\ t = q \/ t = Append(q, SetZone(k))
        /\ w = Append(t, SetZone(k))
  BY SaysBehind DEF Behind
<1>2. Answering(d, w) /\ Settled(l, d, w, k, n, v, b)
  BY <1>1, SettledSaid
<1>3. \A c \in Clients : ~Answers(q, c) => ~Answers(w, c)
  BY <1>1, SaysBehind
<1>4. \A c \in Clients : ~Answers(Append(q, SetZone(k)), c) => ~Answers(w, c)
  BY SaysBehind DEF Behind
<1> QED
  BY <1>2, <1>3, <1>4

\* Nor does it for the client whose answer is awaited.
LEMMA AwaitedAnnounced ==
  ASSUME NEW q \in Seq(UpMessage), NEW k \in Zones \union {None},
         NEW w, Behind(q, w, k), NEW d, NEW l, NEW A, NEW c \in Clients, NEW z,
         Awaited(d, Append(q, SetZone(k)), k, l, A, c, z)
  PROVE  Awaited(d, w, k, l, A, c, z)
<1>1. ~Answers(Append(q, SetZone(k)), c) => ~Answers(w, c)
  BY AnnouncedSaid
<1> QED
  BY <1>1 DEF Awaited

\* The process handles a message, says which zone it hosts then, and lets in no
\* more than the clients of the message: what ZoneBootup, ZoneIncClient and a
\* ZoneShutdown without a zone have in common.
LEMMA SaysStep ==
  ASSUME IInv, HostingAssumption, NEW s \in Servers, NEW m, Handles(s, m),
         NEW k \in Zones \union {None}, Announces(s, k),
         hosted' = [hosted EXCEPT ![s] = k],
         auth' \in [Servers -> SUBSET Clients],
         \A u \in Servers \ {s} : auth'[u] = auth[u],
         UNCHANGED <<world, link>>,
         KillProcessOnDynamicShutdown =>
           \A c \in Clients :
             /\ k = None => hosted[s] = None
             /\ /\ client[c].zone \in Zones
                /\ Awaited(down[s], up[s], hosted[s], "linked", auth[s], c, client[c].zone)
                => Awaited(Tail(down[s]), Append(up[s], SetZone(k)), k, "linked",
                           auth'[s], c, client[c].zone)
  PROVE  IInv'
<1>1. TypeOK
  BY DEF IInv
<1>3. /\ link[s] = "linked"
      /\ down' \in [Servers -> Seq(DownMessage)]
      /\ down'[s] = Tail(down[s])
      /\ \A u \in Servers \ {s} : down'[u] = down[u]
  BY <1>1, Handled
<1>4. /\ up' \in [Servers -> Seq(UpMessage)]
      /\ Behind(up[s], up'[s], k)
      /\ \A u \in Servers \ {s} : up'[u] = up[u]
  BY <1>1, AnnouncedAt
<1>5. hosted' \in [Servers -> Zones \union {None}] /\ hosted'[s] = k
      /\ \A u \in Servers \ {s} : hosted'[u] = hosted[u]
  BY <1>1 DEF TypeOK
<1>6. TypeOK'
  BY <1>1, <1>3, <1>4, <1>5 DEF TypeOK, world
<1>7. up[s] \in Seq(UpMessage)
  BY <1>1, TypesAt
<1>8. /\ Answering(down'[s], up'[s])
      /\ Settled(link'[s], down'[s], up'[s], hosted'[s], named[s], view[s], booting[s])
  BY <1>4, <1>5, <1>7, AnnouncedSaid
<1>9. ASSUME KillProcessOnDynamicShutdown, NEW c \in Clients
      PROVE  /\ hosted'[s] = None => ~Answers(up'[s], c)
             /\ /\ client[c].zone \in Zones
                /\ Awaited(down[s], up[s], hosted[s], link[s], auth[s], c, client[c].zone)
                => Awaited(down'[s], up'[s], hosted'[s], link'[s], auth'[s], c,
                           client[c].zone)
  <2>1. ASSUME k = None PROVE ~Answers(up'[s], c)
    <3>1. ~Answers(up[s], c)
      BY <1>3, <1>9, <2>1 DEF IInv, QuietInv
    <3> QED
      BY <3>1, <1>4, <1>7, AnnouncedSaid
  <2>2. ASSUME client[c].zone \in Zones,
               Awaited(down[s], up[s], hosted[s], link[s], auth[s], c, client[c].zone)
        PROVE  Awaited(down'[s], up'[s], hosted'[s], link'[s], auth'[s], c,
                       client[c].zone)
    <3>1. Awaited(Tail(down[s]), Append(up[s], SetZone(k)), k, "linked", auth'[s], c,
                  client[c].zone)
      BY <2>2, <1>3, <1>9
    <3>2. Awaited(Tail(down[s]), up'[s], k, "linked", auth'[s], c, client[c].zone)
      BY <3>1, <1>4, <1>7, AwaitedAnnounced
    <3> QED
      BY <3>2, <1>3, <1>5
  <2> QED
    BY <2>1, <2>2, <1>5
<1> QED
  BY <1>3, <1>4, <1>5, <1>6, <1>8, <1>9, ProcessStep

\* ZoneBootup: a zone boots, or not, or another one is there.
LEMMA RecvZoneBootupStep ==
  ASSUME IInv, HostingAssumption, NEW s \in Servers, NEW z \in Zones,
         RecvZoneBootup(s, z)
  PROVE  IInv'
<1>1. TypeOK /\ None \notin Zones
  BY DEF IInv, HostingAssumption
<1>2. Handles(s, ZoneBootup(z)) /\ UNCHANGED <<world, link>>
  BY DEF RecvZoneBootup
<1>3. /\ hosted[s] \in Zones \union {None}
      /\ hosted \in [Servers -> Zones \union {None}]
      /\ auth \in [Servers -> SUBSET Clients]
      /\ down[s] \in Seq(DownMessage) /\ up[s] \in Seq(UpMessage)
  BY <1>1 DEF TypeOK
<1>4. PICK k \in Zones \union {None} :
        /\ k = hosted[s] \/ hosted[s] = None
        /\ Announces(s, k) /\ hosted' = [hosted EXCEPT ![s] = k] /\ auth' = auth
  <2>1. CASE hosted[s] = None
    <3>1. \/ /\ auth' = [auth EXCEPT ![s] = auth[s] \union {}]
             /\ hosted' = [hosted EXCEPT ![s] = z] /\ Sends(s, SetZone(z))
          \/ UNCHANGED process /\ FailureAnnounced(s)
      <4>1. Bootup(s, z, {})
        BY <2>1 DEF RecvZoneBootup
      <4> QED
        BY <4>1 DEF Bootup
    <3>2. CASE /\ auth' = [auth EXCEPT ![s] = auth[s] \union {}]
               /\ hosted' = [hosted EXCEPT ![s] = z] /\ Sends(s, SetZone(z))
      <4>1. auth' = auth
        BY <3>2, <1>3
      <4> QED
        BY <3>2, <4>1, <2>1 DEF Announces
    <3>3. CASE UNCHANGED process /\ FailureAnnounced(s)
      <4>1. hosted' = [hosted EXCEPT ![s] = None] /\ auth' = auth
        BY <3>3, <1>3, <2>1 DEF process
      <4> QED
        BY <3>3, <4>1, <2>1 DEF Announces
    <3> QED
      BY <3>1, <3>2, <3>3
  <2>2. CASE hosted[s] # None
    <3>1. Sends(s, SetZone(hosted[s])) /\ UNCHANGED process
      BY <2>2 DEF RecvZoneBootup
    <3>2. hosted' = [hosted EXCEPT ![s] = hosted[s]] /\ auth' = auth
      BY <3>1, <1>3 DEF process
    <3> QED
      BY <3>1, <3>2, <1>3 DEF Announces
  <2> QED
    BY <2>1, <2>2
<1>5. down[s] # <<>> /\ Head(down[s]).op = "ZoneBootup"
  BY <1>1, <1>2, Handled, DownKinds
<1>6. ASSUME NEW c \in Clients, client[c].zone \in Zones,
             Awaited(down[s], up[s], hosted[s], "linked", auth[s], c, client[c].zone)
      PROVE  Awaited(Tail(down[s]), Append(up[s], SetZone(k)), k, "linked", auth'[s], c,
                     client[c].zone)
  BY <1>3, <1>4, <1>5, <1>6, AwaitedBooted
<1>7. k = None => hosted[s] = None
  BY <1>4
<1>8. auth' \in [Servers -> SUBSET Clients] /\ \A u \in Servers \ {s} : auth'[u] = auth[u]
  BY <1>3, <1>4
<1> QED
  BY <1>2, <1>4, <1>6, <1>7, <1>8, SaysStep

\* ZoneIncClient: the same, and the client is let in.
LEMMA RecvZoneIncClientStep ==
  ASSUME IInv, HostingAssumption, NEW s \in Servers, NEW e \in Clients,
         NEW z \in Zones, RecvZoneIncClient(s, e, z)
  PROVE  IInv'
<1>1. TypeOK /\ None \notin Zones
  BY DEF IInv, HostingAssumption
<1>2. Handles(s, ZoneIncClient(e, z)) /\ UNCHANGED <<world, link>>
  BY DEF RecvZoneIncClient
<1>3. /\ hosted[s] \in Zones \union {None}
      /\ hosted \in [Servers -> Zones \union {None}]
      /\ auth \in [Servers -> SUBSET Clients]
      /\ down[s] \in Seq(DownMessage) /\ up[s] \in Seq(UpMessage)
  BY <1>1 DEF TypeOK
<1>4. PICK k \in Zones \union {None} :
        /\ k = hosted[s] \/ (hosted[s] = None /\ k = z)
        /\ Announces(s, k) /\ hosted' = [hosted EXCEPT ![s] = k]
        /\ auth' = IF k = z THEN [auth EXCEPT ![s] = auth[s] \union {e}] ELSE auth
  <2>1. CASE hosted[s] = None
    <3>1. \/ /\ auth' = [auth EXCEPT ![s] = auth[s] \union {e}]
             /\ hosted' = [hosted EXCEPT ![s] = z] /\ Sends(s, SetZone(z))
          \/ UNCHANGED process /\ FailureAnnounced(s)
      <4>1. Bootup(s, z, {e})
        BY <2>1 DEF RecvZoneIncClient, LetIn
      <4> QED
        BY <4>1 DEF Bootup
    <3>2. CASE /\ auth' = [auth EXCEPT ![s] = auth[s] \union {e}]
               /\ hosted' = [hosted EXCEPT ![s] = z] /\ Sends(s, SetZone(z))
      BY <3>2, <2>1 DEF Announces
    <3>3. CASE UNCHANGED process /\ FailureAnnounced(s)
      <4>1. hosted' = [hosted EXCEPT ![s] = None] /\ auth' = auth /\ None # z
        BY <3>3, <1>1, <1>3, <2>1 DEF process
      <4> QED
        BY <3>3, <4>1, <2>1 DEF Announces
    <3> QED
      BY <3>1, <3>2, <3>3
  <2>2. CASE hosted[s] # None
    <3>1. /\ Sends(s, SetZone(hosted[s])) /\ hosted' = hosted
          /\ auth' = IF hosted[s] = z
                     THEN [auth EXCEPT ![s] = auth[s] \union {e}] ELSE auth
      BY <2>2 DEF RecvZoneIncClient
    <3>2. hosted' = [hosted EXCEPT ![s] = hosted[s]]
      BY <3>1, <1>3
    <3> QED
      BY <3>1, <3>2, <1>3 DEF Announces
  <2> QED
    BY <2>1, <2>2
<1>5. link[s] = "linked" /\ down[s] # <<>> /\ Head(down[s]) = ZoneIncClient(e, z)
  BY <1>1, <1>2, Handled
<1>6. /\ auth' \in [Servers -> SUBSET Clients]
      /\ auth'[s] = IF k = z THEN auth[s] \union {e} ELSE auth[s]
      /\ \A u \in Servers \ {s} : auth'[u] = auth[u]
  BY <1>3, <1>4
<1>7. ASSUME KillProcessOnDynamicShutdown, NEW c \in Clients,
             client[c].zone \in Zones,
             Awaited(down[s], up[s], hosted[s], "linked", auth[s], c, client[c].zone)
      PROVE  Awaited(Tail(down[s]), Append(up[s], SetZone(k)), k, "linked", auth'[s], c,
                     client[c].zone)
  <2>1. hosted[s] = None => ~Answers(up[s], c)
    BY <1>5, <1>7 DEF IInv, QuietInv
  <2> QED
    BY <2>1, <1>1, <1>3, <1>4, <1>5, <1>6, <1>7, AwaitedIncoming
<1>8. k = None => hosted[s] = None
  BY <1>1, <1>4
<1> QED
  BY <1>2, <1>4, <1>6, <1>7, <1>8, SaysStep

\* AcceptWorldEntrance: it is answered, if there is a zone.
LEMMA RecvAcceptWorldEntranceStep ==
  ASSUME IInv, HostingAssumption, NEW s \in Servers, NEW e \in Clients,
         RecvAcceptWorldEntrance(s, e)
  PROVE  IInv'
<1>1. TypeOK /\ None \notin Zones
  BY DEF IInv, HostingAssumption
<1>2. Handles(s, AcceptWorldEntrance(e)) /\ UNCHANGED <<world, process, link>>
  BY DEF RecvAcceptWorldEntrance
<1>3. /\ link[s] = "linked" /\ down[s] # <<>>
      /\ Head(down[s]) = AcceptWorldEntrance(e)
      /\ down' \in [Servers -> Seq(DownMessage)]
      /\ down'[s] = Tail(down[s])
      /\ \A u \in Servers \ {s} : down'[u] = down[u]
  BY <1>1, <1>2, Handled
<1>4. /\ down[s] \in Seq(DownMessage) /\ up[s] \in Seq(UpMessage)
      /\ up \in [Servers -> Seq(UpMessage)]
  BY <1>1 DEF TypeOK
<1>5. PICK ok \in BOOLEAN :
        IF hosted[s] = None THEN up' = up ELSE Sends(s, Response(e, ok))
  BY DEF RecvAcceptWorldEntrance
<1>6. Response(e, ok) \in UpMessage
  BY UpKinds
<1>7. /\ up' \in [Servers -> Seq(UpMessage)]
      /\ up'[s] = IF hosted[s] = None THEN up[s] ELSE Append(up[s], Response(e, ok))
      /\ \A u \in Servers \ {s} : up'[u] = up[u]
  BY <1>1, <1>4, <1>5, <1>6, Sent
<1>8. hosted' = hosted /\ auth' = auth /\ link' = link /\ UNCHANGED world
  BY <1>2 DEF process
<1>9. TypeOK'
  BY <1>1, <1>3, <1>7, <1>8 DEF TypeOK, world
<1>10. Head(down[s]).op # "ZoneBootup" /\ Head(down[s]).op # "ZoneIncClient"
  BY <1>3, DownKinds
<1>11. /\ Answering(down[s], up[s]) => Answering(down'[s], up[s])
       /\ Settled(link[s], down'[s], up[s], hosted[s], named[s], view[s], booting[s])
  <2>1. Settled(link[s], down[s], up[s], hosted[s], named[s], view[s], booting[s])
    BY DEF IInv, TruthInv
  <2>2. down[s] # <<>> /\ down[s] \in Seq(DownMessage)
    BY <1>3, <1>4
  <2>3. /\ Answering(down[s], up[s]) => Answering(Tail(down[s]), up[s])
        /\ Settled(link[s], Tail(down[s]), up[s], hosted[s], named[s], view[s], booting[s])
    BY <2>1, <2>2, <1>10, SettledTaken
  <2> QED
    BY <2>3, <1>3
<1>12. /\ Answering(down'[s], up[s]) => Answering(down'[s], up'[s])
       /\ Settled(link[s], down'[s], up[s], hosted[s], named[s], view[s], booting[s])
            => Settled(link[s], down'[s], up'[s], hosted[s], named[s], view[s], booting[s])
  BY <1>4, <1>7, SettledReplied
<1>13. ASSUME KillProcessOnDynamicShutdown, NEW c \in Clients
       PROVE  /\ hosted[s] = None => ~Answers(up'[s], c)
              /\ /\ client[c].zone \in Zones
                 /\ Awaited(down[s], up[s], hosted[s], link[s], auth[s], c, client[c].zone)
                 => Awaited(down'[s], up'[s], hosted[s], link[s], auth[s], c,
                            client[c].zone)
  <2>1. hosted[s] = None => ~Answers(up'[s], c)
    BY <1>3, <1>7, <1>13 DEF IInv, QuietInv
  <2>2. ASSUME client[c].zone \in Zones,
               Awaited(down[s], up[s], hosted[s], "linked", auth[s], c, client[c].zone)
        PROVE  Awaited(down'[s], up'[s], hosted[s], "linked", auth[s], c,
                       client[c].zone)
    <3>1. Awaited(Tail(down[s]), up'[s], hosted[s], "linked", auth[s], c,
                  client[c].zone)
      BY <1>3, <1>4, <1>7, <2>2, AwaitedAsked
    <3> QED
      BY <3>1, <1>3
  <2> QED
    BY <2>1, <2>2, <1>3
<1> QED
  BY <1>3, <1>7, <1>8, <1>9, <1>11, <1>12, <1>13, ProcessStep

\* DropClient.
LEMMA RecvDropClientStep ==
  ASSUME IInv, HostingAssumption, NEW s \in Servers, NEW e \in Clients,
         RecvDropClient(s, e)
  PROVE  IInv'
<1>1. TypeOK
  BY DEF IInv
<1>2. /\ Handles(s, DropClient(e)) /\ UNCHANGED <<world, hosted, link, up>>
      /\ auth' = [auth EXCEPT ![s] = auth[s] \ {e}]
  BY DEF RecvDropClient
<1>3. /\ link[s] = "linked" /\ down[s] # <<>>
      /\ Head(down[s]) = DropClient(e)
      /\ down' \in [Servers -> Seq(DownMessage)]
      /\ down'[s] = Tail(down[s])
      /\ \A u \in Servers \ {s} : down'[u] = down[u]
  BY <1>1, <1>2, Handled
<1>4. down[s] \in Seq(DownMessage) /\ auth \in [Servers -> SUBSET Clients]
  BY <1>1 DEF TypeOK
<1>5. /\ auth' \in [Servers -> SUBSET Clients] /\ auth'[s] = auth[s] \ {e}
      /\ \A u \in Servers \ {s} : auth'[u] = auth[u]
  BY <1>2, <1>4
<1>6. hosted' = hosted /\ link' = link /\ up' = up /\ UNCHANGED world
  BY <1>2
<1>7. TypeOK'
  BY <1>1, <1>3, <1>5, <1>6 DEF TypeOK, world
<1>8. Head(down[s]).op # "ZoneBootup" /\ Head(down[s]).op # "ZoneIncClient"
  BY <1>3, DownKinds
<1>9. /\ Answering(down[s], up[s]) => Answering(down'[s], up[s])
      /\ Settled(link[s], down'[s], up[s], hosted[s], named[s], view[s], booting[s])
  <2>1. Settled(link[s], down[s], up[s], hosted[s], named[s], view[s], booting[s])
    BY DEF IInv, TruthInv
  <2>2. down[s] # <<>> /\ down[s] \in Seq(DownMessage)
    BY <1>3, <1>4
  <2>3. /\ Answering(down[s], up[s]) => Answering(Tail(down[s]), up[s])
        /\ Settled(link[s], Tail(down[s]), up[s], hosted[s], named[s], view[s], booting[s])
    BY <2>1, <2>2, <1>8, SettledTaken
  <2> QED
    BY <2>3, <1>3
<1>10. ASSUME KillProcessOnDynamicShutdown, NEW c \in Clients
       PROVE  /\ hosted[s] = None => ~Answers(up[s], c)
              /\ /\ client[c].zone \in Zones
                 /\ Awaited(down[s], up[s], hosted[s], link[s], auth[s], c, client[c].zone)
                 => Awaited(down'[s], up[s], hosted[s], link[s], auth'[s], c,
                            client[c].zone)
  <2>1. hosted[s] = None => ~Answers(up[s], c)
    BY <1>3, <1>10 DEF IInv, QuietInv
  <2>2. ASSUME client[c].zone \in Zones,
               Awaited(down[s], up[s], hosted[s], "linked", auth[s], c, client[c].zone)
        PROVE  Awaited(down'[s], up[s], hosted[s], "linked", auth'[s], c,
                       client[c].zone)
    BY <1>3, <1>4, <1>5, <2>2, AwaitedDropped
  <2> QED
    BY <2>1, <2>2, <1>3
<1> QED
  BY <1>3, <1>5, <1>6, <1>7, <1>9, <1>10, ProcessStep

\* The zone of s is shut down, and the connection with it by default.
LEMMA ShutdownStep ==
  ASSUME IInv, HostingAssumption, NEW s \in Servers, Shutdown(s),
         UNCHANGED world,
         down' \in [Servers -> Seq(DownMessage)],
         link[s] # "linked" => down'[s] = down[s],
         \A u \in Servers \ {s} : down'[u] = down[u]
  PROVE  IInv'
<1>1. TypeOK
  BY DEF IInv
<1>2. /\ link \in [Servers -> {"none", "linked", "closed"}]
      /\ hosted \in [Servers -> Zones \union {None}]
      /\ auth \in [Servers -> SUBSET Clients]
      /\ up \in [Servers -> Seq(UpMessage)] /\ up[s] \in Seq(UpMessage)
  BY <1>1 DEF TypeOK
<1>3. /\ hosted' = [hosted EXCEPT ![s] = None]
      /\ auth' = [auth EXCEPT ![s] = {}]
      /\ up' = IF link[s] = "linked"
               THEN [up EXCEPT ![s] = Append(up[s], SetZone(None))] ELSE up
      /\ link' = IF KillProcessOnDynamicShutdown /\ link[s] = "linked"
                 THEN [link EXCEPT ![s] = "closed"] ELSE link
  BY DEF Shutdown
<1>4. Append(up[s], SetZone(None)) \in Seq(UpMessage)
  BY <1>2, SaysBehind
<1>5. /\ up' \in [Servers -> Seq(UpMessage)]
      /\ up'[s] = IF link[s] = "linked" THEN Append(up[s], SetZone(None)) ELSE up[s]
      /\ \A u \in Servers \ {s} : up'[u] = up[u]
  BY <1>2, <1>3, <1>4
<1>6. /\ hosted' \in [Servers -> Zones \union {None}] /\ hosted'[s] = None
      /\ \A u \in Servers \ {s} : hosted'[u] = hosted[u]
      /\ auth' \in [Servers -> SUBSET Clients]
      /\ \A u \in Servers \ {s} : auth'[u] = auth[u]
  BY <1>2, <1>3
<1>7. /\ link' \in [Servers -> {"none", "linked", "closed"}]
      /\ link'[s] = "linked" => link[s] = "linked"
      /\ KillProcessOnDynamicShutdown => link'[s] # "linked"
      /\ link'[s] = link[s] \/ (link[s] = "linked" /\ link'[s] = "closed")
      /\ \A u \in Servers \ {s} : link'[u] = link[u]
  BY <1>2, <1>3
<1>8. TypeOK'
  BY <1>1, <1>5, <1>6, <1>7 DEF TypeOK, world
<1>9. /\ link[s] = "linked" => Answering(down'[s], up'[s])
      /\ Settled(link'[s], down'[s], up'[s], hosted'[s], named[s], view[s], booting[s])
  <2>1. CASE link[s] = "linked"
    <3>1. up'[s] = Append(up[s], SetZone(None)) /\ hosted'[s] = None
      BY <2>1, <1>5, <1>6
    <3>2. None \in Zones \union {None}
      OBVIOUS
    <3> QED
      BY <3>1, <3>2, <1>2, SettledSaid
  <2>2. CASE link[s] # "linked"
    BY <2>2, <1>7 DEF Settled
  <2> QED
    BY <2>1, <2>2
<1>10. ASSUME KillProcessOnDynamicShutdown, NEW c \in Clients
       PROVE  /\ link'[s] # "linked"
              /\ Awaited(down'[s], up'[s], hosted'[s], link'[s], auth'[s], c,
                         client[c].zone)
  BY <1>6, <1>7, <1>10, AwaitedEnded
<1>11. Answering(down[s], up[s]) => Answering(down'[s], up'[s])
  BY <1>5, <1>9
<1> QED
  BY <1>5, <1>6, <1>7, <1>8, <1>9, <1>10, <1>11, ProcessStep

\* ZoneShutdown: the process says that it hosts nothing, or shuts down.
LEMMA RecvZoneShutdownStep ==
  ASSUME IInv, HostingAssumption, NEW s \in Servers, RecvZoneShutdown(s)
  PROVE  IInv'
<1>1. TypeOK
  BY DEF IInv
<1>2. Handles(s, ZoneShutdown) /\ UNCHANGED world
  BY DEF RecvZoneShutdown
<1>3. /\ link[s] = "linked" /\ down[s] # <<>> /\ Head(down[s]) = ZoneShutdown
      /\ down' \in [Servers -> Seq(DownMessage)]
      /\ \A u \in Servers \ {s} : down'[u] = down[u]
  BY <1>1, <1>2, Handled
<1>4. CASE hosted[s] = None
  <2>1. Sends(s, SetZone(None)) /\ UNCHANGED <<process, link>>
    BY <1>4 DEF RecvZoneShutdown
  <2>2. /\ down[s] \in Seq(DownMessage) /\ up[s] \in Seq(UpMessage)
        /\ hosted \in [Servers -> Zones \union {None}]
        /\ auth \in [Servers -> SUBSET Clients]
    BY <1>1 DEF TypeOK
  <2>3. hosted' = [hosted EXCEPT ![s] = None] /\ auth' = auth
    BY <2>1, <2>2, <1>4 DEF process
  <2>4. Head(down[s]).op \in {"ZoneBootup", "ZoneShutdown"}
    BY <1>3, DownKinds
  <2>5. ASSUME NEW c \in Clients, client[c].zone \in Zones,
               Awaited(down[s], up[s], hosted[s], "linked", auth[s], c, client[c].zone)
        PROVE  Awaited(Tail(down[s]), Append(up[s], SetZone(None)), None, "linked",
                       auth'[s], c, client[c].zone)
    <3>1. None \in Zones \union {None} /\ hosted[s] \in Zones \union {None}
      BY <1>4
    <3> QED
      BY <3>1, <2>2, <2>3, <2>4, <2>5, <1>3, <1>4, AwaitedBooted
  <2>6. None \in Zones \union {None} /\ Announces(s, None)
    BY <2>1 DEF Announces
  <2> QED
    BY <1>2, <1>4, <2>1, <2>2, <2>3, <2>5, <2>6, SaysStep
<1>5. CASE hosted[s] # None
  <2>1. Shutdown(s)
    BY <1>5 DEF RecvZoneShutdown
  <2> QED
    BY <2>1, <1>2, <1>3, ShutdownStep
<1> QED
  BY <1>4, <1>5

\* The zone shuts down by itself.
LEMMA AutoShutdownStep ==
  ASSUME IInv, HostingAssumption, NEW s \in Servers, AutoShutdown(s)
  PROVE  IInv'
<1>1. Shutdown(s) /\ UNCHANGED world /\ down' = down
  BY DEF AutoShutdown
<1>2. down \in [Servers -> Seq(DownMessage)]
  BY DEF IInv, TypeOK
<1> QED
  BY <1>1, <1>2, ShutdownStep

\* The connection fails.
LEMMA DisconnectStep ==
  ASSUME IInv, HostingAssumption, NEW s \in Servers, Disconnect(s)
  PROVE  IInv'
<1>1. TypeOK
  BY DEF IInv
<1>2. /\ link[s] = "linked" /\ link' = [link EXCEPT ![s] = "closed"]
      /\ UNCHANGED <<world, process, down, up>>
  BY DEF Disconnect
<1>3. hosted' = hosted /\ auth' = auth
  BY <1>2 DEF process
<1>4. /\ link' \in [Servers -> {"none", "linked", "closed"}]
      /\ link'[s] = "closed" /\ \A u \in Servers \ {s} : link'[u] = link[u]
  BY <1>1, <1>2 DEF TypeOK
<1>5. TypeOK'
  BY <1>1, <1>2, <1>3, <1>4 DEF TypeOK, world
<1>6. Settled(link'[s], down[s], up[s], hosted[s], named[s], view[s], booting[s])
  BY <1>4 DEF Settled
<1>7. ASSUME NEW c \in Clients,
             Awaited(down[s], up[s], hosted[s], link[s], auth[s], c, client[c].zone)
      PROVE  Awaited(down[s], up[s], hosted[s], link'[s], auth[s], c, client[c].zone)
  BY <1>4, <1>7, AwaitedCut
<1> QED
  BY <1>2, <1>3, <1>4, <1>5, <1>6, <1>7, ProcessStep

\* The process fails.
LEMMA CrashStep ==
  ASSUME IInv, HostingAssumption, NEW s \in Servers, Crash(s)
  PROVE  IInv'
<1>1. TypeOK
  BY DEF IInv
<1>2. /\ link[s] = "linked" /\ link' = [link EXCEPT ![s] = "closed"]
      /\ hosted' = [hosted EXCEPT ![s] = None]
      /\ auth' = [auth EXCEPT ![s] = {}]
      /\ UNCHANGED <<world, down, up>>
  BY DEF Crash
<1>3. /\ hosted' \in [Servers -> Zones \union {None}] /\ hosted'[s] = None
      /\ \A u \in Servers \ {s} : hosted'[u] = hosted[u]
      /\ auth' \in [Servers -> SUBSET Clients]
      /\ \A u \in Servers \ {s} : auth'[u] = auth[u]
  BY <1>1, <1>2 DEF TypeOK
<1>4. /\ link' \in [Servers -> {"none", "linked", "closed"}]
      /\ link'[s] = "closed" /\ \A u \in Servers \ {s} : link'[u] = link[u]
  BY <1>1, <1>2 DEF TypeOK
<1>5. TypeOK'
  BY <1>1, <1>2, <1>3, <1>4 DEF TypeOK, world
<1>6. Settled(link'[s], down[s], up[s], hosted'[s], named[s], view[s], booting[s])
  BY <1>4 DEF Settled
<1>7. ASSUME NEW c \in Clients
      PROVE  Awaited(down[s], up[s], hosted'[s], link'[s], auth'[s], c, client[c].zone)
  BY <1>3, <1>4, AwaitedEnded
<1> QED
  BY <1>2, <1>3, <1>4, <1>5, <1>6, <1>7, ProcessStep

-----------------------------------------------------------------------------
(* The steps of world.                                                     *)

\* The servers of the list.
LEMMA ListedIs ==
  ASSUME list \in Seq(Servers)
  PROVE  \A x : x \in Listed <=> \E i \in 1..Len(list) : list[i] = x
<1>1. DOMAIN list = 1..Len(list)
  OBVIOUS
<1> QED
  BY <1>1 DEF Listed

\* The same of the next state.
LEMMA ListedIsNext ==
  ASSUME list' \in Seq(Servers)
  PROVE  \A x : x \in Listed' <=> \E i \in 1..Len(list') : list'[i] = x
<1>1. DOMAIN list' = 1..Len(list')
  OBVIOUS
<1> QED
  BY <1>1 DEF Listed

\* A process connects, and says what it hosts.
LEMMA ConnectStep ==
  ASSUME IInv, HostingAssumption, NEW s \in Servers, Connect(s)
  PROVE  IInv'
<1>1. TypeOK
  BY DEF IInv
<1>2. /\ link[s] = "none"
      /\ link' = [link EXCEPT ![s] = "linked"]
      /\ list' = Append(list, s)
      /\ up' = [up EXCEPT ![s] = <<SetZone(hosted[s])>>]
      /\ view' = view /\ named' = named /\ booting' = booting /\ client' = client
      /\ warned' = warned /\ down' = down /\ hosted' = hosted /\ auth' = auth
  BY DEF Connect, process
<1>3. hosted[s] \in Zones \union {None} /\ list \in Seq(Servers)
      /\ up \in [Servers -> Seq(UpMessage)]
      /\ link \in [Servers -> {"none", "linked", "closed"}]
  BY <1>1 DEF TypeOK
<1> DEFINE q == Append(<<>>, SetZone(hosted[s]))
<1>4. /\ q = <<SetZone(hosted[s])>> /\ <<>> \in Seq(UpMessage)
      /\ \A c \in Clients : ~Answers(<<>>, c)
  BY DEF Answers
<1>5. /\ q \in Seq(UpMessage)
      /\ \A c \in Clients : ~Answers(q, c)
  BY <1>3, <1>4, SaysBehind
<1>6. /\ Answering(down[s], q)
      /\ Settled("linked", down[s], q, hosted[s], named[s], view[s], booting[s])
  BY <1>3, <1>4, SettledSaid
<1> HIDE DEF q
<1>7. /\ up' \in [Servers -> Seq(UpMessage)] /\ up'[s] = q
      /\ \A u \in Servers \ {s} : up'[u] = up[u]
  BY <1>2, <1>3, <1>4, <1>5
<1>8. /\ link' \in [Servers -> {"none", "linked", "closed"}] /\ link'[s] = "linked"
      /\ \A u \in Servers \ {s} : link'[u] = link[u]
  BY <1>2, <1>3
<1>9. s \notin Listed
  BY <1>2 DEF IInv, ListInv
<1>10. /\ list' \in Seq(Servers)
       /\ \A i, j \in 1..Len(list') : list'[i] = list'[j] => i = j
       /\ \A x : x \in Listed' <=> x = s \/ x \in Listed
  <2>1. \A i \in 1..Len(list) : list[i] # s
    BY <1>3, <1>9, ListedIs
  <2>2. \A i, j \in 1..Len(list) : list[i] = list[j] => i = j
    BY DEF IInv, ListInv
  <2>3. /\ list' \in Seq(Servers)
        /\ \A i, j \in 1..Len(list') : list'[i] = list'[j] => i = j
        /\ \A x : (\E i \in 1..Len(list') : list'[i] = x)
                    <=> x = s \/ \E i \in 1..Len(list) : list[i] = x
    BY <2>1, <2>2, <1>2, <1>3, AppendNew
  <2> QED
    BY <2>3, <1>3, ListedIs, ListedIsNext
<1>11. TypeOK'
  BY <1>1, <1>2, <1>7, <1>8, <1>10 DEF TypeOK
<1>12. ListInv'
  BY <1>8, <1>10 DEF IInv, ListInv
<1>13. TruthInv'
  <2> SUFFICES ASSUME NEW u \in Servers
               PROVE  Settled(link'[u], down'[u], up'[u], hosted'[u], named'[u],
                              view'[u], booting'[u])
    BY DEF TruthInv
  <2>1. CASE u = s
    BY <2>1, <1>2, <1>6, <1>7, <1>8
  <2>2. CASE u # s
    BY <2>2, <1>2, <1>7, <1>8 DEF IInv, TruthInv
  <2> QED
    BY <2>1, <2>2
<1>14. WaitIsFounded'
  <2>1. \A u \in Servers : /\ link[u] = "closed" => link'[u] = "closed"
                           /\ Answering(down[u], up[u]) => Answering(down'[u], up'[u])
    BY <1>2, <1>6, <1>7, <1>8
  <2> QED
    BY <2>1, <1>2, <1>11, FoundedKept
<1>15. ASSUME KillProcessOnDynamicShutdown PROVE QuietInv'
  BY <1>2, <1>5, <1>7, <1>8, <1>15 DEF IInv, QuietInv
<1>16. ASSUME KillProcessOnDynamicShutdown PROVE SentInv'
  <2> SUFFICES ASSUME NEW u \in Servers, NEW c \in Clients, warned'[c] = u
               PROVE  /\ link'[u] # "none"
                      /\ client'[c].zone # None
                      /\ Awaited(down'[u], up'[u], hosted'[u], link'[u], auth'[u], c,
                                 client'[c].zone)
    BY DEF SentInv
  <2>1. /\ link[u] # "none"
        /\ client[c].zone # None
        /\ Awaited(down[u], up[u], hosted[u], link[u], auth[u], c, client[c].zone)
    BY <1>2, <1>16 DEF IInv, SentInv
  <2>2. u # s
    BY <2>1, <1>2
  <2> QED
    BY <2>1, <2>2, <1>2, <1>7, <1>8
<1> QED
  BY <1>11, <1>12, <1>13, <1>14, <1>15, <1>16 DEF IInv

\* World notices that the connection is gone, and forgets the server.
LEMMA RemoveServerStep ==
  ASSUME IInv, HostingAssumption, NEW s \in Servers, RemoveServer(s)
  PROVE  IInv'
<1>1. TypeOK
  BY DEF IInv
<1>2. /\ link[s] = "closed"
      /\ link' = [link EXCEPT ![s] = "none"]
      /\ list' = RemoveFirst(list, s)
      /\ view' = [view EXCEPT ![s] = None]
      /\ named' = [named EXCEPT ![s] = None]
      /\ booting' = [booting EXCEPT ![s] = FALSE]
      /\ client' = [c \in Clients |-> IF client[c].waiting = s
                                      THEN [client[c] EXCEPT !.waiting = Gone]
                                      ELSE client[c]]
      /\ warned' = [c \in Clients |-> IF warned[c] = s THEN None ELSE warned[c]]
      /\ down' = [down EXCEPT ![s] = <<>>]
      /\ up' = [up EXCEPT ![s] = <<>>]
      /\ hosted' = hosted /\ auth' = auth
  BY DEF RemoveServer, process
<1>3. /\ link' \in [Servers -> {"none", "linked", "closed"}] /\ link'[s] = "none"
      /\ view' \in [Servers -> Zones \union {None}]
      /\ named' \in [Servers -> Zones \union {None}]
      /\ booting' \in [Servers -> BOOLEAN]
      /\ down' \in [Servers -> Seq(DownMessage)]
      /\ up' \in [Servers -> Seq(UpMessage)]
      /\ \A u \in Servers \ {s} :
           /\ link'[u] = link[u] /\ view'[u] = view[u] /\ named'[u] = named[u]
           /\ booting'[u] = booting[u] /\ down'[u] = down[u] /\ up'[u] = up[u]
  BY <1>1, <1>2 DEF TypeOK
<1>4. warned' \in [Clients -> Servers \union {None}]
  BY <1>1, <1>2 DEF TypeOK
<1>5. ASSUME NEW c \in Clients
      PROVE  /\ client'[c] \in Request
             /\ client'[c].zone = client[c].zone /\ client'[c].timer = client[c].timer
             /\ \/ client[c].waiting = s /\ client'[c].waiting = Gone
                \/ client[c].waiting # s /\ client'[c] = client[c]
  <2>1. client[c] \in Request
    BY <1>1, TypesAt
  <2>2. client'[c] = IF client[c].waiting = s
                     THEN [client[c] EXCEPT !.waiting = Gone] ELSE client[c]
    BY <1>2
  <2> QED
    BY <2>1, <2>2 DEF Request
<1>6. client' \in [Clients -> Request]
  BY <1>2, <1>5
<1>7. list \in Seq(Servers)
  BY <1>1 DEF TypeOK
<1>8. /\ list' \in Seq(Servers)
      /\ \A i, j \in 1..Len(list') : list'[i] = list'[j] => i = j
      /\ \A x \in Servers : x \in Listed' <=> x # s /\ x \in Listed
  <2>1. \A i, j \in 1..Len(list) : list[i] = list[j] => i = j
    BY DEF IInv, ListInv
  <2>2. /\ list' \in Seq(Servers)
        /\ \A i, j \in 1..Len(list') : list'[i] = list'[j] => i = j
        /\ \A x \in Servers : (\E i \in 1..Len(list') : list'[i] = x)
                    <=> x # s /\ \E i \in 1..Len(list) : list[i] = x
    <3> DEFINE r == RemoveFirst(list, s)
    <3>1. /\ r \in Seq(Servers)
          /\ \A i, j \in 1..Len(r) : r[i] = r[j] => i = j
          /\ \A x \in Servers : (\E i \in 1..Len(r) : r[i] = x)
                      <=> x # s /\ \E i \in 1..Len(list) : list[i] = x
      BY <2>1, <1>7, RemoveFirstOnce
    <3>2. list' = r
      BY <1>2
    <3> HIDE DEF r
    <3> QED
      BY <3>1, <3>2
  <2> QED
    BY <2>2, <1>7, ListedIs, ListedIsNext
<1>9. TypeOK'
  BY <1>1, <1>2, <1>3, <1>4, <1>6, <1>8 DEF TypeOK
<1>10. ListInv'
  BY <1>3, <1>8 DEF IInv, ListInv
<1>11. TruthInv'
  <2> SUFFICES ASSUME NEW u \in Servers
               PROVE  Settled(link'[u], down'[u], up'[u], hosted'[u], named'[u],
                              view'[u], booting'[u])
    BY DEF TruthInv
  <2>1. CASE u = s
    BY <2>1, <1>3 DEF Settled
  <2>2. CASE u # s
    BY <2>2, <1>2, <1>3 DEF IInv, TruthInv
  <2> QED
    BY <2>1, <2>2
<1>12. WaitIsFounded'
  <2>1. s # None
    BY DEF HostingAssumption
  <2>2. ASSUME NEW c \in Clients, client'[c].waiting # None
        PROVE  \/ client'[c] = client[c] /\ client[c].waiting # s
               \/ /\ client'[c].zone # None /\ client'[c].timer
                  /\ client'[c].waiting = Gone
    BY <1>5, <2>1 DEF IInv, WaitIsFounded
  <2>3. \A u \in Servers : u # s =>
          /\ link[u] = "closed" => link'[u] = "closed"
          /\ Answering(down[u], up[u]) => Answering(down'[u], up'[u])
    BY <1>3
  <2>4. ASSUME NEW c \in Clients, NEW w \in Servers, client'[c] = client[c],
               client[c].waiting = w
        PROVE  w # s
    BY <1>5, <2>4 DEF HostingAssumption
  <2> QED
    BY <2>2, <2>3, <2>4, <1>9, FoundedKept
<1>13. ASSUME KillProcessOnDynamicShutdown PROVE QuietInv'
  BY <1>2, <1>3, <1>13 DEF IInv, QuietInv
<1>14. ASSUME KillProcessOnDynamicShutdown PROVE SentInv'
  <2> SUFFICES ASSUME NEW u \in Servers, NEW c \in Clients, warned'[c] = u
               PROVE  /\ link'[u] # "none"
                      /\ client'[c].zone # None
                      /\ Awaited(down'[u], up'[u], hosted'[u], link'[u], auth'[u], c,
                                 client'[c].zone)
    BY DEF SentInv
  <2>1. u # s /\ warned[c] = u
    BY <1>2 DEF HostingAssumption
  <2>2. /\ link[u] # "none"
        /\ client[c].zone # None
        /\ Awaited(down[u], up[u], hosted[u], link[u], auth[u], c, client[c].zone)
    BY <2>1, <1>14 DEF IInv, SentInv
  <2> QED
    BY <2>1, <2>2, <1>2, <1>3, <1>5
<1> QED
  BY <1>9, <1>10, <1>11, <1>12, <1>13, <1>14 DEF IInv

\* A Client that asks for nothing any more.
LEMMA Forgotten ==
  ASSUME TypeOK, NEW c \in Clients,
         client' = [client EXCEPT ![c] = Unavailable],
         warned' = [warned EXCEPT ![c] = None]
  PROVE  /\ client' \in [Clients -> Request]
         /\ warned' \in [Clients -> Servers \union {None}]
         /\ client'[c].waiting = None /\ warned'[c] = None
         /\ \A d \in Clients : d # c => client'[d] = client[d] /\ warned'[d] = warned[d]
<1>1. /\ client \in [Clients -> Request]
      /\ warned \in [Clients -> Servers \union {None}]
  BY DEF TypeOK
<1>2. Unavailable \in Request /\ Unavailable.waiting = None
  BY DEF Unavailable, Request
<1> QED
  BY <1>1, <1>2

\* Some clients ask for nothing any more, and world may have taken an answer:
\* what the other steps of world have in common.
LEMMA ForgetStep ==
  ASSUME IInv, HostingAssumption,
         UNCHANGED <<list, view, named, booting, hosted, link, down>>,
         client' \in [Clients -> Request],
         warned' \in [Clients -> Servers \union {None}],
         auth' \in [Servers -> SUBSET Clients],
         up' \in [Servers -> Seq(UpMessage)],
         \A c \in Clients : client'[c] = client[c] \/ client'[c].waiting = None,
         \A c \in Clients, s \in Servers : warned'[c] = s =>
           /\ warned[c] = s /\ client'[c] = client[c]
           /\ c \in auth[s] => c \in auth'[s],
         \A s \in Servers :
           \/ up'[s] = up[s]
           \/ /\ up[s] # <<>> /\ up'[s] = Tail(up[s])
              /\ Head(up[s]).op # "SetZone"
  PROVE  IInv'
<1>1. TypeOK
  BY DEF IInv
<1>2. TypeOK'
  BY <1>1 DEF TypeOK
<1>3. \A s \in Servers : up[s] \in Seq(UpMessage)
  BY <1>1 DEF TypeOK
<1>4. ASSUME NEW s \in Servers
      PROVE  /\ Answering(down[s], up[s]) => Answering(down[s], up'[s])
             /\ Settled(link[s], down[s], up'[s], hosted[s], named[s], view[s],
                        booting[s])
  <2>1. Settled(link[s], down[s], up[s], hosted[s], named[s], view[s], booting[s])
    BY DEF IInv, TruthInv
  <2>2. CASE up'[s] = up[s]
    BY <2>1, <2>2
  <2>3. CASE up[s] # <<>> /\ up'[s] = Tail(up[s]) /\ Head(up[s]).op # "SetZone"
    <3>1. /\ Answering(down[s], up[s]) => Answering(down[s], Tail(up[s]))
          /\ Settled(link[s], down[s], Tail(up[s]), hosted[s], named[s], view[s],
                     booting[s])
      BY <1>3, <2>1, <2>3, SettledAnswered
    <3> QED
      BY <3>1, <2>3
  <2> QED
    BY <2>2, <2>3
<1>5. ASSUME NEW s \in Servers, NEW c \in Clients
      PROVE  ~Answers(up[s], c) => ~Answers(up'[s], c)
  <2>1. up[s] # <<>> /\ ~Answers(up[s], c) => ~Answers(Tail(up[s]), c)
    BY <1>3, UpTail
  <2> QED
    BY <2>1
<1>6. WaitIsFounded'
  BY <1>2, <1>4, FoundedKept
<1>7. ASSUME NEW s \in Servers, NEW c \in Clients, KillProcessOnDynamicShutdown,
             warned'[c] = s
      PROVE  /\ link[s] # "none"
             /\ client'[c].zone # None
             /\ Awaited(down'[s], up'[s], hosted[s], link[s], auth'[s], c,
                        client'[c].zone)
  <2>1. /\ link[s] # "none"
        /\ client[c].zone # None
        /\ Awaited(down[s], up[s], hosted[s], link[s], auth[s], c, client[c].zone)
    BY <1>7 DEF IInv, SentInv
  <2>2. Awaited(down[s], up'[s], hosted[s], link[s], auth[s], c, client[c].zone)
    <3>1. CASE up'[s] = up[s]
      BY <2>1, <3>1
    <3>2. CASE up[s] # <<>> /\ up'[s] = Tail(up[s])
      <4>1. Awaited(down[s], Tail(up[s]), hosted[s], link[s], auth[s], c, client[c].zone)
        BY <1>3, <2>1, <3>2, AwaitedHeard
      <4> QED
        BY <4>1, <3>2
    <3> QED
      BY <3>1, <3>2
  <2>3. Awaited(down[s], up'[s], hosted[s], link[s], auth'[s], c, client[c].zone)
    BY <2>2, <1>7 DEF Awaited
  <2> QED
    BY <2>1, <2>3, <1>7
<1> QED
  BY <1>2, <1>4, <1>5, <1>6, <1>7, WorldStep

\* The wait for the zone takes too long, or the client leaves world.
LEMMA BootTimeoutStep ==
  ASSUME IInv, HostingAssumption, NEW c \in Clients, BootTimeout(c) \/ Leave(c)
  PROVE  IInv'
<1>1. /\ client' = [client EXCEPT ![c] = Unavailable]
      /\ warned' = [warned EXCEPT ![c] = None]
      /\ UNCHANGED <<list, view, named, booting, process, link, down, up>>
  BY DEF BootTimeout, Leave
<1>2. TypeOK /\ None \notin Servers
  BY DEF IInv, HostingAssumption
<1>3. /\ auth' = auth /\ auth' \in [Servers -> SUBSET Clients]
      /\ hosted' = hosted /\ up' = up /\ up' \in [Servers -> Seq(UpMessage)]
  BY <1>1, <1>2 DEF TypeOK, process
<1>4. /\ client' \in [Clients -> Request]
      /\ warned' \in [Clients -> Servers \union {None}]
      /\ client'[c].waiting = None /\ warned'[c] = None
      /\ \A d \in Clients : d # c => client'[d] = client[d] /\ warned'[d] = warned[d]
  BY <1>1, <1>2, Forgotten
<1> QED
  BY <1>1, <1>2, <1>3, <1>4, ForgetStep

\* The client enters the zone.
LEMMA ArriveStep ==
  ASSUME IInv, HostingAssumption, NEW c \in Clients, NEW s \in Servers, Arrive(c, s)
  PROVE  IInv'
<1>1. /\ client' = [client EXCEPT ![c] = Unavailable]
      /\ warned' = [warned EXCEPT ![c] = None]
      /\ auth' = [auth EXCEPT ![s] = auth[s] \ {c}]
      /\ UNCHANGED <<list, view, named, booting, hosted, link, down, up>>
  BY DEF Arrive
<1>2. TypeOK /\ None \notin Servers
  BY DEF IInv, HostingAssumption
<1>3. /\ auth' \in [Servers -> SUBSET Clients]
      /\ \A d \in Clients, u \in Servers : d # c /\ d \in auth[u] => d \in auth'[u]
      /\ up' \in [Servers -> Seq(UpMessage)]
  BY <1>1, <1>2 DEF TypeOK
<1>4. /\ client' \in [Clients -> Request]
      /\ warned' \in [Clients -> Servers \union {None}]
      /\ client'[c].waiting = None /\ warned'[c] = None
      /\ \A d \in Clients : d # c => client'[d] = client[d] /\ warned'[d] = warned[d]
  BY <1>1, <1>2, Forgotten
<1> QED
  BY <1>1, <1>2, <1>3, <1>4, ForgetStep

\* World takes a message.
LEMMA Received ==
  ASSUME TypeOK, NEW s \in Servers, NEW m, Receives(s, m)
  PROVE  /\ s \in Listed /\ up[s] # <<>> /\ m = Head(up[s])
         /\ up' \in [Servers -> Seq(UpMessage)]
         /\ up'[s] = Tail(up[s])
         /\ \A u \in Servers \ {s} : up'[u] = up[u]
<1>1. up \in [Servers -> Seq(UpMessage)]
  BY DEF TypeOK
<1>2. s \in Listed /\ up[s] # <<>> /\ m = Head(up[s])
      /\ up' = [up EXCEPT ![s] = Tail(up[s])]
  BY DEF Receives
<1>3. Tail(up[s]) \in Seq(UpMessage)
  BY <1>1, <1>2, TailAt
<1> QED
  BY <1>1, <1>2, <1>3

\* World hears that the zone expects the client, or does not.
LEMMA RecvResponseStep ==
  ASSUME IInv, HostingAssumption, NEW s \in Servers, NEW c \in Clients,
         NEW ok \in BOOLEAN, RecvResponse(s, c, ok)
  PROVE  IInv'
<1>1. TypeOK /\ None \notin Servers
  BY DEF IInv, HostingAssumption
<1>2. /\ Receives(s, Response(c, ok))
      /\ UNCHANGED <<list, view, named, booting, process, link, down>>
  BY DEF RecvResponse
<1>3. /\ up[s] # <<>> /\ Response(c, ok) = Head(up[s])
      /\ up' \in [Servers -> Seq(UpMessage)]
      /\ up'[s] = Tail(up[s])
      /\ \A u \in Servers \ {s} : up'[u] = up[u]
  BY <1>1, <1>2, Received
<1>4. Head(up[s]).op # "SetZone"
  BY <1>3, UpKinds
<1>5. /\ auth' = auth /\ auth' \in [Servers -> SUBSET Clients] /\ hosted' = hosted
      /\ client \in [Clients -> Request]
      /\ warned \in [Clients -> Servers \union {None}]
  BY <1>1, <1>2 DEF TypeOK, process
<1>6. /\ client' \in [Clients -> Request]
      /\ warned' \in [Clients -> Servers \union {None}]
      /\ \/ client'[c] = client[c] /\ warned'[c] = warned[c]
         \/ client'[c].waiting = None /\ warned'[c] = None
      /\ \A d \in Clients : d # c => client'[d] = client[d] /\ warned'[d] = warned[d]
  <2>1. CASE UNCHANGED <<client, warned>>
    BY <2>1, <1>5
  <2>2. CASE /\ client' = [client EXCEPT ![c] = Unavailable]
             /\ warned' = [warned EXCEPT ![c] = None]
    BY <2>2, <1>1, Forgotten
  <2> QED
    BY <2>1, <2>2 DEF RecvResponse
<1> QED
  BY <1>1, <1>2, <1>3, <1>4, <1>5, <1>6, ForgetStep

\* World asks s to boot a zone, for which client c may wait.
LEMMA BootStep ==
  ASSUME IInv, HostingAssumption, NEW s \in Listed, NEW z \in Zones,
         TriggerBootup(s, z),
         UNCHANGED <<list, named, process, link, up>>,
         client' \in [Clients -> Request],
         warned' \in [Clients -> Servers \union {None}],
         \A c \in Clients :
           \/ client'[c] = client[c] /\ warned'[c] = warned[c]
           \/ /\ warned'[c] = None
              /\ client'[c].waiting = s /\ client'[c].zone # None /\ client'[c].timer
  PROVE  IInv'
<1>1. TypeOK /\ None \notin Servers
  BY DEF IInv, HostingAssumption
<1>2. s \in Servers
  BY <1>1, TypesAt
<1> DEFINE m == ZoneBootup(z)
           q == down[s] \o <<m>>
<1>3. m \in DownMessage /\ m.op = "ZoneBootup"
      /\ \A c \in Clients : m # DropClient(c) /\ m # AcceptWorldEntrance(c)
  BY DownKinds
<1> HIDE DEF m
<1>4. /\ <<m>> \in Seq(DownMessage) /\ Len(<<m>>) = 1 /\ <<m>>[1] = m
      /\ down[s] \in Seq(DownMessage) /\ down \in [Servers -> Seq(DownMessage)]
  BY <1>1, <1>2, <1>3 DEF TypeOK
<1>5. /\ q \in Seq(DownMessage) /\ Append(down[s], m) = q
  BY <1>3, <1>4, AppendAt
<1>6. \A c \in Clients : Silent(<<m>>, c)
  BY <1>3, <1>4 DEF Silent
<1>7. Mentions(q, "ZoneBootup")
  <2>1. Mentions(<<m>>, "ZoneBootup")
    BY <1>3, <1>4 DEF Mentions
  <2> QED
    BY <2>1, <1>4, MentionsConcat
<1>8. /\ booting' = [booting EXCEPT ![s] = TRUE]
      /\ view' = [view EXCEPT ![s] = z]
      /\ down' = [down EXCEPT ![s] = Append(down[s], m)]
      /\ list' = list /\ named' = named /\ link' = link /\ up' = up
      /\ hosted' = hosted /\ auth' = auth
  BY DEF TriggerBootup, process, m
<1>9. /\ down' \in [Servers -> Seq(DownMessage)] /\ down'[s] = q
      /\ \A u \in Servers \ {s} : down'[u] = down[u]
  BY <1>2, <1>4, <1>5, <1>8
<1>10. /\ view' \in [Servers -> Zones \union {None}] /\ booting' \in [Servers -> BOOLEAN]
       /\ \A u \in Servers \ {s} : view'[u] = view[u] /\ booting'[u] = booting[u]
  BY <1>1, <1>2, <1>8 DEF TypeOK
<1>11. TypeOK'
  BY <1>1, <1>8, <1>9, <1>10 DEF TypeOK
<1> HIDE DEF q
<1>12. ASSUME NEW u \in Servers
       PROVE  /\ Answering(down[u], up[u]) => Answering(down'[u], up'[u])
              /\ Settled(link[u], down'[u], up'[u], hosted[u], named'[u], view'[u],
                         booting'[u])
  <2>1. Settled(link[u], down[u], up[u], hosted[u], named[u], view[u], booting[u])
    BY DEF IInv, TruthInv
  <2>2. CASE u = s
    <3>1. Settled(link[s], q, up[s], hosted[s], named[s], view'[s], booting'[s])
      BY <1>7, <2>1, <2>2, SettledAsked
    <3>2. Answering(q, up[s])
      BY <1>7 DEF Answering
    <3> QED
      BY <3>1, <3>2, <2>2, <1>8, <1>9
  <2>3. CASE u # s
    BY <2>1, <2>3, <1>8, <1>9, <1>10
  <2> QED
    BY <2>2, <2>3
<1>13. WaitIsFounded'
  <2>1. Answering(down'[s], up'[s])
    BY <1>7, <1>9 DEF Answering
  <2> QED
    BY <2>1, <1>1, <1>2, <1>8, <1>11, <1>12, FoundedKept
<1>14. ASSUME NEW u \in Servers, NEW c \in Clients, KillProcessOnDynamicShutdown,
              warned'[c] = u
       PROVE  /\ link[u] # "none"
              /\ client'[c].zone # None
              /\ Awaited(down'[u], up'[u], hosted[u], link[u], auth'[u], c,
                         client'[c].zone)
  <2>1. client'[c] = client[c] /\ warned[c] = u
    BY <1>1, <1>14
  <2>2. /\ link[u] # "none"
        /\ client[c].zone # None /\ client[c].zone \in Zones
        /\ Awaited(down[u], up[u], hosted[u], link[u], auth[u], c, client[c].zone)
    BY <2>1, <1>1, <1>14, TypesAt DEF IInv, SentInv
  <2>3. Awaited(down'[u], up[u], hosted[u], link[u], auth[u], c, client[c].zone)
    <3>1. CASE u = s
      <4>1. Awaited(down[s] \o <<m>>, up[s], hosted[s], link[s], auth[s], c,
                    client[c].zone)
        BY <1>4, <1>6, <2>2, <3>1, AwaitedSent
      <4> QED
        BY <4>1, <3>1, <1>9 DEF q
    <3>2. CASE u # s
      BY <2>2, <3>2, <1>9
    <3> QED
      BY <3>1, <3>2
  <2> QED
    BY <2>1, <2>2, <2>3, <1>8
<1> QED
  BY <1>8, <1>11, <1>12, <1>13, <1>14, WorldStep

\* The server that is to boot a zone is on the list.
LEMMA IdleIsListed ==
  ASSUME TypeOK, HostingAssumption, Idle # None
  PROVE  Idle \in Listed
<1> DEFINE S == {s \in Listed : view[s] = None /\ ~booting[s]}
<1>1. S \in SUBSET Servers
  BY TypesAt
<1>2. Idle = FirstOf(S)
  BY DEF Idle
<1> HIDE DEF S
<1>3. list \in Seq(Servers)
  BY DEF TypeOK
<1> QED
  BY <1>1, <1>2, <1>3, FirstOfFinds

\* World boots a zone for somebody who goes there, or as an operator commands.
LEMMA OtherBootStep ==
  ASSUME IInv, HostingAssumption, NEW s \in Servers, NEW z \in Zones,
         ZoneToZone(s, z) \/ SOPZoneBootup(s, z)
  PROVE  IInv'
<1>1. PICK t \in Listed : TriggerBootup(t, z)
  <2>1. CASE ZoneToZone(s, z)
    <3>1. TriggerBootup(Idle, z) /\ Idle # None
      BY <2>1 DEF ZoneToZone
    <3>2. TypeOK
      BY DEF IInv
    <3>3. Idle \in Listed
      BY <3>1, <3>2, IdleIsListed
    <3> QED
      BY <3>1, <3>3
  <2>2. CASE SOPZoneBootup(s, z)
    BY <2>2 DEF SOPZoneBootup
  <2> QED
    BY <2>1, <2>2
<1>2. UNCHANGED <<list, named, client, warned, process, link, up>>
  BY DEF ZoneToZone, SOPZoneBootup
<1>3. client' \in [Clients -> Request] /\ warned' \in [Clients -> Servers \union {None}]
  BY <1>2 DEF IInv, TypeOK
<1> QED
  BY <1>1, <1>2, <1>3, BootStep

\* An operator's command to shut a zone down is only a message so far.
LEMMA SOPZoneShutdownStep ==
  ASSUME IInv, HostingAssumption, NEW s \in Servers, SOPZoneShutdown(s)
  PROVE  IInv'
<1>1. TypeOK /\ None \notin Servers
  BY DEF IInv, HostingAssumption
<1> DEFINE m == ZoneShutdown
           q == down[s] \o <<m>>
<1>2. m \in DownMessage
      /\ \A c \in Clients : m # DropClient(c) /\ m # AcceptWorldEntrance(c)
  BY DownKinds
<1>3. /\ down' = [down EXCEPT ![s] = Append(down[s], m)]
      /\ UNCHANGED <<world, process, link, up>>
  BY DEF SOPZoneShutdown
<1> HIDE DEF m
<1>4. /\ <<m>> \in Seq(DownMessage) /\ Len(<<m>>) = 1 /\ <<m>>[1] = m
      /\ down[s] \in Seq(DownMessage) /\ down \in [Servers -> Seq(DownMessage)]
  BY <1>1, <1>2 DEF TypeOK
<1>5. /\ q \in Seq(DownMessage) /\ Append(down[s], m) = q
  BY <1>2, <1>4, AppendAt
<1>6. \A c \in Clients : Silent(<<m>>, c)
  BY <1>2, <1>4 DEF Silent
<1>7. /\ down' \in [Servers -> Seq(DownMessage)] /\ down'[s] = q
      /\ \A u \in Servers \ {s} : down'[u] = down[u]
  BY <1>3, <1>4, <1>5
<1>8. hosted' = hosted /\ auth' = auth
  BY <1>3 DEF process
<1>9. TypeOK'
  BY <1>1, <1>3, <1>7, <1>8 DEF TypeOK, world
<1>10. /\ Answering(down[s], up[s]) => Answering(q, up[s])
       /\ Settled(link[s], q, up[s], hosted[s], named[s], view[s], booting[s])
  <2>1. Settled(link[s], down[s], up[s], hosted[s], named[s], view[s], booting[s])
    BY DEF IInv, TruthInv
  <2> QED
    BY <2>1, <1>4, SettledSent
<1>11. ASSUME NEW c \in Clients, client[c].zone \in Zones,
              Awaited(down[s], up[s], hosted[s], link[s], auth[s], c, client[c].zone)
       PROVE  Awaited(q, up[s], hosted[s], link[s], auth[s], c, client[c].zone)
  BY <1>4, <1>6, <1>11, AwaitedSent
<1>12. ASSUME KillProcessOnDynamicShutdown, NEW c \in Clients, link[s] = "linked",
              hosted[s] = None
       PROVE  ~Answers(up[s], c)
  BY <1>12 DEF IInv, QuietInv
<1> HIDE DEF q
<1> QED
  BY <1>3, <1>7, <1>8, <1>9, <1>10, <1>11, <1>12, ProcessStep

\* The state after clients have entered, when base was booting: who is warned of
\* is awaited, and a server that is being booted will answer.
EnterLeaves(base) ==
  /\ down' \in [Servers -> Seq(DownMessage)]
  /\ booting' \in [Servers -> BOOLEAN]
  /\ warned' \in [Clients -> Servers \union {None}]
  /\ \A u \in Servers : \E r \in Seq(DownMessage) : down'[u] = down[u] \o r
  /\ \A u \in Servers :
       booting'[u] = base[u] \/ Mentions(down'[u], "ZoneIncClient")
  /\ \A u \in Servers, c \in Clients :
       KillProcessOnDynamicShutdown /\ warned'[c] = u =>
         /\ link[u] # "none"
         /\ client'[c].zone # None
         /\ Awaited(down'[u], up[u], hosted[u], link[u], auth[u], c, client'[c].zone)

\* order names the clients cs, each once.
Orders(order, cs) ==
  /\ order \in Seq(Clients)
  /\ \A i, j \in 1..Len(order) : order[i] = order[j] => i = j
  /\ \A c \in Clients : c \in cs <=> \E i \in 1..Len(order) : order[i] = c

\* The clients cs are in z then, but for the refused ones, and the others stay.
LeavesClients(cs, z, refused) ==
  \A c \in Clients :
    /\ c \in cs \ refused => client'[c].zone = z
    /\ c \notin cs \union refused => client'[c] = client[c]

\* Clients enter z at t: who is announced is coming, and t is booted for them
\* if it has to be; for the others nothing changes.
LEMMA EnterDoes ==
  ASSUME IInv, HostingAssumption,
         NEW cs \in SUBSET Clients, NEW order, Orders(order, cs),
         NEW z \in Zones, NEW t \in Listed, NEW refused \in SUBSET Clients,
         NEW base \in [Servers -> BOOLEAN],
         Enter(cs, order, z, t, refused, base),
         LeavesClients(cs, z, refused)
  PROVE  EnterLeaves(base)
<1>1. TypeOK /\ None \notin Servers /\ None \notin Zones
  BY DEF IInv, HostingAssumption
<1>12. /\ order \in Seq(Clients)
       /\ \A i, j \in 1..Len(order) : order[i] = order[j] => i = j
       /\ \A c \in Clients : c \in cs <=> \E i \in 1..Len(order) : order[i] = c
  BY DEF Orders
<1>13. \A c \in Clients :
         /\ c \in cs \ refused => client'[c].zone = z
         /\ c \notin cs \union refused => client'[c] = client[c]
  BY DEF LeavesClients
<1>2. t \in Servers /\ link[t] # "none"
  BY <1>1, TypesAt DEF IInv, ListInv
<1> DEFINE batch(u) == Batch(order, z, t, u, refused)
<1>3. /\ \A u \in Servers :
           down'[u] = IF u \in Listed THEN down[u] \o batch(u) ELSE down[u]
      /\ down' = [u \in Servers |-> down'[u]]
      /\ booting' = [base EXCEPT ![t] = base[t] \/ Announced(cs) # {}]
      /\ warned' = [c \in Clients |->
                      IF c \in refused THEN None
                      ELSE IF c \in Announced(cs) THEN t
                      ELSE IF c \in cs THEN None ELSE warned[c]]
  BY DEF Enter, Batch
<1>4. \A u \in Servers : down[u] \in Seq(DownMessage)
  BY <1>1 DEF TypeOK
<1>5. ASSUME NEW u
      PROVE  /\ batch(u) \in Seq(DownMessage)
             /\ \A c \in Clients : c \notin cs => Silent(batch(u), c)
             /\ \A c \in cs : u = t /\ ~client[c].triggered => Coming(batch(u), c, z)
  BY <1>12, BatchOf
<1> HIDE DEF batch
<1>6. ASSUME NEW u \in Servers
      PROVE  \E r \in Seq(DownMessage) : down'[u] = down[u] \o r
  <2>1. CASE u \in Listed
    BY <2>1, <1>3, <1>5
  <2>2. CASE u \notin Listed
    <3>1. <<>> \in Seq(DownMessage) /\ down[u] = down[u] \o <<>>
      BY <1>4
    <3> QED
      BY <2>2, <3>1, <1>3
  <2> QED
    BY <2>1, <2>2
<1>7. ASSUME NEW u \in Servers PROVE down'[u] \in Seq(DownMessage)
  <2>1. PICK r \in Seq(DownMessage) : down'[u] = down[u] \o r
    BY <1>6
  <2>2. down[u] \o r \in Seq(DownMessage)
    BY <1>4, ConcatAt
  <2> QED
    BY <2>1, <2>2
<1>8. ASSUME NEW c \in Announced(cs)
      PROVE  c \in cs /\ Coming(down'[t], c, z)
  <2>1. c \in cs /\ ~client[c].triggered
    BY DEF Announced
  <2>2. batch(t) \in Seq(DownMessage) /\ Coming(batch(t), c, z)
    BY <2>1, <1>5
  <2>3. Coming(down[t] \o batch(t), c, z)
    BY <2>1, <2>2, <1>2, <1>4, ComingBehind
  <2> QED
    BY <2>1, <2>3, <1>2, <1>3
<1>9. ASSUME NEW u \in Servers
      PROVE  booting'[u] = base[u] \/ Mentions(down'[u], "ZoneIncClient")
  <2>1. CASE u # t
    BY <2>1, <1>3
  <2>2. CASE u = t /\ Announced(cs) = {}
    <3>1. base[t] \in BOOLEAN
      BY <1>2
    <3>2. booting'[t] = (base[t] \/ FALSE)
      BY <2>2, <1>2, <1>3
    <3> QED
      BY <3>1, <3>2, <2>2
  <2>3. CASE u = t /\ Announced(cs) # {}
    <3>1. PICK c \in Announced(cs) : TRUE
      BY <2>3
    <3>2. c \in Clients /\ Coming(down'[t], c, z)
      BY <1>8
    <3>3. PICK i \in 1..Len(down'[t]) : down'[t][i] = ZoneIncClient(c, z)
      BY <3>2 DEF Coming
    <3>4. ZoneIncClient(c, z).op = "ZoneIncClient"
      BY <3>2, DownKinds
    <3> QED
      BY <3>3, <3>4, <2>3 DEF Mentions
  <2> QED
    BY <2>1, <2>2, <2>3
<1>10. ASSUME NEW u \in Servers, NEW c \in Clients, KillProcessOnDynamicShutdown,
              warned'[c] = u
       PROVE  /\ link[u] # "none"
              /\ client'[c].zone # None
              /\ Awaited(down'[u], up[u], hosted[u], link[u], auth[u], c,
                         client'[c].zone)
  <2>1. c \notin refused
    BY <1>1, <1>3, <1>10
  <2>2. CASE c \in Announced(cs)
    <3>1. u = t /\ c \in cs /\ Coming(down'[t], c, z)
      BY <2>1, <2>2, <1>3, <1>8, <1>10
    <3>2. client'[c].zone = z
      BY <2>1, <3>1, <1>13
    <3> QED
      BY <3>1, <3>2, <1>1, <1>2 DEF Awaited
  <2>3. CASE c \notin Announced(cs)
    <3>1. c \notin cs /\ warned[c] = u
      BY <2>1, <2>3, <1>1, <1>3, <1>10
    <3>2. client'[c] = client[c]
      BY <2>1, <3>1, <1>13
    <3>3. /\ link[u] # "none"
          /\ client[c].zone # None /\ client[c].zone \in Zones
          /\ Awaited(down[u], up[u], hosted[u], link[u], auth[u], c, client[c].zone)
      BY <3>1, <1>1, <1>10, TypesAt DEF IInv, SentInv
    <3>4. u \in Listed
      BY <3>3 DEF IInv, ListInv
    <3>5. Silent(batch(u), c) /\ batch(u) \in Seq(DownMessage)
      BY <3>1, <1>5
    <3>6. Awaited(down[u] \o batch(u), up[u], hosted[u], link[u], auth[u], c,
                  client[c].zone)
      BY <3>3, <3>5, <1>4, AwaitedSent
    <3> QED
      BY <3>2, <3>3, <3>4, <3>6, <1>3
  <2> QED
    BY <2>2, <2>3
<1>11. /\ down' \in [Servers -> Seq(DownMessage)]
       /\ booting' \in [Servers -> BOOLEAN]
       /\ warned' \in [Clients -> Servers \union {None}]
  <2>1. down' \in [Servers -> Seq(DownMessage)]
    BY <1>3, <1>7
  <2>2. booting' \in [Servers -> BOOLEAN]
    BY <1>2, <1>3
  <2>3. warned \in [Clients -> Servers \union {None}]
    BY <1>1 DEF TypeOK
  <2> QED
    BY <2>1, <2>2, <2>3, <1>2, <1>3
<1> QED
  BY <1>6, <1>9, <1>10, <1>11 DEF EnterLeaves

\* A Client that has entered.
LEMMA Entered ==
  ASSUME TypeOK, NEW c \in Clients, NEW z \in Zones, NEW refused
  PROVE  /\ EnteredClient(c, z, refused) \in Request
         /\ EnteredClient(c, z, refused).waiting = None
         /\ c \notin refused => EnteredClient(c, z, refused).zone = z
<1>1. client[c] \in Request
  BY TypesAt
<1>2. CASE c \in refused
  BY <1>2 DEF EnteredClient, Unavailable, Request
<1>3. CASE c \notin refused
  BY <1>1, <1>3 DEF EnteredClient, Request
<1> QED
  BY <1>2, <1>3

\* The server that hosts a zone, as world sees it, is on the list.
LEMMA FoundIsListed ==
  ASSUME TypeOK, HostingAssumption, NEW map, NEW z, FindByZoneID(map, z) # None
  PROVE  FindByZoneID(map, z) \in Listed
<1> DEFINE S == {s \in Listed : map[s] = z}
<1>1. S \in SUBSET Servers
  BY TypesAt
<1>2. FindByZoneID(map, z) = FirstOf(S)
  BY DEF FindByZoneID
<1> HIDE DEF S
<1>3. list \in Seq(Servers)
  BY DEF TypeOK
<1> QED
  BY <1>1, <1>2, <1>3, FirstOfFinds

\* A client asks to enter a zone: it does, waits for it, or is turned away.
LEMMA EnterWorldStep ==
  ASSUME IInv, HostingAssumption, NEW c \in Clients, NEW z \in Zones,
         EnterWorld(c, z)
  PROVE  IInv'
<1>1. TypeOK /\ None \notin Servers /\ None \notin Zones
  BY DEF IInv, HostingAssumption
<1> DEFINE t == FindByZoneID(view, z)
<1>2. UNCHANGED <<list, named, process, link, up>>
  BY DEF EnterWorld
<1>3. hosted' = hosted /\ auth' = auth
  BY <1>2 DEF process
<1>4. /\ client \in [Clients -> Request] /\ client[c] \in Request
      /\ warned \in [Clients -> Servers \union {None}]
      /\ up' \in [Servers -> Seq(UpMessage)] /\ auth' \in [Servers -> SUBSET Clients]
      /\ booting \in [Servers -> BOOLEAN]
  BY <1>1, <1>2, <1>3, TypesAt DEF TypeOK
<1>5. ASSUME t # None,
             NEW refused \in SUBSET {c},
             Enter({c}, <<c>>, z, t, refused, booting),
             client' = [client EXCEPT ![c] = EnteredClient(c, z, refused)],
             view' = view
      PROVE  IInv'
  <2>1. PICK v \in Listed : v = t
    BY <1>1, <1>5, FoundIsListed
  <2>11. PICK base \in [Servers -> BOOLEAN] : base = booting
    BY <1>4
  <2>2. /\ client' \in [Clients -> Request]
        /\ client'[c].waiting = None
        /\ c \notin refused => client'[c].zone = z
        /\ \A d \in Clients : d # c => client'[d] = client[d]
    BY <1>1, <1>4, <1>5, Entered
  <2> DEFINE cs == {c}
             order == <<c>>
  <2>3. cs \in SUBSET Clients /\ Orders(order, cs)
    BY DEF Orders
  <2>4. refused \in SUBSET Clients
    BY <1>5
  <2>5. LeavesClients(cs, z, refused)
    BY <2>2 DEF LeavesClients
  <2>10. Enter(cs, order, z, v, refused, base)
    BY <2>1, <2>11, <1>5 DEF Enter
  <2> HIDE DEF t, cs, order
  <2>6. /\ down' \in [Servers -> Seq(DownMessage)]
        /\ booting' \in [Servers -> BOOLEAN]
        /\ warned' \in [Clients -> Servers \union {None}]
        /\ \A u \in Servers : \E r \in Seq(DownMessage) : down'[u] = down[u] \o r
        /\ \A u \in Servers :
             booting'[u] = booting[u] \/ Mentions(down'[u], "ZoneIncClient")
        /\ \A u \in Servers, d \in Clients :
             KillProcessOnDynamicShutdown /\ warned'[d] = u =>
               /\ link[u] # "none"
               /\ client'[d].zone # None
               /\ Awaited(down'[u], up[u], hosted[u], link[u], auth[u], d,
                          client'[d].zone)
    <3>1. EnterLeaves(base)
      BY <2>3, <2>4, <2>5, <2>10, EnterDoes
    <3> QED
      BY <3>1, <2>11 DEF EnterLeaves
  <2>7. TypeOK'
    BY <2>2, <2>6, <1>1, <1>2, <1>3, <1>5 DEF TypeOK
  <2>8. ASSUME NEW u \in Servers
        PROVE  /\ Answering(down[u], up[u]) => Answering(down'[u], up[u])
               /\ Settled(link[u], down'[u], up[u], hosted[u], named[u], view[u],
                          booting'[u])
    <3>1. Settled(link[u], down[u], up[u], hosted[u], named[u], view[u], booting[u])
      BY DEF IInv, TruthInv
    <3>2. down[u] \in Seq(DownMessage)
      BY <1>1 DEF TypeOK
    <3>3. PICK r \in Seq(DownMessage) : down'[u] = down[u] \o r
      BY <2>6
    <3>4. /\ Answering(down[u], up[u]) => Answering(down[u] \o r, up[u])
          /\ Settled(link[u], down[u] \o r, up[u], hosted[u], named[u], view[u],
                     booting[u])
      BY <3>1, <3>2, SettledSent
    <3>5. CASE booting'[u] = booting[u]
      BY <3>3, <3>4, <3>5
    <3>6. CASE Mentions(down'[u], "ZoneIncClient")
      <4>1. Settled(link[u], down'[u], up[u], hosted[u], named[u], view[u],
                    booting'[u])
        BY <3>1, <3>6, SettledAsked
      <4> QED
        BY <4>1, <3>3, <3>4
    <3> QED
      BY <3>5, <3>6, <2>6
  <2>9. WaitIsFounded'
    BY <2>2, <2>7, <2>8, <1>2, FoundedKept
  <2> QED
    BY <2>6, <2>7, <2>8, <2>9, <1>2, <1>3, <1>5, WorldStep
<1>6. ASSUME Idle # None, TriggerBootup(Idle, z),
             client' = [client EXCEPT ![c] = WaitingClient(c, z, Idle)],
             warned' = [warned EXCEPT ![c] = None]
      PROVE  IInv'
  <2>1. PICK s \in Listed : s = Idle
    BY <1>1, <1>6, IdleIsListed
  <2>2. s \in Servers
    BY <1>1, TypesAt
  <2>3. /\ WaitingClient(c, z, s) \in Request
        /\ WaitingClient(c, z, s).waiting = s /\ WaitingClient(c, z, s).zone = z
        /\ WaitingClient(c, z, s).timer
    BY <2>2, <1>4 DEF WaitingClient, Request
  <2>4. /\ client' \in [Clients -> Request]
        /\ warned' \in [Clients -> Servers \union {None}]
        /\ client'[c].waiting = s /\ client'[c].zone = z /\ client'[c].timer
        /\ warned'[c] = None
        /\ \A d \in Clients : d # c => client'[d] = client[d] /\ warned'[d] = warned[d]
    BY <2>1, <2>3, <1>4, <1>6
  <2>5. TriggerBootup(s, z)
    BY <2>1, <1>6
  <2>6. \A d \in Clients :
          \/ client'[d] = client[d] /\ warned'[d] = warned[d]
          \/ /\ warned'[d] = None
             /\ client'[d].waiting = s /\ client'[d].zone # None /\ client'[d].timer
    BY <2>4, <1>1
  <2> QED
    BY <2>4, <2>5, <2>6, <1>2, BootStep
<1>7. ASSUME client' = [client EXCEPT ![c] = Unavailable],
             warned' = [warned EXCEPT ![c] = None],
             UNCHANGED <<view, booting, down>>
      PROVE  IInv'
  <2>1. /\ client' \in [Clients -> Request]
        /\ warned' \in [Clients -> Servers \union {None}]
        /\ client'[c].waiting = None /\ warned'[c] = None
        /\ \A d \in Clients : d # c => client'[d] = client[d] /\ warned'[d] = warned[d]
    BY <1>1, <1>7, Forgotten
  <2> QED
    BY <2>1, <1>1, <1>2, <1>3, <1>4, <1>7, ForgetStep
<1> QED
  BY <1>5, <1>6, <1>7 DEF EnterWorld

\* What world sends when it has heard of a zone.
LEMMA HeardLeaves ==
  ASSUME IInv, HostingAssumption, NEW s \in Servers, NEW z \in Zones \union {None},
         RecvSetZone(s, z),
         NEW base \in [Servers -> BOOLEAN], base = [booting EXCEPT ![s] = FALSE]
  PROVE  /\ EnterLeaves(base)
         /\ client' \in [Clients -> Request]
         /\ \A c \in Clients :
              \/ client'[c] = client[c] /\ client[c].waiting # s
              \/ client'[c].waiting = None
<1>1. TypeOK /\ None \notin Servers /\ None \notin Zones
  BY DEF IInv, HostingAssumption
<1> DEFINE in == {c \in Clients : client[c].waiting # None /\ client[c].zone = z}
           away == TurnedAway(s, z)
<1>2. /\ \A c \in Clients : c \in away <=> client[c].waiting = s /\ client[c].zone # z
      /\ away \subseteq Clients
  BY DEF TurnedAway
<1>3. \A c \in Clients : c \notin away /\ c \notin in => client[c].waiting # s
  BY <1>1, <1>2
<1>4. \A c \in Clients : client[c] \in Request
  BY <1>1, TypesAt
<1>5. Unavailable \in Request /\ Unavailable.waiting = None
  BY DEF Unavailable, Request
<1>6. /\ Receives(s, SetZone(z)) /\ view' = [view EXCEPT ![s] = z]
      /\ down \in [Servers -> Seq(DownMessage)]
      /\ view \in [Servers -> Zones \union {None}]
      /\ warned \in [Clients -> Servers \union {None}]
  BY <1>1 DEF RecvSetZone, TypeOK
<1> HIDE DEF away
<1>7. ASSUME in = {},
             booting' = base,
             client' = [c \in Clients |-> IF c \in away THEN Unavailable ELSE client[c]],
             warned' = [c \in Clients |-> IF c \in away THEN None ELSE warned[c]],
             down' = down
      PROVE  /\ EnterLeaves(base)
             /\ client' \in [Clients -> Request]
             /\ \A c \in Clients :
                  \/ client'[c] = client[c] /\ client[c].waiting # s
                  \/ client'[c].waiting = None
  <2>1. /\ client' \in [Clients -> Request]
        /\ \A c \in Clients :
             \/ client'[c] = client[c] /\ client[c].waiting # s
             \/ client'[c].waiting = None
    BY <1>3, <1>4, <1>5, <1>7
  <2>2. warned' \in [Clients -> Servers \union {None}]
    BY <1>6, <1>7
  <2>3. ASSUME NEW u \in Servers
        PROVE  \E r \in Seq(DownMessage) : down'[u] = down[u] \o r
    <3>1. <<>> \in Seq(DownMessage) /\ down[u] \o <<>> = down[u]
      BY <1>6
    <3> QED
      BY <3>1, <1>7
  <2>4. ASSUME NEW u \in Servers, NEW c \in Clients, KillProcessOnDynamicShutdown,
               warned'[c] = u
        PROVE  /\ link[u] # "none"
               /\ client'[c].zone # None
               /\ Awaited(down'[u], up[u], hosted[u], link[u], auth[u], c,
                          client'[c].zone)
    <3>1. c \notin away /\ warned[c] = u /\ client'[c] = client[c]
      BY <1>1, <1>7, <2>4
    <3> QED
      BY <3>1, <1>7, <2>4 DEF IInv, SentInv
  <2> QED
    BY <2>1, <2>2, <2>3, <2>4, <1>6, <1>7 DEF EnterLeaves
<1>8. ASSUME in # {},
             NEW refused \in SUBSET in, NEW order \in SetToSeqs(in),
             Enter(in, order, z, FindByZoneID(view', z), refused \union away, base),
             client' = [c \in Clients |->
                          CASE c \in away -> Unavailable
                            [] c \in in -> EnteredClient(c, z, refused)
                            [] OTHER -> client[c]]
      PROVE  /\ EnterLeaves(base)
             /\ client' \in [Clients -> Request]
             /\ \A c \in Clients :
                  \/ client'[c] = client[c] /\ client[c].waiting # s
                  \/ client'[c].waiting = None
  <2>1. z \in Zones
    BY <1>8 DEF IInv, WaitIsFounded
  <2>2. \A c \in Clients : c \in away => c \notin in
    BY <1>2
  <2> DEFINE e(c) == EnteredClient(c, z, refused)
  <2> HIDE DEF in, e
  <2>16. \A c \in Clients :
           /\ c \in away => client'[c] = Unavailable
           /\ c \in in => client'[c] = e(c)
           /\ c \notin away /\ c \notin in => client'[c] = client[c]
    <3>1. client' = [c \in Clients |-> CASE c \in away -> Unavailable
                                        [] c \in in -> e(c)
                                        [] OTHER -> client[c]]
      BY <1>8 DEF e
    <3> QED
      BY <3>1, <2>2
  <2>17. in = {c \in Clients : client[c].waiting # None /\ client[c].zone = z}
    BY DEF in
  <2>3. ASSUME NEW c \in Clients
        PROVE  /\ client'[c] \in Request
               /\ c \in away => client'[c].waiting = None
               /\ c \in in => client'[c].waiting = None
               /\ c \in in \ refused => client'[c].zone = z
               /\ c \notin in \union away => client'[c] = client[c]
    <3>1. CASE c \in away
      BY <3>1, <2>2, <2>16, <1>5
    <3>2. CASE c \in in
      <4>1. client'[c] = EnteredClient(c, z, refused)
        BY <3>2, <2>16 DEF e
      <4> QED
        BY <4>1, <3>2, <2>1, <2>2, <1>1, Entered
    <3>3. CASE c \notin away /\ c \notin in
      BY <3>3, <2>16, <1>4
    <3> QED
      BY <3>1, <3>2, <3>3
  <2>4. client' = [c \in Clients |-> client'[c]]
    BY <1>8
  <2>5. client' \in [Clients -> Request]
    BY <2>3, <2>4
  <2>6. PICK v \in Listed : v = FindByZoneID(view', z)
    <3>1. PICK m : m = view'
      OBVIOUS
    <3>2. FindByZoneID(m, z) = FindByZoneID(view', z)
      BY <3>1 DEF FindByZoneID
    <3>3. FindByZoneID(m, z) \in Listed
      <4> DEFINE S == {u \in Listed : m[u] = z}
      <4>1. S \in SUBSET Servers /\ list \in Seq(Servers)
        BY <1>1, TypesAt DEF TypeOK
      <4>2. s \in Listed
        BY <1>6 DEF Receives
      <4>3. s \in Listed \intersect S
        BY <4>2, <3>1, <1>6
      <4>4. FindByZoneID(m, z) = FirstOf(S)
        BY DEF FindByZoneID
      <4> HIDE DEF S
      <4> QED
        BY <4>1, <4>3, <4>4, FirstOfFinds
    <3> QED
      BY <3>2, <3>3
  <2>7. PICK cs : cs = in
    OBVIOUS
  <2>8. PICK out : out = refused \union away
    OBVIOUS
  <2>9. cs \in SUBSET Clients /\ IsFiniteSet(cs) /\ out \in SUBSET Clients
    <3>1. in \subseteq Clients
      BY <2>17
    <3>2. IsFiniteSet(Clients)
      BY DEF HostingAssumption
    <3>3. IsFiniteSet(in)
      BY <3>1, <3>2, FS_Subset
    <3> QED
      BY <3>1, <3>3, <2>7, <2>8, <1>2, <1>8
  <2>10. order \in SetToSeqs(cs)
    BY <2>7, <1>8
  <2>11. /\ order \in Seq(cs)
         /\ \A c \in cs : \E i \in 1..Len(order) : order[i] = c
         /\ \A i, j \in 1..Len(order) : order[i] = order[j] => i = j
    BY <2>9, <2>10, OrderNamesAll
  <2>12. Orders(order, cs)
    <3>1. \A i \in 1..Len(order) : order[i] \in cs
      BY <2>11
    <3> QED
      BY <3>1, <2>9, <2>11 DEF Orders
  <2>13. Enter(cs, order, z, v, out, base)
    BY <2>6, <2>7, <2>8, <1>8 DEF Enter
  <2>14. LeavesClients(cs, z, out)
    BY <2>3, <2>7, <2>8 DEF LeavesClients
  <2>15. EnterLeaves(base)
    BY <2>1, <2>9, <2>12, <2>13, <2>14, EnterDoes
  <2> QED
    BY <2>3, <2>5, <2>15, <1>3
<1> QED
  BY <1>7, <1>8 DEF RecvSetZone, away

\* World hears what a server hosts: what it believes of that server is settled by
\* it, and those who wait for the zone enter it.
LEMMA RecvSetZoneStep ==
  ASSUME IInv, HostingAssumption, NEW s \in Servers, NEW z \in Zones \union {None},
         RecvSetZone(s, z)
  PROVE  IInv'
<1>1. TypeOK /\ None \notin Servers
  BY DEF IInv, HostingAssumption
<1>2. PICK base \in [Servers -> BOOLEAN] : base = [booting EXCEPT ![s] = FALSE]
  BY <1>1 DEF TypeOK
<1>3. /\ EnterLeaves(base)
      /\ client' \in [Clients -> Request]
      /\ \A c \in Clients :
           \/ client'[c] = client[c] /\ client[c].waiting # s
           \/ client'[c].waiting = None
  BY <1>2, HeardLeaves
<1>4. /\ Receives(s, SetZone(z))
      /\ view' = [view EXCEPT ![s] = z]
      /\ named' = [named EXCEPT ![s] = z]
      /\ UNCHANGED <<list, process, link, budget>>
  BY DEF RecvSetZone
<1>5. /\ up[s] # <<>> /\ Head(up[s]) = SetZone(z)
      /\ up' \in [Servers -> Seq(UpMessage)]
      /\ up'[s] = Tail(up[s])
      /\ \A u \in Servers \ {s} : up'[u] = up[u]
  BY <1>1, <1>4, Received
<1>6. /\ view'[s] = z /\ named'[s] = z /\ base[s] = FALSE
      /\ \A u \in Servers \ {s} :
           view'[u] = view[u] /\ named'[u] = named[u] /\ base[u] = booting[u]
  BY <1>1, <1>2, <1>4 DEF TypeOK
<1>7. hosted' = hosted /\ auth' = auth /\ link' = link /\ list' = list
  BY <1>4 DEF process
<1>8. /\ down' \in [Servers -> Seq(DownMessage)]
      /\ booting' \in [Servers -> BOOLEAN]
      /\ warned' \in [Clients -> Servers \union {None}]
      /\ \A u \in Servers : \E r \in Seq(DownMessage) : down'[u] = down[u] \o r
      /\ \A u \in Servers :
           booting'[u] = base[u] \/ Mentions(down'[u], "ZoneIncClient")
      /\ \A u \in Servers, c \in Clients :
           KillProcessOnDynamicShutdown /\ warned'[c] = u =>
             /\ link[u] # "none"
             /\ client'[c].zone # None
             /\ Awaited(down'[u], up[u], hosted[u], link[u], auth[u], c,
                        client'[c].zone)
  BY <1>3 DEF EnterLeaves
<1>9. TypeOK'
  BY <1>1, <1>3, <1>4, <1>5, <1>7, <1>8 DEF TypeOK
<1>10. ASSUME NEW u \in Servers
       PROVE  /\ down[u] \in Seq(DownMessage) /\ up[u] \in Seq(UpMessage)
              /\ Settled(link[u], down[u], up[u], hosted[u], named[u], view[u],
                         booting[u])
  BY <1>1, TypesAt DEF IInv, TruthInv
<1>11. Settled(link[s], down'[s], up'[s], hosted[s], named'[s], view'[s], booting'[s])
  <2>1. booting'[s] = FALSE \/ Mentions(down'[s], "ZoneIncClient")
    BY <1>6, <1>8
  <2>2. Settled(link[s], down'[s], Tail(up[s]), hosted[s], z, z, booting'[s])
    BY <2>1, <1>5, <1>10, SettledHeard
  <2> QED
    BY <2>2, <1>5, <1>6
<1>12. ASSUME NEW u \in Servers \ {s}
       PROVE  /\ Answering(down[u], up[u]) => Answering(down'[u], up'[u])
              /\ Settled(link[u], down'[u], up'[u], hosted[u], named'[u], view'[u],
                         booting'[u])
  <2>1. PICK r \in Seq(DownMessage) : down'[u] = down[u] \o r
    BY <1>8
  <2>2. /\ Answering(down[u], up[u]) => Answering(down'[u], up[u])
        /\ Settled(link[u], down'[u], up[u], hosted[u], named[u], view[u], booting[u])
    BY <2>1, <1>10, SettledSent
  <2>3. CASE booting'[u] = booting[u]
    BY <2>2, <2>3, <1>5, <1>6
  <2>4. CASE Mentions(down'[u], "ZoneIncClient")
    <3>1. Settled(link[u], down'[u], up[u], hosted[u], named[u], view[u], booting'[u])
      BY <2>2, <2>4, SettledAsked
    <3> QED
      BY <2>2, <3>1, <1>5, <1>6
  <2> QED
    BY <2>3, <2>4, <1>6, <1>8
<1>13. WaitIsFounded'
  <2>1. ASSUME NEW c \in Clients, NEW w \in Servers, client'[c] = client[c],
               client[c].waiting = w
        PROVE  w # s
    BY <1>1, <1>3, <2>1
  <2>2. \A c \in Clients, w \in Servers :
          client'[c] = client[c] /\ client[c].waiting = w =>
            /\ link[w] = "closed" => link'[w] = "closed"
            /\ Answering(down[w], up[w])
                 => link'[w] = "closed" \/ Answering(down'[w], up'[w])
    BY <2>1, <1>7, <1>12
  <2> QED
    BY <2>2, <1>3, <1>9, FoundedKept
<1>14. ASSUME NEW u \in Servers, NEW c \in Clients
       PROVE  ~Answers(up[u], c) => ~Answers(up'[u], c)
  <2>1. CASE u = s
    BY <2>1, <1>5, <1>10, UpTail
  <2>2. CASE u # s
    BY <2>2, <1>5
  <2> QED
    BY <2>1, <2>2
<1>15. ASSUME NEW u \in Servers, NEW c \in Clients, KillProcessOnDynamicShutdown,
              warned'[c] = u
       PROVE  /\ link[u] # "none"
              /\ client'[c].zone # None
              /\ Awaited(down'[u], up'[u], hosted[u], link[u], auth'[u], c,
                         client'[c].zone)
  <2>1. /\ link[u] # "none"
        /\ client'[c].zone # None
        /\ Awaited(down'[u], up[u], hosted[u], link[u], auth[u], c, client'[c].zone)
    BY <1>8, <1>15
  <2>2. CASE u = s
    <3>1. Awaited(down'[s], Tail(up[s]), hosted[s], link[s], auth[s], c,
                  client'[c].zone)
      BY <2>1, <2>2, <1>5, <1>10, AwaitedHeard
    <3> QED
      BY <2>1, <2>2, <3>1, <1>5, <1>7
  <2>3. CASE u # s
    BY <2>1, <2>3, <1>5, <1>7
  <2> QED
    BY <2>2, <2>3
<1>16. ASSUME NEW u \in Servers
       PROVE  Settled(link[u], down'[u], up'[u], hosted[u], named'[u], view'[u],
                      booting'[u])
  BY <1>11, <1>12
<1> QED
  BY <1>7, <1>9, <1>13, <1>14, <1>15, <1>16, WorldStep

-----------------------------------------------------------------------------
(* The theorems.                                                           *)

\* At first no server is listed and nobody asks for anything.
LEMMA InitIInv ==
  ASSUME Init, HostingAssumption
  PROVE  IInv
<1>1. TypeOK
  BY DEF Init, TypeOK, Unavailable, Request
<1>2. ListInv
  BY DEF Init, ListInv, Listed
<1>3. TruthInv
  BY DEF Init, TruthInv, Settled
<1>4. WaitIsFounded
  BY DEF Init, WaitIsFounded, Unavailable
<1>5. QuietInv
  BY DEF Init, QuietInv
<1>6. SentInv
  BY DEF Init, SentInv, HostingAssumption
<1> QED
  BY <1>1, <1>2, <1>3, <1>4, <1>5, <1>6 DEF IInv

\* Every step keeps the invariant.
LEMMA NextIInv ==
  ASSUME IInv, HostingAssumption, [Next]_vars
  PROVE  IInv'
<1>1. ASSUME NEW s \in Servers, WorldReceives(s)
      PROVE  IInv'
  <2>1. ASSUME NEW z \in Zones \union {None}, RecvSetZone(s, z)
        PROVE  IInv'
    BY <2>1, RecvSetZoneStep
  <2>2. ASSUME NEW c \in Clients, NEW ok \in BOOLEAN, RecvResponse(s, c, ok)
        PROVE  IInv'
    BY <2>2, RecvResponseStep
  <2> QED
    BY <1>1, <2>1, <2>2 DEF WorldReceives
<1>2. ASSUME NEW s \in Servers, ProcessHandles(s)
      PROVE  IInv'
  <2>1. ASSUME NEW z \in Zones, RecvZoneBootup(s, z) PROVE IInv'
    BY <2>1, RecvZoneBootupStep
  <2>2. ASSUME NEW c \in Clients, NEW z \in Zones, RecvZoneIncClient(s, c, z)
        PROVE  IInv'
    BY <2>2, RecvZoneIncClientStep
  <2>3. ASSUME NEW c \in Clients, RecvAcceptWorldEntrance(s, c) PROVE IInv'
    BY <2>3, RecvAcceptWorldEntranceStep
  <2>4. ASSUME NEW c \in Clients, RecvDropClient(s, c) PROVE IInv'
    BY <2>4, RecvDropClientStep
  <2>5. ASSUME RecvZoneShutdown(s) PROVE IInv'
    BY <2>5, RecvZoneShutdownStep
  <2> QED
    BY <1>2, <2>1, <2>2, <2>3, <2>4, <2>5 DEF ProcessHandles
<1>3. ASSUME NEW s \in Servers,
             \/ SOPZoneShutdown(s) \/ Connect(s) \/ RemoveServer(s)
             \/ AutoShutdown(s) \/ Disconnect(s) \/ Crash(s)
      PROVE  IInv'
  BY <1>3, SOPZoneShutdownStep, ConnectStep, RemoveServerStep, AutoShutdownStep,
     DisconnectStep, CrashStep
<1>4. ASSUME NEW c \in Clients, NEW z \in Zones, EnterWorld(c, z) PROVE IInv'
  BY <1>4, EnterWorldStep
<1>5. ASSUME NEW c \in Clients, BootTimeout(c) \/ Leave(c) PROVE IInv'
  BY <1>5, BootTimeoutStep
<1>6. ASSUME NEW c \in Clients, NEW s \in Servers, Arrive(c, s) PROVE IInv'
  BY <1>6, ArriveStep
<1>7. ASSUME NEW s \in Servers, NEW z \in Zones,
             ZoneToZone(s, z) \/ SOPZoneBootup(s, z)
      PROVE  IInv'
  BY <1>7, OtherBootStep
<1>8. ASSUME UNCHANGED vars PROVE IInv'
  BY <1>8
     DEF IInv, TypeOK, ListInv, Listed, TruthInv, WaitIsFounded, AnswerComing, InUp,
         InDown, QuietInv, SentInv, vars, world, process
<1> QED
  BY <1>1, <1>2, <1>3, <1>4, <1>5, <1>6, <1>7, <1>8 DEF Next

\* The invariant holds in every behaviour.
THEOREM HostingInvariant == Spec => []IInv
<1>1. Init => IInv
  BY HostingAssumption, InitIInv
<1>2. IInv /\ [Next]_vars => IInv'
  BY HostingAssumption, NextIInv
<1> QED
  BY <1>1, <1>2, PTL DEF Spec

\* What world believes of a server is so when nothing more comes from it.
THEOREM HostingViewSettles == Spec => []ViewSettles
<1>1. IInv => ViewSettles
  <2> SUFFICES ASSUME IInv, NEW s \in Servers,
                      link[s] = "linked", ~AnswerComing(s)
               PROVE  view[s] = hosted[s] /\ named[s] = hosted[s] /\ ~booting[s]
    BY DEF ViewSettles, AnswerComing, InUp, InDown
  <2>1. ~Answering(down[s], up[s])
    BY AnsweringIs DEF IInv
  <2>2. Settled(link[s], down[s], up[s], hosted[s], named[s], view[s], booting[s])
    BY DEF IInv, TruthInv
  <2> QED
    BY <2>1, <2>2 DEF Settled, Answering
<1> QED
  BY <1>1, HostingInvariant, PTL

\* A client that waits for a zone waits for something: an announcement that is
\* coming, a link that is lost, or its own time-out.
THEOREM HostingWaitIsFounded == Spec => []WaitIsFounded
<1>1. IInv => WaitIsFounded
  BY DEF IInv
<1> QED
  BY <1>1, HostingInvariant, PTL

\* A client that world sends to the zone it warned is expected there, where a
\* process ends with its zone, as it does by default.
THEOREM HostingSentWhereExpected ==
  KillProcessOnDynamicShutdown => (Spec => []SentWhereExpected)
<1> SUFFICES ASSUME KillProcessOnDynamicShutdown PROVE Spec => []SentWhereExpected
  OBVIOUS
<1>1. ASSUME IInv PROVE SentWhereExpected
  <2> SUFFICES ASSUME NEW s \in Servers, NEW c \in Clients,
                      up[s] # <<>>, Head(up[s]) = Response(c, TRUE),
                      client[c].zone # None, warned[c] = s,
                      hosted[s] = client[c].zone
               PROVE  Expected(c, s)
    BY DEF SentWhereExpected
  <2> DEFINE d == down[s]
             z == client[c].zone
  <2>1. d \in Seq(DownMessage) /\ up[s] \in Seq(UpMessage)
    BY <1>1, TypesAt DEF IInv
  <2>2. DOMAIN d = 1..Len(d)
    BY <2>1
  <2>3. Awaited(d, up[s], hosted[s], link[s], auth[s], c, z)
    BY <1>1 DEF IInv, SentInv
  <2>4. Answers(up[s], c)
    <3>1. 1 \in 1..Len(up[s]) /\ Head(up[s]) = up[s][1]
      BY <2>1, TailAt
    <3>2. up[s][1] = Response(c, TRUE)
      BY <3>1
    <3> QED
      BY <3>1, <3>2 DEF Answers
  <2>5. CASE Coming(d, c, z)
    <3>1. PICK i \in 1..Len(d) :
            /\ d[i] = ZoneIncClient(c, z)
            /\ \A j \in (i + 1)..Len(d) : d[j] # DropClient(c)
      BY <2>5 DEF Coming
    <3>2. \A j \in DOMAIN d : j > i => d[j] # DropClient(c)
      BY <3>1, <2>1, <2>2
    <3> QED
      BY <3>1, <3>2, <2>2 DEF Expected
  <2>6. CASE c \in auth[s] /\ NoDrop(d, c)
    <3>1. DropClient(c) \notin {d[i] : i \in DOMAIN d}
      BY <2>6, <2>2 DEF NoDrop
    <3> QED
      BY <3>1, <2>6 DEF Expected
  <2> QED
    BY <2>3, <2>4, <2>5, <2>6 DEF Awaited
<1> QED
  BY <1>1, HostingInvariant, PTL
=============================================================================
