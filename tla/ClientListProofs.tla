-------------------------- MODULE ClientListProofs --------------------------
(***************************************************************************)
(* The counts and references of world's client list, for any number of     *)
(* entries, clients and zone servers and any limits.                       *)
(***************************************************************************)
EXTENDS ClientList, FiniteSetTheorems, TLAPS

One(b) == IF b THEN 1 ELSE 0

Record == [online : Never..InZone, stale : 0..StaleLimit,
           server : ZoneServers \union {None}, ip : IPs \union {None},
           front : BOOLEAN]
Connection == [cle : Ids \union {NoEntry}, zone : BOOLEAN, ip : IPs]

\* TypeOK but for the counts, which are numbers because they count.
Shape ==
  /\ listed \subseteq 1..lastId
  /\ entry \in [Ids -> Record]
  /\ lastId \in 0..MaxEntries
  /\ servers \subseteq ZoneServers
  /\ playerCount \in [ZoneServers -> Int]
  /\ \A z \in ZoneServers \ servers : playerCount[z] \in Nat
  /\ client \in [Clients -> Connection]

\* The inductive invariant.
IInv == /\ Shape
        /\ PlayersCounted
        /\ ZonePlayersCounted
        /\ InZoneMeansPlaying
        /\ NothingDangles

-----------------------------------------------------------------------------
(* Counting.                                                               *)

\* Two sets that differ in one element at most.
LEMMA CardChange ==
  ASSUME NEW P, NEW Q, NEW e, IsFiniteSet(P), Q \ {e} = P \ {e}
  PROVE  /\ IsFiniteSet(Q)
         /\ Cardinality(Q) = Cardinality(P) + One(e \in Q) - One(e \in P)
<1>1. IsFiniteSet(P \ {e}) /\ Cardinality(P \ {e}) \in Nat
      /\ Cardinality(P \ {e}) = Cardinality(P) - One(e \in P)
      /\ Cardinality(P) \in Nat
  BY FS_RemoveElement, FS_CardinalityType DEF One
<1>2. CASE e \in Q
  <2>1. Q = (P \ {e}) \union {e} /\ e \notin P \ {e}
    BY <1>2
  <2>2. IsFiniteSet(Q) /\ Cardinality(Q) = Cardinality(P \ {e}) + 1
    BY <1>1, <2>1, FS_AddElement
  <2> QED
    BY <1>1, <1>2, <2>2 DEF One
<1>3. CASE e \notin Q
  <2>1. Q = P \ {e}
    BY <1>3
  <2> QED
    BY <1>1, <1>3, <2>1 DEF One
<1> QED
  BY <1>2, <1>3

\* A set without a part of it.
LEMMA CardMinus ==
  ASSUME NEW P, IsFiniteSet(P), NEW R \in SUBSET P
  PROVE  /\ IsFiniteSet(P \ R)
         /\ Cardinality(P \ R) = Cardinality(P) - Cardinality(R)
         /\ Cardinality(R) \in Nat
<1>1. /\ IsFiniteSet(R) /\ IsFiniteSet(P \ R)
  BY FS_Subset
<1>2. /\ Cardinality(R) \in Nat /\ Cardinality(P \ R) \in Nat
      /\ Cardinality(P) \in Nat
  BY <1>1, FS_CardinalityType
<1>3. Cardinality((P \ R) \union R)
        = Cardinality(P \ R) + Cardinality(R) - Cardinality((P \ R) \intersect R)
  BY <1>1, FS_Union
<1>4. (P \ R) \union R = P /\ (P \ R) \intersect R = {}
  OBVIOUS
<1>5. Cardinality((P \ R) \union R) = Cardinality(P)
      /\ Cardinality((P \ R) \intersect R) = 0
  BY <1>4, FS_EmptySet
<1> QED
  BY <1>1, <1>2, <1>3, <1>5

\* The list and what is counted in it are finite.
LEMMA Finite ==
  ASSUME Shape, NEW es \in SUBSET listed
  PROVE  /\ IsFiniteSet(es) /\ IsFiniteSet(Players(es))
         /\ Cardinality(Players(es)) \in Nat
         /\ \A z : IsFiniteSet(In(z, es)) /\ Cardinality(In(z, es)) \in Nat
<1>1. IsFiniteSet(1..lastId)
  BY ClientListAssumption, FS_Interval DEF Shape
<1>2. es \in SUBSET (1..lastId)
  BY DEF Shape
<1>3. IsFiniteSet(es)
  BY <1>1, <1>2, FS_Subset
<1>4. Players(es) \in SUBSET es
  BY DEF Players
<1>5. ASSUME NEW z PROVE In(z, es) \in SUBSET es
  BY DEF In
<1> QED
  BY <1>3, <1>4, <1>5, FS_Subset, FS_CardinalityType

CountsAreNumbers ==
  /\ Cardinality(Players(listed)) \in Nat
  /\ \A z \in ZoneServers : Cardinality(In(z, listed)) \in Nat

\* ... before a step and after it.
LEMMA NumbersBefore == Shape => CountsAreNumbers
  BY Finite DEF CountsAreNumbers

\* ... before a step and after it.
LEMMA NumbersAfter == Shape' => CountsAreNumbers'
  BY NumbersBefore, PTL

\* The counts are numbers and the invariant gives the types.
LEMMA IInvTypes == IInv => TypeOK
<1> SUFFICES ASSUME IInv PROVE TypeOK
  OBVIOUS
<1>1. numplayers \in Nat
  BY Finite DEF IInv, PlayersCounted
<1>2. ASSUME NEW z \in ZoneServers PROVE playerCount[z] \in Nat
  BY Finite DEF IInv, ZonePlayersCounted, Shape
<1> QED
  BY <1>1, <1>2 DEF IInv, Shape, TypeOK, Record, Connection

-----------------------------------------------------------------------------
(* Statuses.                                                               *)

Fits(r) == r \in Record /\ (r.server # None => r.online >= Zoning)

\* SetOnline keeps a record one, and adds to numplayers what it should.
LEMMA StatusFits ==
  ASSUME NEW r \in Record,
         NEW status \in {Offline, Online, CharSelect, Zoning, InZone}
  PROVE  /\ Fits(WithStatus(r, status))
         /\ WithStatus(r, status).server =
              IF Camps(status) THEN None ELSE r.server
         /\ PlayersAdded(r, status) =
              One(WithStatus(r, status).online >= Online) - One(r.online >= Online)
         /\ PlayersAdded(r, status) \in Int
<1> DEFINE s == WithStatus(r, status)
<1>1. status \in Never..InZone /\ r.online \in Never..InZone /\ StaleLimit \in Nat
  BY ClientListAssumption
  DEF Record, Never, Offline, Online, CharSelect, Zoning, InZone
<1>2. /\ s.online = IF status # Online \/ r.online < Online
                    THEN status ELSE r.online
      /\ s.server = IF Camps(status) THEN None ELSE r.server
  BY DEF WithStatus, Record
<1>3. s \in Record
  <2>1. PICK online \in Never..InZone, server \in ZoneServers \union {None},
             stale \in 0..StaleLimit :
          s = [r EXCEPT !.online = online, !.server = server, !.stale = stale]
    <3>1. (IF status # Online \/ r.online < Online THEN status ELSE r.online)
            \in Never..InZone
      BY <1>1
    <3>2. (IF Camps(status) THEN None ELSE r.server) \in ZoneServers \union {None}
      BY DEF Record
    <3>3. \A b \in BOOLEAN : (IF b THEN 0 ELSE r.stale) \in 0..StaleLimit
      BY <1>1 DEF Record
    <3> QED
      BY <3>1, <3>2, <3>3 DEF WithStatus
  <2> QED
    BY <2>1 DEF Record
<1>4. s.server # None => s.online >= Zoning
  BY <1>2 DEF Camps, Online, CharSelect, Zoning, InZone, Offline
<1>5. /\ PlayersAdded(r, status) = One(s.online >= Online) - One(r.online >= Online)
      /\ PlayersAdded(r, status) \in Int
  BY <1>1, <1>2
  DEF PlayersAdded, One, Never, Online, CharSelect, Zoning, InZone, Offline
<1> QED
  BY <1>2, <1>3, <1>4, <1>5 DEF Fits

\* One entry is changed, or added.
LEMMA OneChange ==
  ASSUME IInv, NEW e \in Ids, NEW r, Fits(r), r.server \in servers \union {None},
         entry' = [entry EXCEPT ![e] = r],
         listed' = listed \union {e},
         lastId' \in 0..MaxEntries, listed' \subseteq 1..lastId',
         servers' = servers,
         numplayers' = numplayers + One(r.online >= Online)
                         - One(e \in listed /\ entry[e].online >= Online),
         playerCount' = [z \in ZoneServers |-> playerCount[z]
                           + One(r.server = z)
                           - One(e \in listed /\ entry[e].server = z)],
         client' \in [Clients -> Connection],
         \A c \in Clients : client'[c].cle \in listed' \union {NoEntry}
  PROVE  IInv'
<1>1. \A x \in Ids : entry'[x] = IF x = e THEN r ELSE entry[x]
  BY DEF IInv, Shape
<1>2. listed' \subseteq Ids
  BY ClientListAssumption DEF IInv, Shape, Ids
<1>3. PlayersCounted'
  <2>1. Players(listed)' \ {e} = Players(listed) \ {e}
    BY <1>1, <1>2 DEF Players
  <2>2. IsFiniteSet(Players(listed)) /\ Cardinality(Players(listed)) \in Nat
    BY Finite DEF IInv
  <2>3. Cardinality(Players(listed)')
          = Cardinality(Players(listed)) + One(e \in Players(listed)')
              - One(e \in Players(listed))
    BY <2>1, <2>2, CardChange
  <2>4. e \in Players(listed)' <=> r.online >= Online
    BY <1>1 DEF Players
  <2>5. e \in Players(listed) <=> e \in listed /\ entry[e].online >= Online
    BY DEF Players
  <2> QED
    BY <2>2, <2>3, <2>4, <2>5 DEF IInv, PlayersCounted, One
<1>4. ASSUME NEW z \in servers
      PROVE  playerCount'[z] = Cardinality(In(z, listed)')
  <2>1. In(z, listed)' \ {e} = In(z, listed) \ {e}
    BY <1>1, <1>2 DEF In
  <2>2. IsFiniteSet(In(z, listed)) /\ Cardinality(In(z, listed)) \in Nat
    BY Finite DEF IInv
  <2>3. Cardinality(In(z, listed)')
          = Cardinality(In(z, listed)) + One(e \in In(z, listed)')
              - One(e \in In(z, listed))
    BY <2>1, <2>2, CardChange
  <2>4. e \in In(z, listed)' <=> r.server = z
    BY <1>1 DEF In
  <2>5. e \in In(z, listed) <=> e \in listed /\ entry[e].server = z
    BY DEF In
  <2>6. playerCount[z] = Cardinality(In(z, listed)) /\ z \in ZoneServers
    BY DEF IInv, ZonePlayersCounted, Shape
  <2> QED
    BY <2>2, <2>3, <2>4, <2>5, <2>6 DEF One
<1>5. ZonePlayersCounted'
  BY <1>4 DEF ZonePlayersCounted
<1>6. ASSUME NEW z \in ZoneServers \ servers PROVE playerCount'[z] = playerCount[z]
  <2>1. r.server # z /\ ~(e \in listed /\ entry[e].server = z)
    BY ClientListAssumption DEF IInv, NothingDangles
  <2> QED
    BY <2>1 DEF One, IInv, Shape
<1>7. playerCount' \in [ZoneServers -> Int]
  BY DEF One, IInv, Shape
<1>8. Shape'
  <2>1. entry' \in [Ids -> Record]
    BY DEF IInv, Shape, Fits
  <2> QED
    BY <1>6, <1>7, <2>1 DEF Shape, IInv
<1>9. InZoneMeansPlaying'
  BY <1>1, <1>2 DEF InZoneMeansPlaying, IInv, Fits
<1>10. NothingDangles'
  BY <1>1, <1>2 DEF NothingDangles, IInv
<1> QED
  BY <1>3, <1>5, <1>8, <1>9, <1>10 DEF IInv

-----------------------------------------------------------------------------
(* Entries leave the list.                                                 *)

\* What is counted in the list without the entries es.
LEMMA WithoutThem ==
  ASSUME IInv, NEW es \in SUBSET listed
  PROVE  /\ Cardinality(Players(listed \ es)) = PlayersWithout(es)
         /\ \A z \in servers : Cardinality(In(z, listed \ es)) = CountsWithout(es)[z]
         /\ CountsWithout(es) \in [ZoneServers -> Int]
         /\ \A z \in ZoneServers \ servers : CountsWithout(es)[z] = playerCount[z]
<1>1. Shape
  BY DEF IInv
<1>2. /\ IsFiniteSet(Players(listed)) /\ Players(es) \in SUBSET Players(listed)
      /\ Players(listed \ es) = Players(listed) \ Players(es)
  BY <1>1, Finite DEF Players
<1>3. Cardinality(Players(listed \ es)) = PlayersWithout(es)
  BY <1>2, CardMinus DEF IInv, PlayersCounted, PlayersWithout
<1>4. ASSUME NEW z \in servers
      PROVE  Cardinality(In(z, listed \ es)) = CountsWithout(es)[z]
  <2>1. /\ IsFiniteSet(In(z, listed)) /\ In(z, es) \in SUBSET In(z, listed)
        /\ In(z, listed \ es) = In(z, listed) \ In(z, es)
    BY <1>1, Finite DEF In
  <2>2. Cardinality(In(z, listed \ es))
          = Cardinality(In(z, listed)) - Cardinality(In(z, es))
    BY <2>1, CardMinus
  <2>3. z \in ZoneServers /\ playerCount[z] = Cardinality(In(z, listed))
    BY DEF IInv, Shape, ZonePlayersCounted
  <2> QED
    BY <2>2, <2>3 DEF CountsWithout
<1>5. CountsWithout(es) \in [ZoneServers -> Int]
  <2>1. \A z : Cardinality(In(z, es)) \in Nat
    BY <1>1, Finite
  <2> QED
    BY <1>1, <2>1 DEF CountsWithout, Shape
<1>6. ASSUME NEW z \in ZoneServers \ servers
      PROVE  CountsWithout(es)[z] = playerCount[z]
  <2>1. In(z, es) = {}
    BY ClientListAssumption DEF In, IInv, NothingDangles
  <2>2. Cardinality(In(z, es)) = 0
    BY <2>1, FS_EmptySet
  <2> QED
    BY <1>1, <2>2 DEF CountsWithout, Shape
<1> QED
  BY <1>3, <1>4, <1>5, <1>6

\* The entries es leave the list, and of those that stay one may change.
LEMMA SomeGone ==
  ASSUME IInv, NEW es \in SUBSET listed, NEW e,
         listed' = listed \ es,
         entry' \in [Ids -> Record],
         \A x \in listed \ es :
           /\ x # e => /\ entry'[x].online = entry[x].online
                       /\ entry'[x].server = entry[x].server
           /\ entry'[x].server # None => entry'[x].online >= Zoning
           /\ entry'[x].server \in servers \union {None},
         UNCHANGED <<lastId, servers>>,
         numplayers' = PlayersWithout(es) + One(e \in Players(listed)')
                         - One(e \in Players(listed \ es)),
         playerCount' = [z \in ZoneServers |-> CountsWithout(es)[z]
                           + One(e \in In(z, listed)')
                           - One(e \in In(z, listed \ es))],
         client' \in [Clients -> Connection],
         \A c \in Clients : client'[c].cle \in listed' \union {NoEntry}
  PROVE  IInv'
<1>1. Shape /\ listed \ es \in SUBSET listed /\ listed' \subseteq Ids
  BY ClientListAssumption DEF IInv, Shape, Ids
<1>2. PlayersCounted'
  <2>1. Players(listed)' \ {e} = Players(listed \ es) \ {e}
    BY DEF Players
  <2>2. /\ IsFiniteSet(Players(listed \ es))
    BY <1>1, Finite
  <2>3. Cardinality(Players(listed)')
          = Cardinality(Players(listed \ es)) + One(e \in Players(listed)')
              - One(e \in Players(listed \ es))
    BY <2>1, <2>2, CardChange
  <2> QED
    BY <2>3, WithoutThem DEF PlayersCounted
<1>3. ASSUME NEW z \in servers
      PROVE  playerCount'[z] = Cardinality(In(z, listed)')
  <2>1. In(z, listed)' \ {e} = In(z, listed \ es) \ {e}
    BY DEF In
  <2>2. IsFiniteSet(In(z, listed \ es)) /\ z \in ZoneServers
    BY <1>1, Finite DEF Shape
  <2>3. Cardinality(In(z, listed)')
          = Cardinality(In(z, listed \ es)) + One(e \in In(z, listed)')
              - One(e \in In(z, listed \ es))
    BY <2>1, <2>2, CardChange
  <2> QED
    BY <2>2, <2>3, WithoutThem
<1>4. ZonePlayersCounted'
  BY <1>3 DEF ZonePlayersCounted
<1>5. ASSUME NEW z \in ZoneServers \ servers PROVE playerCount'[z] = playerCount[z]
  <2>1. e \notin In(z, listed)' /\ e \notin In(z, listed \ es)
    BY ClientListAssumption DEF In, IInv, NothingDangles
  <2>2. CountsWithout(es)[z] = playerCount[z] /\ playerCount[z] \in Int
    BY <1>1, WithoutThem DEF Shape
  <2> QED
    BY <2>1, <2>2 DEF One
<1>6. playerCount' \in [ZoneServers -> Int]
  BY WithoutThem DEF One
<1>7. Shape'
  BY <1>1, <1>5, <1>6 DEF Shape
<1>8. InZoneMeansPlaying' /\ NothingDangles'
  BY DEF InZoneMeansPlaying, NothingDangles
<1> QED
  BY <1>2, <1>4, <1>7, <1>8 DEF IInv

\* The zone server z sleeps or is destroyed.
LEMMA ZoneLeft ==
  ASSUME IInv, NEW z \in servers, CLERemoveZSRef(z),
         UNCHANGED <<listed, lastId, client>>,
         \/ servers' = servers /\ playerCount' = [playerCount EXCEPT ![z] = 0]
         \/ servers' = servers \ {z} /\ playerCount' = playerCount
  PROVE  IInv'
<1>1. /\ Shape /\ listed \subseteq Ids /\ z \in ZoneServers /\ z # None
      /\ Referring(z) \in SUBSET listed /\ servers \subseteq ZoneServers
  BY ClientListAssumption DEF IInv, Shape, Ids, Referring, In
<1>2. ASSUME NEW x \in listed
      PROVE  entry'[x] = IF entry[x].server = z
                         THEN WithStatus(entry[x], Offline) ELSE entry[x]
  BY <1>1 DEF CLERemoveZSRef, Referring, In
<1>3. ASSUME NEW x \in listed, entry[x].server = z
      PROVE  /\ Fits(entry'[x]) /\ entry'[x].server = None
             /\ entry'[x].online = Offline
  <2>1. entry[x] \in Record
    BY <1>1 DEF Shape
  <2>2. entry'[x] = WithStatus(entry[x], Offline)
    BY <1>2, <1>3
  <2>3. WithStatus(entry[x], Offline).online = Offline
    BY <2>1 DEF WithStatus, Record, Offline, Online
  <2> QED
    BY <2>1, <2>2, <2>3, StatusFits DEF Camps, Offline, Zoning
<1>4. ASSUME NEW x \in listed, entry[x].server # z PROVE entry'[x] = entry[x]
  BY <1>2, <1>4
<1>5. PlayersCounted'
  <2>1. Players(listed)' = Players(listed) \ Players(Referring(z))
    BY <1>1, <1>3, <1>4 DEF Players, Referring, In, Offline, Online
  <2>2. /\ IsFiniteSet(Players(listed))
        /\ Players(Referring(z)) \in SUBSET Players(listed)
    BY <1>1, Finite DEF Players
  <2>3. numplayers' = numplayers - Cardinality(Players(Referring(z)))
    BY DEF CLERemoveZSRef, PlayersWithout
  <2>4. Cardinality(Players(listed) \ Players(Referring(z)))
          = Cardinality(Players(listed)) - Cardinality(Players(Referring(z)))
    BY <2>2, CardMinus
  <2> QED
    BY <2>1, <2>3, <2>4 DEF IInv, PlayersCounted
<1>6. ASSUME NEW y \in servers'
      PROVE  playerCount'[y] = Cardinality(In(y, listed)')
  <2>1. y \in servers /\ y \in ZoneServers /\ y # None
    BY <1>1, <1>6, ClientListAssumption
  <2>2. CASE y = z
    <3>1. In(y, listed)' = {}
      BY <1>1, <1>3, <1>4, <2>2 DEF In
    <3>2. playerCount'[y] = 0
      BY <1>1, <1>6, <2>2 DEF Shape
    <3> QED
      BY <3>1, <3>2, FS_EmptySet
  <2>3. CASE y # z
    <3>1. In(y, listed)' = In(y, listed)
      BY <1>3, <1>4, <2>1, <2>3 DEF In
    <3>2. playerCount'[y] = playerCount[y]
      BY <1>1, <2>1, <2>3 DEF Shape
    <3> QED
      BY <2>1, <3>1, <3>2 DEF IInv, ZonePlayersCounted
  <2> QED
    BY <2>2, <2>3
<1>7. ZonePlayersCounted'
  BY <1>6 DEF ZonePlayersCounted
<1>8. entry' \in [Ids -> Record]
  <2>1. ASSUME NEW x \in Ids PROVE WithStatus(entry[x], Offline) \in Record
    BY <1>1, StatusFits DEF Shape, Fits
  <2> QED
    BY <1>1, <2>1 DEF CLERemoveZSRef, Shape
<1>9. \A y \in ZoneServers \ servers' : playerCount'[y] \in Nat
  <2> SUFFICES ASSUME NEW y \in ZoneServers \ servers' PROVE playerCount'[y] \in Nat
    OBVIOUS
  <2>1. CASE y = z
    <3>1. playerCount' = playerCount
      BY <2>1
    <3>2. playerCount[z] = Cardinality(In(z, listed))
      BY DEF IInv, ZonePlayersCounted
    <3> QED
      BY <1>1, <2>1, <3>1, <3>2, Finite
  <2>2. CASE y # z
    BY <1>1, <2>2 DEF Shape
  <2> QED
    BY <2>1, <2>2
<1>10. Shape'
  BY <1>1, <1>8, <1>9 DEF Shape
<1>11. InZoneMeansPlaying'
  BY <1>3, <1>4 DEF InZoneMeansPlaying, IInv
<1>12. NothingDangles'
  BY <1>3, <1>4 DEF NothingDangles, IInv
<1> QED
  BY <1>5, <1>7, <1>10, <1>11, <1>12 DEF IInv

-----------------------------------------------------------------------------
(* The actions.                                                            *)

Statuses == {Offline, Online, CharSelect, Zoning, InZone}

\* An entry of the list.
LEMMA Entries ==
  ASSUME IInv, NEW e \in listed
  PROVE  /\ e \in Ids /\ e # NoEntry /\ entry[e] \in Record /\ Fits(entry[e])
         /\ entry[e].server \in servers \union {None}
         /\ listed \union {e} = listed
  BY ClientListAssumption
  DEF IInv, Shape, Ids, NoEntry, Fits, InZoneMeansPlaying, NothingDangles

\* An entry that loses its zone server is one less there.
LEMMA Removed ==
  ASSUME IInv, NEW e \in listed
  PROVE  RemovePlayer(entry[e].server) =
           [z \in ZoneServers |-> playerCount[z] + One(None = z)
                                    - One(e \in listed /\ entry[e].server = z)]
<1>1. entry[e].server \in ZoneServers \union {None} /\ None \notin ZoneServers
  BY ClientListAssumption, Entries DEF Record
<1>2. playerCount \in [ZoneServers -> Int]
  BY DEF IInv, Shape
<1>3. ASSUME NEW z \in ZoneServers
      PROVE  RemovePlayer(entry[e].server)[z]
               = playerCount[z] + One(None = z)
                   - One(e \in listed /\ entry[e].server = z)
  BY <1>1, <1>2 DEF RemovePlayer, One
<1>4. RemovePlayer(entry[e].server) = [z \in ZoneServers |->
                                         RemovePlayer(entry[e].server)[z]]
  BY <1>2 DEF RemovePlayer
<1> QED
  BY <1>3, <1>4

\* One that keeps it is not.
LEMMA Kept ==
  ASSUME IInv, NEW e \in Ids, NEW y,
         e \in listed => entry[e].server = y,
         e \notin listed => y = None
  PROVE  playerCount =
           [z \in ZoneServers |-> playerCount[z] + One(y = z)
                                    - One(e \in listed /\ entry[e].server = z)]
<1>1. playerCount \in [ZoneServers -> Int] /\ None \notin ZoneServers
  BY ClientListAssumption DEF IInv, Shape
<1>2. ASSUME NEW z \in ZoneServers
      PROVE  playerCount[z] + One(y = z)
               - One(e \in listed /\ entry[e].server = z) = playerCount[z]
  BY <1>1 DEF One
<1> QED
  BY <1>1, <1>2

\* SetOnline of an entry in the list.
LEMMA SetOnlineKeeps ==
  ASSUME IInv, NEW e \in listed, NEW status \in Statuses, SetOnline(e, status),
         UNCHANGED <<listed, lastId, servers>>,
         client' \in [Clients -> Connection],
         \A c \in Clients : client'[c].cle \in listed \union {NoEntry}
  PROVE  IInv'
<1> DEFINE r == WithStatus(entry[e], status)
<1>1. /\ e \in Ids /\ entry[e] \in Record /\ listed' = listed \union {e}
      /\ entry[e].server \in servers \union {None}
  BY Entries
<1>2. /\ Fits(r) /\ r.server = IF Camps(status) THEN None ELSE entry[e].server
      /\ PlayersAdded(entry[e], status)
           = One(r.online >= Online) - One(entry[e].online >= Online)
  BY <1>1, StatusFits DEF Statuses
<1>3. r.server \in servers \union {None}
  BY <1>1, <1>2
<1>4. numplayers' = numplayers + One(r.online >= Online)
                      - One(e \in listed /\ entry[e].online >= Online)
  <2>1. numplayers \in Int
    BY IInvTypes DEF TypeOK
  <2> QED
    BY <1>2, <2>1 DEF SetOnline, One
<1>5. playerCount' = [z \in ZoneServers |-> playerCount[z] + One(r.server = z)
                        - One(e \in listed /\ entry[e].server = z)]
  <2>1. CASE Camps(status)
    <3>1. r.server = None /\ playerCount' = RemovePlayer(entry[e].server)
      BY <1>2, <2>1 DEF SetOnline
    <3> QED
      BY <3>1, Removed
  <2>2. CASE ~Camps(status)
    <3>1. r.server = entry[e].server /\ playerCount' = playerCount
      BY <1>2, <2>2 DEF SetOnline
    <3> HIDE DEF r
    <3> QED
      BY <1>1, <3>1, Kept
  <2> QED
    BY <2>1, <2>2
<1>6. /\ entry' = [entry EXCEPT ![e] = r]
      /\ lastId' \in 0..MaxEntries /\ listed' \subseteq 1..lastId'
      /\ servers' = servers
  BY DEF SetOnline, IInv, Shape
<1> HIDE DEF r
<1> QED
  BY <1>1, <1>2, <1>3, <1>4, <1>5, <1>6, OneChange

\* The login server announces a client.
LEMMA CLEAddKeeps == ASSUME IInv, NEW ip \in IPs, CLEAdd(ip) PROVE IInv'
<1> DEFINE e == lastId + 1
           r == [Blank EXCEPT !.ip = ip]
<1>1. /\ e \in Ids /\ e \notin listed /\ e \in 0..MaxEntries
      /\ listed' \subseteq 1..lastId'
  BY ClientListAssumption DEF CLEAdd, IInv, Shape, Ids
<1>2. /\ r.server = None /\ r.online = Never /\ Fits(r)
  <2>1. Never \in Never..InZone /\ 0 \in 0..StaleLimit
    BY ClientListAssumption DEF Never, InZone
  <2>2. Blank \in Record /\ Blank.server = None /\ Blank.online = Never
    BY <2>1 DEF Blank, Record
  <2> HIDE DEF Blank
  <2> QED
    BY <2>2 DEF Fits, Record
<1>3. numplayers' = numplayers + One(r.online >= Online)
                      - One(e \in listed /\ entry[e].online >= Online)
  <2>1. numplayers \in Int
    BY IInvTypes DEF TypeOK
  <2> QED
    BY <1>1, <1>2, <2>1 DEF CLEAdd, One, Never, Online
<1>4. playerCount = [z \in ZoneServers |-> playerCount[z] + One(r.server = z)
                       - One(e \in listed /\ entry[e].server = z)]
  <2> HIDE DEF e, r
  <2> QED
    BY <1>1, <1>2, Kept
<1>5. /\ client' \in [Clients -> Connection]
      /\ \A c \in Clients : client'[c].cle \in listed' \union {NoEntry}
  BY DEF CLEAdd, IInv, Shape, NothingDangles
<1>6. /\ entry' = [entry EXCEPT ![e] = r]
      /\ listed' = listed \union {e} /\ lastId' = e
      /\ servers' = servers /\ playerCount' = playerCount
  BY DEF CLEAdd
<1> HIDE DEF e, r
<1> QED
  BY <1>1, <1>2, <1>3, <1>4, <1>5, <1>6, OneChange

\* A client logs in.
LEMMA LogInKeeps ==
  ASSUME IInv, NEW c \in Clients, NEW e \in Ids, NEW zoning \in BOOLEAN,
         LogIn(c, e, zoning)
  PROVE  IInv'
<1>1. PICK status \in {Online, CharSelect} :
        status = IF zoning THEN Online ELSE CharSelect
  OBVIOUS
<1> DEFINE s == WithStatus(entry[e], status)
           r == [s EXCEPT !.ip = client[c].ip]
<1>2. /\ e \in listed /\ entry[e] \in Record /\ listed' = listed \union {e}
  BY Entries DEF LogIn
<1>3. Camps(status)
  BY <1>1 DEF Camps, Online, CharSelect, Zoning
<1>4. /\ Fits(s) /\ s.server = None
      /\ PlayersAdded(entry[e], status)
           = One(s.online >= Online) - One(entry[e].online >= Online)
  BY <1>2, <1>3, StatusFits
<1>5. client[c] \in Connection
  BY DEF IInv, Shape
<1>6. Fits(r) /\ r.server = None /\ r.online = s.online
  BY <1>4, <1>5 DEF Fits, Record, Connection
<1>7. entry' = [entry EXCEPT ![e] = r]
  BY <1>1 DEF LogIn
<1>8. numplayers' = numplayers + One(r.online >= Online)
                      - One(e \in listed /\ entry[e].online >= Online)
  <2>1. numplayers \in Int
    BY IInvTypes DEF TypeOK
  <2>2. numplayers' = numplayers + PlayersAdded(entry[e], status)
    BY <1>1 DEF LogIn
  <2> QED
    BY <1>2, <1>4, <1>6, <2>1, <2>2 DEF One
<1>9. playerCount' = [z \in ZoneServers |-> playerCount[z] + One(None = z)
                        - One(e \in listed /\ entry[e].server = z)]
  BY <1>2, Removed DEF LogIn
<1>10. /\ lastId' \in 0..MaxEntries /\ listed' \subseteq 1..lastId'
       /\ servers' = servers
  BY DEF LogIn, IInv, Shape
<1>11. /\ client' \in [Clients -> Connection]
       /\ \A x \in Clients : client'[x].cle \in listed' \union {NoEntry}
  <2>1. client' = [client EXCEPT ![c].cle = e] /\ client \in [Clients -> Connection]
    BY DEF LogIn, IInv, Shape
  <2>2. [client[c] EXCEPT !.cle = e] \in Connection
    BY <1>5 DEF Connection
  <2>3. client' \in [Clients -> Connection]
    BY <2>1, <2>2
  <2>4. \A x \in Clients : client'[x].cle = IF x = c THEN e ELSE client[x].cle
    BY <2>1, <1>5 DEF Connection
  <2> QED
    BY <1>2, <2>3, <2>4 DEF IInv, NothingDangles
<1> HIDE DEF r
<1> QED
  BY <1>2, <1>6, <1>7, <1>8, <1>9, <1>10, <1>11, OneChange

\* An entry is kept alive.
LEMMA KeepAliveKeeps == ASSUME IInv, NEW c \in Clients, KeepAlive(c) PROVE IInv'
<1> DEFINE e == client[c].cle
           r == [entry[e] EXCEPT !.stale = 0]
<1>1. e \in listed
  BY DEF KeepAlive, IInv, NothingDangles
<1>2. /\ e \in Ids /\ Fits(entry[e]) /\ entry[e].server \in servers \union {None}
      /\ listed \union {e} = listed
  BY <1>1, Entries
<1>3. /\ r.server = entry[e].server /\ r.online = entry[e].online /\ Fits(r)
  BY <1>2, ClientListAssumption DEF Fits, Record
<1>4. numplayers = numplayers + One(r.online >= Online)
                     - One(e \in listed /\ entry[e].online >= Online)
  <2>1. numplayers \in Int
    BY IInvTypes DEF TypeOK
  <2> QED
    BY <1>1, <1>3, <2>1 DEF One
<1>5. playerCount = [z \in ZoneServers |-> playerCount[z] + One(r.server = z)
                       - One(e \in listed /\ entry[e].server = z)]
  <2> HIDE DEF r
  <2> QED
    BY <1>1, <1>2, <1>3, Kept
<1>6. /\ client \in [Clients -> Connection]
      /\ \A x \in Clients : client[x].cle \in listed \union {NoEntry}
      /\ lastId \in 0..MaxEntries /\ listed \subseteq 1..lastId
  BY DEF IInv, Shape, NothingDangles
<1>7. entry' = [entry EXCEPT ![e] = r]
  BY DEF KeepAlive
<1> HIDE DEF r
<1> QED
  BY <1>2, <1>3, <1>4, <1>5, <1>6, <1>7, OneChange DEF KeepAlive

\* Only a connection changes.
LEMMA ConnectionOnly ==
  ASSUME IInv, UNCHANGED <<listed, entry, lastId, numplayers, servers, playerCount>>,
         client' \in [Clients -> Connection],
         \A x \in Clients : client'[x].cle \in listed \union {NoEntry}
  PROVE  IInv'
  BY DEF IInv, Shape, PlayersCounted, ZonePlayersCounted, InZoneMeansPlaying,
         NothingDangles, Players, In

\* A client that waited goes on.
LEMMA GoesOnKeeps ==
  ASSUME IInv, NEW c \in Clients, NEW outcome \in Outcomes, GoesOn(c, outcome)
  PROVE  IInv'
<1>1. /\ client \in [Clients -> Connection]
      /\ \A x \in Clients : client[x].cle \in listed \union {NoEntry}
  BY DEF IInv, Shape, NothingDangles
<1>2. client' = [client EXCEPT ![c].zone = (outcome # "unavailable")]
  BY DEF GoesOn
<1>3. client' \in [Clients -> Connection]
  <2>1. [client[c] EXCEPT !.zone = (outcome # "unavailable")] \in Connection
    BY <1>1 DEF Connection
  <2> QED
    BY <1>1, <1>2, <2>1
<1>4. \A x \in Clients : client'[x].cle \in listed \union {NoEntry}
  <2>1. \A x \in Clients : client'[x].cle = client[x].cle
    BY <1>1, <1>2 DEF Connection
  <2> QED
    BY <1>1, <2>1
<1>5. CASE client[c].cle = NoEntry
  BY <1>3, <1>4, <1>5, ConnectionOnly DEF GoesOn
<1>6. CASE client[c].cle # NoEntry
  <2>1. client[c].cle \in listed
    BY <1>1, <1>6
  <2>2. PICK status \in {CharSelect, Zoning} : SetOnline(client[c].cle, status)
    BY <1>6 DEF GoesOn
  <2>3. status \in Statuses
    BY DEF Statuses
  <2> QED
    BY <1>3, <1>4, <2>1, <2>2, <2>3, SetOnlineKeeps DEF GoesOn
<1> QED
  BY <1>5, <1>6

\* A connection is removed.
LEMMA DisconnectKeeps ==
  ASSUME IInv, NEW c \in Clients, NEW logout \in BOOLEAN, NEW ip \in IPs,
         Disconnect(c, logout, ip)
  PROVE  IInv'
<1>1. /\ client \in [Clients -> Connection]
      /\ \A x \in Clients : client[x].cle \in listed \union {NoEntry}
  BY DEF IInv, Shape, NothingDangles
<1>2. client' = [client EXCEPT ![c] = Connected(ip)]
      /\ Connected(ip) \in Connection /\ Connected(ip).cle = NoEntry
  BY DEF Disconnect, Connected, Connection
<1>3. client' \in [Clients -> Connection]
  BY <1>1, <1>2
<1>4. \A x \in Clients : client'[x].cle \in listed \union {NoEntry}
  BY <1>1, <1>2
<1>5. CASE client[c].cle # NoEntry /\ (logout \/ ~client[c].zone)
  <2>1. client[c].cle \in listed /\ SetOnline(client[c].cle, Offline)
    BY <1>1, <1>5 DEF Disconnect
  <2>2. Offline \in Statuses
    BY DEF Statuses
  <2> QED
    BY <1>3, <1>4, <2>1, <2>2, SetOnlineKeeps DEF Disconnect
<1>6. CASE ~(client[c].cle # NoEntry /\ (logout \/ ~client[c].zone))
  BY <1>3, <1>4, <1>6, ConnectionOnly DEF Disconnect
<1> QED
  BY <1>5, <1>6

\* A zone server says that a client it knows is there.
LEMMA UpdateKeeps ==
  ASSUME IInv, NEW z \in servers, NEW e \in listed, UpdateEntry(z, e),
         UNCHANGED <<listed, lastId, servers, client>>
  PROVE  IInv'
<1> DEFINE b == [entry[e] EXCEPT !.server = z]
           r == WithStatus(b, InZone)
<1>1. /\ e \in Ids /\ entry[e] \in Record /\ listed' = listed \union {e}
      /\ entry[e].server \in servers \union {None}
  BY Entries
<1>2. z \in ZoneServers /\ None \notin ZoneServers
  BY ClientListAssumption DEF IInv, Shape
<1>3. b \in Record /\ b.server = z /\ b.online = entry[e].online
  BY <1>1, <1>2 DEF Record
<1>4. /\ Fits(r) /\ r.server = z
      /\ PlayersAdded(b, InZone)
           = One(r.online >= Online) - One(entry[e].online >= Online)
  <2> HIDE DEF b
  <2> QED
    BY <1>3, StatusFits DEF Camps, InZone, Zoning
<1>5. PlayersAdded(entry[e], InZone) = PlayersAdded(b, InZone)
  BY <1>3 DEF PlayersAdded
<1>6. numplayers' = numplayers + One(r.online >= Online)
                      - One(e \in listed /\ entry[e].online >= Online)
  <2>1. numplayers \in Int
    BY IInvTypes DEF TypeOK
  <2> QED
    BY <1>4, <1>5, <2>1 DEF UpdateEntry, One
<1>7. playerCount' = [y \in ZoneServers |-> playerCount[y] + One(r.server = y)
                        - One(e \in listed /\ entry[e].server = y)]
  <2>1. ASSUME NEW y \in ZoneServers
        PROVE  playerCount[y] + (IF y = z THEN 1 ELSE 0)
                 - (IF y = entry[e].server THEN 1 ELSE 0)
               = playerCount[y] + One(r.server = y)
                   - One(e \in listed /\ entry[e].server = y)
    BY <1>4 DEF One
  <2> HIDE DEF r
  <2> QED
    BY <2>1 DEF UpdateEntry, MovePlayer
<1>8. /\ entry' = [entry EXCEPT ![e] = r]
      /\ lastId' \in 0..MaxEntries /\ listed' \subseteq 1..lastId'
      /\ client' \in [Clients -> Connection]
      /\ \A x \in Clients : client'[x].cle \in listed' \union {NoEntry}
  BY DEF UpdateEntry, IInv, Shape, NothingDangles
<1> HIDE DEF r
<1> QED
  BY <1>1, <1>4, <1>6, <1>7, <1>8, OneChange

\* ... that it leaves.
LEMMA LeavingKeeps ==
  ASSUME IInv, NEW z \in servers, NEW e \in listed,
         NEW status \in {Zoning, Offline}, LeavingZone(z, e, status),
         UNCHANGED <<listed, lastId, servers, client>>
  PROVE  IInv'
<1> DEFINE s == WithStatus(entry[e], status)
           r == [s EXCEPT !.server = None]
<1>1. /\ e \in Ids /\ entry[e] \in Record /\ listed' = listed \union {e}
  BY Entries
<1>2. /\ Fits(s)
      /\ PlayersAdded(entry[e], status)
           = One(s.online >= Online) - One(entry[e].online >= Online)
  BY <1>1, StatusFits
<1>3. Fits(r) /\ r.server = None /\ r.online = s.online
  BY <1>2 DEF Fits, Record
<1>4. numplayers' = numplayers + One(r.online >= Online)
                      - One(e \in listed /\ entry[e].online >= Online)
  <2>1. numplayers \in Int
    BY IInvTypes DEF TypeOK
  <2> QED
    BY <1>2, <1>3, <2>1 DEF LeavingZone, One
<1>5. playerCount' = [y \in ZoneServers |-> playerCount[y] + One(None = y)
                        - One(e \in listed /\ entry[e].server = y)]
  BY Removed DEF LeavingZone
<1>6. /\ entry' = [entry EXCEPT ![e] = r]
      /\ lastId' \in 0..MaxEntries /\ listed' \subseteq 1..lastId'
      /\ client' \in [Clients -> Connection]
      /\ \A x \in Clients : client'[x].cle \in listed' \union {NoEntry}
  BY DEF LeavingZone, IInv, Shape, NothingDangles
<1> HIDE DEF r
<1> QED
  BY <1>1, <1>3, <1>4, <1>5, <1>6, OneChange

\* Whatever it says of one it knows.
LEMMA ClientUpdateKeeps ==
  ASSUME IInv, NEW z \in ZoneServers, NEW e \in Ids, ClientUpdate(z, e)
  PROVE  IInv'
<1>1. z \in servers /\ e \in listed /\ UNCHANGED <<listed, lastId, servers, client>>
  BY DEF ClientUpdate
<1>2. CASE UpdateEntry(z, e)
  BY <1>1, <1>2, UpdateKeeps
<1>3. CASE LeavingZone(z, e, Zoning) \/ LeavingZone(z, e, Offline)
  BY <1>1, <1>3, LeavingKeeps
<1>4. CASE LeavingOtherZone(z, e)
  <2>1. client' \in [Clients -> Connection]
    BY <1>1 DEF IInv, Shape
  <2>2. \A x \in Clients : client'[x].cle \in listed \union {NoEntry}
    BY <1>1 DEF IInv, NothingDangles
  <2> QED
    BY <1>1, <1>4, <2>1, <2>2, ConnectionOnly DEF LeavingOtherZone
<1> QED
  BY <1>2, <1>3, <1>4 DEF ClientUpdate

\* A zone server speaks of a client that is not in the list.
LEMMA UnknownKeeps ==
  ASSUME IInv, NEW z \in ZoneServers, NEW status \in {Online, Zoning, InZone},
         ClientUpdateUnknown(z, status)
  PROVE  IInv'
<1> DEFINE e == lastId + 1
           home == IF status >= Zoning THEN z ELSE None
           b == [Blank EXCEPT !.server = home, !.front = TRUE]
           r == WithStatus(b, status)
<1>1. /\ e \in Ids /\ e \notin listed /\ e \in 0..MaxEntries
      /\ listed' \subseteq 1..lastId'
  BY ClientListAssumption DEF ClientUpdateUnknown, IInv, Shape, Ids
<1>2. z \in servers /\ None \notin ZoneServers
  BY ClientListAssumption DEF ClientUpdateUnknown
<1>3. b \in Record /\ b.server = home /\ b.online = Never /\ Blank.online = Never
  <2>1. Never \in Never..InZone /\ 0 \in 0..StaleLimit
    BY ClientListAssumption DEF Never, InZone
  <2>2. Blank \in Record /\ Blank.online = Never
    BY <2>1 DEF Blank, Record
  <2>3. home \in ZoneServers \union {None}
    OBVIOUS
  <2> HIDE DEF Blank, home
  <2> QED
    BY <2>2, <2>3 DEF Record
<1>4. /\ Fits(r) /\ r.server = home
      /\ PlayersAdded(b, status) = One(r.online >= Online) - One(Never >= Online)
  <2>1. status \in Statuses /\ (Camps(status) => home = None)
    BY DEF Statuses, Camps, Online, Zoning, InZone
  <2>2. /\ Fits(r) /\ r.server = IF Camps(status) THEN None ELSE b.server
        /\ PlayersAdded(b, status) = One(r.online >= Online) - One(b.online >= Online)
    <3> HIDE DEF b
    <3> QED
      BY <1>3, <2>1, StatusFits DEF Statuses
  <2> HIDE DEF b, r, home
  <2> QED
    BY <1>3, <2>1, <2>2
<1>5. PlayersAdded(Blank, status) = PlayersAdded(b, status)
  BY <1>3 DEF PlayersAdded
<1>6. numplayers' = numplayers + One(r.online >= Online)
                      - One(e \in listed /\ entry[e].online >= Online)
  <2>1. numplayers \in Int
    BY IInvTypes DEF TypeOK
  <2>2. numplayers' = numplayers + PlayersAdded(b, status)
    BY <1>5 DEF ClientUpdateUnknown
  <2> HIDE DEF b, r
  <2> QED
    BY <1>1, <1>4, <2>1, <2>2 DEF One, Never, Online
<1>7. playerCount' = [y \in ZoneServers |-> playerCount[y] + One(home = y)
                        - One(e \in listed /\ entry[e].server = y)]
  <2>1. playerCount \in [ZoneServers -> Int]
    BY DEF IInv, Shape
  <2>2. CASE status >= Zoning
    <3>1. playerCount' = MovePlayer(None, z) /\ home = z
      BY <2>2 DEF ClientUpdateUnknown
    <3>2. ASSUME NEW y \in ZoneServers
          PROVE  playerCount[y] + (IF y = z THEN 1 ELSE 0)
                   - (IF y = None THEN 1 ELSE 0)
                 = playerCount[y] + One(home = y)
                     - One(e \in listed /\ entry[e].server = y)
      BY <1>1, <1>2, <2>1, <3>1 DEF One
    <3> HIDE DEF home
    <3> QED
      BY <3>1, <3>2 DEF MovePlayer
  <2>3. CASE ~(status >= Zoning)
    <3>1. playerCount' = playerCount /\ home = None
      BY <2>3 DEF ClientUpdateUnknown
    <3> HIDE DEF e, home
    <3> QED
      BY <1>1, <3>1, Kept
  <2> QED
    BY <2>2, <2>3
<1>8. /\ entry' = [entry EXCEPT ![e] = r]
      /\ listed' = listed \union {e} /\ lastId' = e /\ servers' = servers
      /\ home \in servers \union {None}
  BY <1>2 DEF ClientUpdateUnknown
<1>9. /\ client' \in [Clients -> Connection]
      /\ \A x \in Clients : client'[x].cle \in listed' \union {NoEntry}
  BY DEF ClientUpdateUnknown, IInv, Shape, NothingDangles
<1> HIDE DEF e, r, home, b
<1>10. playerCount' = [y \in ZoneServers |-> playerCount[y] + One(r.server = y)
                         - One(e \in listed /\ entry[e].server = y)]
  BY <1>4, <1>7
<1> QED
  BY <1>1, <1>4, <1>6, <1>8, <1>9, <1>10, OneChange

\* The connections once the entries es are gone.
LEMMA ReleasedFits ==
  ASSUME IInv, NEW es \in SUBSET listed
  PROVE  /\ Released(es) \in [Clients -> Connection]
         /\ \A c \in Clients : Released(es)[c].cle \in (listed \ es) \union {NoEntry}
<1>1. /\ client \in [Clients -> Connection]
      /\ \A c \in Clients : client[c].cle \in listed \union {NoEntry}
  BY DEF IInv, Shape, NothingDangles
<1>2. ASSUME NEW c \in Clients
      PROVE  /\ [client[c] EXCEPT !.cle = NoEntry] \in Connection
             /\ [client[c] EXCEPT !.cle = NoEntry].cle = NoEntry
  BY <1>1 DEF Connection
<1> QED
  BY <1>1, <1>2 DEF Released

\* No entry: nothing is counted.
LEMMA NothingGone == IInv => /\ PlayersWithout({}) = numplayers
                             /\ CountsWithout({}) = playerCount
<1> SUFFICES ASSUME IInv PROVE /\ PlayersWithout({}) = numplayers
                               /\ CountsWithout({}) = playerCount
  OBVIOUS
<1>1. numplayers \in Int /\ playerCount \in [ZoneServers -> Int]
  BY IInvTypes DEF TypeOK, IInv, Shape
<1>2. Players({}) = {} /\ \A z : In(z, {}) = {}
  BY DEF Players, In
<1>3. PlayersWithout({}) = numplayers
  BY <1>1, <1>2, FS_EmptySet DEF PlayersWithout
<1>4. \A z \in ZoneServers : playerCount[z] - Cardinality(In(z, {})) = playerCount[z]
  BY <1>1, <1>2, FS_EmptySet
<1> QED
  BY <1>1, <1>3, <1>4 DEF CountsWithout

\* Records that may age but are otherwise left alone.
LEMMA AgingKeeps ==
  ASSUME IInv, NEW es \in SUBSET listed,
         listed' = listed \ es, entry' \in [Ids -> Record],
         \A x \in listed \ es : /\ entry'[x].online = entry[x].online
                                /\ entry'[x].server = entry[x].server,
         UNCHANGED <<lastId, servers>>,
         numplayers' = PlayersWithout(es), playerCount' = CountsWithout(es),
         client' \in [Clients -> Connection],
         \A c \in Clients : client'[c].cle \in listed' \union {NoEntry}
  PROVE  IInv'
<1>1. NoEntry \notin listed
  BY Entries
<1>2. /\ NoEntry \notin Players(listed)' /\ NoEntry \notin Players(listed \ es)
      /\ \A z : NoEntry \notin In(z, listed)' /\ NoEntry \notin In(z, listed \ es)
  BY <1>1 DEF Players, In
<1>3. \A x \in listed \ es :
        /\ entry'[x].server # None => entry'[x].online >= Zoning
        /\ entry'[x].server \in servers \union {None}
  BY DEF IInv, InZoneMeansPlaying, NothingDangles
<1>4. numplayers' = PlayersWithout(es) + One(NoEntry \in Players(listed)')
                      - One(NoEntry \in Players(listed \ es))
  <2>1. PlayersWithout(es) \in Int
    <3>1. Cardinality(Players(es)) \in Nat /\ numplayers \in Nat
      BY IInvTypes, Finite DEF IInv, TypeOK
    <3> QED
      BY <3>1 DEF PlayersWithout
  <2> QED
    BY <1>2, <2>1 DEF One
<1>5. playerCount' = [z \in ZoneServers |-> CountsWithout(es)[z]
                        + One(NoEntry \in In(z, listed)')
                        - One(NoEntry \in In(z, listed \ es))]
  <2>1. CountsWithout(es) \in [ZoneServers -> Int]
    BY WithoutThem
  <2>2. ASSUME NEW z \in ZoneServers
        PROVE  CountsWithout(es)[z] + One(NoEntry \in In(z, listed)')
                 - One(NoEntry \in In(z, listed \ es)) = CountsWithout(es)[z]
    <3>1. /\ One(NoEntry \in In(z, listed)') = 0
          /\ One(NoEntry \in In(z, listed \ es)) = 0
      BY <1>2 DEF One
    <3>2. CountsWithout(es)[z] \in Int
      BY <2>1
    <3> QED
      BY <3>1, <3>2
  <2> QED
    BY <2>1, <2>2
<1> QED
  BY <1>3, <1>4, <1>5, SomeGone

\* A zone server keeps its clients' entries alive.
LEMMA CLEKeepAliveKeeps ==
  ASSUME IInv, NEW es \in SUBSET Ids, CLEKeepAlive(es) PROVE IInv'
<1>1. entry \in [Ids -> Record] /\ listed \subseteq Ids /\ 0 \in 0..StaleLimit
  BY ClientListAssumption DEF IInv, Shape, Ids
<1>2. ASSUME NEW x \in Ids
      PROVE  LET r == [entry[x] EXCEPT !.stale = 0]
             IN  r \in Record /\ r.online = entry[x].online /\ r.server = entry[x].server
  BY <1>1 DEF Record
<1>3. /\ entry' \in [Ids -> Record]
      /\ \A x \in listed : /\ entry'[x].online = entry[x].online
                           /\ entry'[x].server = entry[x].server
  BY <1>1, <1>2 DEF CLEKeepAlive
<1>4. /\ client' \in [Clients -> Connection]
      /\ \A c \in Clients : client'[c].cle \in listed' \union {NoEntry}
  BY DEF CLEKeepAlive, IInv, Shape, NothingDangles
<1>5. listed' = listed \ {} /\ {} \in SUBSET listed
  BY DEF CLEKeepAlive
<1>6. numplayers' = PlayersWithout({}) /\ playerCount' = CountsWithout({})
      /\ UNCHANGED <<lastId, servers>>
  BY NothingGone DEF CLEKeepAlive
<1> QED
  BY <1>3, <1>4, <1>5, <1>6, AgingKeeps

\* The entries nobody keeps alive are removed.
LEMMA CheckStaleKeeps == ASSUME IInv, CheckStale PROVE IInv'
<1>1. entry \in [Ids -> Record] /\ listed \subseteq Ids /\ StaleEntries \in SUBSET listed
  BY ClientListAssumption DEF IInv, Shape, Ids, StaleEntries
<1>2. Blank \in Record
  <2>1. Never \in Never..InZone /\ 0 \in 0..StaleLimit
    BY ClientListAssumption DEF Never, InZone
  <2> QED
    BY <2>1 DEF Blank, Record
<1>3. ASSUME NEW x \in listed \ StaleEntries
      PROVE  LET r == [entry[x] EXCEPT !.stale = Age(entry[x])]
             IN  r \in Record /\ r.online = entry[x].online /\ r.server = entry[x].server
  <2>1. entry[x] \in Record
    BY <1>1
  <2>2. Age(entry[x]) \in 0..StaleLimit
    BY <2>1, ClientListAssumption DEF StaleEntries, Age, Record
  <2> QED
    BY <2>1, <2>2 DEF Record
<1>4. /\ entry' \in [Ids -> Record]
      /\ \A x \in listed \ StaleEntries : /\ entry'[x].online = entry[x].online
                                          /\ entry'[x].server = entry[x].server
  <2> HIDE DEF StaleEntries, Blank, Age
  <2> QED
    BY <1>1, <1>2, <1>3 DEF CheckStale
<1>5. /\ listed' = listed \ StaleEntries /\ client' = Released(StaleEntries)
      /\ numplayers' = PlayersWithout(StaleEntries)
      /\ playerCount' = CountsWithout(StaleEntries)
      /\ UNCHANGED <<lastId, servers>>
  BY DEF CheckStale
<1>6. /\ client' \in [Clients -> Connection]
      /\ \A c \in Clients : client'[c].cle \in listed' \union {NoEntry}
  BY <1>1, <1>5, ReleasedFits
<1> QED
  BY <1>1, <1>4, <1>5, <1>6, AgingKeeps

\* A zone server connects.
LEMMA AddServerKeeps == ASSUME IInv, NEW z \in ZoneServers, AddServer(z) PROVE IInv'
<1>1. /\ z \notin servers /\ servers' = servers \union {z}
      /\ playerCount' = [playerCount EXCEPT ![z] = 0]
      /\ UNCHANGED <<listed, entry, lastId, numplayers, client>>
  BY DEF AddServer
<1>2. Shape /\ z # None
  BY ClientListAssumption DEF IInv
<1>3. In(z, listed) = {}
  BY <1>1, <1>2 DEF In, IInv, NothingDangles
<1>4. Cardinality(In(z, listed)) = 0
  BY <1>3, FS_EmptySet
<1>5. \A y \in servers' : playerCount'[y] = Cardinality(In(y, listed))
  BY <1>1, <1>2, <1>4 DEF IInv, ZonePlayersCounted, Shape
<1>6. \A y : In(y, listed)' = In(y, listed)
  BY <1>1 DEF In
<1>7. ZonePlayersCounted'
  BY <1>5, <1>6 DEF ZonePlayersCounted
<1>8. Shape'
  BY <1>1, <1>2 DEF Shape
<1>9. PlayersCounted'
  BY <1>1 DEF IInv, PlayersCounted, Players
<1>10. InZoneMeansPlaying' /\ NothingDangles'
  BY <1>1 DEF IInv, InZoneMeansPlaying, NothingDangles
<1> QED
  BY <1>7, <1>8, <1>9, <1>10 DEF IInv

\* A zone server goes to sleep or leaves.
LEMMA ServerGoes ==
  ASSUME IInv, NEW z \in ZoneServers, SleepZone(z) \/ RemoveServer(z) PROVE IInv'
  BY ZoneLeft DEF SleepZone, RemoveServer

-----------------------------------------------------------------------------
(* The limit on the clients of an address.                                 *)

\* It takes entries of the list.
LEMMA LimitedAreListed == ASSUME NEW ip PROVE Limited(ip) \in SUBSET listed
<1>1. OfIP(ip) \in SUBSET listed
  BY DEF OfIP
<1>2. OverLimit(ip) \in SUBSET OfIP(ip)
  BY DEF OverLimit
<1>3. DisconnectedByIP(ip) \in SUBSET OfIP(ip)
  BY Zenon DEF DisconnectedByIP
<1> QED
  BY <1>1, <1>2, <1>3 DEF Limited

\* A zone's count without one entry more.
LEMMA OneMoreGone ==
  ASSUME IInv, NEW es \in SUBSET listed, NEW e \in listed \ es, NEW z \in ZoneServers
  PROVE  CountsWithout(es \union {e})[z]
           = CountsWithout(es)[z] - One(entry[e].server = z)
<1>1. IsFiniteSet(In(z, es)) /\ Cardinality(In(z, es)) \in Nat
  BY Finite DEF IInv
<1>2. In(z, es \union {e}) \ {e} = In(z, es) \ {e}
  BY DEF In
<1>3. /\ e \notin In(z, es)
      /\ e \in In(z, es \union {e}) <=> entry[e].server = z
  BY DEF In
<1>4. Cardinality(In(z, es \union {e})) = Cardinality(In(z, es))
        + One(e \in In(z, es \union {e})) - One(e \in In(z, es))
  BY <1>1, <1>2, CardChange
<1>5. playerCount[z] \in Int
  BY DEF IInv, Shape
<1> QED
  BY <1>1, <1>3, <1>4, <1>5 DEF CountsWithout, One

\* The client's own entry changes its status while others may be removed.
LEMMA OwnAndOthers ==
  ASSUME IInv, NEW es \in SUBSET listed, NEW e \in listed \ es,
         NEW status \in Statuses,
         listed' = listed \ es,
         entry' = [x \in Ids |-> IF x \in es THEN Blank
                     ELSE IF x = e THEN WithStatus(entry[x], status) ELSE entry[x]],
         numplayers' = PlayersWithout(es) + PlayersAdded(entry[e], status),
         playerCount' = IF Camps(status) THEN CountsWithout(es \union {e})
                        ELSE CountsWithout(es),
         UNCHANGED <<lastId, servers>>,
         client' \in [Clients -> Connection],
         \A c \in Clients : client'[c].cle \in listed' \union {NoEntry}
  PROVE  IInv'
<1> DEFINE r == WithStatus(entry[e], status)
<1>1. /\ entry \in [Ids -> Record] /\ listed \subseteq Ids /\ e \in Ids
      /\ None \notin ZoneServers
  BY ClientListAssumption DEF IInv, Shape, Ids
<1>2. Blank \in Record
  <2>1. Never \in Never..InZone /\ 0 \in 0..StaleLimit
    BY ClientListAssumption DEF Never, InZone
  <2> QED
    BY <2>1 DEF Blank, Record
<1>3. /\ Fits(r) /\ r.server = IF Camps(status) THEN None ELSE entry[e].server
      /\ PlayersAdded(entry[e], status)
           = One(r.online >= Online) - One(entry[e].online >= Online)
  BY <1>1, StatusFits DEF Statuses
<1>4. entry' \in [Ids -> Record]
  <2>1. r \in Record
    BY <1>3 DEF Fits
  <2> HIDE DEF Blank
  <2> QED
    BY <1>1, <1>2, <2>1
<1>5. \A x \in listed \ es : entry'[x] = IF x = e THEN r ELSE entry[x]
  BY <1>1
<1>6. \A x \in listed \ es :
        /\ x # e => /\ entry'[x].online = entry[x].online
                    /\ entry'[x].server = entry[x].server
        /\ entry'[x].server # None => entry'[x].online >= Zoning
        /\ entry'[x].server \in servers \union {None}
  <2> HIDE DEF r
  <2> QED
    BY <1>3, <1>5 DEF Fits, IInv, InZoneMeansPlaying, NothingDangles
<1>7. /\ e \in Players(listed)' <=> r.online >= Online
      /\ e \in Players(listed \ es) <=> entry[e].online >= Online
  BY <1>5 DEF Players
<1>8. numplayers' = PlayersWithout(es) + One(e \in Players(listed)')
                      - One(e \in Players(listed \ es))
  <2>1. Cardinality(Players(es)) \in Nat /\ numplayers \in Nat
    BY IInvTypes, Finite DEF IInv, TypeOK
  <2>2. PlayersWithout(es) \in Int
    BY <2>1 DEF PlayersWithout
  <2> HIDE DEF r
  <2> QED
    BY <1>3, <1>7, <2>2 DEF One
<1>9. \A z \in ZoneServers :
        /\ e \in In(z, listed)' <=> r.server = z
        /\ e \in In(z, listed \ es) <=> entry[e].server = z
  BY <1>5 DEF In
<1>10. playerCount' = [z \in ZoneServers |-> CountsWithout(es)[z]
                         + One(e \in In(z, listed)')
                         - One(e \in In(z, listed \ es))]
  <2>1. CountsWithout(es) \in [ZoneServers -> Int]
    BY WithoutThem
  <2>2. es \union {e} \in SUBSET listed
    OBVIOUS
  <2>3. CountsWithout(es \union {e}) \in [ZoneServers -> Int]
    BY <2>2, WithoutThem
  <2>4. playerCount' \in [ZoneServers -> Int]
    BY <2>1, <2>3
  <2>5. ASSUME NEW z \in ZoneServers
        PROVE  playerCount'[z] = CountsWithout(es)[z] + One(e \in In(z, listed)')
                                   - One(e \in In(z, listed \ es))
    <3> HIDE DEF r
    <3>1. CountsWithout(es)[z] \in Int /\ One(entry[e].server = z) \in Int
      BY <2>1 DEF One
    <3>2. One(e \in In(z, listed \ es)) = One(entry[e].server = z)
      BY <1>9 DEF One
    <3>3. CASE Camps(status)
      <4>1. playerCount'[z] = CountsWithout(es)[z] - One(entry[e].server = z)
        BY <3>3, OneMoreGone
      <4>2. One(e \in In(z, listed)') = 0
        BY <1>1, <1>3, <1>9, <3>3 DEF One
      <4> QED
        BY <3>1, <3>2, <4>1, <4>2
    <3>4. CASE ~Camps(status)
      <4>1. One(e \in In(z, listed)') = One(entry[e].server = z)
        BY <1>3, <1>9, <3>4 DEF One
      <4>2. playerCount'[z] = CountsWithout(es)[z]
        BY <3>4
      <4> QED
        BY <3>1, <3>2, <4>1, <4>2
    <3> QED
      BY <3>3, <3>4
  <2> QED
    BY <2>4, <2>5
<1> QED
  BY <1>4, <1>6, <1>8, <1>10, SomeGone

\* A client enters the world.
LEMMA EnterWorldKeeps ==
  ASSUME IInv, NEW c \in Clients, NEW outcome \in Outcomes, EnterWorld(c, outcome)
  PROVE  IInv'
<1> DEFINE gone == Limited(client[c].ip)
           own == client[c].cle
           freed == Released(gone)
<1>1. gone \in SUBSET listed
  BY LimitedAreListed
<1>2. /\ client' = [freed EXCEPT ![c].zone = (outcome # "unavailable")]
      /\ listed' = listed \ gone /\ own # NoEntry /\ UNCHANGED <<lastId, servers>>
  BY DEF EnterWorld
<1>3. own \in listed
  BY <1>2 DEF IInv, NothingDangles
<1> HIDE DEF gone
<1>4. /\ client' \in [Clients -> Connection]
      /\ \A x \in Clients : client'[x].cle \in listed' \union {NoEntry}
  <2>1. /\ freed \in [Clients -> Connection]
        /\ \A x \in Clients : freed[x].cle \in (listed \ gone) \union {NoEntry}
    BY <1>1, ReleasedFits
  <2> HIDE DEF freed
  <2>2. [freed[c] EXCEPT !.zone = (outcome # "unavailable")] \in Connection
    BY <2>1 DEF Connection
  <2>3. client' \in [Clients -> Connection]
    BY <1>2, <2>1, <2>2
  <2>4. \A x \in Clients : client'[x].cle = freed[x].cle
    BY <1>2, <2>1 DEF Connection
  <2> QED
    BY <1>2, <2>1, <2>3, <2>4
<1>5. CASE /\ entry' = [x \in Ids |-> IF x \in gone THEN Blank ELSE entry[x]]
           /\ numplayers' = PlayersWithout(gone)
           /\ playerCount' = CountsWithout(gone)
  <2>1. entry \in [Ids -> Record] /\ listed \subseteq Ids
    BY ClientListAssumption DEF IInv, Shape, Ids
  <2>2. Blank \in Record
    <3>1. Never \in Never..InZone /\ 0 \in 0..StaleLimit
      BY ClientListAssumption DEF Never, InZone
    <3> QED
      BY <3>1 DEF Blank, Record
  <2> HIDE DEF Blank
  <2>3. entry' \in [Ids -> Record] /\ \A x \in listed \ gone : entry'[x] = entry[x]
    BY <1>5, <2>1, <2>2
  <2> QED
    BY <1>1, <1>2, <1>4, <1>5, <2>3, AgingKeeps
<1>6. ASSUME NEW status \in {CharSelect, Zoning}, own \notin gone,
             entry' = [x \in Ids |-> IF x \in gone THEN Blank
                         ELSE IF x = own THEN WithStatus(entry[x], status)
                         ELSE entry[x]],
             numplayers' = PlayersWithout(gone) + PlayersAdded(entry[own], status),
             playerCount' = IF Camps(status) THEN CountsWithout(gone \union {own})
                            ELSE CountsWithout(gone)
      PROVE  IInv'
  <2>1. status \in Statuses
    BY DEF Statuses
  <2> HIDE DEF own
  <2> QED
    BY <1>1, <1>2, <1>3, <1>4, <1>6, <2>1, OwnAndOthers
<1> QED
  BY <1>5, <1>6 DEF EnterWorld, gone

-----------------------------------------------------------------------------
\* The initial states satisfy the invariant.
LEMMA InitIInv == Init => IInv
<1> SUFFICES ASSUME Init PROVE IInv
  OBVIOUS
<1>1. Blank \in Record
  <2>1. Never \in Never..InZone /\ 0 \in 0..StaleLimit
    BY ClientListAssumption DEF Never, InZone
  <2> QED
    BY <2>1 DEF Blank, Record
<1>2. Players(listed) = {} /\ listed = {}
  BY DEF Init, Players
<1>3. Shape
  <2>1. \A ip \in IPs : Connected(ip) \in Connection
    BY DEF Connected, Connection
  <2> HIDE DEF Blank
  <2> QED
    BY <1>1, <2>1, ClientListAssumption DEF Init, Shape
<1>4. PlayersCounted
  BY <1>2, FS_EmptySet DEF Init, PlayersCounted
<1>5. \A x \in Clients : client[x].cle = NoEntry
  BY DEF Init, Connected
<1> QED
  BY <1>2, <1>3, <1>4, <1>5
  DEF Init, IInv, ZonePlayersCounted, InZoneMeansPlaying, NothingDangles

\* Every step keeps it.
LEMMA NextIInv == IInv /\ [Next]_vars => IInv'
<1> SUFFICES ASSUME IInv, [Next]_vars PROVE IInv'
  OBVIOUS
<1>1. CASE UNCHANGED vars
  <2>1. /\ client' \in [Clients -> Connection]
        /\ \A x \in Clients : client'[x].cle \in listed \union {NoEntry}
    BY <1>1 DEF vars, IInv, Shape, NothingDangles
  <2> QED
    BY <1>1, <2>1, ConnectionOnly DEF vars
<1> QED
  BY <1>1, CLEAddKeeps, LogInKeeps, KeepAliveKeeps, EnterWorldKeeps, GoesOnKeeps,
     DisconnectKeeps, ClientUpdateKeeps, UnknownKeeps, AddServerKeeps, ServerGoes,
     CLEKeepAliveKeeps, CheckStaleKeeps DEF Next

\* IInv holds in every reachable state.
LEMMA Invariance == Spec => []IInv
  BY InitIInv, NextIInv, PTL DEF Spec

\* The values the variables range over; the counts are numbers because they
\* never lose what they count.
THEOREM ClientListTypeOK == Spec => []TypeOK
  BY Invariance, IInvTypes, PTL

\* numplayers is the number of entries that are online.
THEOREM ClientListPlayersCounted == Spec => []PlayersCounted
<1>1. IInv => PlayersCounted
  BY DEF IInv
<1> QED
  BY <1>1, Invariance, PTL

\* The population of a zone server is the number of entries that refer to it.
THEOREM ClientListZonesCounted == Spec => []ZonePlayersCounted
<1>1. IInv => ZonePlayersCounted
  BY DEF IInv
<1> QED
  BY <1>1, Invariance, PTL

\* Who is in a zone plays.
THEOREM ClientListInZoneMeansPlaying == Spec => []InZoneMeansPlaying
<1>1. IInv => InZoneMeansPlaying
  BY DEF IInv
<1> QED
  BY <1>1, Invariance, PTL

\* Nothing refers to a zone server or to an entry that was destroyed.
THEOREM ClientListNothingDangles == Spec => []NothingDangles
<1>1. IInv => NothingDangles
  BY DEF IInv
<1> QED
  BY <1>1, Invariance, PTL
=============================================================================
