------------------------- MODULE DynamicZonesProofs -------------------------
(***************************************************************************)
(* An expedition keeps a leader who is a member, and all that have it      *)
(* agree on its members and obey that leader, for any zones, characters    *)
(* and numbers of changes and incidents.                                   *)
(***************************************************************************)
EXTENDS DynamicZones, SequenceLemmas, TLAPS

NoMembers == db = NoDz \/ db.members = {}

\* A change that brings in nobody but those of whom changes crossed.
Late(m) == m.op = "Change" => m.in \subseteq past.raced
AllLate == \A z \in Zones : \A j \in DOMAIN up[z] : Late(up[z][j])

\* Nothing is said of an expedition before it is created.
BeforeCreation ==
  budget.creations > 0 =>
    /\ db = NoDz /\ world = NoDz
    /\ \A z \in Zones : cache[z] = NoDz /\ up[z] = <<>> /\ down[z] = <<>>

\* When world is going to hear that all members are removed, the database has
\* none, and whoever is added by what it hears later crossed the removal.
ClearsFit ==
  \A y \in Zones : \A i \in DOMAIN up[y] :
    up[y][i].op = "Clear" =>
      /\ NoMembers
      /\ \A z \in Zones : \A j \in DOMAIN up[z] :
           (z = y => j > i) => Late(up[z][j])

Leaderless ==
  /\ world # NoDz
  /\ world.leader \notin world.members
  /\ ~world.needed /\ ~past.forgotten

\* The same once world has heard it, until it chooses a leader again.
LeaderlessFits ==
  Leaderless => NoMembers /\ world.members \subseteq past.raced /\ AllLate

\* The inductive invariant.
IInv == TypeOK /\ BeforeCreation /\ ClearsFit /\ LeaderlessFits

-----------------------------------------------------------------------------
(* Types.                                                                  *)

\* A message in one of the queues is one of those that are sent.
LEMMA Queued ==
  ASSUME TypeOK, NEW z \in Zones
  PROVE  /\ up[z] \in Seq(Heard) /\ down[z] \in Seq(Said)
         /\ \A i \in DOMAIN up[z] : up[z][i] \in Heard
         /\ up[z] # <<>> => Head(up[z]) \in Heard /\ Tail(up[z]) \in Seq(Heard)
         /\ down[z] # <<>> => Head(down[z]) \in Said /\ Tail(down[z]) \in Seq(Said)
  BY DEF TypeOK

\* Messages by their kind.
LEMMA Kinds ==
  /\ \A m \in Heard :
       /\ m.op = "Created" =>
            /\ m.copy \in Copies /\ m.copy.leader \in m.copy.members
            /\ m \in Passed
       /\ m.op = "Change" =>
            m.out \subseteq Characters /\ m.in \subseteq Characters /\ m \in Passed
       /\ m.op = "Clear" => m \in Passed
       /\ m.op = "Make" => m.who \in Characters
  /\ \A m \in Said :
       /\ m.op = "Created" => m.copy \in Copies
       /\ m.op = "Change" => m.out \subseteq Characters /\ m.in \subseteq Characters
       /\ m.op = "Leader" => m.who \in Characters
       /\ m.op \in {"Created", "Change", "Clear", "Leader", "Deleted"}
  BY DEF Heard, Said, Passed

\* What is spent stays within its bound.
LEMMA SpendsFits ==
  ASSUME TypeOK, NEW what \in {"creations", "changes", "incidents"}, Spends(what)
  PROVE  /\ budget' \in [creations : 0..1, changes : 0..MaxChanges,
                         incidents : 0..MaxIncidents]
         /\ budget'.creations > 0 => budget.creations > 0 /\ what # "creations"
<1>1. /\ budget = [creations |-> budget.creations, changes |-> budget.changes,
                  incidents |-> budget.incidents]
      /\ budget.creations \in 0..1 /\ budget.changes \in 0..MaxChanges
      /\ budget.incidents \in 0..MaxIncidents
  BY DEF TypeOK
<1>2. CASE what = "creations"
  BY <1>1, <1>2, DynamicZonesAssumption DEF Spends
<1>3. CASE what = "changes"
  BY <1>1, <1>3, DynamicZonesAssumption DEF Spends
<1>4. CASE what = "incidents"
  BY <1>1, <1>4, DynamicZonesAssumption DEF Spends
<1> QED
  BY <1>2, <1>3, <1>4

\* A zone's message.
LEMMA SendFits ==
  ASSUME TypeOK, NEW z \in Zones, NEW m \in Heard, Send(z, m)
  PROVE  up' \in [Zones -> Seq(Heard)]
  BY DEF TypeOK, Send

\* World's messages.
LEMMA BroadcastFits ==
  ASSUME TypeOK, NEW ms \in Seq(Said), Broadcast(ms)
  PROVE  down' \in [Zones -> Seq(Said)]
  BY DEF TypeOK, Broadcast

\* The members of whom changes crossed.
LEMMA RacesFits ==
  ASSUME TypeOK, NEW z \in Zones, NEW chars \in SUBSET Characters, Races(z, chars)
  PROVE  /\ past' \in [raced : SUBSET Characters, missed : SUBSET Zones,
                       swapped : BOOLEAN, forgotten : BOOLEAN]
         /\ past.raced \subseteq past'.raced
         /\ past'.forgotten = past.forgotten
         /\ z \notin linked => chars \subseteq past'.raced
         /\ z \in linked => chars \intersect Crossing(z) \subseteq past'.raced
  BY DEF TypeOK, Races

-----------------------------------------------------------------------------
(* Queues.                                                                 *)

\* What is left when the first is taken.
LEMMA TailAt ==
  ASSUME NEW S, NEW s \in Seq(S), s # <<>>
  PROVE  /\ 1 \in DOMAIN s /\ s[1] = Head(s)
         /\ \A j \in DOMAIN Tail(s) :
              /\ j \in Nat /\ j + 1 > 1
              /\ j + 1 \in DOMAIN s /\ Tail(s)[j] = s[j + 1]
<1>1. Len(s) \in Nat /\ Len(s) > 0 /\ DOMAIN s = 1..Len(s)
  OBVIOUS
<1>2. Tail(s) \in Seq(S) /\ Len(Tail(s)) = Len(s) - 1
      /\ \A j \in 1..Len(Tail(s)) : Tail(s)[j] = s[j + 1]
  OBVIOUS
<1>3. DOMAIN Tail(s) = 1..(Len(s) - 1)
  BY <1>1, <1>2
<1> QED
  BY <1>1, <1>2, <1>3

\* One more at the end.
LEMMA AppendAt ==
  ASSUME NEW S, NEW s \in Seq(S), NEW e \in S
  PROVE  \A j \in DOMAIN Append(s, e) :
           /\ j \in Nat
           /\ \/ j \in DOMAIN s /\ Append(s, e)[j] = s[j]
              \/ /\ Append(s, e)[j] = e
                 /\ \A i \in DOMAIN Append(s, e) : i \in Nat /\ i <= j
<1>1. Len(s) \in Nat /\ DOMAIN s = 1..Len(s)
  OBVIOUS
<1>2. Append(s, e) \in Seq(S) /\ Len(Append(s, e)) = Len(s) + 1
      /\ Append(s, e)[Len(s) + 1] = e
      /\ \A j \in 1..Len(s) : Append(s, e)[j] = s[j]
  OBVIOUS
<1>3. DOMAIN Append(s, e) = 1..(Len(s) + 1)
  BY <1>1, <1>2
<1> QED
  BY <1>1, <1>2, <1>3

\* What a step must do for what is queued to stay fit.
Keeps ==
  /\ NoMembers => NoMembers'
  /\ past.raced \subseteq past'.raced

\* No message is sent or heard.
LEMMA SilentFits ==
  ASSUME ClearsFit, UNCHANGED up, Keeps
  PROVE  ClearsFit' /\ (AllLate => AllLate')
  BY DEF ClearsFit, AllLate, Late, Keeps

\* World takes the next message of z.
LEMMA HearsFits ==
  ASSUME TypeOK, ClearsFit, NEW z \in Zones, NEW op, Hears(z, op), Keeps
  PROVE  /\ ClearsFit' /\ (AllLate => AllLate')
         /\ op = "Clear" => NoMembers /\ AllLate'
<1>1. /\ up[z] \in Seq(Heard) /\ up[z] # <<>> /\ Head(up[z]).op = op
      /\ \A y \in Zones : up'[y] = IF y = z THEN Tail(up[z]) ELSE up[y]
  BY DEF TypeOK, Hears
<1>2. /\ up[z][1].op = op /\ 1 \in DOMAIN up[z]
      /\ \A j \in DOMAIN up'[z] : j + 1 \in DOMAIN up[z] /\ j + 1 > 1
                                    /\ up'[z][j] = up[z][j + 1]
      /\ DOMAIN up'[z] \subseteq Nat
  BY <1>1, TailAt
<1>3. ASSUME NEW y \in Zones, NEW j \in DOMAIN up'[y]
      PROVE  \E i \in DOMAIN up[y] :
               /\ up'[y][j] = up[y][i]
               /\ i = IF y = z THEN j + 1 ELSE j
  BY <1>1, <1>2
<1>4. ASSUME NEW m, Late(m) PROVE m.op = "Change" => m.in \subseteq past'.raced
  BY <1>4 DEF Late, Keeps
<1>5. ClearsFit'
  <2> SUFFICES ASSUME NEW y \in Zones, NEW i \in DOMAIN up'[y], up'[y][i].op = "Clear"
               PROVE  /\ NoMembers'
                      /\ \A x \in Zones : \A j \in DOMAIN up'[x] :
                           (x = y => j > i) => Late(up[x][j])'
    BY DEF ClearsFit
  <2>1. PICK k \in DOMAIN up[y] :
          up'[y][i] = up[y][k] /\ k = IF y = z THEN i + 1 ELSE i
    BY <1>3
  <2>2. NoMembers /\ \A x \in Zones : \A j \in DOMAIN up[x] :
                       (x = y => j > k) => Late(up[x][j])
    BY <2>1 DEF ClearsFit
  <2>3. ASSUME NEW x \in Zones, NEW j \in DOMAIN up'[x], x = y => j > i
        PROVE  Late(up[x][j])'
    <3>1. PICK l \in DOMAIN up[x] :
            up'[x][j] = up[x][l] /\ l = IF x = z THEN j + 1 ELSE j
      BY <1>3
    <3>2. x = y => l > k
      BY <1>2, <2>1, <2>3, <3>1
    <3>3. Late(up[x][l])
      BY <2>2, <3>2
    <3> QED
      BY <1>4, <3>1, <3>3 DEF Late
  <2> QED
    BY <2>2, <2>3 DEF Keeps
<1>6. ASSUME AllLate PROVE AllLate'
  BY <1>3, <1>4, <1>6 DEF AllLate, Late
<1>7. ASSUME op = "Clear" PROVE NoMembers /\ AllLate'
  <2>1. NoMembers /\ \A x \in Zones : \A j \in DOMAIN up[x] :
                       (x = z => j > 1) => Late(up[x][j])
    BY <1>2, <1>7 DEF ClearsFit
  <2>2. ASSUME NEW x \in Zones, NEW j \in DOMAIN up'[x] PROVE Late(up[x][j])'
    <3>1. PICK l \in DOMAIN up[x] :
            up'[x][j] = up[x][l] /\ l = IF x = z THEN j + 1 ELSE j
      BY <1>3
    <3>2. Late(up[x][l])
      BY <1>2, <2>1, <3>1
    <3> QED
      BY <1>4, <3>1, <3>2 DEF Late
  <2> QED
    BY <2>1, <2>2 DEF AllLate
<1> QED
  BY <1>5, <1>6, <1>7

\* A zone says something that removes nobody, or less than all.
LEMMA SaysFits ==
  ASSUME TypeOK, ClearsFit, NEW z \in Zones, NEW m \in Heard, Send(z, m), Keeps,
         m.op # "Clear",
         NoMembers /\ m.op = "Change" => m.in \subseteq past'.raced
  PROVE  ClearsFit' /\ (NoMembers /\ AllLate => AllLate')
<1>1. CASE z \notin linked
  BY <1>1, SilentFits DEF Send
<1>2. CASE z \in linked
  <2>1. \A y \in Zones : up'[y] = IF y = z THEN Append(up[z], m) ELSE up[y]
    BY <1>2 DEF TypeOK, Send
  <2>2. ASSUME NEW y \in Zones, NEW j \in DOMAIN up'[y]
        PROVE  \/ j \in DOMAIN up[y] /\ up'[y][j] = up[y][j]
               \/ up'[y][j] = m
    <3>1. CASE y = z
      <4>1. up[z] \in Seq(Heard) /\ up'[y] = Append(up[z], m)
        BY <2>1, <3>1, Queued
      <4> QED
        BY <3>1, <4>1, AppendAt
    <3>2. CASE y # z
      BY <2>1, <3>2
    <3> QED
      BY <3>1, <3>2
  <2>3. ASSUME NEW n, Late(n) PROVE n.op = "Change" => n.in \subseteq past'.raced
    BY <2>3 DEF Late, Keeps
  <2>4. ClearsFit'
    BY <2>2, <2>3 DEF ClearsFit, Late, Keeps
  <2>5. ASSUME NoMembers, AllLate PROVE AllLate'
    BY <2>2, <2>3, <2>5 DEF AllLate, Late
  <2> QED
    BY <2>4, <2>5
<1> QED
  BY <1>1, <1>2

\* A zone removes all members.
LEMMA ClearSaid ==
  ASSUME TypeOK, ClearsFit, NEW z \in Zones, NEW m \in Heard, Send(z, m),
         m.op = "Clear", Keeps, NoMembers', Races(z, Characters)
  PROVE  ClearsFit' /\ (AllLate => AllLate')
<1>1. CASE z \notin linked
  BY <1>1, SilentFits DEF Send
<1>2. CASE z \in linked
  <2>1. \A y \in Zones : up'[y] = IF y = z THEN Append(up[z], m) ELSE up[y]
    BY <1>2 DEF TypeOK, Send
  <2>2. ASSUME NEW y \in Zones, NEW j \in DOMAIN up'[y]
        PROVE  \/ j \in DOMAIN up[y] /\ up'[y][j] = up[y][j]
               \/ /\ y = z /\ up'[y][j] = m
                  /\ \A i \in DOMAIN up'[z] : i \in Nat /\ i <= j
    <3>1. CASE y = z
      <4>1. up[z] \in Seq(Heard) /\ up'[y] = Append(up[z], m)
        BY <2>1, <3>1, Queued
      <4> QED
        BY <3>1, <4>1, AppendAt
    <3>2. CASE y # z
      BY <2>1, <3>2
    <3> QED
      BY <3>1, <3>2
  <2>3. ASSUME NEW n, Late(n) PROVE n.op = "Change" => n.in \subseteq past'.raced
    BY <2>3 DEF Late, Keeps
  <2>4. ASSUME NEW y \in Zones \ {z}, NEW j \in DOMAIN up[y], up[y][j].op = "Change"
        PROVE  up[y][j].in \subseteq past'.raced
    <3>1. up[y][j] \in Heard /\ up[y][j].in \subseteq Characters
      BY <2>4, Queued, Kinds
    <3>2. up[y][j].in \subseteq Touched(up[y][j])
      BY <2>4 DEF Touched
    <3>3. Touched(up[y][j]) \subseteq AllTouched(up[y])
      BY DEF AllTouched
    <3>4. AllTouched(up[y]) \subseteq Crossing(z)
      BY DEF Crossing
    <3> QED
      BY <1>2, <3>1, <3>2, <3>3, <3>4, RacesFits
  <2>5. ClearsFit'
    <3> SUFFICES ASSUME NEW y \in Zones, NEW i \in DOMAIN up'[y],
                        up'[y][i].op = "Clear",
                        NEW x \in Zones, NEW j \in DOMAIN up'[x], x = y => j > i,
                        up'[x][j].op = "Change"
                 PROVE  up'[x][j].in \subseteq past'.raced
      BY DEF ClearsFit, Late
    <3>1. j \in DOMAIN up[x] /\ up'[x][j] = up[x][j]
      BY <2>2
    <3>2. CASE x # z
      BY <2>4, <3>1, <3>2
    <3>3. CASE x = z
      <4>1. i \in DOMAIN up[y] /\ up'[y][i] = up[y][i]
        <5>1. ASSUME y = z, \A k \in DOMAIN up'[z] : k \in Nat /\ k <= i
              PROVE  FALSE
          BY <3>3, <5>1
        <5> QED
          BY <2>2, <5>1
      <4>2. Late(up[x][j])
        BY <3>1, <4>1 DEF ClearsFit
      <4> QED
        BY <2>3, <3>1, <4>2
    <3> QED
      BY <3>2, <3>3
  <2>6. ASSUME AllLate PROVE AllLate'
    BY <2>2, <2>3, <2>6 DEF AllLate, Late
  <2> QED
    BY <2>5, <2>6
<1> QED
  BY <1>1, <1>2

-----------------------------------------------------------------------------
(* Zones.                                                                  *)

\* Whoever has lost his leader stays fit if he was, and loses nothing.
LEMMA LeaderlessStays ==
  ASSUME LeaderlessFits, Keeps, Leaderless' => Leaderless,
         world' = world, NoMembers /\ AllLate => AllLate'
  PROVE  LeaderlessFits'
  BY DEF LeaderlessFits, Keeps

\* A new expedition.
LEMMA TryCreateStep ==
  ASSUME IInv, NEW z \in Zones, TryCreate(z)
  PROVE  IInv'
<1> USE DEF IInv
<1>1. /\ budget.creations > 0 /\ Spends("creations")
      /\ UNCHANGED <<world, running, linked, down, expired>>
      /\ Races(z, Characters)
  BY DEF TryCreate, Spends
<1>2. PICK copy \in Copies :
        /\ copy.leader \in copy.members
        /\ db' = copy /\ cache' = [cache EXCEPT ![z] = copy]
        /\ Send(z, [op |-> "Created", from |-> z, copy |-> copy])
  <2>1. \E members \in SUBSET Characters : \E leader \in members :
          LET copy == [members |-> members, leader |-> leader]
          IN  /\ db' = copy /\ cache' = [cache EXCEPT ![z] = copy]
              /\ Send(z, [op |-> "Created", from |-> z, copy |-> copy])
    BY DEF TryCreate
  <2>2. ASSUME NEW members \in SUBSET Characters, NEW leader \in members
        PROVE  /\ [members |-> members, leader |-> leader] \in Copies
               /\ leader \in [members |-> members, leader |-> leader].members
    BY DEF Copies
  <2> QED
    BY <2>1, <2>2
<1> DEFINE m == [op |-> "Created", from |-> z, copy |-> copy]
<1>3. m \in Heard
  BY <1>2 DEF Heard, Passed
<1>4. up' \in [Zones -> Seq(Heard)]
  BY <1>2, <1>3, SendFits
<1>5. TypeOK'
  BY <1>1, <1>2, <1>4, SpendsFits, RacesFits DEF TypeOK
<1>6. BeforeCreation'
  BY <1>1, SpendsFits DEF BeforeCreation
<1>7. world = NoDz /\ \A y \in Zones : up[y] = <<>>
  BY <1>1 DEF BeforeCreation
<1>8. \A y \in Zones : \A i \in DOMAIN up'[y] : up'[y][i].op = "Created"
  <2> SUFFICES ASSUME NEW y \in Zones, NEW i \in DOMAIN up'[y]
               PROVE  up'[y][i].op = "Created"
    OBVIOUS
  <2>1. up'[y] = <<>> \/ up'[y] = Append(<<>>, m)
    BY <1>2, <1>7 DEF TypeOK, Send
  <2>2. <<>> \in Seq(Heard)
    OBVIOUS
  <2>3. up'[y] = Append(<<>>, m)
    BY <2>1
  <2>4. up'[y][i] = m
    BY <1>3, <2>2, <2>3, AppendAt
  <2> QED
    BY <2>4
<1>9. ClearsFit'
  BY <1>8 DEF ClearsFit
<1>10. LeaderlessFits'
  BY <1>1, <1>7 DEF LeaderlessFits, Leaderless
<1> QED
  BY <1>5, <1>6, <1>9, <1>10

\* A zone changes members: whoever comes in does so only if there are some.
LEMMA ChangeStep ==
  ASSUME IInv, NEW z \in Zones, NEW out \in SUBSET Characters,
         NEW in \in SUBSET Characters, ChangeMembers(z, out, in),
         cache[z] # NoDz, NoMembers => in = {}
  PROVE  IInv'
<1> USE DEF IInv
<1> DEFINE m == [op |-> "Change", from |-> z, out |-> out, in |-> in]
<1>1. /\ Spends("changes") /\ Races(z, out \union in) /\ Send(z, m)
      /\ db' = IF db = NoDz THEN db ELSE [db EXCEPT !.members = (@ \ out) \union in]
      /\ cache' = [cache EXCEPT ![z].members = (@ \ out) \union in]
      /\ UNCHANGED <<world, running, linked, down, expired>>
  BY DEF ChangeMembers
<1>2. m \in Heard
  BY DEF Heard, Passed
<1>3. up' \in [Zones -> Seq(Heard)]
  BY <1>1, <1>2, SendFits
<1>4. db' \in Copies \union {NoDz}
  BY <1>1 DEF TypeOK, Copies
<1>5. cache' \in [Zones -> Copies \union {NoDz}]
  <2>1. cache[z] \in Copies
    BY DEF TypeOK
  <2>2. [cache[z] EXCEPT !.members = (@ \ out) \union in] \in Copies
    BY <2>1 DEF Copies
  <2> QED
    BY <1>1, <2>2 DEF TypeOK
<1>6. TypeOK'
  BY <1>1, <1>3, <1>4, <1>5, SpendsFits, RacesFits DEF TypeOK
<1>7. BeforeCreation'
  BY <1>1, SpendsFits DEF BeforeCreation
<1>8. Keeps
  <2>1. ASSUME db # NoDz, db.members = {} PROVE db'.members = {}
    <3>1. db \in Copies /\ in = {}
      BY <2>1 DEF TypeOK, NoMembers
    <3> QED
      BY <1>1, <2>1, <3>1 DEF Copies
  <2>2. past.raced \subseteq past'.raced
    BY <1>1, RacesFits
  <2> QED
    BY <1>1, <2>1, <2>2 DEF Keeps, NoMembers
<1>9. ClearsFit' /\ (NoMembers /\ AllLate => AllLate')
  BY <1>1, <1>2, <1>8, SaysFits
<1>10. Leaderless' => Leaderless
  BY <1>1, RacesFits DEF Leaderless
<1>11. LeaderlessFits'
  BY <1>1, <1>8, <1>9, <1>10, LeaderlessStays
<1> QED
  BY <1>6, <1>7, <1>9, <1>11

\* A zone removes all members.
LEMMA RemoveAllMembersStep ==
  ASSUME IInv, NEW z \in Zones, RemoveAllMembers(z)
  PROVE  IInv'
<1> USE DEF IInv
<1> DEFINE m == [op |-> "Clear", from |-> z]
<1>1. /\ Spends("changes") /\ Races(z, Characters) /\ Send(z, m)
      /\ cache[z] # NoDz
      /\ db' = IF db = NoDz THEN db ELSE [db EXCEPT !.members = {}]
      /\ cache' = [cache EXCEPT ![z].members = {}]
      /\ UNCHANGED <<world, running, linked, down, expired>>
  BY DEF RemoveAllMembers
<1>2. m \in Heard
  BY DEF Heard, Passed
<1>3. up' \in [Zones -> Seq(Heard)]
  BY <1>1, <1>2, SendFits
<1>4. db' \in Copies \union {NoDz} /\ NoMembers'
  BY <1>1 DEF TypeOK, Copies, NoMembers
<1>5. cache' \in [Zones -> Copies \union {NoDz}]
  <2>1. cache[z] \in Copies
    BY <1>1 DEF TypeOK
  <2>2. [cache[z] EXCEPT !.members = {}] \in Copies
    BY <2>1 DEF Copies
  <2> QED
    BY <1>1, <2>2 DEF TypeOK
<1>6. TypeOK'
  BY <1>1, <1>3, <1>4, <1>5, SpendsFits, RacesFits DEF TypeOK
<1>7. BeforeCreation'
  BY <1>1, SpendsFits DEF BeforeCreation
<1>8. Keeps
  BY <1>1, <1>4, RacesFits DEF Keeps
<1>9. ClearsFit' /\ (AllLate => AllLate')
  BY <1>1, <1>2, <1>4, <1>8, ClearSaid
<1>10. Leaderless' => Leaderless
  BY <1>1, RacesFits DEF Leaderless
<1>11. LeaderlessFits'
  BY <1>1, <1>8, <1>9, <1>10, LeaderlessStays
<1> QED
  BY <1>6, <1>7, <1>9, <1>11

\* A zone asks for another leader.
LEMMA DzMakeLeaderStep ==
  ASSUME IInv, NEW z \in Zones, NEW c \in Characters, DzMakeLeader(z, c)
  PROVE  IInv'
<1> USE DEF IInv
<1> DEFINE m == [op |-> "Make", by |-> cache[z].leader, who |-> c]
<1>1. /\ Spends("changes") /\ Send(z, m) /\ cache[z] # NoDz
      /\ UNCHANGED <<db, world, cache, running, linked, down, expired, past>>
  BY DEF DzMakeLeader
<1>2. m \in Heard
  <2>1. cache[z] \in Copies
    BY <1>1 DEF TypeOK
  <2> QED
    BY <2>1 DEF Heard, Copies
<1>3. up' \in [Zones -> Seq(Heard)]
  BY <1>1, <1>2, SendFits
<1>4. TypeOK'
  BY <1>1, <1>3, SpendsFits DEF TypeOK
<1>5. BeforeCreation'
  BY <1>1, SpendsFits DEF BeforeCreation
<1>6. Keeps
  BY <1>1 DEF Keeps, NoMembers
<1>7. ClearsFit' /\ (NoMembers /\ AllLate => AllLate')
  BY <1>1, <1>2, <1>6, SaysFits
<1>8. LeaderlessFits'
  BY <1>1, <1>6, <1>7, LeaderlessStays DEF Leaderless
<1> QED
  BY <1>4, <1>5, <1>7, <1>8

\* The leader and what world will hear stay: so does their fitness.
LEMMA QuietFits ==
  ASSUME ClearsFit, LeaderlessFits, UNCHANGED <<db, world, up>>,
         past'.raced = past.raced, past'.forgotten = past.forgotten
  PROVE  ClearsFit' /\ LeaderlessFits'
<1>1. Keeps
  BY DEF Keeps, NoMembers
<1>2. ClearsFit' /\ (AllLate => AllLate')
  BY <1>1, SilentFits
<1> QED
  BY <1>1, <1>2, LeaderlessStays DEF Leaderless

\* A zone handles a message of world.
LEMMA HandleWorldMessageStep ==
  ASSUME IInv, NEW z \in Zones, HandleWorldMessage(z)
  PROVE  IInv'
<1> USE DEF IInv
<1> DEFINE m == Head(down[z])
<1>1. /\ down[z] # <<>> /\ down' = [down EXCEPT ![z] = Tail(@)]
      /\ cache' = IF Ignores(z, m) THEN cache
                  ELSE [cache EXCEPT ![z] = Handled(@, m)]
      /\ UNCHANGED <<db, world, running, linked, up, expired, budget, past>>
  BY DEF HandleWorldMessage
<1>2. m \in Said /\ Tail(down[z]) \in Seq(Said)
  BY <1>1, Queued
<1>3. ASSUME ~Ignores(z, m) PROVE Handled(cache[z], m) \in Copies \union {NoDz}
  <2>1. /\ m.op = "Created" => m.copy \in Copies
        /\ m.op = "Change" => m.out \subseteq Characters /\ m.in \subseteq Characters
        /\ m.op = "Leader" => m.who \in Characters
        /\ m.op \in {"Created", "Change", "Clear", "Leader", "Deleted"}
    BY <1>2, Kinds
  <2>2. CASE m.op \in {"Created", "Deleted"}
    BY <2>1, <2>2 DEF Handled
  <2>3. CASE m.op \in {"Change", "Clear", "Leader"}
    <3>1. cache[z] \in Copies
      BY <1>3, <2>3 DEF Ignores, TypeOK
    <3>2. CASE m.op = "Change"
      BY <2>1, <3>1, <3>2 DEF Handled, Copies
    <3>3. CASE m.op = "Clear"
      BY <2>1, <3>1, <3>3 DEF Handled, Copies
    <3>4. CASE m.op = "Leader"
      BY <2>1, <3>1, <3>4 DEF Handled, Copies
    <3> QED
      BY <2>3, <3>2, <3>3, <3>4
  <2> QED
    BY <2>1, <2>2, <2>3
<1>4. TypeOK'
  <2>1. cache' \in [Zones -> Copies \union {NoDz}]
    BY <1>1, <1>3 DEF TypeOK
  <2>2. down' \in [Zones -> Seq(Said)]
    BY <1>1, <1>2 DEF TypeOK
  <2> QED
    BY <1>1, <2>1, <2>2 DEF TypeOK
<1>5. BeforeCreation'
  BY <1>1 DEF BeforeCreation
<1> QED
  BY <1>1, <1>4, <1>5, QuietFits

\* A zone boots.
LEMMA BootStep ==
  ASSUME IInv, NEW z \in Zones, Boot(z)
  PROVE  IInv'
<1> USE DEF IInv
<1>1. TypeOK'
  BY DEF TypeOK, Boot
<1>2. BeforeCreation'
  BY DEF TypeOK, BeforeCreation, Boot
<1>3. /\ past'.raced = past.raced /\ past'.forgotten = past.forgotten
      /\ UNCHANGED <<db, world, up>>
  BY DEF TypeOK, Boot
<1> QED
  BY <1>1, <1>2, <1>3, QuietFits

\* A zone goes.
LEMMA ShutdownStep ==
  ASSUME IInv, NEW z \in Zones, Shutdown(z)
  PROVE  IInv'
<1> USE DEF IInv
<1>1. Spends("incidents")
  BY DEF Shutdown
<1>2. TypeOK'
  BY <1>1, SpendsFits DEF TypeOK, Shutdown
<1>3. BeforeCreation'
  BY <1>1, SpendsFits DEF TypeOK, BeforeCreation, Shutdown
<1> QED
  BY <1>2, <1>3, QuietFits DEF Shutdown

-----------------------------------------------------------------------------
(* World.                                                                  *)

\* Who is chosen is a member, or world knows that it owes a leader: unless the
\* leader was a member and nobody else is there.
LEMMA ChooseNewLeaderFits ==
  ASSUME NEW dz \in WorldCopies, NEW new \in ChooseNewLeader(dz)
  PROVE  /\ new \in WorldCopies /\ new.members = dz.members
         /\ new.needed \/ new.leader \in new.members
<1> DEFINE others == dz.members \ {dz.leader}
<1>1. dz.members \subseteq Characters /\ dz.leader \in Characters
  BY DEF WorldCopies
<1>2. CASE dz.members = {} \/ ~dz.ready
  <2>1. new = [dz EXCEPT !.needed = TRUE]
    BY <1>2 DEF ChooseNewLeader
  <2> QED
    BY <2>1 DEF WorldCopies
<1>3. CASE ~(dz.members = {} \/ ~dz.ready) /\ others = {}
  <2>1. new = [dz EXCEPT !.ready = FALSE] /\ dz.leader \in dz.members
    BY <1>3 DEF ChooseNewLeader
  <2> QED
    BY <2>1 DEF WorldCopies
<1>4. CASE ~(dz.members = {} \/ ~dz.ready) /\ others # {}
  <2>1. PICK c \in others :
          new = [dz EXCEPT !.ready = FALSE, !.needed = FALSE, !.leader = c]
    BY <1>4 DEF ChooseNewLeader
  <2> QED
    BY <1>1, <2>1 DEF WorldCopies
<1> QED
  BY <1>2, <1>3, <1>4

\* World sets the leader and tells the zones.
LEMMA SetNewLeaderFits ==
  ASSUME TypeOK, NEW dz \in WorldCopies, NEW message \in Seq(Passed),
         SetNewLeader(dz, message)
  PROVE  /\ world' = dz
         /\ down' \in [Zones -> Seq(Said)]
         /\ db' \in Copies \union {NoDz}
         /\ past' \in [raced : SUBSET Characters, missed : SUBSET Zones,
                       swapped : BOOLEAN, forgotten : BOOLEAN]
         /\ Keeps
<1> DEFINE told == <<[op |-> "Leader", who |-> dz.leader]>>
<1>1. /\ world' = dz /\ Broadcast(told \o message)
      /\ db' = IF db = NoDz THEN db ELSE [db EXCEPT !.leader = dz.leader]
      /\ past' = [past EXCEPT !.forgotten = FALSE,
                    !.swapped = \E i \in DOMAIN message : message[i].in # {}]
  BY DEF SetNewLeader
<1>2. dz.leader \in Characters
  BY DEF WorldCopies
<1>3. told \in Seq(Said)
  <2>1. [op |-> "Leader", who |-> dz.leader] \in Said
    BY <1>2 DEF Said
  <2> QED
    BY <2>1
<1>4. message \in Seq(Said)
  BY DEF Said
<1>5. told \o message \in Seq(Said)
  BY <1>3, <1>4
<1>6. down' \in [Zones -> Seq(Said)]
  BY <1>1, <1>5, BroadcastFits
<1>7. db' \in Copies \union {NoDz}
      /\ (db # NoDz => db'.members = db.members)
      /\ (db = NoDz => db' = db)
  BY <1>1, <1>2 DEF TypeOK, Copies
<1>8. /\ past' \in [raced : SUBSET Characters, missed : SUBSET Zones,
                    swapped : BOOLEAN, forgotten : BOOLEAN]
      /\ past'.raced = past.raced
  BY <1>1 DEF TypeOK
<1>9. Keeps
  BY <1>7, <1>8 DEF Keeps, NoMembers
<1> QED
  BY <1>1, <1>6, <1>7, <1>8, <1>9

\* World changes its copy.
LEMMA BecomesFits ==
  ASSUME TypeOK, NEW dz \in WorldCopies, NEW message \in Seq(Passed),
         Becomes(dz, message)
  PROVE  /\ world' = dz
         /\ down' \in [Zones -> Seq(Said)]
         /\ db' \in Copies \union {NoDz}
         /\ past' \in [raced : SUBSET Characters, missed : SUBSET Zones,
                       swapped : BOOLEAN, forgotten : BOOLEAN]
         /\ Keeps
         /\ dz.leader = world.leader => past' = past
<1>1. CASE dz.leader # world.leader
  BY <1>1, SetNewLeaderFits DEF Becomes
<1>2. CASE dz.leader = world.leader
  <2>1. world' = dz /\ Broadcast(message) /\ UNCHANGED <<db, past>>
    BY <1>2 DEF Becomes
  <2>2. message \in Seq(Said)
    BY DEF Said
  <2> QED
    BY <2>1, <2>2, BroadcastFits DEF TypeOK, Keeps, NoMembers
<1> QED
  BY <1>1, <1>2

\* World hears of a new expedition.
LEMMA CacheNewStep ==
  ASSUME IInv, NEW z \in Zones, CacheNew(z)
  PROVE  IInv'
<1> USE DEF IInv
<1> DEFINE m == Head(up[z])
<1>1. /\ Hears(z, "Created") /\ Broadcast(<<m>>) /\ UNCHANGED <<db, past>>
      /\ world' = IF world # NoDz THEN world
                  ELSE [members |-> m.copy.members, leader |-> m.copy.leader,
                        needed |-> FALSE, ready |-> FALSE]
  BY DEF CacheNew
<1>2. /\ up[z] # <<>> /\ m.op = "Created" /\ up' = [up EXCEPT ![z] = Tail(@)]
      /\ UNCHANGED <<cache, running, linked, expired, budget>>
  BY <1>1 DEF Hears
<1>3. /\ m \in Passed /\ m.copy \in Copies /\ m.copy.leader \in m.copy.members
      /\ Tail(up[z]) \in Seq(Heard)
  BY <1>2, Queued, Kinds
<1>4. down' \in [Zones -> Seq(Said)]
  <2>1. <<m>> \in Seq(Said)
    BY <1>3 DEF Said
  <2> QED
    BY <1>1, <2>1, BroadcastFits
<1>5. TypeOK'
  BY <1>1, <1>2, <1>3, <1>4 DEF TypeOK, Copies, WorldCopies
<1>6. BeforeCreation'
  BY <1>2 DEF BeforeCreation
<1>7. Keeps
  BY <1>1 DEF Keeps, NoMembers
<1>8. ClearsFit' /\ (AllLate => AllLate')
  BY <1>1, <1>7, HearsFits
<1>9. LeaderlessFits'
  <2>1. CASE world # NoDz
    BY <1>1, <1>7, <1>8, <2>1, LeaderlessStays DEF Leaderless
  <2>2. CASE world = NoDz
    BY <1>1, <1>3, <2>2 DEF LeaderlessFits, Leaderless
  <2> QED
    BY <2>1, <2>2
<1> QED
  BY <1>5, <1>6, <1>8, <1>9

\* World hears of a change.
LEMMA ChangeHeardStep ==
  ASSUME IInv, NEW z \in Zones, Change(z)
  PROVE  IInv'
<1> USE DEF IInv
<1> DEFINE m  == Head(up[z])
           dz == [world EXCEPT !.members = (@ \union m.in) \ m.out]
<1>1. Hears(z, "Change")
  BY DEF Change
<1>2. /\ up[z] # <<>> /\ m.op = "Change" /\ up' = [up EXCEPT ![z] = Tail(@)]
      /\ UNCHANGED <<cache, running, linked, expired, budget>>
  BY <1>1 DEF Hears
<1>3. /\ m \in Passed /\ m.out \subseteq Characters /\ m.in \subseteq Characters
      /\ Tail(up[z]) \in Seq(Heard)
  BY <1>2, Queued, Kinds
<1>4. <<m>> \in Seq(Passed) /\ <<m>> \in Seq(Said)
  BY <1>3 DEF Said
<1>5. BeforeCreation'
  BY <1>2 DEF BeforeCreation
<1>6. CASE world = NoDz
  <2>1. Broadcast(<<m>>) /\ UNCHANGED <<world, db, past>>
    BY <1>6 DEF Change
  <2>2. down' \in [Zones -> Seq(Said)]
    BY <1>4, <2>1, BroadcastFits
  <2>3. TypeOK'
    BY <1>2, <1>3, <2>1, <2>2 DEF TypeOK
  <2>4. Keeps
    BY <2>1 DEF Keeps, NoMembers
  <2>5. ClearsFit'
    BY <1>1, <2>4, HearsFits
  <2>6. LeaderlessFits'
    BY <1>6, <2>1 DEF LeaderlessFits, Leaderless
  <2> QED
    BY <1>5, <2>3, <2>5, <2>6
<1>7. CASE world # NoDz
  <2>1. PICK new \in IF world.leader \in m.out THEN ChooseNewLeader(dz) ELSE {dz} :
          Becomes(new, <<m>>)
    BY <1>7 DEF Change
  <2>2. world \in WorldCopies
    BY <1>7 DEF TypeOK, WorldCopies
  <2>3. /\ dz \in WorldCopies /\ dz.leader = world.leader /\ dz.needed = world.needed
        /\ dz.members = (world.members \union m.in) \ m.out
    BY <1>3, <2>2 DEF WorldCopies
  <2>4. new \in WorldCopies
    BY <2>1, <2>3, ChooseNewLeaderFits
  <2>5. /\ world' = new /\ Keeps /\ (new.leader = world.leader => past' = past)
        /\ down' \in [Zones -> Seq(Said)] /\ db' \in Copies \union {NoDz}
        /\ past' \in [raced : SUBSET Characters, missed : SUBSET Zones,
                      swapped : BOOLEAN, forgotten : BOOLEAN]
    BY <1>4, <2>1, <2>4, BecomesFits
  <2>6. TypeOK'
    BY <1>2, <1>3, <2>4, <2>5 DEF TypeOK, WorldCopies
  <2>7. ClearsFit' /\ (AllLate => AllLate')
    BY <1>1, <2>5, HearsFits
  <2>8. LeaderlessFits'
    <3>1. CASE world.leader \in m.out
      <4>1. new.needed \/ new.leader \in new.members
        BY <2>1, <2>3, <3>1, ChooseNewLeaderFits
      <4> QED
        BY <2>5, <4>1 DEF LeaderlessFits, Leaderless
    <3>2. CASE world.leader \notin m.out
      <4>1. new = dz /\ past' = past
        BY <2>1, <2>3, <2>5, <3>2
      <4>2. ASSUME Leaderless'
            PROVE  NoMembers' /\ world'.members \subseteq past'.raced /\ AllLate'
        <5>1. Leaderless
          BY <1>7, <2>3, <2>5, <3>2, <4>1, <4>2 DEF Leaderless
        <5>2. NoMembers /\ world.members \subseteq past.raced /\ AllLate
          BY <5>1 DEF LeaderlessFits
        <5>3. m.in \subseteq past.raced
          <6>1. 1 \in DOMAIN up[z] /\ up[z][1] = m
            BY <1>2, Queued, TailAt
          <6> QED
            BY <1>2, <5>2, <6>1 DEF AllLate, Late
        <5>4. world'.members \subseteq past'.raced
          BY <2>3, <2>5, <4>1, <5>2, <5>3
        <5> QED
          BY <2>5, <2>7, <5>2, <5>4 DEF Keeps
      <4> QED
        BY <4>2 DEF LeaderlessFits
    <3> QED
      BY <3>1, <3>2
  <2> QED
    BY <1>5, <2>6, <2>7, <2>8
<1> QED
  BY <1>6, <1>7

\* World hears that all members are removed.
LEMMA ClearHeardStep ==
  ASSUME IInv, NEW z \in Zones, Clear(z)
  PROVE  IInv'
<1> USE DEF IInv
<1> DEFINE m == Head(up[z])
<1>1. /\ Hears(z, "Clear") /\ Broadcast(<<m>>) /\ UNCHANGED <<db, past>>
      /\ world' = IF world = NoDz THEN world ELSE [world EXCEPT !.members = {}]
  BY DEF Clear
<1>2. /\ up[z] # <<>> /\ m.op = "Clear" /\ up' = [up EXCEPT ![z] = Tail(@)]
      /\ UNCHANGED <<cache, running, linked, expired, budget>>
  BY <1>1 DEF Hears
<1>3. m \in Passed /\ Tail(up[z]) \in Seq(Heard)
  BY <1>2, Queued, Kinds
<1>4. down' \in [Zones -> Seq(Said)]
  <2>1. <<m>> \in Seq(Said)
    BY <1>3 DEF Said
  <2> QED
    BY <1>1, <2>1, BroadcastFits
<1>5. TypeOK'
  BY <1>1, <1>2, <1>3, <1>4 DEF TypeOK, WorldCopies
<1>6. BeforeCreation'
  BY <1>2 DEF BeforeCreation
<1>7. Keeps
  BY <1>1 DEF Keeps, NoMembers
<1>8. ClearsFit' /\ NoMembers /\ AllLate'
  BY <1>1, <1>7, HearsFits
<1>9. LeaderlessFits'
  <2>1. CASE world = NoDz
    BY <1>1, <2>1 DEF LeaderlessFits, Leaderless
  <2>2. CASE world # NoDz
    <3>1. world'.members = {}
      BY <1>1, <2>2 DEF TypeOK
    <3> QED
      BY <1>7, <1>8, <3>1 DEF LeaderlessFits, Keeps
  <2> QED
    BY <2>1, <2>2
<1> QED
  BY <1>5, <1>6, <1>8, <1>9

\* World hears that the leader wants another.
LEMMA MakeLeaderStep ==
  ASSUME IInv, NEW z \in Zones, MakeLeader(z)
  PROVE  IInv'
<1> USE DEF IInv
<1> DEFINE m == Head(up[z])
<1>1. Hears(z, "Make")
  BY DEF MakeLeader
<1>2. /\ up[z] # <<>> /\ m.op = "Make" /\ up' = [up EXCEPT ![z] = Tail(@)]
      /\ UNCHANGED <<cache, running, linked, expired, budget>>
  BY <1>1 DEF Hears
<1>3. m.who \in Characters /\ up' \in [Zones -> Seq(Heard)]
  BY <1>2, Queued, Kinds DEF TypeOK
<1>4. BeforeCreation'
  BY <1>2 DEF BeforeCreation
<1>5. CASE UNCHANGED <<world, db, down, past>>
  <2>1. Keeps
    BY <1>5 DEF Keeps, NoMembers
  <2>2. ClearsFit' /\ (AllLate => AllLate')
    BY <1>1, <2>1, HearsFits
  <2>3. TypeOK'
    BY <1>2, <1>3, <1>5 DEF TypeOK
  <2> QED
    BY <1>4, <1>5, <2>1, <2>2, <2>3, LeaderlessStays DEF Leaderless
<1>6. CASE ~UNCHANGED <<world, db, down, past>>
  <2> DEFINE dz == [world EXCEPT !.leader = m.who]
  <2>1. /\ world # NoDz /\ m.who \in world.members
        /\ SetNewLeader(dz, <<>>)
    BY <1>6 DEF MakeLeader
  <2>2. dz \in WorldCopies /\ dz.leader = m.who /\ dz.members = world.members
    BY <1>3, <2>1 DEF TypeOK, WorldCopies
  <2>3. /\ world' = dz /\ down' \in [Zones -> Seq(Said)]
        /\ db' \in Copies \union {NoDz}
        /\ past' \in [raced : SUBSET Characters, missed : SUBSET Zones,
                      swapped : BOOLEAN, forgotten : BOOLEAN]
        /\ Keeps
    <3>1. <<>> \in Seq(Passed)
      OBVIOUS
    <3> QED
      BY <2>1, <2>2, <3>1, SetNewLeaderFits
  <2>4. TypeOK'
    BY <1>2, <1>3, <2>2, <2>3 DEF TypeOK, WorldCopies
  <2>5. ClearsFit'
    BY <1>1, <2>3, HearsFits
  <2>6. LeaderlessFits'
    BY <2>1, <2>2, <2>3 DEF LeaderlessFits, Leaderless
  <2> QED
    BY <1>4, <2>4, <2>5, <2>6
<1> QED
  BY <1>5, <1>6

\* World looks for a leader, whatever made it do so.
LEMMA ChooseStep ==
  ASSUME IInv, world # NoDz, NEW new \in ChooseNewLeader(world),
         Becomes(new, <<>>), UNCHANGED <<cache, running, linked, up, expired>>,
         budget' \in [creations : 0..1, changes : 0..MaxChanges,
                      incidents : 0..MaxIncidents],
         budget'.creations > 0 => budget.creations > 0
  PROVE  IInv'
<1> USE DEF IInv
<1>1. world \in WorldCopies
  BY DEF TypeOK, WorldCopies
<1>2. new \in WorldCopies /\ (new.needed \/ new.leader \in new.members)
  BY <1>1, ChooseNewLeaderFits
<1>3. /\ world' = new /\ Keeps
      /\ down' \in [Zones -> Seq(Said)] /\ db' \in Copies \union {NoDz}
      /\ past' \in [raced : SUBSET Characters, missed : SUBSET Zones,
                    swapped : BOOLEAN, forgotten : BOOLEAN]
  <2>1. <<>> \in Seq(Passed)
    OBVIOUS
  <2> QED
    BY <1>2, <2>1, BecomesFits
<1>4. TypeOK'
  BY <1>2, <1>3 DEF TypeOK, WorldCopies
<1>5. BeforeCreation'
  BY DEF BeforeCreation
<1>6. ClearsFit'
  BY <1>3, SilentFits
<1>7. LeaderlessFits'
  BY <1>2, <1>3 DEF LeaderlessFits, Leaderless
<1> QED
  BY <1>4, <1>5, <1>6, <1>7

\* World looks for a leader when a status changes or one is owed.
LEMMA LookStep ==
  ASSUME IInv, StatusChange \/ CheckLeader
  PROVE  IInv'
<1> USE DEF IInv
<1>1. CASE StatusChange
  <2>1. PICK new \in ChooseNewLeader(world) : Becomes(new, <<>>)
    BY <1>1 DEF StatusChange
  <2> QED
    BY <1>1, <2>1, SpendsFits, ChooseStep DEF StatusChange
<1>2. CASE CheckLeader
  <2>1. PICK new \in ChooseNewLeader(world) : Becomes(new, <<>>)
    BY <1>2 DEF CheckLeader
  <2>2. budget \in [creations : 0..1, changes : 0..MaxChanges,
                    incidents : 0..MaxIncidents]
    BY DEF TypeOK
  <2> QED
    BY <1>2, <2>1, <2>2, ChooseStep DEF CheckLeader
<1> QED
  BY <1>1, <1>2

\* World deletes an expedition.
LEMMA DeleteStep ==
  ASSUME IInv, Delete
  PROVE  IInv'
<1> USE DEF IInv
<1>1. /\ world' = NoDz /\ db' = NoDz /\ world # NoDz
      /\ Broadcast(<<[op |-> "Deleted"]>>)
      /\ UNCHANGED <<cache, running, linked, up, expired, budget, past>>
  BY DEF Delete
<1>2. down' \in [Zones -> Seq(Said)]
  <2>1. [op |-> "Deleted"] \in Said
    BY DEF Said
  <2>2. <<[op |-> "Deleted"]>> \in Seq(Said)
    BY <2>1
  <2> QED
    BY <1>1, <2>2, BroadcastFits
<1>3. TypeOK'
  BY <1>1, <1>2 DEF TypeOK
<1>4. BeforeCreation'
  BY <1>1 DEF BeforeCreation
<1>5. ClearsFit'
  BY <1>1, SilentFits DEF Keeps, NoMembers
<1>6. LeaderlessFits'
  BY <1>1 DEF LeaderlessFits, Leaderless
<1> QED
  BY <1>3, <1>4, <1>5, <1>6

\* The cooldown ends, or the time of the expedition.
LEMMA TimeStep ==
  ASSUME IInv, CooldownEnds \/ Expire
  PROVE  IInv'
<1> USE DEF IInv
<1>1. CASE CooldownEnds
  <2>1. /\ world # NoDz /\ world' = [world EXCEPT !.ready = TRUE]
        /\ UNCHANGED <<db, cache, running, linked, up, down, expired, budget, past>>
    BY <1>1 DEF CooldownEnds
  <2>2. /\ TypeOK' /\ world'.members = world.members
        /\ world'.leader = world.leader /\ world'.needed = world.needed
    BY <2>1 DEF TypeOK, WorldCopies
  <2>3. BeforeCreation'
    BY <2>1 DEF BeforeCreation
  <2>4. Keeps
    BY <2>1 DEF Keeps, NoMembers
  <2>5. ClearsFit' /\ (AllLate => AllLate')
    BY <2>1, <2>4, SilentFits
  <2>6. LeaderlessFits'
    BY <2>1, <2>2, <2>4, <2>5 DEF LeaderlessFits, Leaderless, Keeps
  <2> QED
    BY <2>2, <2>3, <2>5, <2>6
<1>2. CASE Expire
  <2>1. Spends("incidents")
    BY <1>2 DEF Expire
  <2>2. TypeOK'
    BY <1>2, <2>1, SpendsFits DEF TypeOK, Expire
  <2>3. BeforeCreation'
    BY <1>2, <2>1, SpendsFits DEF BeforeCreation, Expire
  <2> QED
    BY <1>2, <2>2, <2>3, QuietFits DEF Expire
<1> QED
  BY <1>1, <1>2

-----------------------------------------------------------------------------
(* Links.                                                                  *)

\* A link fails.
LEMMA LinkLostStep ==
  ASSUME IInv, NEW z \in Zones, LinkLost(z)
  PROVE  IInv'
<1> USE DEF IInv
<1>1. /\ Spends("incidents") /\ linked' = linked \ {z}
      /\ up' = [up EXCEPT ![z] = <<>>] /\ down' = [down EXCEPT ![z] = <<>>]
      /\ past' = [past EXCEPT !.raced = @ \union AllTouched(up[z]),
                              !.missed = @ \union {z}]
      /\ UNCHANGED <<db, world, cache, running, expired>>
  BY DEF LinkLost
<1>2. AllTouched(up[z]) \subseteq Characters
  <2>1. ASSUME NEW i \in DOMAIN up[z] PROVE Touched(up[z][i]) \subseteq Characters
    <3>1. up[z][i] \in Heard
      BY Queued
    <3> QED
      BY <3>1, Kinds DEF Touched
  <2> QED
    BY <2>1 DEF AllTouched
<1>3. /\ past' \in [raced : SUBSET Characters, missed : SUBSET Zones,
                    swapped : BOOLEAN, forgotten : BOOLEAN]
      /\ past.raced \subseteq past'.raced /\ past'.forgotten = past.forgotten
  BY <1>1, <1>2 DEF TypeOK
<1>4. TypeOK'
  BY <1>1, <1>3, SpendsFits DEF TypeOK
<1>5. BeforeCreation'
  BY <1>1, SpendsFits DEF TypeOK, BeforeCreation
<1>6. \A y \in Zones : \A i \in DOMAIN up'[y] : y # z /\ up'[y] = up[y]
  BY <1>1 DEF TypeOK
<1>7. ClearsFit'
  BY <1>1, <1>3, <1>6 DEF ClearsFit, Late, NoMembers
<1>8. AllLate => AllLate'
  BY <1>3, <1>6 DEF AllLate, Late
<1>9. LeaderlessFits'
  BY <1>1, <1>3, <1>8, LeaderlessStays DEF Leaderless, Keeps, NoMembers
<1> QED
  BY <1>4, <1>5, <1>7, <1>9

\* A link is there again.
LEMMA ReconnectStep ==
  ASSUME IInv, NEW z \in Zones, Reconnect(z)
  PROVE  IInv'
<1> USE DEF IInv
<1>1. TypeOK'
  BY DEF TypeOK, Reconnect
<1>2. BeforeCreation'
  BY DEF BeforeCreation, Reconnect
<1> QED
  BY <1>1, <1>2, QuietFits DEF Reconnect

\* World restarts.
LEMMA WorldRestartStep ==
  ASSUME IInv, WorldRestart
  PROVE  IInv'
<1> USE DEF IInv
<1> DEFINE stays == db # NoDz /\ ~expired /\ db.members # {}
<1>1. /\ Spends("incidents") /\ linked' = {}
      /\ db' = IF stays THEN db ELSE NoDz
      /\ world' = IF stays
                  THEN [members |-> db.members, leader |-> db.leader,
                        needed |-> FALSE, ready |-> FALSE]
                  ELSE NoDz
      /\ past' = [raced |-> {}, missed |-> Zones, swapped |-> FALSE,
                  forgotten |-> stays /\ db.leader \notin db.members]
      /\ up' = [y \in Zones |-> <<>>] /\ down' = [y \in Zones |-> <<>>]
      /\ UNCHANGED <<cache, running, expired>>
  BY DEF WorldRestart
<1>2. TypeOK'
  <2>1. world' \in WorldCopies \union {NoDz}
    BY <1>1 DEF TypeOK, Copies, WorldCopies
  <2>2. past' \in [raced : SUBSET Characters, missed : SUBSET Zones,
                   swapped : BOOLEAN, forgotten : BOOLEAN]
    BY <1>1
  <2> QED
    BY <1>1, <2>1, <2>2, SpendsFits DEF TypeOK, WorldCopies
<1>3. BeforeCreation'
  BY <1>1, SpendsFits DEF BeforeCreation
<1>4. ClearsFit'
  BY <1>1 DEF ClearsFit
<1>5. LeaderlessFits'
  BY <1>1 DEF LeaderlessFits, Leaderless
<1> QED
  BY <1>2, <1>3, <1>4, <1>5

-----------------------------------------------------------------------------
(* The invariant.                                                          *)

\* The invariant holds at first.
LEMMA InitInv == Init => IInv
<1> SUFFICES ASSUME Init PROVE IInv
  OBVIOUS
<1>1. TypeOK
  <2>1. budget \in [creations : 0..1, changes : 0..MaxChanges,
                   incidents : 0..MaxIncidents]
    BY DynamicZonesAssumption DEF Init
  <2>2. up \in [Zones -> Seq(Heard)] /\ down \in [Zones -> Seq(Said)]
    BY DEF Init
  <2> QED
    BY <2>1, <2>2 DEF Init, TypeOK
<1>2. BeforeCreation /\ ClearsFit /\ LeaderlessFits
  BY DEF Init, BeforeCreation, ClearsFit, LeaderlessFits, Leaderless
<1> QED
  BY <1>1, <1>2 DEF IInv

\* Every step keeps it.
LEMMA NextInv == IInv /\ [Next]_vars => IInv'
<1> SUFFICES ASSUME IInv, [Next]_vars PROVE IInv'
  OBVIOUS
<1>1. ASSUME NEW z \in Zones, NEW c \in Characters, AddMember(z, c) PROVE IInv'
  BY <1>1, ChangeStep DEF AddMember, NoMembers
<1>2. ASSUME NEW z \in Zones, NEW c \in Characters, RemoveMember(z, c) PROVE IInv'
  BY <1>2, ChangeStep DEF RemoveMember
<1>3. ASSUME NEW z \in Zones, NEW c \in Characters, NEW d \in Characters,
             SwapMember(z, c, d)
      PROVE  IInv'
  BY <1>3, ChangeStep DEF SwapMember, NoMembers
<1>4. ASSUME NEW z \in Zones, \E c \in Characters : DzMakeLeader(z, c) PROVE IInv'
  BY <1>4, DzMakeLeaderStep
<1>5. ASSUME NEW z \in Zones,
             \/ TryCreate(z) \/ RemoveAllMembers(z) \/ HandleWorldMessage(z)
             \/ Boot(z) \/ Shutdown(z)
      PROVE  IInv'
  BY <1>5, TryCreateStep, RemoveAllMembersStep, HandleWorldMessageStep, BootStep,
     ShutdownStep
<1>6. ASSUME NEW z \in Zones,
             \/ CacheNew(z) \/ Change(z) \/ Clear(z) \/ MakeLeader(z)
      PROVE  IInv'
  BY <1>6, CacheNewStep, ChangeHeardStep, ClearHeardStep, MakeLeaderStep
<1>7. ASSUME NEW z \in Zones, LinkLost(z) \/ Reconnect(z) PROVE IInv'
  BY <1>7, LinkLostStep, ReconnectStep
<1>8. CASE \/ StatusChange \/ CheckLeader \/ Delete \/ CooldownEnds \/ Expire
           \/ WorldRestart
  BY <1>8, LookStep, DeleteStep, TimeStep, WorldRestartStep
<1>9. CASE UNCHANGED vars
  BY <1>9 DEF vars, IInv, TypeOK, BeforeCreation, ClearsFit, LeaderlessFits,
     Leaderless, AllLate, Late, NoMembers
<1> QED
  BY <1>1, <1>2, <1>3, <1>4, <1>5, <1>6, <1>7, <1>8, <1>9 DEF Next

\* The invariant says of the leader what LeaderIsMember does, and how the
\* exemption comes about.
LEMMA IInvLeader == IInv => LeaderIsMember
  BY DEF IInv, LeaderlessFits, Leaderless, LeaderIsMember

\* The invariant holds always.
LEMMA Invariance == Spec => []IInv
  BY InitInv, NextInv, PTL DEF Spec

\* The variables range over the values they should, and an expedition that is
\* announced has a leader among its members, for any zones and characters.
THEOREM DynamicZonesTypeOK == Spec => []TypeOK
<1>1. IInv => TypeOK
  BY DEF IInv
<1> QED
  BY <1>1, Invariance, PTL

\* World never leaves an expedition without a member for a leader, unless it
\* knows that it owes one, or the exemptions hold: however zones change the
\* members, restart, and lose their links.
THEOREM DynamicZonesLeaderIsMember == Spec => []LeaderIsMember
  BY Invariance, IInvLeader, PTL

-----------------------------------------------------------------------------
(* What a queue says of one character.                                     *)

\* A message of one of the zones of S that may change the membership of c.
Concerns(m, S, c) == c \in Touched(m) /\ m.from \in S

\* Whether c is a member after it.
Puts(m, c) ==
  \/ m.op = "Change" /\ c \in m.in
  \/ m.op = "Created" /\ c \in m.copy.members

\* A queue has a message that concerns c; one that puts c as T has it; the last
\* one does.
Speaks(q, S, c) == \E i \in DOMAIN q : Concerns(q[i], S, c)
PutsAs(m, c, T) == Puts(m, c) <=> c \in T
SomePuts(q, S, c, T) == \E i \in DOMAIN q : Concerns(q[i], S, c) /\ PutsAs(q[i], c, T)
LastPuts(q, S, c, T) ==
  \A i \in DOMAIN q :
    /\ Concerns(q[i], S, c)
    /\ \A j \in DOMAIN q : j > i => ~Concerns(q[j], S, c)
    => PutsAs(q[i], c, T)

\* One more message at the end.
LEMMA SpeaksAppend ==
  ASSUME NEW M, NEW q \in Seq(M), NEW m \in M, NEW S, NEW c, NEW T
  PROVE  LET r == Append(q, m)
         IN  /\ Speaks(r, S, c) <=> Speaks(q, S, c) \/ Concerns(m, S, c)
             /\ SomePuts(q, S, c, T) => SomePuts(r, S, c, T)
             /\ Concerns(m, S, c) /\ PutsAs(m, c, T)
                  => SomePuts(r, S, c, T) /\ LastPuts(r, S, c, T)
             /\ ~Concerns(m, S, c) /\ LastPuts(q, S, c, T) => LastPuts(r, S, c, T)
<1> DEFINE r == Append(q, m)
           n == Len(q)
<1>1. n \in Nat /\ DOMAIN q = 1..n
  OBVIOUS
<1>2. /\ DOMAIN r = 1..(n + 1) /\ r[n + 1] = m
      /\ \A i \in 1..n : r[i] = q[i]
  <2>1. r \in Seq(M) /\ Len(r) = n + 1
    OBVIOUS
  <2> QED
    BY <2>1
<1> HIDE DEF r, n
<1>3. /\ n + 1 \in 1..(n + 1)
      /\ \A i \in 1..n : i \in 1..(n + 1) /\ n + 1 > i
      /\ \A i \in 1..(n + 1) : /\ i = n + 1 \/ i \in 1..n
                              /\ ~(i > n + 1)
  BY <1>1
<1>4. Speaks(r, S, c) <=> Speaks(q, S, c) \/ Concerns(m, S, c)
  BY <1>1, <1>2, <1>3 DEF Speaks
<1>5. SomePuts(q, S, c, T) => SomePuts(r, S, c, T)
  BY <1>1, <1>2, <1>3 DEF SomePuts
<1>6. Concerns(m, S, c) /\ PutsAs(m, c, T)
        => SomePuts(r, S, c, T) /\ LastPuts(r, S, c, T)
  BY <1>1, <1>2, <1>3 DEF SomePuts, LastPuts
<1>7. ASSUME ~Concerns(m, S, c), LastPuts(q, S, c, T)
      PROVE  LastPuts(r, S, c, T)
  BY <1>1, <1>2, <1>3, <1>7 DEF LastPuts
<1> QED
  BY <1>4, <1>5, <1>6, <1>7 DEF r

\* The first message is taken.
LEMMA SpeaksTail ==
  ASSUME NEW M, NEW q \in Seq(M), q # <<>>, NEW S, NEW c, NEW T
  PROVE  /\ Speaks(q, S, c) <=> Concerns(Head(q), S, c) \/ Speaks(Tail(q), S, c)
         /\ SomePuts(q, S, c, T) =>
              \/ SomePuts(Tail(q), S, c, T)
              \/ Concerns(Head(q), S, c) /\ PutsAs(Head(q), c, T)
         /\ LastPuts(q, S, c, T) =>
              /\ LastPuts(Tail(q), S, c, T)
              /\ ~Speaks(Tail(q), S, c) /\ Concerns(Head(q), S, c)
                   => PutsAs(Head(q), c, T)
<1> DEFINE r == Tail(q)
           h == Head(q)
           n == Len(q) - 1
<1>1. n \in Nat /\ DOMAIN q = 1..(n + 1) /\ q[1] = h
  OBVIOUS
<1>2. DOMAIN r = 1..n /\ \A i \in 1..n : r[i] = q[i + 1]
  <2>1. r \in Seq(M) /\ Len(r) = n /\ \A i \in 1..n : r[i] = q[i + 1]
    OBVIOUS
  <2> QED
    BY <2>1
<1> HIDE DEF r, h, n
<1>3. /\ 1 \in 1..(n + 1)
      /\ \A i \in 1..n : i + 1 \in 1..(n + 1) /\ i \in Nat
      /\ \A j \in 1..(n + 1) : j = 1 \/ (j > 1 /\ \E i \in 1..n : j = i + 1)
  <2>1. ASSUME NEW j \in 1..(n + 1), j # 1 PROVE j > 1 /\ \E i \in 1..n : j = i + 1
    <3>1. j - 1 \in 1..n /\ j = (j - 1) + 1
      BY <1>1, <2>1
    <3> QED
      BY <1>1, <2>1, <3>1
  <2> QED
    BY <1>1, <2>1
<1>4. Speaks(q, S, c) <=> Concerns(h, S, c) \/ Speaks(r, S, c)
  BY <1>1, <1>2, <1>3 DEF Speaks
<1>5. SomePuts(q, S, c, T) =>
        \/ SomePuts(r, S, c, T)
        \/ Concerns(h, S, c) /\ PutsAs(h, c, T)
  <2>1. ASSUME NEW j \in DOMAIN q, j # 1 PROVE \E i \in DOMAIN r : q[j] = r[i]
    <3>1. PICK i \in 1..n : j = i + 1
      BY <1>1, <1>3, <2>1
    <3> QED
      BY <1>2, <3>1
  <2> QED
    BY <1>1, <2>1 DEF SomePuts
<1>6. ASSUME LastPuts(q, S, c, T) PROVE LastPuts(r, S, c, T)
  <2> SUFFICES ASSUME NEW i \in 1..n, Concerns(r[i], S, c),
                      \A j \in 1..n : j > i => ~Concerns(r[j], S, c)
               PROVE  PutsAs(r[i], c, T)
    BY <1>2 DEF LastPuts
  <2>1. ASSUME NEW j \in 1..(n + 1), j > i + 1 PROVE ~Concerns(q[j], S, c)
    <3>1. PICK k \in 1..n : j = k + 1
      BY <1>1, <1>3, <2>1
    <3>2. k > i
      BY <1>1, <2>1, <3>1
    <3> QED
      BY <1>2, <3>1, <3>2
  <2>2. i + 1 \in DOMAIN q /\ q[i + 1] = r[i]
    BY <1>1, <1>2, <1>3
  <2>3. \A j \in DOMAIN q : j > i + 1 => ~Concerns(q[j], S, c)
    BY <1>1, <2>1
  <2> QED
    BY <1>6, <2>2, <2>3 DEF LastPuts
<1>7. ASSUME LastPuts(q, S, c, T), ~Speaks(r, S, c), Concerns(h, S, c)
      PROVE  PutsAs(h, c, T)
  <2>1. ASSUME NEW j \in 1..(n + 1), j > 1 PROVE ~Concerns(q[j], S, c)
    <3>1. PICK k \in 1..n : j = k + 1
      BY <1>1, <1>3, <2>1
    <3> QED
      BY <1>2, <1>7, <3>1 DEF Speaks
  <2> QED
    BY <1>1, <1>3, <1>7, <2>1 DEF LastPuts
<1> QED
  BY <1>4, <1>5, <1>6, <1>7 DEF r, h

\* A queue that does not concern c, and one that does.
LEMMA SpeaksEnds ==
  ASSUME NEW M, NEW q \in Seq(M), NEW S, NEW c, NEW T
  PROVE  /\ ~Speaks(q, S, c) => LastPuts(q, S, c, T) /\ ~SomePuts(q, S, c, T)
         /\ Speaks(q, S, c) /\ LastPuts(q, S, c, T) => SomePuts(q, S, c, T)
         /\ SomePuts(q, S, c, T) => Speaks(q, S, c)
<1>1. ASSUME ~Speaks(q, S, c) PROVE LastPuts(q, S, c, T) /\ ~SomePuts(q, S, c, T)
  BY <1>1 DEF Speaks, LastPuts, SomePuts
<1>2. ASSUME Speaks(q, S, c), LastPuts(q, S, c, T) PROVE SomePuts(q, S, c, T)
  <2> DEFINE K == {i \in 1..Len(q) : Concerns(q[i], S, c)}
  <2>1. K \in SUBSET (1..Len(q)) /\ K # {} /\ Len(q) \in Nat
    BY <1>2 DEF Speaks
  <2>2. PICK i \in K : \A j \in K : j <= i
    <3> HIDE DEF K
    <3> QED
      BY <2>1, GreatestIndex
  <2>3. i \in DOMAIN q /\ Concerns(q[i], S, c)
    OBVIOUS
  <2>4. ASSUME NEW j \in DOMAIN q, j > i PROVE ~Concerns(q[j], S, c)
    <3>1. j \in 1..Len(q) /\ ~(j <= i)
      BY <2>4
    <3> QED
      BY <2>2, <3>1
  <2> QED
    BY <1>2, <2>3, <2>4 DEF LastPuts, SomePuts
<1> QED
  BY <1>1, <1>2 DEF SomePuts, Speaks

-----------------------------------------------------------------------------
(* The messages of a queue.                                                *)

Messages(q) == {q[i] : i \in DOMAIN q}
Has(q, op) == \E m \in Messages(q) : m.op = op

\* Nothing but the first tells of a new expedition.
OnlyFirst(q) == \A i \in DOMAIN q : q[i].op = "Created" => i = 1

\* Whatever tells of a new expedition is followed by its end.
Undone(q) ==
  \A i \in DOMAIN q : q[i].op = "Created" =>
    \E j \in DOMAIN q : j > i /\ q[j].op = "Deleted"

\* One more message at the end.
LEMMA MessagesAppend ==
  ASSUME NEW M, NEW q \in Seq(M), NEW m \in M
  PROVE  LET r == Append(q, m)
         IN  /\ Messages(r) = Messages(q) \union {m}
             /\ OnlyFirst(q) /\ m.op # "Created" => OnlyFirst(r)
             /\ m.op = "Deleted" \/ (Undone(q) /\ m.op # "Created") => Undone(r)
<1> DEFINE r == Append(q, m)
           n == Len(q)
<1>1. n \in Nat /\ DOMAIN q = 1..n
  OBVIOUS
<1>2. /\ DOMAIN r = 1..(n + 1) /\ r[n + 1] = m
      /\ \A i \in 1..n : r[i] = q[i]
  <2>1. r \in Seq(M) /\ Len(r) = n + 1
    OBVIOUS
  <2> QED
    BY <2>1
<1> HIDE DEF r, n
<1>3. /\ n + 1 \in 1..(n + 1)
      /\ \A i \in 1..n : i \in 1..(n + 1) /\ n + 1 > i
      /\ \A i \in 1..(n + 1) : i = n + 1 \/ i \in 1..n
  BY <1>1
<1>4. Messages(r) = Messages(q) \union {m}
  BY <1>1, <1>2, <1>3 DEF Messages
<1>5. OnlyFirst(q) /\ m.op # "Created" => OnlyFirst(r)
  BY <1>1, <1>2, <1>3 DEF OnlyFirst
<1>6. ASSUME m.op = "Deleted" PROVE Undone(r)
  BY <1>1, <1>2, <1>3, <1>6 DEF Undone
<1>7. ASSUME Undone(q), m.op # "Created" PROVE Undone(r)
  BY <1>1, <1>2, <1>3, <1>7 DEF Undone
<1> QED
  BY <1>4, <1>5, <1>6, <1>7 DEF r

\* The first message is taken.
LEMMA MessagesTail ==
  ASSUME NEW M, NEW q \in Seq(M), q # <<>>
  PROVE  /\ Messages(q) = Messages(Tail(q)) \union {Head(q)}
         /\ OnlyFirst(q) => ~Has(Tail(q), "Created") /\ OnlyFirst(Tail(q))
         /\ Undone(q) =>
              /\ Undone(Tail(q))
              /\ Head(q).op = "Created" => Has(Tail(q), "Deleted")
<1> DEFINE r == Tail(q)
           h == Head(q)
           n == Len(q) - 1
<1>1. n \in Nat /\ DOMAIN q = 1..(n + 1) /\ q[1] = h
  OBVIOUS
<1>2. DOMAIN r = 1..n /\ \A i \in 1..n : r[i] = q[i + 1]
  <2>1. r \in Seq(M) /\ Len(r) = n /\ \A i \in 1..n : r[i] = q[i + 1]
    OBVIOUS
  <2> QED
    BY <2>1
<1> HIDE DEF r, h, n
<1>3. /\ 1 \in 1..(n + 1)
      /\ \A i \in 1..n : i + 1 \in 1..(n + 1) /\ i \in Nat /\ i + 1 # 1
  BY <1>1
<1>4. ASSUME NEW j \in DOMAIN q, j # 1
      PROVE  \E i \in DOMAIN r : j = i + 1 /\ q[j] = r[i]
  <2>1. j - 1 \in 1..n /\ j = (j - 1) + 1
    BY <1>1, <1>4
  <2> QED
    BY <1>2, <2>1
<1>5. Messages(q) = Messages(r) \union {h}
  <2>1. ASSUME NEW x \in Messages(q) PROVE x \in Messages(r) \union {h}
    BY <1>1, <1>4 DEF Messages
  <2>2. ASSUME NEW i \in DOMAIN r PROVE r[i] \in Messages(q)
    BY <1>1, <1>2, <1>3 DEF Messages
  <2>3. h \in Messages(q)
    BY <1>1, <1>3 DEF Messages
  <2> QED
    BY <2>1, <2>2, <2>3 DEF Messages
<1>6. ASSUME OnlyFirst(q) PROVE ~Has(r, "Created") /\ OnlyFirst(r)
  <2>1. ASSUME NEW i \in DOMAIN r PROVE r[i].op # "Created"
    BY <1>1, <1>2, <1>3, <1>6 DEF OnlyFirst
  <2> QED
    BY <2>1 DEF Has, Messages, OnlyFirst
<1>7. ASSUME Undone(q), NEW i \in DOMAIN q, q[i].op = "Created"
      PROVE  \E j \in DOMAIN r : r[j].op = "Deleted" /\ j + 1 > i
  <2>1. PICK k \in DOMAIN q : k > i /\ q[k].op = "Deleted"
    BY <1>7 DEF Undone
  <2>2. k # 1
    BY <1>1, <2>1
  <2> QED
    BY <1>4, <2>1, <2>2
<1>8. ASSUME Undone(q) PROVE Undone(r)
  <2> SUFFICES ASSUME NEW i \in DOMAIN r, r[i].op = "Created"
               PROVE  \E j \in DOMAIN r : j > i /\ r[j].op = "Deleted"
    BY DEF Undone
  <2>1. i + 1 \in DOMAIN q /\ q[i + 1].op = "Created"
    BY <1>1, <1>2, <1>3
  <2>2. PICK j \in DOMAIN r : r[j].op = "Deleted" /\ j + 1 > i + 1
    BY <1>7, <1>8, <2>1
  <2>3. j > i
    BY <1>2, <2>2
  <2> QED
    BY <2>2, <2>3
<1>9. ASSUME Undone(q), h.op = "Created" PROVE Has(r, "Deleted")
  <2>1. 1 \in DOMAIN q /\ q[1].op = "Created"
    BY <1>1, <1>3, <1>9
  <2>2. PICK j \in DOMAIN r : r[j].op = "Deleted"
    BY <1>7, <1>9, <2>1
  <2> QED
    BY <2>2 DEF Has, Messages
<1> QED
  BY <1>5, <1>6, <1>8, <1>9 DEF r, h

\* Messages are appended.
LEMMA MessagesConcat ==
  ASSUME NEW M, NEW q \in Seq(M), NEW s \in Seq(M)
  PROVE  Messages(q \o s) = Messages(q) \union Messages(s)
<1> DEFINE r == q \o s
<1>1. /\ DOMAIN q = 1..Len(q) /\ DOMAIN s = 1..Len(s)
      /\ Len(q) \in Nat /\ Len(s) \in Nat
  OBVIOUS
<1>2. /\ r \in Seq(M) /\ Len(r) = Len(q) + Len(s)
      /\ \A i \in 1..Len(q) : r[i] = q[i]
      /\ \A i \in 1..Len(s) : r[Len(q) + i] = s[i]
  BY ConcatAt
<1>3. DOMAIN r = 1..(Len(q) + Len(s))
  BY <1>2
<1> HIDE DEF r
<1>4. ASSUME NEW i \in DOMAIN r PROVE r[i] \in Messages(q) \union Messages(s)
  <2>1. CASE i \in 1..Len(q)
    BY <1>1, <1>2, <2>1 DEF Messages
  <2>2. CASE i \notin 1..Len(q)
    <3>1. i - Len(q) \in 1..Len(s) /\ i = Len(q) + (i - Len(q))
      BY <1>1, <1>3, <2>2
    <3>2. r[i] = s[i - Len(q)]
      BY <1>2, <3>1
    <3> QED
      BY <1>1, <3>1, <3>2 DEF Messages
  <2> QED
    BY <2>1, <2>2
<1>5. ASSUME NEW i \in DOMAIN q PROVE q[i] \in Messages(r)
  <2>1. i \in DOMAIN r /\ r[i] = q[i]
    BY <1>1, <1>2, <1>3
  <2> QED
    BY <2>1 DEF Messages
<1>6. ASSUME NEW i \in DOMAIN s PROVE s[i] \in Messages(r)
  <2>1. Len(q) + i \in DOMAIN r /\ r[Len(q) + i] = s[i]
    BY <1>1, <1>2, <1>3
  <2> QED
    BY <2>1 DEF Messages
<1>7. Messages(r) \subseteq Messages(q) \union Messages(s)
  BY <1>4 DEF Messages
<1>8. Messages(q) \subseteq Messages(r) /\ Messages(s) \subseteq Messages(r)
  BY <1>5, <1>6 DEF Messages
<1> QED
  BY <1>7, <1>8 DEF r

\* No messages, and few.
LEMMA MessagesFew ==
  /\ Messages(<<>>) = {} /\ OnlyFirst(<<>>) /\ Undone(<<>>)
  /\ \A m : Messages(<<m>>) = {m} /\ OnlyFirst(<<m>>)
  BY DEF Messages, OnlyFirst, Undone

-----------------------------------------------------------------------------
(* Where the expedition is there.                                          *)

\* What a process that is not connected has missed.
LinksFit ==
  \A z \in Zones \ linked : up[z] = <<>> /\ down[z] = <<>> /\ z \in past.missed

\* A zone signs its messages, and puts nobody in whom it takes out.
SignedFit ==
  \A z \in Zones : \A m \in Messages(up[z]) :
    /\ m.op \in {"Created", "Change", "Clear"} => m.from = z
    /\ m.op = "Change" => m.out \intersect m.in = {}

\* As long as world has not heard of it, nobody else has.
CreatedFits ==
  \A z \in Zones : Has(up[z], "Created") =>
    /\ world = NoDz /\ db # NoDz /\ OnlyFirst(up[z])
    /\ \A y \in Zones :
         /\ ~Has(down[y], "Created") /\ ~Has(down[y], "Deleted")
         /\ y # z => ~Has(up[y], "Created")

\* What world has is saved, and what it says is gone is gone.
SavedFits ==
  /\ world # NoDz => db # NoDz
  /\ \A z \in Zones : Has(down[z], "Deleted") => world = NoDz /\ db = NoDz
  /\ world = NoDz /\ db = NoDz => \A z \in Zones : Undone(down[z])

\* World is going to tell z of the expedition of another zone.
Brings(z) == \E m \in Messages(down[z]) : m.op = "Created" /\ m.from # z

\* A zone that missed nothing has it, or will, and loses it at its end.
CachedFits ==
  \A z \in InTouch :
    /\ world # NoDz /\ cache[z] = NoDz => expired \/ Brings(z)
    /\ Has(up[z], "Created") /\ cache[z] = NoDz => expired
    /\ world = NoDz /\ db = NoDz /\ cache[z] # NoDz => Has(down[z], "Deleted")

Existence == LinksFit /\ SignedFit /\ CreatedFits /\ SavedFits /\ CachedFits

\* A new expedition.
LEMMA TryCreateExists ==
  ASSUME IInv, Existence, NEW z \in Zones, TryCreate(z)
  PROVE  Existence'
<1> USE DEF IInv
<1>1. /\ budget.creations > 0
      /\ UNCHANGED <<world, running, linked, down, expired>>
      /\ past'.missed = past.missed
  BY DEF TryCreate, Spends, Races, TypeOK
<1>2. PICK copy \in Copies :
        /\ copy.leader \in copy.members
        /\ db' = copy /\ cache' = [cache EXCEPT ![z] = copy]
        /\ Send(z, [op |-> "Created", from |-> z, copy |-> copy])
  <2>1. \E members \in SUBSET Characters : \E leader \in members :
          LET copy == [members |-> members, leader |-> leader]
          IN  /\ db' = copy /\ cache' = [cache EXCEPT ![z] = copy]
              /\ Send(z, [op |-> "Created", from |-> z, copy |-> copy])
    BY DEF TryCreate
  <2>2. ASSUME NEW members \in SUBSET Characters, NEW leader \in members
        PROVE  /\ [members |-> members, leader |-> leader] \in Copies
               /\ leader \in [members |-> members, leader |-> leader].members
    BY DEF Copies
  <2> QED
    BY <2>1, <2>2
<1> DEFINE m == [op |-> "Created", from |-> z, copy |-> copy]
<1>3. copy # NoDz
  BY <1>2, NoDzAssumption
<1>4. /\ db = NoDz /\ world = NoDz
      /\ \A y \in Zones : cache[y] = NoDz /\ up[y] = <<>> /\ down[y] = <<>>
  BY <1>1 DEF BeforeCreation
<1>5. \A y \in Zones : up'[y] = IF y = z /\ z \in linked THEN <<m>> ELSE <<>>
  <2>1. \A y \in Zones : up'[y] = IF y = z /\ z \in linked
                                  THEN Append(<<>>, m) ELSE <<>>
    BY <1>2, <1>4 DEF Send, TypeOK
  <2>2. Append(<<>>, m) = <<m>>
    OBVIOUS
  <2> HIDE DEF m
  <2> QED
    BY <2>1, <2>2
<1>6. ASSUME NEW y \in Zones, NEW n \in Messages(up'[y]) PROVE n = m /\ y = z
  <2>1. CASE y = z /\ z \in linked
    <3>1. up'[y] = <<m>>
      BY <1>5, <2>1
    <3> QED
      BY <1>6, <2>1, <3>1, MessagesFew
  <2>2. CASE ~(y = z /\ z \in linked)
    <3>1. up'[y] = <<>>
      BY <1>5, <2>2
    <3> QED
      BY <1>6, <3>1, MessagesFew
  <2> QED
    BY <2>1, <2>2
<1>7. LinksFit'
  BY <1>1, <1>5 DEF Existence, LinksFit
<1>8. SignedFit'
  BY <1>6 DEF SignedFit
<1>9. \A y \in Zones : Messages(down'[y]) = {} /\ Undone(down'[y])
  BY <1>1, <1>4, MessagesFew
<1>10. CreatedFits'
  BY <1>1, <1>2, <1>3, <1>4, <1>5, <1>6, <1>9, MessagesFew DEF CreatedFits, Has
<1>11. SavedFits'
  BY <1>1, <1>4, <1>9 DEF SavedFits, Has
<1>12. CachedFits'
  BY <1>1, <1>2, <1>3, <1>4, <1>6 DEF CachedFits, Has, InTouch, TypeOK
<1> QED
  BY <1>7, <1>8, <1>10, <1>11, <1>12 DEF Existence

\* A zone says something else, and nobody gets or loses the expedition.
LEMMA SaysExists ==
  ASSUME TypeOK, Existence, NEW z \in Zones, NEW m \in Heard, Send(z, m),
         m.op # "Created", m.op \in {"Change", "Clear"} => m.from = z,
         m.op = "Change" => m.out \intersect m.in = {},
         UNCHANGED <<world, running, linked, down, expired>>,
         past'.missed = past.missed, db' = NoDz <=> db = NoDz,
         \A y \in Zones : cache'[y] = NoDz <=> cache[y] = NoDz
  PROVE  Existence'
<1>1. ASSUME NEW y \in Zones
      PROVE  /\ up'[y] = IF y = z /\ z \in linked THEN Append(up[y], m) ELSE up[y]
             /\ up[y] \in Seq(Heard)
  BY DEF Send, TypeOK
<1>2. ASSUME NEW y \in Zones
      PROVE  /\ Messages(up[y]) \subseteq Messages(up'[y])
             /\ \A n \in Messages(up'[y]) : n \in Messages(up[y]) \/ (y = z /\ n = m)
             /\ OnlyFirst(up[y]) => OnlyFirst(up'[y])
  <2>1. CASE y = z /\ z \in linked
    <3>1. up'[y] = Append(up[y], m) /\ up[y] \in Seq(Heard)
      BY <1>1, <2>1
    <3>2. /\ Messages(up'[y]) = Messages(up[y]) \union {m}
          /\ OnlyFirst(up[y]) => OnlyFirst(up'[y])
      BY <3>1, MessagesAppend
    <3> QED
      BY <2>1, <3>2
  <2>2. CASE ~(y = z /\ z \in linked)
    BY <1>1, <2>2
  <2> QED
    BY <2>1, <2>2
<1>3. \A y \in Zones : Has(up'[y], "Created") => Has(up[y], "Created")
  BY <1>2 DEF Has
<1>4. LinksFit'
  BY <1>1 DEF Existence, LinksFit
<1>5. SignedFit'
  BY <1>2 DEF Existence, SignedFit
<1>6. CreatedFits'
  BY <1>2, <1>3 DEF Existence, CreatedFits
<1>7. SavedFits'
  BY DEF Existence, SavedFits
<1>8. CachedFits'
  <2> SUFFICES ASSUME NEW y \in InTouch
               PROVE  /\ world # NoDz /\ cache'[y] = NoDz => expired \/ Brings(y)
                      /\ Has(up'[y], "Created") /\ cache'[y] = NoDz => expired
                      /\ world = NoDz /\ db' = NoDz /\ cache'[y] # NoDz
                           => Has(down[y], "Deleted")
    BY DEF CachedFits, InTouch, Brings
  <2>1. y \in Zones
    BY DEF InTouch, TypeOK
  <2> QED
    BY <1>3, <2>1 DEF Existence, CachedFits
<1> QED
  BY <1>4, <1>5, <1>6, <1>7, <1>8 DEF Existence

\* What comes of the zone's copy when it handles a message.
LEMMA HandledFits ==
  ASSUME TypeOK, NEW z \in Zones, HandleWorldMessage(z)
  PROVE  LET m == Head(down[z])
         IN  /\ down[z] # <<>> /\ m \in Said
             /\ down' = [down EXCEPT ![z] = Tail(@)]
             /\ \A y \in Zones \ {z} : cache'[y] = cache[y]
             /\ UNCHANGED <<db, world, running, linked, up, expired, budget, past>>
             /\ z \in running =>
                  /\ m.op = "Created" /\ m.from # z =>
                       cache'[z] = m.copy /\ cache'[z] \in Copies
                  /\ m.op = "Deleted" => cache'[z] = NoDz
                  /\ m.op \in {"Created", "Change", "Clear"} /\ m.from = z
                       => cache'[z] = cache[z]
                  /\ m.op \in {"Change", "Clear", "Leader"} /\ cache[z] = NoDz
                       => cache'[z] = NoDz
                  /\ m.op \in {"Change", "Clear", "Leader"} /\ cache[z] # NoDz
                       => cache[z] \in Copies /\ cache'[z] \in Copies
                  /\ m.op = "Change" /\ m.from # z /\ cache[z] # NoDz
                       => /\ cache'[z].members = (cache[z].members \ m.out) \union m.in
                          /\ cache'[z].leader = cache[z].leader
                  /\ m.op = "Clear" /\ m.from # z /\ cache[z] # NoDz
                       => /\ cache'[z].members = {}
                          /\ cache'[z].leader = cache[z].leader
                  /\ m.op = "Leader" /\ cache[z] # NoDz
                       => /\ cache'[z].members = cache[z].members
                          /\ cache'[z].leader = IF m.who \in cache[z].members
                                                THEN m.who ELSE cache[z].leader
<1> DEFINE m == Head(down[z])
<1>1. /\ down[z] # <<>> /\ down' = [down EXCEPT ![z] = Tail(@)]
      /\ cache' = IF Ignores(z, m) THEN cache
                  ELSE [cache EXCEPT ![z] = Handled(@, m)]
      /\ UNCHANGED <<db, world, running, linked, up, expired, budget, past>>
  BY DEF HandleWorldMessage
<1>2. m \in Said
  BY <1>1, Queued
<1>3. /\ m.op = "Created" => m.copy \in Copies
      /\ m.op = "Change" => m.out \subseteq Characters /\ m.in \subseteq Characters
      /\ m.op = "Leader" => m.who \in Characters
  BY <1>2, Kinds
<1> HIDE DEF m
<1>4. /\ \A y \in Zones \ {z} : cache'[y] = cache[y]
      /\ cache'[z] = IF Ignores(z, m) THEN cache[z] ELSE Handled(cache[z], m)
      /\ cache[z] \in Copies \union {NoDz}
  BY <1>1 DEF TypeOK
<1>5. ASSUME z \in running, m.op = "Created", m.from # z
      PROVE  cache'[z] = m.copy /\ cache'[z] \in Copies
  BY <1>3, <1>4, <1>5 DEF Ignores, Handled
<1>6. ASSUME z \in running, m.op = "Deleted" PROVE cache'[z] = NoDz
  BY <1>4, <1>6 DEF Ignores, Handled
<1>7. ASSUME m.op \in {"Created", "Change", "Clear"}, m.from = z
      PROVE  cache'[z] = cache[z]
  BY <1>4, <1>7 DEF Ignores
<1>8. ASSUME m.op \in {"Change", "Clear", "Leader"}, cache[z] = NoDz
      PROVE  cache'[z] = NoDz
  BY <1>4, <1>8 DEF Ignores
<1>9. ASSUME z \in running, cache[z] # NoDz, m.op = "Change", m.from # z
      PROVE  /\ cache'[z] \in Copies
             /\ cache'[z].members = (cache[z].members \ m.out) \union m.in
             /\ cache'[z].leader = cache[z].leader
  <2>1. cache'[z] = [cache[z] EXCEPT !.members = (@ \ m.out) \union m.in]
    BY <1>4, <1>9 DEF Ignores, Handled
  <2> QED
    BY <1>3, <1>4, <1>9, <2>1 DEF Copies
<1>10. ASSUME z \in running, cache[z] # NoDz, m.op = "Clear", m.from # z
       PROVE  /\ cache'[z] \in Copies
              /\ cache'[z].members = {}
              /\ cache'[z].leader = cache[z].leader
  <2>1. cache'[z] = [cache[z] EXCEPT !.members = {}]
    BY <1>4, <1>10 DEF Ignores, Handled
  <2> QED
    BY <1>4, <1>10, <2>1 DEF Copies
<1>11. ASSUME z \in running, cache[z] # NoDz, m.op = "Leader"
       PROVE  /\ cache'[z] \in Copies
              /\ cache'[z].members = cache[z].members
              /\ cache'[z].leader = IF m.who \in cache[z].members
                                    THEN m.who ELSE cache[z].leader
  <2>1. CASE m.who \in cache[z].members
    <3>1. cache'[z] = [cache[z] EXCEPT !.leader = m.who]
      BY <1>4, <1>11, <2>1 DEF Ignores, Handled
    <3> QED
      BY <1>3, <1>4, <1>11, <2>1, <3>1 DEF Copies
  <2>2. CASE m.who \notin cache[z].members
    BY <1>4, <1>11, <2>2 DEF Ignores
  <2> QED
    BY <2>1, <2>2
<1>12. ASSUME z \in running, m.op \in {"Change", "Clear", "Leader"}, cache[z] # NoDz
       PROVE  cache[z] \in Copies /\ cache'[z] \in Copies
  BY <1>4, <1>7, <1>9, <1>10, <1>11, <1>12
<1> QED
  BY <1>1, <1>2, <1>4, <1>5, <1>6, <1>7, <1>8, <1>9, <1>10, <1>11, <1>12 DEF m

\* A zone handles a message.
LEMMA HandleExists ==
  ASSUME TypeOK, Existence, NEW z \in Zones, HandleWorldMessage(z)
  PROVE  Existence'
<1> DEFINE m == Head(down[z])
<1>1. /\ down[z] # <<>> /\ m \in Said /\ down' = [down EXCEPT ![z] = Tail(@)]
      /\ \A y \in Zones \ {z} : cache'[y] = cache[y]
      /\ UNCHANGED <<db, world, running, linked, up, expired, budget, past>>
  BY HandledFits
<1>2. /\ down[z] \in Seq(Said)
      /\ \A y \in Zones : down'[y] = IF y = z THEN Tail(down[z]) ELSE down[y]
  BY <1>1 DEF TypeOK
<1>3. /\ Messages(down[z]) = Messages(Tail(down[z])) \union {m}
      /\ Undone(down[z]) => /\ Undone(Tail(down[z]))
                            /\ m.op = "Created" => Has(Tail(down[z]), "Deleted")
  BY <1>1, <1>2, MessagesTail
<1>4. ASSUME NEW y \in Zones
      PROVE  /\ Messages(down'[y]) \subseteq Messages(down[y])
             /\ Undone(down[y]) => Undone(down'[y])
  BY <1>2, <1>3
<1>5. \A y \in Zones : \A op : Has(down'[y], op) => Has(down[y], op)
  BY <1>4 DEF Has
<1>6. LinksFit' /\ SignedFit' /\ CreatedFits' /\ SavedFits'
  <2>1. LinksFit'
    <3>1. down[z] = <<>> => FALSE
      BY <1>1
    <3> QED
      BY <1>1, <1>2, <3>1 DEF Existence, LinksFit
  <2>2. SignedFit'
    BY <1>1 DEF Existence, SignedFit
  <2>3. CreatedFits'
    BY <1>1, <1>5 DEF Existence, CreatedFits
  <2>4. SavedFits'
    BY <1>1, <1>4, <1>5 DEF Existence, SavedFits
  <2> QED
    BY <2>1, <2>2, <2>3, <2>4
<1>7. ASSUME NEW y \in InTouch
      PROVE  /\ world # NoDz /\ cache'[y] = NoDz => expired \/ Brings(y)'
             /\ Has(up[y], "Created") /\ cache'[y] = NoDz => expired
             /\ world = NoDz /\ db = NoDz /\ cache'[y] # NoDz
                  => Has(down'[y], "Deleted")
  <2> y \in Zones /\ y \in running
    BY DEF InTouch, TypeOK
  <2>1. CASE y # z
    <3>1. cache'[y] = cache[y] /\ down'[y] = down[y]
      BY <1>1, <1>2, <2>1
    <3> QED
      BY <3>1 DEF Existence, CachedFits, Brings
  <2>2. CASE y = z
    <3>1. /\ world # NoDz /\ cache[y] = NoDz => expired \/ Brings(y)
          /\ Has(up[y], "Created") /\ cache[y] = NoDz => expired
          /\ world = NoDz /\ db = NoDz /\ cache[y] # NoDz => Has(down[y], "Deleted")
      BY DEF Existence, CachedFits
    <3>2. m.op = "Deleted" => world = NoDz /\ db = NoDz /\ ~Has(up[y], "Created")
      <4>1. m.op = "Deleted" => Has(down[z], "Deleted")
        BY <1>3 DEF Has
      <4> QED
        BY <4>1 DEF Existence, SavedFits, CreatedFits
    <3>3. m.op \in {"Created", "Change", "Clear", "Leader", "Deleted"}
      BY <1>1, Kinds
    <3>4. cache'[y] = NoDz /\ m.op # "Deleted" => cache[y] = NoDz
      BY <2>2, <3>3, HandledFits, NoDzAssumption
    <3>5. cache'[y] = NoDz => ~(m.op = "Created" /\ m.from # z)
      BY <2>2, HandledFits, NoDzAssumption
    <3>6. ASSUME cache'[y] = NoDz, Brings(y) PROVE Brings(y)'
      BY <1>2, <1>3, <2>2, <3>5, <3>6 DEF Brings
    <3>7. ASSUME world = NoDz, db = NoDz, cache'[y] # NoDz
          PROVE  Has(down'[y], "Deleted")
      <4>1. CASE m.op = "Created"
        BY <1>2, <1>3, <2>2, <3>7, <4>1 DEF Existence, SavedFits
      <4>2. CASE m.op # "Created"
        <5>1. m.op # "Deleted" /\ cache[y] # NoDz
          BY <2>2, <3>3, <3>7, <4>2, HandledFits
        <5> QED
          BY <1>2, <1>3, <2>2, <3>1, <3>7, <5>1 DEF Has
      <4> QED
        BY <4>1, <4>2
    <3> QED
      BY <3>1, <3>2, <3>4, <3>6, <3>7
  <2> QED
    BY <2>1, <2>2
<1>8. CachedFits'
  BY <1>1, <1>7 DEF CachedFits, InTouch
<1> QED
  BY <1>6, <1>8 DEF Existence

\* What world tells all zones.
LEMMA Tells ==
  ASSUME TypeOK, NEW ms \in Seq(Said), Broadcast(ms), NEW y \in Zones
  PROVE  /\ y \in linked => Messages(down'[y]) = Messages(down[y]) \union Messages(ms)
         /\ y \notin linked => down'[y] = down[y]
<1>1. /\ down'[y] = IF y \in linked THEN down[y] \o ms ELSE down[y]
      /\ down[y] \in Seq(Said)
  BY DEF Broadcast, TypeOK
<1> QED
  BY <1>1, MessagesConcat

\* World tells one message.
LEMMA TellsOne ==
  ASSUME TypeOK, NEW m \in Said, Broadcast(<<m>>), NEW y \in Zones
  PROVE  /\ down'[y] = IF y \in linked THEN Append(down[y], m) ELSE down[y]
         /\ y \in linked => Messages(down'[y]) = Messages(down[y]) \union {m}
         /\ Undone(down[y]) /\ m.op # "Created" => Undone(down'[y])
         /\ y \in linked /\ m.op = "Deleted" => Undone(down'[y])
<1>1. /\ down'[y] = IF y \in linked THEN down[y] \o <<m>> ELSE down[y]
      /\ down[y] \in Seq(Said)
  BY DEF Broadcast, TypeOK
<1>2. down[y] \o <<m>> = Append(down[y], m)
  BY <1>1
<1>3. CASE y \in linked
  <2>1. down'[y] = Append(down[y], m)
    BY <1>1, <1>2, <1>3
  <2> DEFINE q == down[y]
  <2>2. q \in Seq(Said)
    BY <1>1
  <2> HIDE DEF q
  <2>3. /\ Messages(Append(q, m)) = Messages(q) \union {m}
        /\ m.op = "Deleted" \/ (Undone(q) /\ m.op # "Created")
             => Undone(Append(q, m))
    BY <2>2, MessagesAppend
  <2> QED
    BY <1>3, <2>1, <2>3 DEF q
<1>4. CASE y \notin linked
  BY <1>1, <1>4
<1> QED
  BY <1>3, <1>4

\* World takes messages and adds none.
Dwindles ==
  \A y \in Zones :
    /\ Messages(up'[y]) \subseteq Messages(up[y])
    /\ OnlyFirst(up[y]) => OnlyFirst(up'[y])
    /\ up[y] = <<>> => up'[y] = <<>>

\* World takes the next message of z.
LEMMA HearsDwindles ==
  ASSUME TypeOK, NEW z \in Zones, NEW op, Hears(z, op)
  PROVE  /\ Dwindles
         /\ up[z] # <<>> /\ up[z] \in Seq(Heard)
         /\ \A y \in Zones : up'[y] = IF y = z THEN Tail(up[z]) ELSE up[y]
         /\ Head(up[z]) \in Messages(up[z]) /\ Head(up[z]) \in Heard
         /\ Head(up[z]).op = op
         /\ OnlyFirst(up[z]) => ~Has(up'[z], "Created")
<1>1. /\ up[z] # <<>> /\ up[z] \in Seq(Heard) /\ Head(up[z]).op = op
      /\ \A y \in Zones : up'[y] = IF y = z THEN Tail(up[z]) ELSE up[y]
      /\ Head(up[z]) \in Heard
  BY Queued DEF TypeOK, Hears
<1>2. /\ Messages(up[z]) = Messages(Tail(up[z])) \union {Head(up[z])}
      /\ OnlyFirst(up[z]) => ~Has(Tail(up[z]), "Created") /\ OnlyFirst(Tail(up[z]))
  BY <1>1, MessagesTail
<1> QED
  BY <1>1, <1>2 DEF Dwindles

\* World tells the zones something that neither brings nor ends an expedition.
LEMMA TellsExists ==
  ASSUME TypeOK, Existence, Dwindles, NEW N,
         \A n \in N : n.op # "Created" /\ n.op # "Deleted",
         \A y \in Zones :
           /\ Messages(down[y]) \subseteq Messages(down'[y])
           /\ Messages(down'[y]) \subseteq Messages(down[y]) \union N
           /\ y \notin linked => down'[y] = down[y]
           /\ world = NoDz /\ Undone(down[y]) => Undone(down'[y]),
         UNCHANGED <<cache, running, linked, expired>>,
         past'.missed = past.missed,
         db' = NoDz <=> db = NoDz, world' = NoDz <=> world = NoDz
  PROVE  Existence'
<1>1. \A y \in Zones : Has(up'[y], "Created") => Has(up[y], "Created")
  BY DEF Dwindles, Has
<1>2. \A y \in Zones : /\ Has(down'[y], "Created") => Has(down[y], "Created")
                       /\ Has(down'[y], "Deleted") => Has(down[y], "Deleted")
                       /\ Has(down[y], "Deleted") => Has(down'[y], "Deleted")
  BY DEF Has
<1>3. \A y \in Zones : Brings(y) => Brings(y)'
  BY DEF Brings
<1>4. LinksFit'
  BY DEF Existence, LinksFit, Dwindles
<1>5. SignedFit'
  BY DEF Existence, SignedFit, Dwindles
<1>6. CreatedFits'
  BY <1>1, <1>2 DEF Existence, CreatedFits, Dwindles
<1>7. SavedFits'
  BY <1>2 DEF Existence, SavedFits
<1>8. CachedFits'
  <2> SUFFICES ASSUME NEW y \in InTouch
               PROVE  /\ world' # NoDz /\ cache[y] = NoDz => expired \/ Brings(y)'
                      /\ Has(up'[y], "Created") /\ cache[y] = NoDz => expired
                      /\ world' = NoDz /\ db' = NoDz /\ cache[y] # NoDz
                           => Has(down'[y], "Deleted")
    BY DEF CachedFits, InTouch
  <2>1. y \in Zones
    BY DEF InTouch, TypeOK
  <2> QED
    BY <1>1, <1>2, <1>3, <2>1 DEF Existence, CachedFits
<1> QED
  BY <1>4, <1>5, <1>6, <1>7, <1>8 DEF Existence

\* World hears of a new expedition.
LEMMA CacheNewExists ==
  ASSUME TypeOK, Existence, NEW z \in Zones, CacheNew(z)
  PROVE  Existence'
<1> DEFINE m == Head(up[z])
<1>1. /\ Hears(z, "Created") /\ Broadcast(<<m>>) /\ UNCHANGED <<db, past>>
      /\ world' = IF world # NoDz THEN world
                  ELSE [members |-> m.copy.members, leader |-> m.copy.leader,
                        needed |-> FALSE, ready |-> FALSE]
  BY DEF CacheNew
<1>2. UNCHANGED <<cache, running, linked, expired, budget>>
  BY <1>1 DEF Hears
<1>3. /\ Dwindles /\ m \in Messages(up[z]) /\ m \in Heard /\ m.op = "Created"
      /\ OnlyFirst(up[z]) => ~Has(up'[z], "Created")
  BY <1>1, HearsDwindles
<1>4. m \in Said /\ m.from = z /\ m.copy \in Copies
  BY <1>3, Kinds DEF Existence, SignedFit, Said
<1>5. Has(up[z], "Created")
  BY <1>3 DEF Has
<1>6. /\ world = NoDz /\ db # NoDz /\ OnlyFirst(up[z])
      /\ \A y \in Zones : /\ ~Has(down[y], "Created") /\ ~Has(down[y], "Deleted")
                          /\ y # z => ~Has(up[y], "Created")
  BY <1>5 DEF Existence, CreatedFits
<1>7. world' # NoDz
  <2>1. world' \in WorldCopies
    BY <1>1, <1>4, <1>6 DEF Copies, WorldCopies
  <2> QED
    BY <2>1, NoDzAssumption
<1>8. ASSUME NEW y \in Zones
      PROVE  /\ y \in linked => Messages(down'[y]) = Messages(down[y]) \union {m}
             /\ y \notin linked => down'[y] = down[y]
  BY <1>1, <1>4, TellsOne
<1>9. \A y \in Zones : ~Has(up'[y], "Created")
  BY <1>3, <1>6 DEF Dwindles, Has
<1>10. \A y \in Zones : ~Has(down'[y], "Deleted")
  BY <1>3, <1>6, <1>8 DEF Has
<1>11. LinksFit'
  BY <1>1, <1>2, <1>3, <1>8 DEF Existence, LinksFit, Dwindles
<1>12. SignedFit'
  BY <1>3 DEF Existence, SignedFit, Dwindles
<1>13. CreatedFits' /\ SavedFits'
  BY <1>1, <1>6, <1>7, <1>9, <1>10 DEF CreatedFits, SavedFits
<1>14. ASSUME NEW y \in InTouch, cache[y] = NoDz PROVE expired \/ Brings(y)'
  <2>1. y \in Zones /\ y \in linked
    BY DEF InTouch, TypeOK, Existence, LinksFit
  <2>2. CASE y = z
    BY <1>5, <1>14, <2>2 DEF Existence, CachedFits
  <2>3. CASE y # z
    BY <1>3, <1>4, <1>8, <2>1, <2>3 DEF Brings
  <2> QED
    BY <2>2, <2>3
<1>15. CachedFits'
  <2> SUFFICES ASSUME NEW y \in InTouch
               PROVE  /\ cache[y] = NoDz => expired \/ Brings(y)'
                      /\ ~Has(up'[y], "Created")
    BY <1>1, <1>2, <1>7 DEF CachedFits, InTouch
  <2>1. y \in Zones
    BY DEF InTouch, TypeOK
  <2> QED
    BY <1>9, <1>14, <2>1
<1> QED
  BY <1>11, <1>12, <1>13, <1>15 DEF Existence

\* World deletes the expedition.
LEMMA DeleteExists ==
  ASSUME TypeOK, Existence, Delete
  PROVE  Existence'
<1> DEFINE m == [op |-> "Deleted"]
<1>1. /\ world' = NoDz /\ db' = NoDz /\ world # NoDz /\ Broadcast(<<m>>)
      /\ UNCHANGED <<cache, running, linked, up, expired, budget, past>>
  BY DEF Delete
<1>2. m \in Said /\ m.op = "Deleted"
  BY DEF Said
<1> HIDE DEF m
<1>3. ASSUME NEW y \in Zones
      PROVE  /\ y \in linked => Messages(down'[y]) = Messages(down[y]) \union {m}
             /\ y \notin linked => down'[y] = down[y]
             /\ Undone(down'[y])
  <2>1. CASE y \in linked
    BY <1>1, <1>2, <2>1, TellsOne
  <2>2. CASE y \notin linked
    <3>1. down'[y] = <<>> /\ down[y] = <<>>
      BY <1>1, <1>2, <2>2, TellsOne DEF Existence, LinksFit
    <3> QED
      BY <2>2, <3>1, MessagesFew
  <2> QED
    BY <2>1, <2>2
<1>4. LinksFit' /\ SignedFit'
  BY <1>1, <1>3 DEF Existence, LinksFit, SignedFit
<1>5. \A y \in Zones : ~Has(up'[y], "Created")
  BY <1>1 DEF Existence, CreatedFits
<1>6. CreatedFits' /\ SavedFits'
  BY <1>1, <1>3, <1>5 DEF CreatedFits, SavedFits
<1>7. CachedFits'
  <2> SUFFICES ASSUME NEW y \in InTouch
               PROVE  ~Has(up'[y], "Created") /\ Has(down'[y], "Deleted")
    BY <1>1 DEF CachedFits, InTouch
  <2>1. y \in Zones /\ y \in linked
    BY DEF InTouch, TypeOK, Existence, LinksFit
  <2> QED
    BY <1>2, <1>3, <1>5, <2>1 DEF Has
<1> QED
  BY <1>4, <1>6, <1>7 DEF Existence

-----------------------------------------------------------------------------
(* Who is a member.                                                        *)

Others(z) == Zones \ {z}
Spoken(z, c) == Speaks(up[z], Zones, c)
Told(z, c) == Speaks(down[z], Others(z), c)

\* At most one zone has something to say of c, and has nothing to hear of it.
AloneFits(c) ==
  \A z \in Zones : Spoken(z, c) =>
    ~Told(z, c) /\ \A y \in Zones \ {z} : ~Spoken(y, c)

\* What is said of c last is what the database holds, and the zone that says it
\* holds the same; if nothing is said, world holds it.
SavedMember(c) ==
  db # NoDz =>
    /\ \A z \in Zones : LastPuts(up[z], Zones, c, db.members)
    /\ \A z \in InTouch : cache[z] # NoDz /\ Spoken(z, c)
                            => (c \in cache[z].members <=> c \in db.members)
    /\ world # NoDz /\ (\A z \in Zones : ~Spoken(z, c))
         => (c \in world.members <=> c \in db.members)

\* What a zone is told of c last is what world holds; if it is told nothing it
\* holds the same, or what world is going to hear.
WorldMember(c) ==
  world # NoDz =>
    /\ \A z \in Zones : LastPuts(down[z], Others(z), c, world.members)
    /\ \A z \in InTouch : cache[z] # NoDz /\ ~Told(z, c) =>
         \/ c \in cache[z].members <=> c \in world.members
         \/ \E y \in Zones : SomePuts(up[y], Zones, c, cache[z].members)

MemberFits(c) == AloneFits(c) /\ SavedMember(c) /\ WorldMember(c)
Membership == \A c \in Characters \ past.raced : MemberFits(c)

\* World took m of z.
Taken(z, m) ==
  \A y \in Zones : \A c, T :
    IF y = z
    THEN /\ Speaks(up[y], Zones, c) <=>
              Concerns(m, Zones, c) \/ Speaks(up'[y], Zones, c)
         /\ SomePuts(up[y], Zones, c, T) =>
              \/ SomePuts(up'[y], Zones, c, T)
              \/ Concerns(m, Zones, c) /\ PutsAs(m, c, T)
         /\ LastPuts(up[y], Zones, c, T) =>
              /\ LastPuts(up'[y], Zones, c, T)
              /\ ~Speaks(up'[y], Zones, c) /\ Concerns(m, Zones, c)
                   => PutsAs(m, c, T)
    ELSE up'[y] = up[y]

\* All zones are told m, and nothing else that concerns members.
PassedOn(m) ==
  \A y \in Zones : \A S, c, T :
    IF y \in linked
    THEN /\ Speaks(down'[y], S, c) <=> Speaks(down[y], S, c) \/ Concerns(m, S, c)
         /\ Concerns(m, S, c) /\ PutsAs(m, c, T) => LastPuts(down'[y], S, c, T)
         /\ ~Concerns(m, S, c) /\ LastPuts(down[y], S, c, T)
              => LastPuts(down'[y], S, c, T)
    ELSE down'[y] = down[y]

\* World takes a message of z, changes its copy by it and passes it on; or it
\* does something that concerns no member.
LEMMA WorldMembers ==
  ASSUME TypeOK, TypeOK', Existence, Membership,
         NEW z, NEW m, Taken(z, m), PassedOn(m),
         \A c \in Touched(m) : z \in Zones /\ m.from = z,
         UNCHANGED <<cache, running, linked>>,
         past'.raced = past.raced, past'.missed = past.missed,
         db' # NoDz => db # NoDz /\ db'.members = db.members,
         world' # NoDz => db' # NoDz,
         \A c \in Characters : world' # NoDz =>
           IF c \in Touched(m) THEN c \in world'.members <=> Puts(m, c)
           ELSE world # NoDz /\ (c \in world'.members <=> c \in world.members)
  PROVE  Membership'
<1> SUFFICES ASSUME NEW c \in Characters \ past.raced PROVE MemberFits(c)'
  BY DEF Membership
<1>1. AloneFits(c) /\ SavedMember(c) /\ WorldMember(c)
  BY DEF Membership, MemberFits
<1>2. InTouch' = InTouch /\ InTouch \subseteq Zones
  BY DEF InTouch, TypeOK
<1>3. \A y \in Zones : \A T :
        /\ Spoken(y, c)' => Spoken(y, c)
        /\ LastPuts(up[y], Zones, c, T) => LastPuts(up'[y], Zones, c, T)
  BY DEF Taken, Spoken
<1>4. CASE c \in Touched(m)
  <2>1. /\ z \in Zones /\ Concerns(m, Zones, c) /\ Spoken(z, c) /\ ~Told(z, c)
        /\ \A y \in Zones : ~Concerns(m, Others(z), c) /\ (y # z => Concerns(m, Others(y), c))
        /\ \A y \in Zones \ {z} : ~Spoken(y, c)
    <3>1. z \in Zones /\ m.from = z
      BY <1>4
    <3>2. Concerns(m, Zones, c) /\ ~Concerns(m, Others(z), c)
          /\ \A y \in Zones : y # z => Concerns(m, Others(y), c)
      BY <1>4, <3>1 DEF Concerns, Others
    <3>3. Spoken(z, c)
      BY <3>1, <3>2 DEF Taken, Spoken
    <3> QED
      BY <1>1, <3>1, <3>2, <3>3 DEF AloneFits
  <2>2. ~Told(z, c)'
    BY <2>1 DEF PassedOn, Told
  <2>3. AloneFits(c)'
    BY <1>3, <2>1, <2>2 DEF AloneFits
  <2>4. ASSUME db' # NoDz, world' # NoDz, \A y \in Zones : ~Spoken(y, c)'
        PROVE  c \in world'.members <=> c \in db'.members
    <3>1. LastPuts(up[z], Zones, c, db.members)
      BY <1>1, <2>1, <2>4 DEF SavedMember
    <3>2. PutsAs(m, c, db.members)
      BY <2>1, <2>4, <3>1 DEF Taken, Spoken
    <3> QED
      BY <1>4, <2>4, <3>2 DEF PutsAs
  <2>5. SavedMember(c)'
    BY <1>1, <1>2, <1>3, <2>4 DEF SavedMember
  <2>6. ASSUME world' # NoDz PROVE PutsAs(m, c, world'.members)
    BY <1>4, <2>6 DEF PutsAs
  <2>7. ASSUME NEW y \in Zones, world' # NoDz
        PROVE  LastPuts(down'[y], Others(y), c, world'.members)
    <3>1. CASE y \in linked /\ y # z
      BY <2>1, <2>6, <2>7, <3>1 DEF PassedOn
    <3>2. CASE y = z
      BY <2>2, <3>2 DEF Told, Speaks, LastPuts
    <3>3. CASE y \notin linked
      <4>1. down'[y] = <<>>
        BY <3>3 DEF PassedOn, Existence, LinksFit
      <4> QED
        BY <4>1 DEF LastPuts
    <3> QED
      BY <3>1, <3>2, <3>3
  <2>8. ASSUME NEW y \in InTouch, cache[y] # NoDz, ~Told(y, c)', world' # NoDz
        PROVE  \/ c \in cache[y].members <=> c \in world'.members
               \/ SomePuts(up'[y], Zones, c, cache[y].members)
    <3>1. y \in Zones /\ y \in linked
      BY <1>2 DEF InTouch, Existence, LinksFit
    <3>2. y = z
      BY <2>1, <2>8, <3>1 DEF PassedOn, Told
    <3>3. /\ LastPuts(up[z], Zones, c, db.members)
          /\ c \in cache[z].members <=> c \in db.members
      BY <1>1, <2>1, <2>8, <3>2 DEF SavedMember
    <3>4. SomePuts(up[z], Zones, c, cache[z].members)
      <4>1. SomePuts(up[z], Zones, c, db.members)
        BY <2>1, <3>3, SpeaksEnds, Queued DEF Spoken
      <4> QED
        BY <3>3, <4>1 DEF SomePuts, PutsAs
    <3>5. CASE Spoken(z, c)'
      <4>1. LastPuts(up'[z], Zones, c, db.members)
        BY <1>3, <2>1, <3>3
      <4>2. SomePuts(up'[z], Zones, c, db.members)
        BY <2>1, <3>5, <4>1, SpeaksEnds DEF Spoken, TypeOK
      <4> QED
        BY <3>2, <3>3, <4>2 DEF SomePuts, PutsAs
    <3>6. CASE ~Spoken(z, c)'
      <4>1. PutsAs(m, c, db.members)
        BY <2>1, <3>3, <3>6 DEF Taken, Spoken
      <4> QED
        BY <2>6, <2>8, <3>2, <3>3, <4>1 DEF PutsAs
    <3> QED
      BY <3>5, <3>6
  <2>9. WorldMember(c)'
    BY <1>2, <2>7, <2>8 DEF WorldMember
  <2> QED
    BY <2>3, <2>5, <2>9 DEF MemberFits
<1>5. CASE c \notin Touched(m)
  <2>1. \A S : ~Concerns(m, S, c)
    BY <1>5 DEF Concerns
  <2>2. ASSUME NEW y \in Zones, NEW T
        PROVE  /\ Spoken(y, c)' <=> Spoken(y, c)
               /\ SomePuts(up[y], Zones, c, T) => SomePuts(up'[y], Zones, c, T)
               /\ Told(y, c)' <=> Told(y, c)
               /\ LastPuts(down[y], Others(y), c, T)
                    => LastPuts(down'[y], Others(y), c, T)
    BY <2>1 DEF Taken, PassedOn, Spoken, Told, Others
  <2>3. AloneFits(c)'
    BY <1>1, <2>2 DEF AloneFits
  <2>4. world' # NoDz => world # NoDz /\ (c \in world'.members <=> c \in world.members)
    BY <1>5
  <2>5. SavedMember(c)'
    BY <1>1, <1>2, <1>3, <2>2, <2>4 DEF SavedMember
  <2>6. ASSUME world' # NoDz, NEW y \in Zones
        PROVE  LastPuts(down'[y], Others(y), c, world'.members)
    <3>1. LastPuts(down'[y], Others(y), c, world.members)
      BY <1>1, <2>2, <2>4, <2>6 DEF WorldMember
    <3> QED
      BY <2>4, <2>6, <3>1 DEF LastPuts, PutsAs
  <2>7. WorldMember(c)'
    BY <1>1, <1>2, <2>2, <2>4, <2>6 DEF WorldMember
  <2> QED
    BY <2>3, <2>5, <2>7 DEF MemberFits
<1> QED
  BY <1>4, <1>5

\* A zone says what it has changed in the database and in its own copy.
LEMMA SaysMembers ==
  ASSUME TypeOK, Existence, Membership, NEW z \in Zones, NEW m \in Heard,
         Send(z, m), Races(z, Touched(m)), Touched(m) \subseteq Characters,
         \A c \in Touched(m) : m.from = z,
         UNCHANGED <<world, running, linked, down>>,
         past'.missed = past.missed,
         \A y \in Zones \ {z} : cache'[y] = cache[y],
         \A c \in Characters :
           IF c \in Touched(m)
           THEN /\ db' # NoDz => (c \in db'.members <=> Puts(m, c))
                /\ c \in cache'[z].members <=> Puts(m, c)
           ELSE /\ db' # NoDz => db # NoDz /\ (c \in db'.members <=> c \in db.members)
                /\ cache'[z] # NoDz =>
                     /\ cache[z] # NoDz
                     /\ c \in cache'[z].members <=> c \in cache[z].members
  PROVE  Membership'
<1>1. /\ past.raced \subseteq past'.raced
      /\ z \notin linked => Touched(m) \subseteq past'.raced
      /\ z \in linked => Touched(m) \intersect Crossing(z) \subseteq past'.raced
  BY RacesFits
<1> SUFFICES ASSUME NEW c \in Characters \ past'.raced PROVE MemberFits(c)'
  BY DEF Membership
<1>2. AloneFits(c) /\ SavedMember(c) /\ WorldMember(c)
  BY <1>1 DEF Membership, MemberFits
<1>3. InTouch' = InTouch /\ InTouch \subseteq Zones
  BY DEF InTouch, TypeOK
<1>4. \A y \in Zones : up[y] \in Seq(Heard) /\ up'[y] =
        IF y = z /\ z \in linked THEN Append(up[y], m) ELSE up[y]
  BY DEF Send, TypeOK
<1>5. \A y \in Zones : Told(y, c)' <=> Told(y, c)
  BY DEF Told
<1>6. CASE c \in Touched(m)
  <2>1. z \in linked /\ Concerns(m, Zones, c)
    BY <1>1, <1>6 DEF Concerns
  <2>2. up'[z] = Append(up[z], m) /\ \A y \in Zones \ {z} : up'[y] = up[y]
    BY <1>4, <2>1
  <2>3. /\ Spoken(z, c)'
        /\ \A T : PutsAs(m, c, T) => /\ SomePuts(up'[z], Zones, c, T)
                                     /\ LastPuts(up'[z], Zones, c, T)
    <3>1. up[z] \in Seq(Heard)
      BY <1>4
    <3>2. Speaks(Append(up[z], m), Zones, c)
      BY <2>1, <3>1, SpeaksAppend
    <3>3. \A T : PutsAs(m, c, T) => /\ SomePuts(Append(up[z], m), Zones, c, T)
                                   /\ LastPuts(Append(up[z], m), Zones, c, T)
      BY <2>1, <3>1, SpeaksAppend
    <3> QED
      BY <2>2, <3>2, <3>3 DEF Spoken
  <2>4. c \notin Crossing(z)
    BY <1>1, <1>6, <2>1
  <2>5. ASSUME NEW y \in Zones \ {z} PROVE ~Spoken(y, c) /\ ~Spoken(y, c)'
    <3>1. AllTouched(up[y]) \subseteq Crossing(z)
      BY DEF Crossing
    <3>2. Spoken(y, c) => c \in AllTouched(up[y])
      BY DEF Spoken, Speaks, Concerns, AllTouched
    <3> QED
      BY <2>2, <2>4, <3>1, <3>2 DEF Spoken
  <2>6. ~Told(z, c)
    <3> SUFFICES ASSUME NEW i \in DOMAIN down[z], c \in Touched(down[z][i]),
                        down[z][i].from # z
                 PROVE  FALSE
      BY DEF Told, Speaks, Concerns, Others
    <3>1. i \in Theirs(z)
      BY DEF Theirs
    <3>2. c \in UNION {Touched(down[z][k]) : k \in Theirs(z)}
      BY <3>1
    <3>3. c \in Crossing(z)
      BY <3>2 DEF Crossing
    <3> QED
      BY <2>4, <3>3
  <2>7. AloneFits(c)'
    BY <1>5, <2>5, <2>6 DEF AloneFits
  <2>8. ASSUME db' # NoDz
        PROVE  /\ \A y \in Zones : LastPuts(up'[y], Zones, c, db'.members)
               /\ c \in cache'[z].members <=> c \in db'.members
    <3>1. PutsAs(m, c, db'.members) /\ (c \in cache'[z].members <=> c \in db'.members)
      BY <1>6, <2>8 DEF PutsAs
    <3>2. \A y \in Zones \ {z} : LastPuts(up'[y], Zones, c, db'.members)
      BY <2>5 DEF Spoken, Speaks, LastPuts
    <3> QED
      BY <2>3, <3>1, <3>2
  <2>9. SavedMember(c)'
    BY <1>3, <2>3, <2>5, <2>8 DEF SavedMember
  <2>10. ASSUME NEW y \in InTouch, cache'[y] # NoDz, ~Told(y, c), world # NoDz
         PROVE  \/ c \in cache'[y].members <=> c \in world.members
                \/ \E x \in Zones : SomePuts(up'[x], Zones, c, cache'[y].members)
    <3>1. CASE y = z
      <4>1. PutsAs(m, c, cache'[z].members)
        BY <1>6 DEF PutsAs
      <4> QED
        BY <2>3, <3>1, <4>1
    <3>2. CASE y # z
      <4>1. cache'[y] = cache[y] /\ y \in Zones
        BY <1>3, <3>2
      <4>2. \/ c \in cache[y].members <=> c \in world.members
            \/ \E x \in Zones : SomePuts(up[x], Zones, c, cache[y].members)
        BY <1>2, <2>10, <4>1 DEF WorldMember
      <4>3. \A x \in Zones : SomePuts(up[x], Zones, c, cache[y].members)
                               => SomePuts(up'[x], Zones, c, cache[y].members)
        BY <1>4, <2>2, SpeaksAppend
      <4> QED
        BY <4>1, <4>2, <4>3
    <3> QED
      BY <3>1, <3>2
  <2>11. WorldMember(c)'
    BY <1>2, <1>3, <1>5, <2>10 DEF WorldMember
  <2> QED
    BY <2>7, <2>9, <2>11 DEF MemberFits
<1>7. CASE c \notin Touched(m)
  <2>1. ~Concerns(m, Zones, c)
    BY <1>7 DEF Concerns
  <2>2. ASSUME NEW y \in Zones, NEW T
        PROVE  /\ Spoken(y, c)' <=> Spoken(y, c)
               /\ SomePuts(up[y], Zones, c, T) => SomePuts(up'[y], Zones, c, T)
               /\ LastPuts(up[y], Zones, c, T) => LastPuts(up'[y], Zones, c, T)
    <3>1. CASE y = z /\ z \in linked
      <4>1. up'[y] = Append(up[y], m) /\ up[y] \in Seq(Heard)
        BY <1>4, <3>1
      <4> QED
        BY <2>1, <4>1, SpeaksAppend DEF Spoken
    <3>2. CASE ~(y = z /\ z \in linked)
      BY <1>4, <3>2 DEF Spoken
    <3> QED
      BY <3>1, <3>2
  <2>3. AloneFits(c)'
    BY <1>2, <1>5, <2>2 DEF AloneFits
  <2>4. \A y \in Zones : cache'[y] # NoDz =>
          cache[y] # NoDz /\ (c \in cache'[y].members <=> c \in cache[y].members)
    BY <1>7
  <2>5. ASSUME db' # NoDz
        PROVE  /\ db # NoDz /\ (c \in db'.members <=> c \in db.members)
               /\ \A y \in Zones : LastPuts(up'[y], Zones, c, db'.members)
    <3>1. db # NoDz /\ (c \in db'.members <=> c \in db.members)
      BY <1>7, <2>5
    <3>2. \A y \in Zones : LastPuts(up'[y], Zones, c, db.members)
      BY <1>2, <2>2, <3>1 DEF SavedMember
    <3> QED
      BY <3>1, <3>2 DEF LastPuts, PutsAs
  <2>6. SavedMember(c)'
    BY <1>2, <1>3, <2>2, <2>4, <2>5 DEF SavedMember
  <2>7. ASSUME NEW y \in InTouch, cache'[y] # NoDz, ~Told(y, c), world # NoDz
        PROVE  \/ c \in cache'[y].members <=> c \in world.members
               \/ \E x \in Zones : SomePuts(up'[x], Zones, c, cache'[y].members)
    <3>1. cache[y] # NoDz /\ (c \in cache'[y].members <=> c \in cache[y].members)
      BY <1>3, <2>4, <2>7
    <3>2. \/ c \in cache[y].members <=> c \in world.members
          \/ \E x \in Zones : SomePuts(up[x], Zones, c, cache[y].members)
      BY <1>2, <2>7, <3>1 DEF WorldMember
    <3>3. ASSUME NEW x \in Zones, SomePuts(up[x], Zones, c, cache[y].members)
          PROVE  SomePuts(up'[x], Zones, c, cache'[y].members)
      <4>1. SomePuts(up'[x], Zones, c, cache[y].members)
        BY <2>2, <3>3
      <4> QED
        BY <3>1, <4>1 DEF SomePuts, PutsAs
    <3> QED
      BY <3>1, <3>2, <3>3
  <2>8. WorldMember(c)'
    BY <1>2, <1>3, <1>5, <2>7 DEF WorldMember
  <2> QED
    BY <2>3, <2>6, <2>8 DEF MemberFits
<1> QED
  BY <1>6, <1>7

\* A zone handles a message.
LEMMA HandleMembers ==
  ASSUME TypeOK, Existence, Membership, NEW z \in Zones, HandleWorldMessage(z)
  PROVE  Membership'
<1> DEFINE m == Head(down[z])
<1>1. /\ down[z] # <<>> /\ m \in Said /\ down' = [down EXCEPT ![z] = Tail(@)]
      /\ \A y \in Zones \ {z} : cache'[y] = cache[y]
      /\ UNCHANGED <<db, world, running, linked, up, expired, budget, past>>
  BY HandledFits
<1> SUFFICES ASSUME NEW c \in Characters \ past.raced PROVE MemberFits(c)'
  BY <1>1 DEF Membership
<1>2. AloneFits(c) /\ SavedMember(c) /\ WorldMember(c)
  BY <1>1 DEF Membership, MemberFits
<1>3. InTouch' = InTouch /\ InTouch \subseteq Zones
  BY <1>1 DEF InTouch, TypeOK
<1>4. /\ down[z] \in Seq(Said)
      /\ \A y \in Zones : down'[y] = IF y = z THEN Tail(down[z]) ELSE down[y]
  BY <1>1 DEF TypeOK
<1>5. /\ Told(z, c) <=> Concerns(m, Others(z), c) \/ Told(z, c)'
      /\ \A T : LastPuts(down[z], Others(z), c, T) =>
           /\ LastPuts(down'[z], Others(z), c, T)
           /\ ~Told(z, c)' /\ Concerns(m, Others(z), c) => PutsAs(m, c, T)
  <2>1. /\ Speaks(down[z], Others(z), c) <=>
             Concerns(m, Others(z), c) \/ Speaks(Tail(down[z]), Others(z), c)
        /\ \A T : LastPuts(down[z], Others(z), c, T) =>
             /\ LastPuts(Tail(down[z]), Others(z), c, T)
             /\ ~Speaks(Tail(down[z]), Others(z), c) /\ Concerns(m, Others(z), c)
                  => PutsAs(m, c, T)
    BY <1>1, <1>4, SpeaksTail
  <2> QED
    BY <1>4, <2>1 DEF Told, Others
<1>6. /\ \A y \in Zones \ {z} : Told(y, c)' <=> Told(y, c)
      /\ \A y \in Zones : Spoken(y, c)' <=> Spoken(y, c)
  BY <1>1, <1>4 DEF Told, Spoken
<1>7. AloneFits(c)'
  BY <1>2, <1>5, <1>6 DEF AloneFits
<1>8. m.op \in {"Created", "Change", "Clear", "Leader", "Deleted"}
  BY <1>1, Kinds
<1>9. ASSUME z \in running, cache'[z] # NoDz, ~Concerns(m, Others(z), c)
      PROVE  cache[z] # NoDz /\ (c \in cache'[z].members <=> c \in cache[z].members)
  <2>1. m.op # "Deleted"
    BY <1>9, HandledFits
  <2>2. m.op \in {"Created", "Change", "Clear"} => m.from \in Zones
    BY <1>1 DEF Said, Passed
  <2>3. CASE m.op \in {"Created", "Change", "Clear"} /\ m.from = z
    BY <1>9, <2>3, HandledFits
  <2>4. CASE m.op \in {"Created", "Clear"} /\ m.from # z
    BY <1>9, <2>2, <2>4 DEF Concerns, Others, Touched
  <2>5. CASE m.op = "Change" /\ m.from # z
    <3>1. c \notin m.out /\ c \notin m.in
      BY <1>9, <2>2, <2>5 DEF Concerns, Others, Touched
    <3>2. cache[z] # NoDz
      BY <1>9, <2>5, HandledFits
    <3>3. cache'[z].members = (cache[z].members \ m.out) \union m.in
      BY <1>9, <2>5, <3>2, HandledFits
    <3> QED
      BY <3>1, <3>2, <3>3
  <2>6. CASE m.op = "Leader"
    BY <1>9, <2>6, HandledFits
  <2> QED
    BY <1>8, <2>1, <2>3, <2>4, <2>5, <2>6
<1>10. ASSUME z \in running, cache'[z] # NoDz, Concerns(m, Others(z), c)
       PROVE  PutsAs(m, c, cache'[z].members)
  <2>1. m.from # z /\ m.op \in {"Created", "Change", "Clear"}
    BY <1>8, <1>10 DEF Concerns, Others, Touched
  <2>2. CASE m.op = "Created"
    BY <1>10, <2>1, <2>2, HandledFits DEF PutsAs, Puts
  <2>3. CASE m.op = "Change"
    <3>1. cache'[z].members = (cache[z].members \ m.out) \union m.in
      BY <1>10, <2>1, <2>3, HandledFits
    <3>2. c \in m.out \union m.in
      BY <1>10, <2>3 DEF Concerns, Touched
    <3> QED
      BY <2>3, <3>1, <3>2 DEF PutsAs, Puts
  <2>4. CASE m.op = "Clear"
    <3>1. cache'[z].members = {}
      BY <1>10, <2>1, <2>4, HandledFits
    <3> QED
      BY <2>4, <3>1 DEF PutsAs, Puts
  <2> QED
    BY <2>1, <2>2, <2>3, <2>4
<1>11. SavedMember(c)'
  <2> SUFFICES ASSUME db # NoDz, NEW y \in InTouch, cache'[y] # NoDz, Spoken(y, c)
               PROVE  c \in cache'[y].members <=> c \in db.members
    BY <1>1, <1>2, <1>3, <1>6 DEF SavedMember
  <2>1. CASE y # z
    <3>1. cache'[y] = cache[y]
      BY <1>1, <1>3, <2>1
    <3> QED
      BY <1>2, <3>1 DEF SavedMember
  <2>2. CASE y = z
    <3>1. ~Concerns(m, Others(z), c)
      BY <1>2, <1>5, <2>2 DEF AloneFits
    <3>2. z \in running
      BY <2>2 DEF InTouch
    <3>3. cache[z] # NoDz /\ (c \in cache'[z].members <=> c \in cache[z].members)
      BY <1>9, <2>2, <3>1, <3>2
    <3> QED
      BY <1>2, <2>2, <3>3 DEF SavedMember
  <2> QED
    BY <2>1, <2>2
<1>12. ASSUME world # NoDz, NEW y \in InTouch, cache'[y] # NoDz, ~Told(y, c)'
       PROVE  \/ c \in cache'[y].members <=> c \in world.members
              \/ \E x \in Zones : SomePuts(up[x], Zones, c, cache'[y].members)
  <2>1. CASE y # z
    <3>1. cache'[y] = cache[y] /\ ~Told(y, c)
      BY <1>1, <1>3, <1>6, <1>12, <2>1
    <3> QED
      BY <1>2, <1>12, <3>1 DEF WorldMember
  <2>2. CASE y = z
    <3>1. z \in running
      BY <2>2 DEF InTouch
    <3>2. CASE Concerns(m, Others(z), c)
      <4>1. PutsAs(m, c, cache'[z].members)
        BY <1>10, <1>12, <2>2, <3>1, <3>2
      <4>2. PutsAs(m, c, world.members)
        BY <1>2, <1>5, <1>12, <2>2, <3>2 DEF WorldMember
      <4> QED
        BY <2>2, <4>1, <4>2 DEF PutsAs
    <3>3. CASE ~Concerns(m, Others(z), c)
      <4>1. cache[z] # NoDz /\ (c \in cache'[z].members <=> c \in cache[z].members)
        BY <1>9, <1>12, <2>2, <3>1, <3>3
      <4>2. \/ c \in cache[z].members <=> c \in world.members
            \/ \E x \in Zones : SomePuts(up[x], Zones, c, cache[z].members)
        BY <1>2, <1>5, <1>12, <2>2, <3>3, <4>1 DEF WorldMember
      <4> QED
        BY <2>2, <4>1, <4>2 DEF SomePuts, PutsAs
    <3> QED
      BY <3>2, <3>3
  <2> QED
    BY <2>1, <2>2
<1>13. \A y \in Zones : world # NoDz => LastPuts(down'[y], Others(y), c, world.members)
  BY <1>2, <1>4, <1>5 DEF WorldMember
<1>14. WorldMember(c)'
  BY <1>1, <1>3, <1>12, <1>13 DEF WorldMember, Others
<1> QED
  BY <1>7, <1>11, <1>14 DEF MemberFits

\* A zone boots.
LEMMA BootMembers ==
  ASSUME TypeOK, Existence, Membership, NEW z \in Zones, Boot(z)
  PROVE  Membership'
<1>1. /\ cache' = [cache EXCEPT ![z] = IF expired THEN NoDz ELSE db]
      /\ past'.raced = past.raced
      /\ UNCHANGED <<db, world, linked, up, down, expired, budget>>
  BY DEF Boot, TypeOK
<1>2. \A y \in InTouch' : y \in Zones /\ (y # z => y \in InTouch /\ cache'[y] = cache[y])
  BY DEF Boot, TypeOK, InTouch
<1>3. cache'[z] # NoDz => cache'[z] = db /\ db # NoDz
  BY <1>1 DEF TypeOK
<1> SUFFICES ASSUME NEW c \in Characters \ past.raced PROVE MemberFits(c)'
  BY <1>1 DEF Membership
<1>4. AloneFits(c) /\ SavedMember(c) /\ WorldMember(c)
  BY <1>1 DEF Membership, MemberFits
<1>5. AloneFits(c)'
  BY <1>1, <1>4 DEF AloneFits, Spoken, Told
<1>6. SavedMember(c)'
  BY <1>1, <1>2, <1>3, <1>4 DEF SavedMember, Spoken
<1>7. ASSUME world # NoDz, NEW y \in InTouch', cache'[y] # NoDz, ~Told(y, c)
      PROVE  \/ c \in cache'[y].members <=> c \in world.members
             \/ \E x \in Zones : SomePuts(up[x], Zones, c, cache'[y].members)
  <2>1. CASE y # z
    BY <1>2, <1>4, <1>7, <2>1 DEF WorldMember
  <2>2. CASE y = z
    <3>1. cache'[y] = db /\ db # NoDz
      BY <1>3, <1>7, <2>2
    <3>2. CASE \A x \in Zones : ~Spoken(x, c)
      BY <1>4, <1>7, <3>1, <3>2 DEF SavedMember
    <3>3. ASSUME NEW x \in Zones, Spoken(x, c)
          PROVE  SomePuts(up[x], Zones, c, db.members)
      <4>1. LastPuts(up[x], Zones, c, db.members) /\ up[x] \in Seq(Heard)
        BY <1>4, <3>1 DEF SavedMember, TypeOK
      <4> QED
        BY <3>3, <4>1, SpeaksEnds DEF Spoken
    <3> QED
      BY <3>1, <3>2, <3>3
  <2> QED
    BY <2>1, <2>2
<1>8. WorldMember(c)'
  BY <1>1, <1>4, <1>7 DEF WorldMember, Told
<1> QED
  BY <1>5, <1>6, <1>8 DEF MemberFits

\* Fewer zones are in touch, and nothing that is said or told of one who has
\* not raced is lost.
LEMMA QuietMembers ==
  ASSUME TypeOK, Membership, InTouch' \subseteq InTouch,
         past.raced \subseteq past'.raced,
         \A z \in InTouch' : cache'[z] = cache[z] /\ down'[z] = down[z],
         UNCHANGED db, world' = NoDz <=> world = NoDz,
         world # NoDz => world'.members = world.members,
         \A z \in Zones : down'[z] = down[z] \/ down'[z] = <<>>,
         \A z \in Zones : \/ up'[z] = up[z]
                          \/ up'[z] = <<>> /\ AllTouched(up[z]) \subseteq past'.raced
  PROVE  Membership'
<1> SUFFICES ASSUME NEW c \in Characters \ past'.raced PROVE MemberFits(c)'
  BY DEF Membership
<1>1. AloneFits(c) /\ SavedMember(c) /\ WorldMember(c)
  BY DEF Membership, MemberFits
<1>2. InTouch \subseteq Zones
  BY DEF InTouch, TypeOK
<1>3. ASSUME NEW z \in Zones, NEW T
      PROVE  /\ Spoken(z, c)' <=> Spoken(z, c)
             /\ LastPuts(up[z], Zones, c, T) => LastPuts(up'[z], Zones, c, T)
             /\ SomePuts(up[z], Zones, c, T) => SomePuts(up'[z], Zones, c, T)
  <2>1. CASE up'[z] = up[z]
    BY <2>1 DEF Spoken
  <2>2. CASE up'[z] = <<>> /\ AllTouched(up[z]) \subseteq past'.raced
    <3>1. \A i \in DOMAIN up[z] : ~Concerns(up[z][i], Zones, c)
      BY <2>2 DEF AllTouched, Concerns
    <3>2. DOMAIN up'[z] = {}
      BY <2>2
    <3> QED
      BY <3>1, <3>2 DEF Spoken, Speaks, LastPuts, SomePuts
  <2> QED
    BY <2>1, <2>2
<1>4. ASSUME NEW z \in Zones, NEW T
      PROVE  /\ Told(z, c)' => Told(z, c)
             /\ LastPuts(down[z], Others(z), c, T) => LastPuts(down'[z], Others(z), c, T)
  <2>1. CASE down'[z] = down[z]
    BY <2>1 DEF Told, Others
  <2>2. CASE down'[z] = <<>>
    BY <2>2 DEF Told, Speaks, LastPuts
  <2> QED
    BY <2>1, <2>2
<1>5. \A z \in InTouch' : Told(z, c)' <=> Told(z, c)
  BY DEF Told, Others
<1>6. AloneFits(c)'
  BY <1>1, <1>3, <1>4 DEF AloneFits
<1>7. SavedMember(c)'
  BY <1>1, <1>2, <1>3 DEF SavedMember
<1>8. WorldMember(c)'
  BY <1>1, <1>2, <1>3, <1>4, <1>5 DEF WorldMember, Others
<1> QED
  BY <1>6, <1>7, <1>8 DEF MemberFits

\* World restarts.
LEMMA RestartMembers ==
  ASSUME TypeOK, WorldRestart
  PROVE  Membership'
<1> DEFINE stays == db # NoDz /\ ~expired /\ db.members # {}
<1>1. /\ db' = IF stays THEN db ELSE NoDz
      /\ world' = IF stays
                  THEN [members |-> db.members, leader |-> db.leader,
                        needed |-> FALSE, ready |-> FALSE]
                  ELSE NoDz
      /\ past'.missed = Zones
      /\ up' = [y \in Zones |-> <<>>] /\ down' = [y \in Zones |-> <<>>]
      /\ running' = running
  BY DEF WorldRestart
<1>2. InTouch' = {}
  BY <1>1 DEF InTouch, TypeOK
<1>3. \A y \in Zones : DOMAIN up'[y] = {} /\ DOMAIN down'[y] = {}
  BY <1>1
<1>4. world' # NoDz => world'.members = db'.members
  BY <1>1
<1> HIDE DEF stays
<1> SUFFICES ASSUME NEW c \in Characters PROVE MemberFits(c)'
  BY DEF Membership
<1>5. AloneFits(c)'
  BY <1>3 DEF AloneFits, Spoken, Speaks
<1>6. SavedMember(c)'
  BY <1>2, <1>3, <1>4 DEF SavedMember, LastPuts
<1>7. WorldMember(c)'
  BY <1>2, <1>3 DEF WorldMember, LastPuts
<1> QED
  BY <1>5, <1>6, <1>7 DEF MemberFits

-----------------------------------------------------------------------------
(* What world does.                                                        *)

\* World takes the next message of z.
LEMMA HearsTaken ==
  ASSUME TypeOK, NEW z \in Zones, NEW op, Hears(z, op)
  PROVE  Taken(z, Head(up[z]))
<1>1. /\ up[z] # <<>> /\ up[z] \in Seq(Heard)
      /\ \A y \in Zones : up'[y] = IF y = z THEN Tail(up[z]) ELSE up[y]
  BY HearsDwindles
<1> SUFFICES ASSUME NEW y \in Zones, NEW c, NEW T
             PROVE  LET m == Head(up[z])
                    IN IF y = z
                       THEN /\ Speaks(up[y], Zones, c) <=>
                                 \/ Concerns(m, Zones, c)
                                 \/ Speaks(up'[y], Zones, c)
                            /\ SomePuts(up[y], Zones, c, T) =>
                                 \/ SomePuts(up'[y], Zones, c, T)
                                 \/ Concerns(m, Zones, c) /\ PutsAs(m, c, T)
                            /\ LastPuts(up[y], Zones, c, T) =>
                                 /\ LastPuts(up'[y], Zones, c, T)
                                 /\ ~Speaks(up'[y], Zones, c) /\ Concerns(m, Zones, c)
                                      => PutsAs(m, c, T)
                       ELSE up'[y] = up[y]
  BY DEF Taken
<1>2. CASE y = z
  <2>1. up'[z] = Tail(up[z])
    BY <1>1
  <2> QED
    BY <1>1, <1>2, <2>1, SpeaksTail
<1>3. CASE y # z
  BY <1>1, <1>3
<1> QED
  BY <1>2, <1>3

\* World takes nothing.
LEMMA NoneTaken ==
  ASSUME UNCHANGED up, NEW z, NEW m, Touched(m) = {}
  PROVE  Taken(z, m)
BY DEF Taken, Concerns

\* The zones are told m, maybe after the name of a leader.
Announces(m) ==
  \/ Broadcast(<<m>>)
  \/ \E l \in Said : l.op = "Leader" /\ Broadcast(<<l, m>>)

\* The zones are told nothing but maybe the name of a leader.
AnnouncesNothing ==
  \/ UNCHANGED down
  \/ \E l \in Said : l.op = "Leader" /\ Broadcast(<<l>>)

\* A message that is announced is passed on.
LEMMA AnnouncesPassed ==
  ASSUME TypeOK, NEW m \in Said, Announces(m)
  PROVE  PassedOn(m)
<1>1. \A l \in Said : l.op = "Leader" => Touched(l) = {}
  BY DEF Touched
<1> SUFFICES ASSUME NEW y \in Zones, NEW S, NEW c, NEW T
             PROVE  IF y \in linked
                    THEN /\ Speaks(down'[y], S, c)
                              <=> Speaks(down[y], S, c) \/ Concerns(m, S, c)
                         /\ Concerns(m, S, c) /\ PutsAs(m, c, T)
                              => LastPuts(down'[y], S, c, T)
                         /\ ~Concerns(m, S, c) /\ LastPuts(down[y], S, c, T)
                              => LastPuts(down'[y], S, c, T)
                    ELSE down'[y] = down[y]
  BY DEF PassedOn
<1> DEFINE q == down[y]
<1>2. q \in Seq(Said)
  BY DEF TypeOK
<1> HIDE DEF q
<1>3. CASE Broadcast(<<m>>)
  <2>1. down'[y] = IF y \in linked THEN q \o <<m>> ELSE q
    BY <1>3 DEF Broadcast, q
  <2>2. q \o <<m>> = Append(q, m)
    BY <1>2
  <2> QED
    BY <1>2, <2>1, <2>2, SpeaksAppend DEF q
<1>4. ASSUME NEW l \in Said, l.op = "Leader", Broadcast(<<l, m>>)
      PROVE  IF y \in linked
             THEN /\ Speaks(down'[y], S, c)
                       <=> Speaks(q, S, c) \/ Concerns(m, S, c)
                  /\ Concerns(m, S, c) /\ PutsAs(m, c, T)
                       => LastPuts(down'[y], S, c, T)
                  /\ ~Concerns(m, S, c) /\ LastPuts(q, S, c, T)
                       => LastPuts(down'[y], S, c, T)
             ELSE down'[y] = q
  <2> DEFINE r == Append(q, l)
  <2>1. down'[y] = IF y \in linked THEN q \o <<l, m>> ELSE q
    BY <1>4 DEF Broadcast, q
  <2>2. q \o <<l, m>> = Append(r, m) /\ r \in Seq(Said)
    BY <1>2
  <2>3. ~Concerns(l, S, c)
    BY <1>1, <1>4 DEF Concerns
  <2>4. /\ Speaks(r, S, c) <=> Speaks(q, S, c)
        /\ LastPuts(q, S, c, T) => LastPuts(r, S, c, T)
    BY <1>2, <2>3, SpeaksAppend
  <2> HIDE DEF r
  <2> QED
    BY <2>1, <2>2, <2>4, SpeaksAppend
<1> QED
  BY <1>3, <1>4 DEF Announces, q

\* If only a leader is announced, nothing that concerns members is passed on.
LEMMA NothingPassed ==
  ASSUME TypeOK, AnnouncesNothing, NEW m, Touched(m) = {}
  PROVE  PassedOn(m)
<1>1. \A l \in Said : l.op = "Leader" => Touched(l) = {}
  BY DEF Touched
<1>2. \A S, c : ~Concerns(m, S, c)
  BY DEF Concerns
<1> SUFFICES ASSUME NEW y \in Zones, NEW S, NEW c, NEW T
             PROVE  IF y \in linked
                    THEN /\ Speaks(down'[y], S, c) <=> Speaks(down[y], S, c)
                         /\ LastPuts(down[y], S, c, T) => LastPuts(down'[y], S, c, T)
                    ELSE down'[y] = down[y]
  BY <1>2 DEF PassedOn
<1> DEFINE q == down[y]
<1>3. q \in Seq(Said)
  BY DEF TypeOK
<1> HIDE DEF q
<1>4. CASE UNCHANGED down
  BY <1>4
<1>5. ASSUME NEW l \in Said, l.op = "Leader", Broadcast(<<l>>)
      PROVE  IF y \in linked
             THEN /\ Speaks(down'[y], S, c) <=> Speaks(q, S, c)
                  /\ LastPuts(q, S, c, T) => LastPuts(down'[y], S, c, T)
             ELSE down'[y] = q
  <2>1. down'[y] = IF y \in linked THEN q \o <<l>> ELSE q
    BY <1>5 DEF Broadcast, q
  <2>2. q \o <<l>> = Append(q, l)
    BY <1>3
  <2>3. ~Concerns(l, S, c)
    BY <1>1, <1>5 DEF Concerns
  <2> QED
    BY <1>3, <2>1, <2>2, <2>3, SpeaksAppend
<1> QED
  BY <1>4, <1>5 DEF AnnouncesNothing, q

\* If only a leader is announced, nothing else is added to what is on the way.
LEMMA NothingGrows ==
  ASSUME TypeOK, AnnouncesNothing, NEW y \in Zones
  PROVE  /\ Messages(down[y]) \subseteq Messages(down'[y])
         /\ Messages(down'[y]) \subseteq
              Messages(down[y]) \union {l \in Said : l.op = "Leader"}
         /\ y \notin linked => down'[y] = down[y]
         /\ Undone(down[y]) => Undone(down'[y])
<1>1. ASSUME NEW l \in Said, l.op = "Leader", Broadcast(<<l>>)
      PROVE  /\ Messages(down[y]) \subseteq Messages(down'[y])
             /\ Messages(down'[y]) \subseteq Messages(down[y]) \union {l}
             /\ y \notin linked => down'[y] = down[y]
             /\ Undone(down[y]) => Undone(down'[y])
  BY <1>1, TellsOne
<1>2. CASE UNCHANGED down
  BY <1>2
<1> QED
  BY <1>1, <1>2 DEF AnnouncesNothing

\* What the zones are told adds to what is on the way.
LEMMA AnnouncesGrows ==
  ASSUME TypeOK, NEW m \in Said, Announces(m), NEW y \in Zones
  PROVE  /\ Messages(down[y]) \subseteq Messages(down'[y])
         /\ Messages(down'[y]) \subseteq
              Messages(down[y]) \union {m} \union {l \in Said : l.op = "Leader"}
         /\ y \notin linked => down'[y] = down[y]
         /\ Undone(down[y]) /\ m.op # "Created" => Undone(down'[y])
<1> DEFINE q == down[y]
<1>1. q \in Seq(Said)
  BY DEF TypeOK
<1> HIDE DEF q
<1>2. CASE Broadcast(<<m>>)
  BY <1>2, TellsOne
<1>4. ASSUME NEW l \in Said, l.op = "Leader", Broadcast(<<l, m>>)
      PROVE  /\ Messages(q) \subseteq Messages(down'[y])
             /\ Messages(down'[y]) \subseteq Messages(q) \union {l, m}
             /\ y \notin linked => down'[y] = q
             /\ Undone(q) /\ m.op # "Created" => Undone(down'[y])
  <2> DEFINE r == Append(q, l)
  <2>1. down'[y] = IF y \in linked THEN q \o <<l, m>> ELSE q
    BY <1>4 DEF Broadcast, q
  <2>2. q \o <<l, m>> = Append(r, m) /\ r \in Seq(Said)
    BY <1>1
  <2>3. Messages(r) = Messages(q) \union {l} /\ (Undone(q) => Undone(r))
    BY <1>1, <1>4, MessagesAppend
  <2> HIDE DEF r
  <2>4. /\ Messages(Append(r, m)) = Messages(r) \union {m}
        /\ Undone(r) /\ m.op # "Created" => Undone(Append(r, m))
    BY <2>2, MessagesAppend
  <2> QED
    BY <2>1, <2>2, <2>3, <2>4
<1> QED
  BY <1>2, <1>4 DEF Announces, q

\* World sets the leader.
LEMMA SetNewLeaderTells ==
  ASSUME TypeOK, NEW dz \in WorldCopies, NEW message, SetNewLeader(dz, message)
  PROVE  /\ world' = dz
         /\ db' = NoDz <=> db = NoDz
         /\ db # NoDz => db'.members = db.members
         /\ past'.raced = past.raced /\ past'.missed = past.missed
         /\ message = <<>> => AnnouncesNothing
         /\ \A m : message = <<m>> => Announces(m)
<1> DEFINE l == [op |-> "Leader", who |-> dz.leader]
<1>1. /\ world' = dz /\ Broadcast(<<l>> \o message)
      /\ db' = IF db = NoDz THEN db ELSE [db EXCEPT !.leader = dz.leader]
      /\ past' = [past EXCEPT !.forgotten = FALSE,
                    !.swapped = \E i \in DOMAIN message : message[i].in # {}]
  BY DEF SetNewLeader
<1>2. dz.leader \in Characters
  BY DEF WorldCopies
<1>3. l \in Said /\ l.op = "Leader"
  BY <1>2 DEF Said
<1>4. db # NoDz => db' \in Copies /\ db'.members = db.members
  BY <1>1, <1>2 DEF TypeOK, Copies
<1>5. past'.raced = past.raced /\ past'.missed = past.missed
  BY <1>1 DEF TypeOK
<1> HIDE DEF l
<1>6. ASSUME message = <<>> PROVE AnnouncesNothing
  <2>1. <<l>> \o message = <<l>>
    BY <1>6
  <2>2. Broadcast(<<l>>)
    BY <1>1, <2>1 DEF Broadcast
  <2> QED
    BY <1>3, <2>2 DEF AnnouncesNothing
<1>7. ASSUME NEW m, message = <<m>> PROVE Announces(m)
  <2>1. <<l>> \o <<m>> = <<l, m>>
    <3> DEFINE X == {l, m}
    <3>1. l \in X /\ m \in X
      OBVIOUS
    <3> HIDE DEF X
    <3> QED
      BY <3>1, PairConcat
  <2>2. Broadcast(<<l, m>>)
    BY <1>1, <1>7, <2>1 DEF Broadcast
  <2> QED
    BY <1>3, <2>2 DEF Announces
<1> QED
  BY <1>1, <1>4, <1>5, <1>6, <1>7, NoDzAssumption

\* World changes its copy.
LEMMA BecomesTells ==
  ASSUME TypeOK, NEW dz \in WorldCopies, NEW message, Becomes(dz, message)
  PROVE  /\ world' = dz
         /\ db' = NoDz <=> db = NoDz
         /\ db # NoDz => db'.members = db.members
         /\ past'.raced = past.raced /\ past'.missed = past.missed
         /\ message = <<>> => AnnouncesNothing
         /\ \A m : message = <<m>> => Announces(m)
<1>1. CASE dz.leader # world.leader
  BY <1>1, SetNewLeaderTells DEF Becomes
<1>2. CASE dz.leader = world.leader
  <2>1. world' = dz /\ Broadcast(message) /\ UNCHANGED <<db, past>>
    BY <1>2 DEF Becomes
  <2>2. ASSUME message = <<>> PROVE AnnouncesNothing
    <3>1. \A y \in Zones : down[y] \in Seq(Said)
      BY DEF TypeOK
    <3>2. \A y \in Zones : down[y] \o <<>> = down[y]
      BY <3>1
    <3>3. down' = [y \in Zones |-> down[y]]
      BY <2>1, <2>2, <3>2 DEF Broadcast
    <3>4. UNCHANGED down
      BY <3>3 DEF TypeOK
    <3> QED
      BY <3>4 DEF AnnouncesNothing
  <2>3. \A m : message = <<m>> => Announces(m)
    BY <2>1 DEF Announces
  <2> QED
    BY <2>1, <2>2, <2>3
<1> QED
  BY <1>1, <1>2

-----------------------------------------------------------------------------
(* Steps.                                                                  *)

Copied == Existence /\ Membership

\* A new expedition.
LEMMA TryCreateCopies ==
  ASSUME IInv, Copied, NEW z \in Zones, TryCreate(z)
  PROVE  Copied'
<1> USE DEF IInv, Copied
<1>1. Existence'
  BY TryCreateExists
<1>2. /\ UNCHANGED <<world, running, linked, down, expired>>
      /\ Races(z, Characters) /\ past'.missed = past.missed
  BY DEF TryCreate, Races, TypeOK
<1>3. PICK members \in SUBSET Characters : \E leader \in members :
        LET copy == [members |-> members, leader |-> leader]
        IN  /\ db' = copy /\ cache' = [cache EXCEPT ![z] = copy]
            /\ Send(z, [op |-> "Created", from |-> z, copy |-> copy])
  BY DEF TryCreate
<1>4. PICK leader \in members :
        LET copy == [members |-> members, leader |-> leader]
        IN  /\ db' = copy /\ cache' = [cache EXCEPT ![z] = copy]
            /\ Send(z, [op |-> "Created", from |-> z, copy |-> copy])
  BY <1>3
<1> DEFINE copy == [members |-> members, leader |-> leader]
           m == [op |-> "Created", from |-> z, copy |-> copy]
<1>5. m \in Heard
  BY DEF Heard, Passed, Copies
<1>6. Touched(m) = Characters /\ \A c : Puts(m, c) <=> c \in members
  BY DEF Touched, Puts
<1>7. /\ db'.members = members /\ cache'[z].members = members
      /\ \A y \in Zones \ {z} : cache'[y] = cache[y]
      /\ Send(z, m) /\ m.from = z
  BY <1>4 DEF TypeOK
<1> HIDE DEF m
<1>8. Membership'
  BY <1>2, <1>5, <1>6, <1>7, SaysMembers
<1> QED
  BY <1>1, <1>8

\* A zone changes members.
LEMMA ChangeCopies ==
  ASSUME IInv, Copied, NEW z \in Zones, NEW out \in SUBSET Characters,
         NEW in \in SUBSET Characters, out \intersect in = {},
         cache[z] # NoDz, ChangeMembers(z, out, in)
  PROVE  Copied'
<1> USE DEF IInv, Copied
<1> DEFINE m == [op |-> "Change", from |-> z, out |-> out, in |-> in]
<1>1. /\ Races(z, out \union in) /\ Send(z, m)
      /\ db' = IF db = NoDz THEN db ELSE [db EXCEPT !.members = (@ \ out) \union in]
      /\ cache' = [cache EXCEPT ![z].members = (@ \ out) \union in]
      /\ UNCHANGED <<world, running, linked, down, expired>>
  BY DEF ChangeMembers
<1>2. /\ m \in Heard /\ m.op = "Change" /\ m.from = z
      /\ m.out \intersect m.in = {}
  BY DEF Heard, Passed
<1>3. Touched(m) = out \union in /\ \A c : Puts(m, c) <=> c \in in
  BY DEF Touched, Puts
<1>4. past'.missed = past.missed
  BY <1>1 DEF Races, TypeOK
<1>5. /\ cache[z] \in Copies /\ cache'[z] \in Copies
      /\ cache'[z].members = (cache[z].members \ out) \union in
      /\ \A y \in Zones \ {z} : cache'[y] = cache[y]
  <2>1. cache[z] \in Copies
    BY DEF TypeOK
  <2>2. cache'[z] = [cache[z] EXCEPT !.members = (@ \ out) \union in]
        /\ \A y \in Zones \ {z} : cache'[y] = cache[y]
    BY <1>1 DEF TypeOK
  <2> QED
    BY <2>1, <2>2 DEF Copies
<1>6. /\ db = NoDz => db' = NoDz
      /\ db # NoDz => db' \in Copies /\ db'.members = (db.members \ out) \union in
  BY <1>1 DEF TypeOK, Copies
<1> HIDE DEF m
<1>7. Existence'
  <2>1. \A y \in Zones : cache'[y] = NoDz <=> cache[y] = NoDz
    BY <1>5, NoDzAssumption
  <2>2. db' = NoDz <=> db = NoDz
    BY <1>6, NoDzAssumption
  <2> QED
    BY <1>1, <1>2, <1>4, <2>1, <2>2, SaysExists
<1>8. Membership'
  <2>1. \A c \in Characters :
           IF c \in Touched(m)
           THEN /\ db' # NoDz => (c \in db'.members <=> Puts(m, c))
                /\ c \in cache'[z].members <=> Puts(m, c)
           ELSE /\ db' # NoDz => db # NoDz /\ (c \in db'.members <=> c \in db.members)
                /\ cache'[z] # NoDz =>
                     /\ cache[z] # NoDz
                     /\ c \in cache'[z].members <=> c \in cache[z].members
    BY <1>3, <1>5, <1>6
  <2>2. Races(z, Touched(m)) /\ Touched(m) \subseteq Characters
    BY <1>1, <1>3
  <2> QED
    BY <1>1, <1>2, <1>4, <1>5, <2>1, <2>2, SaysMembers
<1> QED
  BY <1>7, <1>8

\* A zone removes all members.
LEMMA RemoveAllCopies ==
  ASSUME IInv, Copied, NEW z \in Zones, RemoveAllMembers(z)
  PROVE  Copied'
<1> USE DEF IInv, Copied
<1> DEFINE m == [op |-> "Clear", from |-> z]
<1>1. /\ Races(z, Characters) /\ Send(z, m) /\ cache[z] # NoDz
      /\ db' = IF db = NoDz THEN db ELSE [db EXCEPT !.members = {}]
      /\ cache' = [cache EXCEPT ![z].members = {}]
      /\ UNCHANGED <<world, running, linked, down, expired>>
  BY DEF RemoveAllMembers
<1>2. m \in Heard /\ m.op = "Clear" /\ m.from = z
  BY DEF Heard, Passed
<1>3. Touched(m) = Characters /\ \A c : ~Puts(m, c)
  BY DEF Touched, Puts
<1>4. past'.missed = past.missed
  BY <1>1 DEF Races, TypeOK
<1>5. /\ cache'[z] \in Copies /\ cache'[z].members = {}
      /\ \A y \in Zones \ {z} : cache'[y] = cache[y]
  <2>1. cache[z] \in Copies
    BY <1>1 DEF TypeOK
  <2>2. cache'[z] = [cache[z] EXCEPT !.members = {}]
        /\ \A y \in Zones \ {z} : cache'[y] = cache[y]
    BY <1>1 DEF TypeOK
  <2> QED
    BY <2>1, <2>2 DEF Copies
<1>6. /\ db = NoDz => db' = NoDz
      /\ db # NoDz => db' \in Copies /\ db'.members = {}
  BY <1>1 DEF TypeOK, Copies
<1> HIDE DEF m
<1>7. Existence'
  <2>1. \A y \in Zones : cache'[y] = NoDz <=> cache[y] = NoDz
    BY <1>1, <1>5, NoDzAssumption
  <2>2. db' = NoDz <=> db = NoDz
    BY <1>6, NoDzAssumption
  <2> QED
    BY <1>1, <1>2, <1>4, <2>1, <2>2, SaysExists
<1>8. Membership'
  <2>1. \A c \in Characters :
           /\ db' # NoDz => (c \in db'.members <=> Puts(m, c))
           /\ c \in cache'[z].members <=> Puts(m, c)
    BY <1>3, <1>5, <1>6
  <2> QED
    BY <1>1, <1>2, <1>3, <1>4, <1>5, <2>1, SaysMembers
<1> QED
  BY <1>7, <1>8

\* A zone asks for another leader.
LEMMA DzMakeLeaderCopies ==
  ASSUME IInv, Copied, NEW z \in Zones, NEW c \in Characters, DzMakeLeader(z, c)
  PROVE  Copied'
<1> USE DEF IInv, Copied
<1> DEFINE m == [op |-> "Make", by |-> cache[z].leader, who |-> c]
<1>1. /\ Send(z, m) /\ cache[z] # NoDz
      /\ UNCHANGED <<db, world, cache, running, linked, down, expired, past>>
  BY DEF DzMakeLeader
<1>2. m \in Heard /\ m.op = "Make"
  <2>1. cache[z] \in Copies
    BY <1>1 DEF TypeOK
  <2> QED
    BY <2>1 DEF Heard, Copies
<1> HIDE DEF m
<1>3. Touched(m) = {}
  BY <1>2 DEF Touched
<1>4. Races(z, Touched(m))
  BY <1>1, <1>3 DEF Races, TypeOK
<1>5. Existence'
  BY <1>1, <1>2, SaysExists
<1>6. Membership'
  BY <1>1, <1>2, <1>3, <1>4, SaysMembers
<1> QED
  BY <1>5, <1>6

\* World does something and tells of it: it brings nothing in and ends nothing.
LEMMA TellsCopies ==
  ASSUME TypeOK, TypeOK', Copied, NEW z, NEW m, Taken(z, m), Dwindles,
         \/ m \in Said /\ m.op \notin {"Created", "Deleted"} /\ Announces(m)
         \/ Touched(m) = {} /\ AnnouncesNothing,
         \A c \in Touched(m) : z \in Zones /\ m.from = z,
         UNCHANGED <<cache, running, linked, expired>>,
         past'.raced = past.raced, past'.missed = past.missed,
         db' = NoDz <=> db = NoDz, db # NoDz => db'.members = db.members,
         world' = NoDz <=> world = NoDz,
         \A c \in Characters : world # NoDz =>
           IF c \in Touched(m) THEN c \in world'.members <=> Puts(m, c)
           ELSE c \in world'.members <=> c \in world.members
  PROVE  Copied'
<1> USE DEF Copied
<1>1. PassedOn(m)
  BY AnnouncesPassed, NothingPassed
<1>2. Existence'
  <2>1. CASE m \in Said /\ m.op \notin {"Created", "Deleted"} /\ Announces(m)
    <3> DEFINE N == {m} \union {l \in Said : l.op = "Leader"}
    <3>1. \A n \in N : n.op # "Created" /\ n.op # "Deleted"
      BY <2>1
    <3>2. \A y \in Zones :
            /\ Messages(down[y]) \subseteq Messages(down'[y])
            /\ Messages(down'[y]) \subseteq Messages(down[y]) \union N
            /\ y \notin linked => down'[y] = down[y]
            /\ world = NoDz /\ Undone(down[y]) => Undone(down'[y])
      BY <2>1, AnnouncesGrows
    <3> HIDE DEF N
    <3> QED
      BY <3>1, <3>2, TellsExists
  <2>2. CASE AnnouncesNothing
    <3> DEFINE N == {l \in Said : l.op = "Leader"}
    <3>1. \A n \in N : n.op # "Created" /\ n.op # "Deleted"
      OBVIOUS
    <3>2. ASSUME NEW y \in Zones
          PROVE  /\ Messages(down[y]) \subseteq Messages(down'[y])
                 /\ Messages(down'[y]) \subseteq Messages(down[y]) \union N
                 /\ y \notin linked => down'[y] = down[y]
                 /\ world = NoDz /\ Undone(down[y]) => Undone(down'[y])
      BY <2>2, NothingGrows
    <3> HIDE DEF N
    <3> QED
      BY <3>1, <3>2, TellsExists
  <2> QED
    BY <2>1, <2>2
<1>3. world' # NoDz => db' # NoDz
  BY DEF Existence, SavedFits
<1>4. Membership'
  BY <1>1, <1>3, WorldMembers
<1> QED
  BY <1>2, <1>4

\* World hears of a new expedition.
LEMMA CacheNewCopies ==
  ASSUME IInv, IInv', Copied, NEW z \in Zones, CacheNew(z)
  PROVE  Copied'
<1> USE DEF IInv, Copied
<1> DEFINE m == Head(up[z])
<1>1. /\ Hears(z, "Created") /\ Broadcast(<<m>>) /\ UNCHANGED <<db, past>>
      /\ world' = IF world # NoDz THEN world
                  ELSE [members |-> m.copy.members, leader |-> m.copy.leader,
                        needed |-> FALSE, ready |-> FALSE]
  BY DEF CacheNew
<1>2. UNCHANGED <<cache, running, linked, expired, budget>>
  BY <1>1 DEF Hears
<1>3. m \in Messages(up[z]) /\ m \in Heard /\ m.op = "Created"
  BY <1>1, HearsDwindles
<1>4. m \in Said /\ m.from = z
  BY <1>3, Kinds DEF Existence, SignedFit, Said
<1>5. Has(up[z], "Created")
  BY <1>3 DEF Has
<1>6. world = NoDz /\ db # NoDz
  BY <1>5 DEF Existence, CreatedFits
<1>7. Taken(z, m)
  BY <1>1, HearsTaken
<1> HIDE DEF m
<1>8. PassedOn(m)
  BY <1>1, <1>4, AnnouncesPassed DEF Announces
<1>9. Touched(m) = Characters /\ \A c : Puts(m, c) <=> c \in m.copy.members
  BY <1>3 DEF Touched, Puts
<1>10. world'.members = m.copy.members
  BY <1>1, <1>6
<1>11. Membership'
  BY <1>1, <1>2, <1>4, <1>6, <1>7, <1>8, <1>9, <1>10, WorldMembers
<1>12. Existence'
  BY CacheNewExists
<1> QED
  BY <1>11, <1>12

\* World hears of a change.
LEMMA ChangeHeardCopies ==
  ASSUME IInv, IInv', Copied, NEW z \in Zones, Change(z)
  PROVE  Copied'
<1> USE DEF IInv
<1> DEFINE m  == Head(up[z])
           dz == [world EXCEPT !.members = (@ \union m.in) \ m.out]
<1>1. Hears(z, "Change")
  BY DEF Change
<1>2. UNCHANGED <<cache, running, linked, expired, budget>>
  BY <1>1 DEF Hears
<1>3. Dwindles /\ m \in Messages(up[z]) /\ m \in Heard /\ m.op = "Change"
  BY <1>1, HearsDwindles
<1>4. /\ m \in Said /\ m.from = z /\ m.out \intersect m.in = {}
      /\ m.out \subseteq Characters /\ m.in \subseteq Characters
  BY <1>3, Kinds DEF Copied, Existence, SignedFit, Said
<1>5. Taken(z, m)
  BY <1>1, HearsTaken
<1>6. Touched(m) = m.out \union m.in /\ \A c : Puts(m, c) <=> c \in m.in
  BY <1>3 DEF Touched, Puts
<1>7. CASE world = NoDz
  <2>1. Broadcast(<<m>>) /\ UNCHANGED <<world, db, past>>
    BY <1>7 DEF Change
  <2> HIDE DEF m
  <2>2. Announces(m)
    BY <2>1 DEF Announces
  <2> QED
    BY <1>2, <1>3, <1>4, <1>5, <1>7, <2>1, <2>2, TellsCopies
<1>8. CASE world # NoDz
  <2>1. PICK new \in IF world.leader \in m.out THEN ChooseNewLeader(dz) ELSE {dz} :
          Becomes(new, <<m>>)
    BY <1>8 DEF Change
  <2>2. world \in WorldCopies
    BY <1>8 DEF TypeOK
  <2>3. /\ dz \in WorldCopies /\ dz.members = (world.members \union m.in) \ m.out
    BY <1>4, <2>2 DEF WorldCopies
  <2> HIDE DEF m
  <2>4. new \in WorldCopies /\ new.members = dz.members
    BY <2>1, <2>3, ChooseNewLeaderFits
  <2>5. /\ world' = new /\ (db' = NoDz <=> db = NoDz)
        /\ db # NoDz => db'.members = db.members
        /\ past'.raced = past.raced /\ past'.missed = past.missed
        /\ Announces(m)
    BY <2>1, <2>4, BecomesTells
  <2>6. world' # NoDz
    BY <2>4, <2>5, NoDzAssumption
  <2>7. \A c \in Characters :
          IF c \in Touched(m) THEN c \in world'.members <=> Puts(m, c)
          ELSE c \in world'.members <=> c \in world.members
    BY <1>4, <1>6, <2>3, <2>4, <2>5
  <2> QED
    BY <1>2, <1>3, <1>4, <1>5, <1>8, <2>5, <2>6, <2>7, TellsCopies
<1> QED
  BY <1>7, <1>8

\* World hears that all members are removed.
LEMMA ClearHeardCopies ==
  ASSUME IInv, IInv', Copied, NEW z \in Zones, Clear(z)
  PROVE  Copied'
<1> USE DEF IInv
<1> DEFINE m == Head(up[z])
<1>1. /\ Hears(z, "Clear") /\ Broadcast(<<m>>) /\ UNCHANGED <<db, past>>
      /\ world' = IF world = NoDz THEN world ELSE [world EXCEPT !.members = {}]
  BY DEF Clear
<1>2. UNCHANGED <<cache, running, linked, expired, budget>>
  BY <1>1 DEF Hears
<1>3. Dwindles /\ m \in Messages(up[z]) /\ m \in Heard /\ m.op = "Clear"
  BY <1>1, HearsDwindles
<1>4. m \in Said /\ m.from = z
  BY <1>3, Kinds DEF Copied, Existence, SignedFit, Said
<1>5. Taken(z, m)
  BY <1>1, HearsTaken
<1>6. Touched(m) = Characters /\ \A c : ~Puts(m, c)
  BY <1>3 DEF Touched, Puts
<1> HIDE DEF m
<1>7. Announces(m)
  BY <1>1 DEF Announces
<1>8. world # NoDz => world' \in WorldCopies /\ world'.members = {}
  BY <1>1 DEF TypeOK, WorldCopies
<1>9. world' = NoDz <=> world = NoDz
  BY <1>1, <1>8, NoDzAssumption
<1>10. \A c \in Characters : world # NoDz =>
         IF c \in Touched(m) THEN c \in world'.members <=> Puts(m, c)
         ELSE c \in world'.members <=> c \in world.members
  BY <1>6, <1>8
<1> QED
  BY <1>1, <1>2, <1>3, <1>4, <1>5, <1>7, <1>9, <1>10, TellsCopies

\* World hears that the leader wants another.
LEMMA MakeLeaderCopies ==
  ASSUME IInv, IInv', Copied, NEW z \in Zones, MakeLeader(z)
  PROVE  Copied'
<1> USE DEF IInv
<1> DEFINE m == Head(up[z])
           dz == [world EXCEPT !.leader = m.who]
<1>1. /\ Hears(z, "Make")
      /\ \/ UNCHANGED <<world, db, down, past>>
         \/ /\ world # NoDz
            /\ SetNewLeader(dz, <<>>)
  BY DEF MakeLeader
<1>2. UNCHANGED <<cache, running, linked, expired, budget>>
  BY <1>1 DEF Hears
<1>3. Dwindles /\ m \in Heard /\ m.op = "Make"
  BY <1>1, HearsDwindles
<1>4. Touched(m) = {}
  BY <1>3 DEF Touched
<1>5. Taken(z, m)
  BY <1>1, HearsTaken
<1>6. CASE UNCHANGED <<world, db, down, past>>
  <2>1. AnnouncesNothing
    BY <1>6 DEF AnnouncesNothing
  <2> HIDE DEF m
  <2> QED
    BY <1>2, <1>3, <1>4, <1>5, <1>6, <2>1, TellsCopies
<1>7. CASE world # NoDz /\ SetNewLeader(dz, <<>>)
  <2>1. dz \in WorldCopies /\ dz.members = world.members
    BY <1>3, <1>7, Kinds DEF TypeOK, WorldCopies
  <2> HIDE DEF m, dz
  <2>2. /\ world' = dz /\ (db' = NoDz <=> db = NoDz)
        /\ db # NoDz => db'.members = db.members
        /\ past'.raced = past.raced /\ past'.missed = past.missed
        /\ AnnouncesNothing
    BY <1>7, <2>1, SetNewLeaderTells
  <2>3. world' # NoDz
    BY <2>1, <2>2, NoDzAssumption
  <2> QED
    BY <1>2, <1>3, <1>4, <1>5, <1>7, <2>1, <2>2, <2>3, TellsCopies
<1> QED
  BY <1>1, <1>6, <1>7

\* World looks for a leader when a status changes or one is owed.
LEMMA LookCopies ==
  ASSUME IInv, IInv', Copied, StatusChange \/ CheckLeader
  PROVE  Copied'
<1> USE DEF IInv
<1> DEFINE m == [op |-> "Leader"]
<1>1. /\ world # NoDz /\ UNCHANGED <<cache, running, linked, up, expired>>
      /\ \E new \in ChooseNewLeader(world) : Becomes(new, <<>>)
  BY DEF StatusChange, CheckLeader
<1>2. PICK new \in ChooseNewLeader(world) : Becomes(new, <<>>)
  BY <1>1
<1>3. world \in WorldCopies
  BY <1>1 DEF TypeOK
<1>4. new \in WorldCopies /\ new.members = world.members
  BY <1>2, <1>3, ChooseNewLeaderFits
<1>5. /\ world' = new /\ (db' = NoDz <=> db = NoDz)
      /\ db # NoDz => db'.members = db.members
      /\ past'.raced = past.raced /\ past'.missed = past.missed
      /\ AnnouncesNothing
  BY <1>2, <1>4, BecomesTells
<1>6. world' # NoDz
  BY <1>4, <1>5, NoDzAssumption
<1>7. Touched(m) = {}
  BY DEF Touched
<1>8. Taken(NoDz, m) /\ Dwindles
  BY <1>1, <1>7, NoneTaken DEF Dwindles
<1> HIDE DEF m
<1> QED
  BY <1>1, <1>4, <1>5, <1>6, <1>7, <1>8, TellsCopies

\* World deletes the expedition.
LEMMA DeleteCopies ==
  ASSUME IInv, IInv', Copied, Delete
  PROVE  Copied'
<1> USE DEF IInv, Copied
<1> DEFINE m == [op |-> "Deleted"]
<1>1. /\ world' = NoDz /\ db' = NoDz /\ Broadcast(<<m>>)
      /\ UNCHANGED <<cache, running, linked, up, expired, budget, past>>
  BY DEF Delete
<1>2. m \in Said /\ Touched(m) = {}
  BY DEF Said, Touched
<1> HIDE DEF m
<1>3. PassedOn(m)
  BY <1>1, <1>2, AnnouncesPassed DEF Announces
<1>4. Taken(NoDz, m)
  BY <1>1, <1>2, NoneTaken
<1>5. Membership'
  BY <1>1, <1>2, <1>3, <1>4, WorldMembers
<1>6. Existence'
  BY DeleteExists
<1> QED
  BY <1>5, <1>6

\* A zone handles a message.
LEMMA HandleCopies ==
  ASSUME IInv, Copied, NEW z \in Zones, HandleWorldMessage(z)
  PROVE  Copied'
BY HandleExists, HandleMembers DEF IInv, Copied

\* A zone boots.
LEMMA BootCopies ==
  ASSUME IInv, Copied, NEW z \in Zones, Boot(z)
  PROVE  Copied'
<1> USE DEF IInv, Copied
<1>1. Membership'
  BY BootMembers
<1>2. /\ cache' = [cache EXCEPT ![z] = IF expired THEN NoDz ELSE db]
      /\ running' = running \union {z}
      /\ past'.missed = IF z \in linked THEN past.missed \ {z} ELSE past.missed \union {z}
      /\ UNCHANGED <<db, world, linked, up, down, expired, budget>>
  BY DEF Boot, TypeOK
<1>3. LinksFit' /\ SignedFit' /\ CreatedFits' /\ SavedFits'
  BY <1>2 DEF Existence, LinksFit, SignedFit, CreatedFits, SavedFits
<1>4. ASSUME NEW y \in InTouch'
      PROVE  /\ world # NoDz /\ cache'[y] = NoDz => expired \/ Brings(y)
             /\ Has(up[y], "Created") /\ cache'[y] = NoDz => expired
             /\ world = NoDz /\ db = NoDz /\ cache'[y] # NoDz => Has(down[y], "Deleted")
  <2>1. y \in Zones
    BY <1>2 DEF InTouch, TypeOK
  <2>2. CASE y # z
    <3>1. y \in InTouch /\ cache'[y] = cache[y]
      BY <1>2, <2>1, <2>2 DEF InTouch, TypeOK
    <3> QED
      BY <3>1 DEF Existence, CachedFits
  <2>3. CASE y = z
    <3>1. cache'[y] = IF expired THEN NoDz ELSE db
      BY <1>2, <2>3 DEF TypeOK
    <3> QED
      BY <2>1, <3>1 DEF Existence, CreatedFits, SavedFits
  <2> QED
    BY <2>2, <2>3
<1>5. CachedFits'
  BY <1>2, <1>4 DEF CachedFits, Brings
<1> QED
  BY <1>1, <1>3, <1>5 DEF Existence

\* A zone goes, a link fails or is there again, or time passes.
LEMMA QuietExists ==
  ASSUME TypeOK, Existence, InTouch' \subseteq InTouch, UNCHANGED db,
         world' = NoDz <=> world = NoDz, expired => expired',
         \A z \in InTouch' : cache'[z] = cache[z] /\ down'[z] = down[z],
         \A z \in Zones : \/ up'[z] = up[z] /\ down'[z] = down[z]
                          \/ up'[z] = <<>> /\ down'[z] = <<>>,
         \A z \in Zones \ linked' :
           up'[z] = <<>> /\ down'[z] = <<>> /\ z \in past'.missed
  PROVE  Existence'
<1>1. ASSUME NEW z \in Zones
      PROVE  /\ Messages(up'[z]) \subseteq Messages(up[z])
             /\ OnlyFirst(up[z]) => OnlyFirst(up'[z])
             /\ Messages(down'[z]) \subseteq Messages(down[z])
             /\ Undone(down[z]) => Undone(down'[z])
  BY MessagesFew
<1>2. \A z \in Zones : \A op : /\ Has(up'[z], op) => Has(up[z], op)
                               /\ Has(down'[z], op) => Has(down[z], op)
  BY <1>1 DEF Has
<1>3. LinksFit'
  BY DEF LinksFit
<1>4. SignedFit'
  BY <1>1 DEF Existence, SignedFit
<1>5. CreatedFits'
  BY <1>1, <1>2 DEF Existence, CreatedFits
<1>6. SavedFits'
  BY <1>1, <1>2 DEF Existence, SavedFits
<1>7. InTouch \subseteq Zones
  BY DEF InTouch, TypeOK
<1>8. ASSUME NEW z \in InTouch'
      PROVE  /\ world' # NoDz /\ cache'[z] = NoDz => expired' \/ Brings(z)'
             /\ Has(up'[z], "Created") /\ cache'[z] = NoDz => expired'
             /\ world' = NoDz /\ db' = NoDz /\ cache'[z] # NoDz
                  => Has(down'[z], "Deleted")
  BY <1>2, <1>7 DEF Existence, CachedFits, Brings
<1>9. CachedFits'
  BY <1>8 DEF CachedFits
<1> QED
  BY <1>3, <1>4, <1>5, <1>6, <1>9 DEF Existence

\* So the copies stay as they should be.
LEMMA QuietCopies ==
  ASSUME IInv, Copied,
         \/ \E z \in Zones : Shutdown(z) \/ LinkLost(z) \/ Reconnect(z)
         \/ CooldownEnds \/ Expire
  PROVE  Copied'
<1> USE DEF IInv, Copied
<1>1. ASSUME NEW z \in Zones, Shutdown(z) PROVE Copied'
  <2>1. /\ running' = running \ {z} /\ cache' = [cache EXCEPT ![z] = NoDz]
        /\ UNCHANGED <<db, world, linked, up, down, expired, past>>
    BY <1>1 DEF Shutdown
  <2>2. InTouch' \subseteq InTouch /\ \A y \in InTouch' : cache'[y] = cache[y]
    BY <2>1 DEF InTouch, TypeOK
  <2>3. Membership'
    BY <2>1, <2>2, QuietMembers
  <2>4. \A y \in Zones \ linked' : up'[y] = <<>> /\ down'[y] = <<>> /\ y \in past'.missed
    BY <2>1 DEF Existence, LinksFit
  <2>5. Existence'
    BY <2>1, <2>2, <2>4, QuietExists
  <2> QED
    BY <2>3, <2>5
<1>2. ASSUME NEW z \in Zones, LinkLost(z) PROVE Copied'
  <2>1. /\ linked' = linked \ {z}
        /\ \A y \in Zones : /\ up'[y] = IF y = z THEN <<>> ELSE up[y]
                            /\ down'[y] = IF y = z THEN <<>> ELSE down[y]
        /\ past'.raced = past.raced \union AllTouched(up[z])
        /\ past'.missed = past.missed \union {z}
        /\ UNCHANGED <<db, world, cache, running, expired>>
    BY <1>2 DEF LinkLost, TypeOK
  <2>2. InTouch' \subseteq InTouch /\ \A y \in InTouch' : y \in Zones /\ y # z
    BY <2>1 DEF InTouch, TypeOK
  <2>3. Membership'
    BY <2>1, <2>2, QuietMembers
  <2>4. \A y \in Zones \ linked' : up'[y] = <<>> /\ down'[y] = <<>> /\ y \in past'.missed
    BY <2>1 DEF Existence, LinksFit
  <2>5. Existence'
    BY <2>1, <2>2, <2>4, QuietExists
  <2> QED
    BY <2>3, <2>5
<1>3. ASSUME NEW z \in Zones, Reconnect(z) PROVE Copied'
  <2>1. /\ linked' = linked \union {z}
        /\ UNCHANGED <<db, world, cache, running, up, down, expired, budget, past>>
    BY <1>3 DEF Reconnect
  <2>2. InTouch' = InTouch
    BY <2>1 DEF InTouch
  <2>3. Membership'
    BY <2>1, <2>2, QuietMembers
  <2>4. \A y \in Zones \ linked' : up'[y] = <<>> /\ down'[y] = <<>> /\ y \in past'.missed
    BY <2>1 DEF Existence, LinksFit
  <2>5. Existence'
    BY <2>1, <2>2, <2>4, QuietExists
  <2> QED
    BY <2>3, <2>5
<1>4. CASE CooldownEnds
  <2>1. /\ world # NoDz /\ world' = [world EXCEPT !.ready = TRUE]
        /\ UNCHANGED <<db, cache, running, linked, up, down, expired, budget, past>>
    BY <1>4 DEF CooldownEnds
  <2>2. world' \in WorldCopies /\ world'.members = world.members
    BY <2>1 DEF TypeOK, WorldCopies
  <2>3. InTouch' = InTouch /\ world' # NoDz
    BY <2>1, <2>2, NoDzAssumption DEF InTouch
  <2>4. Membership'
    BY <2>1, <2>2, <2>3, QuietMembers
  <2>5. \A y \in Zones \ linked' : up'[y] = <<>> /\ down'[y] = <<>> /\ y \in past'.missed
    BY <2>1 DEF Existence, LinksFit
  <2>6. Existence'
    BY <2>1, <2>3, <2>5, QuietExists
  <2> QED
    BY <2>4, <2>6
<1>5. CASE Expire
  <2>1. expired' = TRUE /\ UNCHANGED <<db, world, cache, running, linked, up, down, past>>
    BY <1>5 DEF Expire
  <2>2. InTouch' = InTouch
    BY <2>1 DEF InTouch
  <2>3. Membership'
    BY <2>1, <2>2, QuietMembers
  <2>4. \A y \in Zones \ linked' : up'[y] = <<>> /\ down'[y] = <<>> /\ y \in past'.missed
    BY <2>1 DEF Existence, LinksFit
  <2>5. Existence'
    BY <2>1, <2>2, <2>4, QuietExists
  <2> QED
    BY <2>3, <2>5
<1> QED
  BY <1>1, <1>2, <1>3, <1>4, <1>5

\* World restarts.
LEMMA RestartCopies ==
  ASSUME IInv, Copied, WorldRestart
  PROVE  Copied'
<1> USE DEF IInv, Copied
<1> DEFINE stays == db # NoDz /\ ~expired /\ db.members # {}
<1>1. /\ db' = IF stays THEN db ELSE NoDz
      /\ world' = IF stays
                  THEN [members |-> db.members, leader |-> db.leader,
                        needed |-> FALSE, ready |-> FALSE]
                  ELSE NoDz
      /\ past'.missed = Zones
      /\ up' = [y \in Zones |-> <<>>] /\ down' = [y \in Zones |-> <<>>]
      /\ running' = running
  BY DEF WorldRestart
<1>2. InTouch' = {}
  BY <1>1 DEF InTouch, TypeOK
<1>3. \A y \in Zones : /\ up'[y] = <<>> /\ down'[y] = <<>>
                       /\ Messages(up'[y]) = {} /\ Messages(down'[y]) = {}
                       /\ Undone(down'[y])
  BY <1>1, MessagesFew
<1>4. world' # NoDz => db' # NoDz
  BY <1>1
<1>5. Existence'
  BY <1>1, <1>2, <1>3, <1>4
     DEF Existence, LinksFit, SignedFit, CreatedFits, SavedFits, CachedFits, Has
<1>6. Membership'
  BY RestartMembers
<1> QED
  BY <1>5, <1>6

-----------------------------------------------------------------------------
(* The invariant.                                                          *)

\* The copies are as they should be at first.
LEMMA InitCopied == Init => Copied
<1> SUFFICES ASSUME Init PROVE Copied
  OBVIOUS
<1>1. /\ db = NoDz /\ world = NoDz /\ linked = Zones
      /\ \A y \in Zones : cache[y] = NoDz /\ up[y] = <<>> /\ down[y] = <<>>
      /\ InTouch \subseteq Zones
  BY DEF Init, InTouch
<1>2. \A y \in Zones : /\ Messages(up[y]) = {} /\ Messages(down[y]) = {}
                       /\ Undone(down[y])
  BY <1>1, MessagesFew
<1>3. Existence
  BY <1>1, <1>2
     DEF Existence, LinksFit, SignedFit, CreatedFits, SavedFits, CachedFits, Has
<1>4. ASSUME NEW c PROVE MemberFits(c)
  <2>1. \A y \in Zones : ~Spoken(y, c)
    BY <1>1 DEF Spoken, Speaks
  <2> QED
    BY <1>1, <2>1 DEF MemberFits, AloneFits, SavedMember, WorldMember
<1>5. Membership
  BY <1>4 DEF Membership
<1> QED
  BY <1>3, <1>5 DEF Copied

\* They are so after every step.
LEMMA NextCopied == IInv /\ IInv' /\ Copied /\ [Next]_vars => Copied'
<1> SUFFICES ASSUME IInv, IInv', Copied, [Next]_vars PROVE Copied'
  OBVIOUS
<1>1. ASSUME NEW z \in Zones, NEW c \in Characters, AddMember(z, c) PROVE Copied'
  BY <1>1, ChangeCopies DEF AddMember
<1>2. ASSUME NEW z \in Zones, NEW c \in Characters, RemoveMember(z, c) PROVE Copied'
  <2>1. cache[z] # NoDz /\ ChangeMembers(z, {c}, {})
    BY <1>2 DEF RemoveMember
  <2> QED
    BY <2>1, ChangeCopies
<1>3. ASSUME NEW z \in Zones, NEW c \in Characters, NEW d \in Characters,
             SwapMember(z, c, d)
      PROVE  Copied'
  <2>1. cache[z] # NoDz /\ c # d /\ ChangeMembers(z, {d}, {c})
    BY <1>3 DEF SwapMember
  <2>2. {d} \intersect {c} = {}
    BY <2>1
  <2> QED
    BY <2>1, <2>2, ChangeCopies
<1>4. ASSUME NEW z \in Zones, \E c \in Characters : DzMakeLeader(z, c) PROVE Copied'
  BY <1>4, DzMakeLeaderCopies
<1>5. ASSUME NEW z \in Zones,
             \/ TryCreate(z) \/ RemoveAllMembers(z) \/ HandleWorldMessage(z)
             \/ Boot(z)
      PROVE  Copied'
  BY <1>5, TryCreateCopies, RemoveAllCopies, HandleCopies, BootCopies
<1>6. ASSUME NEW z \in Zones,
             \/ CacheNew(z) \/ Change(z) \/ Clear(z) \/ MakeLeader(z)
      PROVE  Copied'
  BY <1>6, CacheNewCopies, ChangeHeardCopies, ClearHeardCopies, MakeLeaderCopies
<1>7. CASE \/ \E z \in Zones : Shutdown(z) \/ LinkLost(z) \/ Reconnect(z)
           \/ CooldownEnds \/ Expire
  BY <1>7, QuietCopies
<1>8. CASE StatusChange \/ CheckLeader \/ Delete \/ WorldRestart
  BY <1>8, LookCopies, DeleteCopies, RestartCopies
<1>9. CASE UNCHANGED vars
  <2>1. UNCHANGED <<db, world, cache, running, linked, up, down, expired, past>>
    BY <1>9 DEF vars
  <2>2. Existence'
    BY <2>1 DEF Copied, Existence, LinksFit, SignedFit, CreatedFits, SavedFits,
       CachedFits, InTouch, Brings
  <2>3. Membership'
    BY <2>1, QuietMembers DEF Copied, IInv, InTouch
  <2> QED
    BY <2>2, <2>3 DEF Copied
<1> QED
  BY <1>1, <1>2, <1>3, <1>4, <1>5, <1>6, <1>7, <1>8, <1>9 DEF Next

\* When nothing is on the way, the copies agree.
LEMMA CopiedAgree == IInv /\ Copied => CopiesAgree
<1> SUFFICES ASSUME IInv, Copied, Settled PROVE CopiesAgree
  BY DEF CopiesAgree
<1>1. \A y \in Zones : /\ up[y] = <<>> /\ down[y] = <<>>
                       /\ Messages(down[y]) = {}
  BY MessagesFew DEF Settled
<1>2. ASSUME NEW c \in Characters \ past.raced, world # NoDz
      PROVE  /\ c \in world.members <=> c \in db.members
             /\ \A z \in InTouch : cache[z] # NoDz =>
                  (c \in cache[z].members <=> c \in world.members)
  <2>1. \A y \in Zones : \A T : /\ ~Spoken(y, c) /\ ~Told(y, c)
                                /\ ~SomePuts(up[y], Zones, c, T)
    BY <1>1 DEF Spoken, Told, Speaks, SomePuts
  <2>2. InTouch \subseteq Zones /\ db # NoDz
    BY <1>2 DEF InTouch, IInv, TypeOK, Copied, Existence, SavedFits
  <2> QED
    BY <1>2, <2>1, <2>2 DEF Copied, Membership, MemberFits, SavedMember, WorldMember
<1>3. ASSUME world # NoDz PROVE db # NoDz /\ Agree(db.members, world.members)
  <2>1. db \in Copies /\ world \in WorldCopies /\ db # NoDz
    BY <1>3 DEF IInv, TypeOK, Copied, Existence, SavedFits
  <2>2. db.members \subseteq Characters /\ world.members \subseteq Characters
    BY <2>1 DEF Copies, WorldCopies
  <2> QED
    BY <1>2, <1>3, <2>1, <2>2 DEF Agree
<1>4. ASSUME NEW z \in InTouch
      PROVE  /\ world # NoDz => IF cache[z] = NoDz THEN expired
                                ELSE Agree(cache[z].members, world.members)
             /\ world = NoDz /\ db = NoDz => cache[z] = NoDz
  <2>1. z \in Zones
    BY DEF InTouch, IInv, TypeOK
  <2>2. ~Brings(z) /\ ~Has(down[z], "Deleted")
    BY <1>1, <2>1 DEF Brings, Has
  <2>3. ASSUME world # NoDz, cache[z] # NoDz
        PROVE  Agree(cache[z].members, world.members)
    <3>1. cache[z] \in Copies /\ world \in WorldCopies
      BY <2>1, <2>3 DEF IInv, TypeOK
    <3>2. cache[z].members \subseteq Characters /\ world.members \subseteq Characters
      BY <3>1 DEF Copies, WorldCopies
    <3> QED
      BY <1>2, <2>3, <3>2 DEF Agree
  <2> QED
    BY <2>2, <2>3 DEF Copied, Existence, CachedFits
<1> QED
  BY <1>3, <1>4 DEF CopiesAgree

\* World, the database and the zones in touch agree on the members when nothing
\* is on the way, but for those who raced, and an expedition that was deleted is
\* gone everywhere: however zones change the members, restart, lose their links.
THEOREM DynamicZonesCopiesAgree == Spec => []CopiesAgree
<1>1. IInv /\ Copied /\ [Next]_vars => (IInv /\ Copied)'
  BY NextInv, NextCopied
<1>2. Init => IInv /\ Copied
  BY InitInv, InitCopied
<1> QED
  BY <1>1, <1>2, CopiedAgree, PTL DEF Spec

-----------------------------------------------------------------------------
(* What a queue says of the leader.                                        *)

\* A message that sets the leader of the copy of a zone, if those of S are not
\* its own, and one that sets l.
Leads(m, S) == m.op = "Leader" \/ (m.op = "Created" /\ m.from \in S)
Says(m, l) ==
  \/ m.op = "Leader" /\ m.who = l
  \/ m.op = "Created" /\ m.copy.leader = l

\* There is none in a queue; there is none behind the i-th; the last one is l's.
NoLead(q, S) == \A i \in DOMAIN q : ~Leads(q[i], S)
LastLead(q, S, i) ==
  Leads(q[i], S) /\ \A j \in DOMAIN q : j > i => ~Leads(q[j], S)
LastSays(q, S, l) == \A i \in DOMAIN q : LastLead(q, S, i) => Says(q[i], l)

\* What is before the i-th makes l a member, or leaves him one of T.
PutsBefore(q, S, l, i) ==
  \A k \in DOMAIN q :
    /\ k < i /\ Concerns(q[k], S, l)
    /\ \A j \in DOMAIN q : k < j /\ j < i => ~Concerns(q[j], S, l)
    => Puts(q[k], l)
SilentBefore(q, S, l, i) ==
  \A k \in DOMAIN q : k < i => ~Concerns(q[k], S, l)
KnownBefore(q, S, l, T, i) ==
  PutsBefore(q, S, l, i) /\ (SilentBefore(q, S, l, i) => l \in T)

\* A copy with the members T has l for a member when it hears of the leader.
Arrives(q, S, l, T) ==
  \A i \in DOMAIN q :
    q[i].op = "Leader" /\ LastLead(q, S, i) => KnownBefore(q, S, l, T, i)

\* A queue that sets no leader, and members who know as much.
LEMMA LeadEnds ==
  ASSUME NEW q, NEW S, NEW l, NEW T, NEW U
  PROVE  /\ NoLead(<<>>, S)
         /\ NoLead(q, S) => LastSays(q, S, l) /\ Arrives(q, S, l, T)
         /\ Arrives(q, S, l, T) /\ (l \in T => l \in U) => Arrives(q, S, l, U)
<1>1. NoLead(<<>>, S)
  BY DEF NoLead
<1>2. NoLead(q, S) => LastSays(q, S, l) /\ Arrives(q, S, l, T)
  BY DEF NoLead, LastSays, Arrives, LastLead
<1>3. Arrives(q, S, l, T) /\ (l \in T => l \in U) => Arrives(q, S, l, U)
  BY DEF Arrives, KnownBefore
<1> QED
  BY <1>1, <1>2, <1>3

\* One more message at the end.
LEMMA LeadAppend ==
  ASSUME NEW M, NEW q \in Seq(M), NEW m \in M, NEW S, NEW l, NEW T, NEW W
  PROVE  LET r == Append(q, m)
         IN  /\ NoLead(r, S) <=> NoLead(q, S) /\ ~Leads(m, S)
             /\ Leads(m, S) /\ Says(m, l) => LastSays(r, S, l)
             /\ ~Leads(m, S) /\ LastSays(q, S, l) => LastSays(r, S, l)
             /\ ~Leads(m, S) /\ Arrives(q, S, l, T) => Arrives(r, S, l, T)
             /\ Leads(m, S) /\ m.op # "Leader" => Arrives(r, S, l, T)
             /\ /\ m.op = "Leader"
                /\ LastPuts(q, S, l, W) /\ l \in W
                /\ ~Speaks(q, S, l) => l \in T
                => Arrives(r, S, l, T)
<1> DEFINE r == Append(q, m)
           n == Len(q)
<1>1. n \in Nat /\ DOMAIN q = 1..n
  OBVIOUS
<1>2. /\ DOMAIN r = 1..(n + 1) /\ r[n + 1] = m
      /\ \A i \in 1..n : r[i] = q[i]
  <2>1. r \in Seq(M) /\ Len(r) = n + 1
    OBVIOUS
  <2> QED
    BY <2>1
<1> HIDE DEF r, n
<1>3. /\ n + 1 \in 1..(n + 1)
      /\ \A i \in 1..n : i \in 1..(n + 1) /\ n + 1 > i /\ i < n + 1
      /\ \A i \in 1..(n + 1) : /\ i = n + 1 \/ i \in 1..n
                              /\ ~(i > n + 1)
                              /\ ~(i < i)
  BY <1>1
<1>4. NoLead(r, S) <=> NoLead(q, S) /\ ~Leads(m, S)
  BY <1>1, <1>2, <1>3 DEF NoLead
<1>5. ASSUME Leads(m, S)
      PROVE  \A i \in DOMAIN r : LastLead(r, S, i) => i = n + 1
  BY <1>1, <1>2, <1>3, <1>5 DEF LastLead
<1>6. ASSUME ~Leads(m, S)
      PROVE  \A i \in DOMAIN r : LastLead(r, S, i) => i \in 1..n /\ LastLead(q, S, i)
  BY <1>1, <1>2, <1>3, <1>6 DEF LastLead
<1>7. Leads(m, S) /\ Says(m, l) => LastSays(r, S, l)
  BY <1>2, <1>5 DEF LastSays
<1>8. ~Leads(m, S) /\ LastSays(q, S, l) => LastSays(r, S, l)
  BY <1>1, <1>2, <1>6 DEF LastSays
<1>9. ASSUME ~Leads(m, S), Arrives(q, S, l, T) PROVE Arrives(r, S, l, T)
  <2> SUFFICES ASSUME NEW i \in DOMAIN r, r[i].op = "Leader", LastLead(r, S, i)
               PROVE  KnownBefore(r, S, l, T, i)
    BY DEF Arrives
  <2>1. i \in 1..n /\ LastLead(q, S, i) /\ q[i].op = "Leader"
    BY <1>2, <1>6, <1>9
  <2>2. KnownBefore(q, S, l, T, i)
    BY <1>1, <1>9, <2>1 DEF Arrives
  <2>3. \A k \in DOMAIN r : k < i => k \in 1..n /\ k \in DOMAIN q /\ r[k] = q[k]
    <3>1. \A k \in 1..(n + 1) : k < i => k \in 1..n
      BY <1>1, <2>1
    <3> QED
      BY <1>1, <1>2, <3>1
  <2>4. \A k \in DOMAIN q : k \in DOMAIN r /\ r[k] = q[k]
    BY <1>1, <1>2, <1>3
  <2>5. PutsBefore(r, S, l, i)
    BY <2>2, <2>3, <2>4 DEF KnownBefore, PutsBefore
  <2>6. SilentBefore(r, S, l, i) => SilentBefore(q, S, l, i)
    BY <2>4 DEF SilentBefore
  <2> QED
    BY <2>2, <2>5, <2>6 DEF KnownBefore
<1>10. Leads(m, S) /\ m.op # "Leader" => Arrives(r, S, l, T)
  BY <1>2, <1>5 DEF Arrives
<1>11. ASSUME m.op = "Leader", LastPuts(q, S, l, W), l \in W, ~Speaks(q, S, l) => l \in T
       PROVE  Arrives(r, S, l, T)
  <2>1. Leads(m, S)
    BY <1>11 DEF Leads
  <2> SUFFICES KnownBefore(r, S, l, T, n + 1)
    BY <1>5, <2>1 DEF Arrives
  <2>2. \A k \in DOMAIN r : k < n + 1 => k \in 1..n /\ k \in DOMAIN q /\ r[k] = q[k]
    BY <1>1, <1>2, <1>3
  <2>3. \A k \in DOMAIN q : k \in DOMAIN r /\ r[k] = q[k] /\ k < n + 1
    BY <1>1, <1>2, <1>3
  <2>4. ASSUME NEW k \in DOMAIN r, k < n + 1, Concerns(r[k], S, l),
               \A j \in DOMAIN r : k < j /\ j < n + 1 => ~Concerns(r[j], S, l)
        PROVE  Puts(r[k], l)
    <3>1. k \in DOMAIN q /\ r[k] = q[k]
      BY <2>2, <2>4
    <3>2. ASSUME NEW j \in DOMAIN q, j > k PROVE ~Concerns(q[j], S, l)
      <4>1. k < j
        BY <1>1, <3>1, <3>2
      <4> QED
        BY <2>3, <2>4, <4>1
    <3>3. PutsAs(q[k], l, W)
      BY <1>11, <2>4, <3>1, <3>2 DEF LastPuts
    <3> QED
      BY <1>11, <3>1, <3>3 DEF PutsAs
  <2>5. PutsBefore(r, S, l, n + 1)
    BY <2>4 DEF PutsBefore
  <2>6. SilentBefore(r, S, l, n + 1) => ~Speaks(q, S, l)
    BY <2>3 DEF SilentBefore, Speaks
  <2> QED
    BY <1>11, <2>5, <2>6 DEF KnownBefore
<1> QED
  BY <1>4, <1>7, <1>8, <1>9, <1>10, <1>11 DEF r

\* The first message is taken.
LEMMA LeadTail ==
  ASSUME NEW M, NEW q \in Seq(M), q # <<>>, NEW S, NEW l, NEW T, NEW U
  PROVE  LET h == Head(q)
         IN  /\ NoLead(q, S) <=> ~Leads(h, S) /\ NoLead(Tail(q), S)
             /\ LastSays(q, S, l) =>
                  /\ LastSays(Tail(q), S, l)
                  /\ NoLead(Tail(q), S) /\ Leads(h, S) => Says(h, l)
             /\ Arrives(q, S, l, T) =>
                  /\ NoLead(Tail(q), S) /\ h.op = "Leader" => l \in T
                  /\ /\ Concerns(h, S, l) /\ Puts(h, l) => l \in U
                     /\ ~Concerns(h, S, l) /\ l \in T => l \in U
                     => Arrives(Tail(q), S, l, U)
<1> DEFINE r == Tail(q)
           h == Head(q)
           n == Len(q) - 1
<1>1. n \in Nat /\ DOMAIN q = 1..(n + 1) /\ q[1] = h
  OBVIOUS
<1>2. DOMAIN r = 1..n /\ \A i \in 1..n : r[i] = q[i + 1]
  <2>1. r \in Seq(M) /\ Len(r) = n /\ \A i \in 1..n : r[i] = q[i + 1]
    OBVIOUS
  <2> QED
    BY <2>1
<1> HIDE DEF r, h, n
<1>3. /\ 1 \in DOMAIN q
      /\ \A i \in DOMAIN r : i \in Nat /\ i + 1 \in DOMAIN q /\ q[i + 1] = r[i] /\ i + 1 > 1
      /\ \A j \in DOMAIN q : j = 1 \/ (j > 1 /\ \E i \in DOMAIN r : j = i + 1)
  <2>1. ASSUME NEW j \in 1..(n + 1), j # 1 PROVE j > 1 /\ \E i \in 1..n : j = i + 1
    <3>1. j - 1 \in 1..n /\ j = (j - 1) + 1
      BY <1>1, <2>1
    <3> QED
      BY <1>1, <2>1, <3>1
  <2>2. \A i \in 1..n : i \in Nat /\ i + 1 \in 1..(n + 1) /\ i + 1 > 1
    BY <1>1
  <2>3. 1 \in 1..(n + 1)
    BY <1>1
  <2> QED
    BY <1>1, <1>2, <2>1, <2>2, <2>3
<1>4. \A i, j \in DOMAIN r : /\ j > i <=> j + 1 > i + 1
                             /\ j < i <=> j + 1 < i + 1
  BY <1>1, <1>2
<1>5. NoLead(q, S) <=> ~Leads(h, S) /\ NoLead(r, S)
  BY <1>1, <1>3 DEF NoLead
<1>6. ASSUME NEW i \in DOMAIN r, LastLead(r, S, i) PROVE LastLead(q, S, i + 1)
  <2>1. ASSUME NEW j \in DOMAIN q, j > i + 1 PROVE ~Leads(q[j], S)
    <3>1. j # 1
      BY <1>3, <2>1
    <3>2. PICK k \in DOMAIN r : j = k + 1
      BY <1>3, <3>1
    <3> QED
      BY <1>3, <1>4, <1>6, <2>1, <3>2 DEF LastLead
  <2> QED
    BY <1>3, <1>6, <2>1 DEF LastLead
<1>7. ASSUME NoLead(r, S), Leads(h, S) PROVE LastLead(q, S, 1)
  <2>1. ASSUME NEW j \in DOMAIN q, j > 1 PROVE ~Leads(q[j], S)
    <3>1. PICK k \in DOMAIN r : j = k + 1
      BY <1>1, <1>3, <2>1
    <3> QED
      BY <1>3, <1>7, <3>1 DEF NoLead
  <2> QED
    BY <1>1, <1>7, <2>1 DEF LastLead
<1>8. ASSUME LastSays(q, S, l)
      PROVE  /\ LastSays(r, S, l)
             /\ NoLead(r, S) /\ Leads(h, S) => Says(h, l)
  BY <1>1, <1>3, <1>6, <1>7, <1>8 DEF LastSays
<1>9. ASSUME Arrives(q, S, l, T), NoLead(r, S), h.op = "Leader" PROVE l \in T
  <2>1. LastLead(q, S, 1)
    BY <1>7, <1>9 DEF Leads
  <2>2. KnownBefore(q, S, l, T, 1)
    BY <1>1, <1>3, <1>9, <2>1 DEF Arrives
  <2>3. \A k \in DOMAIN q : ~(k < 1)
    BY <1>1
  <2> QED
    BY <2>2, <2>3 DEF KnownBefore, SilentBefore
<1>10. ASSUME Arrives(q, S, l, T), Concerns(h, S, l) /\ Puts(h, l) => l \in U,
              ~Concerns(h, S, l) /\ l \in T => l \in U
       PROVE  Arrives(r, S, l, U)
  <2> SUFFICES ASSUME NEW i \in DOMAIN r, r[i].op = "Leader", LastLead(r, S, i)
               PROVE  KnownBefore(r, S, l, U, i)
    BY DEF Arrives
  <2>1. KnownBefore(q, S, l, T, i + 1)
    BY <1>3, <1>6, <1>10 DEF Arrives
  <2>2. PutsBefore(r, S, l, i)
    <3> SUFFICES ASSUME NEW k \in DOMAIN r, k < i, Concerns(r[k], S, l),
                        \A j \in DOMAIN r : k < j /\ j < i => ~Concerns(r[j], S, l)
                 PROVE  Puts(r[k], l)
      BY DEF PutsBefore
    <3>1. ASSUME NEW j \in DOMAIN q, k + 1 < j, j < i + 1
          PROVE  ~Concerns(q[j], S, l)
      <4>1. j # 1
        BY <1>3, <3>1
      <4>2. PICK o \in DOMAIN r : j = o + 1
        BY <1>3, <4>1
      <4>3. k < o /\ o < i
        BY <1>3, <3>1, <4>2
      <4> QED
        BY <1>3, <4>2, <4>3
    <3>2. k + 1 \in DOMAIN q /\ k + 1 < i + 1 /\ q[k + 1] = r[k]
      BY <1>3, <1>4
    <3> QED
      BY <2>1, <3>1, <3>2 DEF KnownBefore, PutsBefore
  <2>3. ASSUME SilentBefore(r, S, l, i) PROVE l \in U
    <3>1. ASSUME NEW j \in DOMAIN q, 1 < j, j < i + 1
          PROVE  ~Concerns(q[j], S, l)
      <4>1. PICK o \in DOMAIN r : j = o + 1
        BY <1>1, <1>3, <3>1
      <4>2. o < i
        BY <1>3, <3>1, <4>1
      <4> QED
        BY <1>3, <2>3, <4>1, <4>2 DEF SilentBefore
    <3>2. 1 < i + 1
      BY <1>3
    <3>3. CASE Concerns(h, S, l)
      <4>1. Puts(h, l)
        BY <1>1, <1>3, <2>1, <3>1, <3>2, <3>3 DEF KnownBefore, PutsBefore
      <4> QED
        BY <1>10, <3>3, <4>1
    <3>4. CASE ~Concerns(h, S, l)
      <4>1. \A j \in DOMAIN q : j = 1 \/ 1 < j
        BY <1>1
      <4>2. SilentBefore(q, S, l, i + 1)
        BY <1>1, <3>1, <3>4, <4>1 DEF SilentBefore
      <4> QED
        BY <1>10, <2>1, <3>4, <4>2 DEF KnownBefore
    <3> QED
      BY <3>3, <3>4
  <2> QED
    BY <2>2, <2>3 DEF KnownBefore
<1> QED
  BY <1>5, <1>8, <1>9, <1>10 DEF r, h

-----------------------------------------------------------------------------
(* Who leads.                                                              *)

\* The members that z knows, if it has the expedition and missed nothing.
Known(z) ==
  IF z \in InTouch /\ cache[z] # NoDz THEN cache[z].members ELSE Characters

\* World is going to hear that l is no member any more.
Leaves(l) ==
  \E z \in Zones : \E m \in Messages(up[z]) : Concerns(m, Zones, l) /\ ~Puts(m, l)

\* z obeys l, and will when it has heard what it is told.
Led(z, l) == z \in InTouch /\ cache[z] # NoDz => cache[z].leader = l
Obeys(z, l) ==
  /\ Arrives(down[z], Others(z), l, Known(z))
  /\ NoLead(down[z], Others(z)) => Led(z, l)

\* The leader is saved, and whatever world says of a leader last is of him.
LeaderSaved ==
  world # NoDz =>
    /\ db.leader = world.leader
    /\ \A z \in Zones : LastSays(down[z], Others(z), world.leader)

\* As long as nobody is chosen after a restart, all know who led before.
ForgottenFits ==
  past.forgotten =>
    /\ budget.creations = 0
    /\ \A z \in Zones :
         /\ ~Has(up[z], "Created")
         /\ world # NoDz => NoLead(down[z], Others(z)) /\ Led(z, world.leader)

\* As long as world has not heard of it, nobody else leads.
NewFits ==
  \A y \in Zones : \A m \in Messages(up[y]) : m.op = "Created" =>
    /\ db.leader = m.copy.leader
    /\ \A z \in Zones :
         /\ ~Has(down[z], "Leader")
         /\ cache[z] # NoDz => cache[z].leader = db.leader

\* The exemptions; on the way of a message that removes the leader there is one.
Excused ==
  \/ past.forgotten \/ past.swapped \/ world.needed
  \/ Leaves(world.leader)
  \/ world.leader \notin world.members \ past.raced

LeaderFits ==
  world # NoDz => Excused \/ \A z \in Zones : Obeys(z, world.leader)

Leadership == LeaderSaved /\ ForgottenFits /\ NewFits /\ LeaderFits

\* A zone says something that removes or adds members.
LEMMA SaysLeadership ==
  ASSUME TypeOK, Existence, Leadership, NEW z \in Zones, NEW m \in Heard,
         Send(z, m), Races(z, Touched(m)),
         \A c \in Touched(m) : m.from = z, m.op # "Created",
         UNCHANGED <<world, running, linked, down>>,
         past'.missed = past.missed, past'.swapped = past.swapped,
         past'.forgotten = past.forgotten,
         budget'.creations = budget.creations,
         db # NoDz => db'.leader = db.leader,
         \A y \in Zones \ {z} : cache'[y] = cache[y],
         cache[z] # NoDz /\ cache'[z] # NoDz /\ cache'[z].leader = cache[z].leader,
         \A c \in Characters :
           IF c \in Touched(m) THEN c \in cache'[z].members <=> Puts(m, c)
           ELSE c \in cache'[z].members <=> c \in cache[z].members,
         Touched(m) \subseteq Characters
  PROVE  Leadership'
<1>1. /\ past.raced \subseteq past'.raced
      /\ z \notin linked => Touched(m) \subseteq past'.raced
  BY RacesFits
<1>2. InTouch' = InTouch
  BY DEF InTouch
<1>3. ASSUME NEW y \in Zones
      PROVE  /\ Messages(up[y]) \subseteq Messages(up'[y])
             /\ Messages(up'[y]) \subseteq Messages(up[y]) \union {m}
             /\ y = z /\ z \in linked => m \in Messages(up'[y])
  <2>1. /\ up[y] \in Seq(Heard)
        /\ up'[y] = IF y = z /\ z \in linked THEN Append(up[y], m) ELSE up[y]
    BY DEF Send, TypeOK
  <2>2. Messages(Append(up[y], m)) = Messages(up[y]) \union {m}
    BY <2>1, MessagesAppend
  <2> QED
    BY <2>1, <2>2
<1>4. \A y \in Zones : Has(up'[y], "Created") => Has(up[y], "Created")
  BY <1>3 DEF Has
<1>5. \A y \in Zones : /\ cache'[y] # NoDz <=> cache[y] # NoDz
                       /\ cache[y] # NoDz => cache'[y].leader = cache[y].leader
  OBVIOUS
<1>6. \A y \in Zones : \A l : Led(y, l) => Led(y, l)'
  BY <1>2, <1>5 DEF Led
<1>7. world # NoDz => db # NoDz
  BY DEF Existence, SavedFits
<1>8. LeaderSaved'
  BY <1>7 DEF Leadership, LeaderSaved, Others
<1>9. ForgottenFits'
  BY <1>4, <1>6 DEF Leadership, ForgottenFits, Others
<1>10. NewFits'
  <2> SUFFICES ASSUME NEW y \in Zones, NEW n \in Messages(up'[y]), n.op = "Created"
               PROVE  /\ db'.leader = n.copy.leader
                      /\ \A x \in Zones :
                           /\ ~Has(down[x], "Leader")
                           /\ cache'[x] # NoDz => cache'[x].leader = db'.leader
    BY DEF NewFits
  <2>1. n \in Messages(up[y])
    BY <1>3
  <2>2. db # NoDz
    BY <2>1 DEF Existence, CreatedFits, Has
  <2> QED
    BY <1>5, <2>1, <2>2 DEF Leadership, NewFits
<1>11. ASSUME world # NoDz, ~Excused', NEW l, l = world.leader
       PROVE  \A y \in Zones : Obeys(y, l)'
  <2>1. l \in Characters
    BY <1>11 DEF TypeOK, WorldCopies
  <2>2. ~Leaves(l)' /\ l \notin past'.raced
    BY <1>11 DEF Excused, Leaves
  <2>3. \A y \in Zones : \A n \in Messages(up'[y]) : Concerns(n, Zones, l) => Puts(n, l)
    BY <2>2 DEF Leaves
  <2>4. ~Leaves(l)
    BY <1>3, <2>3 DEF Leaves
  <2>5. ~Excused
    BY <1>1, <1>11, <2>4 DEF Excused
  <2>6. \A y \in Zones : Obeys(y, l)
    BY <1>11, <2>5 DEF Leadership, LeaderFits
  <2>7. ASSUME NEW y \in Zones, l \in Known(y) PROVE l \in Known(y)'
    <3>1. CASE y # z
      BY <1>2, <2>7, <3>1 DEF Known
    <3>2. CASE y = z /\ l \notin Touched(m)
      BY <1>2, <2>1, <2>7, <3>2 DEF Known
    <3>3. CASE y = z /\ l \in Touched(m)
      <4>1. z \in linked /\ Concerns(m, Zones, l)
        BY <1>1, <2>2, <3>3 DEF Concerns
      <4>2. Puts(m, l)
        BY <1>3, <2>3, <4>1
      <4> QED
        BY <2>1, <3>3, <4>2 DEF Known
    <3> QED
      BY <3>1, <3>2, <3>3
  <2>8. ASSUME NEW y \in Zones PROVE Obeys(y, l)'
    <3>1. Arrives(down[y], Others(y), l, Known(y)')
      BY <2>6, <2>7, LeadEnds DEF Obeys
    <3> QED
      BY <1>6, <2>6, <3>1 DEF Obeys, Others
  <2> QED
    BY <2>8
<1>12. LeaderFits'
  BY <1>11 DEF LeaderFits, Obeys, Led, Others
<1> QED
  BY <1>8, <1>9, <1>10, <1>12 DEF Leadership

\* What a zone knows and whom it follows when it has handled a message.
LEMMA HandledKnown ==
  ASSUME TypeOK, NEW z \in Zones, HandleWorldMessage(z), NEW l \in Characters
  PROVE  LET h == Head(down[z])
         IN  /\ Concerns(h, Others(z), l) /\ Puts(h, l) => l \in Known(z)'
             /\ ~Concerns(h, Others(z), l) /\ l \in Known(z) => l \in Known(z)'
             /\ ~Leads(h, Others(z)) /\ Led(z, l) => Led(z, l)'
             /\ h.op = "Leader" /\ h.who = l /\ l \in Known(z) => Led(z, l)'
             /\ h.op = "Created" /\ h.from # z /\ h.copy.leader = l => Led(z, l)'
<1> DEFINE h == Head(down[z])
<1>1. /\ h \in Said /\ InTouch' = InTouch /\ InTouch \subseteq running
      /\ z \in running =>
           /\ h.op = "Created" /\ h.from # z =>
                cache'[z] = h.copy /\ cache'[z] \in Copies
           /\ h.op = "Deleted" => cache'[z] = NoDz
           /\ h.op \in {"Created", "Change", "Clear"} /\ h.from = z
                => cache'[z] = cache[z]
           /\ h.op \in {"Change", "Clear", "Leader"} /\ cache[z] = NoDz
                => cache'[z] = NoDz
           /\ h.op = "Change" /\ h.from # z /\ cache[z] # NoDz
                => /\ cache'[z].members = (cache[z].members \ h.out) \union h.in
                   /\ cache'[z].leader = cache[z].leader
           /\ h.op = "Clear" /\ h.from # z /\ cache[z] # NoDz
                => /\ cache'[z].members = {}
                   /\ cache'[z].leader = cache[z].leader
           /\ h.op = "Leader" /\ cache[z] # NoDz
                => /\ cache'[z].members = cache[z].members
                   /\ cache'[z].leader = IF h.who \in cache[z].members
                                         THEN h.who ELSE cache[z].leader
  BY HandledFits DEF InTouch
<1>2. /\ h.op \in {"Created", "Change", "Clear", "Leader", "Deleted"}
      /\ h.op \in {"Created", "Change", "Clear"} => h.from \in Zones
  BY <1>1 DEF Said, Passed
<1> HIDE DEF h
<1>3. /\ Touched(h) = IF h.op \in {"Created", "Clear"} THEN Characters
                      ELSE IF h.op = "Change" THEN h.out \union h.in ELSE {}
  BY <1>2 DEF Touched
<1>4. CASE z \in InTouch /\ cache'[z] # NoDz
  <2>1. z \in running /\ h.op # "Deleted"
    BY <1>1, <1>4
  <2>2. Known(z)' = cache'[z].members
    BY <1>1, <1>4 DEF Known
  <2>3. cache[z] # NoDz => Known(z) = cache[z].members
    BY <1>4 DEF Known
  <2>4. CASE h.op = "Created" /\ h.from # z
    <3>1. cache'[z] = h.copy
      BY <1>1, <2>1, <2>4
    <3>2. Concerns(h, Others(z), l) /\ Leads(h, Others(z))
      BY <1>2, <1>3, <2>4 DEF Concerns, Others, Leads
    <3>3. Puts(h, l) <=> l \in h.copy.members
      BY <2>4 DEF Puts
    <3>4. h.copy.leader = l => Led(z, l)'
      BY <3>1 DEF Led
    <3> QED
      BY <2>2, <2>4, <3>1, <3>2, <3>3, <3>4 DEF h
  <2>5. CASE h.op \in {"Created", "Change", "Clear"} /\ h.from = z
    <3>1. cache'[z] = cache[z]
      BY <1>1, <2>1, <2>5
    <3>2. ~Concerns(h, Others(z), l)
      BY <2>5 DEF Concerns, Others
    <3>3. Led(z, l) => Led(z, l)'
      BY <1>1, <3>1 DEF Led
    <3> QED
      BY <1>4, <2>2, <2>3, <2>5, <3>1, <3>2, <3>3 DEF h
  <2>6. CASE h.op = "Change" /\ h.from # z
    <3>1. cache[z] # NoDz
      BY <1>1, <1>4, <2>1, <2>6
    <3>2. /\ cache'[z].members = (cache[z].members \ h.out) \union h.in
          /\ cache'[z].leader = cache[z].leader
      BY <1>1, <2>1, <2>6, <3>1
    <3>3. Concerns(h, Others(z), l) <=> l \in h.out \union h.in
      BY <1>2, <1>3, <2>6 DEF Concerns, Others
    <3>4. Puts(h, l) => l \in h.in
      BY <2>6 DEF Puts
    <3>5. Led(z, l) => Led(z, l)'
      BY <1>1, <3>1, <3>2 DEF Led
    <3> QED
      BY <2>2, <2>3, <2>6, <3>1, <3>2, <3>3, <3>4, <3>5 DEF h
  <2>7. CASE h.op = "Clear" /\ h.from # z
    <3>1. cache[z] # NoDz
      BY <1>1, <1>4, <2>1, <2>7
    <3>2. cache'[z].leader = cache[z].leader
      BY <1>1, <2>1, <2>7, <3>1
    <3>3. Concerns(h, Others(z), l) /\ ~Puts(h, l)
      BY <1>2, <1>3, <2>7 DEF Concerns, Others, Puts
    <3>4. Led(z, l) => Led(z, l)'
      BY <1>1, <3>1, <3>2 DEF Led
    <3> QED
      BY <2>7, <3>3, <3>4 DEF h
  <2>8. CASE h.op = "Leader"
    <3>1. cache[z] # NoDz
      BY <1>1, <1>4, <2>1, <2>8
    <3>2. /\ cache'[z].members = cache[z].members
          /\ cache'[z].leader = IF h.who \in cache[z].members
                                THEN h.who ELSE cache[z].leader
      BY <1>1, <2>1, <2>8, <3>1
    <3>3. ~Concerns(h, Others(z), l) /\ Leads(h, Others(z))
      BY <1>3, <2>8 DEF Concerns, Leads
    <3>4. h.who = l /\ l \in cache[z].members => Led(z, l)'
      BY <3>2 DEF Led
    <3> QED
      BY <2>2, <2>3, <2>8, <3>1, <3>2, <3>3, <3>4 DEF h
  <2> QED
    BY <1>2, <2>1, <2>4, <2>5, <2>6, <2>7, <2>8
<1>5. CASE ~(z \in InTouch /\ cache'[z] # NoDz)
  <2>1. Known(z)' = Characters
    BY <1>1, <1>5 DEF Known
  <2>2. Led(z, l)'
    BY <1>1, <1>5 DEF Led
  <2> QED
    BY <2>1, <2>2
<1> QED
  BY <1>4, <1>5

\* A zone handles a message.
LEMMA HandleLeadership ==
  ASSUME TypeOK, Existence, Leadership, NEW z \in Zones, HandleWorldMessage(z)
  PROVE  Leadership'
<1> DEFINE h == Head(down[z])
<1>1. /\ down[z] # <<>> /\ h \in Said /\ down' = [down EXCEPT ![z] = Tail(@)]
      /\ \A y \in Zones \ {z} : cache'[y] = cache[y]
      /\ UNCHANGED <<db, world, running, linked, up, expired, budget, past>>
  BY HandledFits
<1>2. /\ down'[z] = Tail(down[z]) /\ down[z] \in Seq(Said)
      /\ \A y \in Zones \ {z} : down'[y] = down[y]
      /\ InTouch' = InTouch
  BY <1>1 DEF TypeOK, InTouch
<1>3. /\ h \in Messages(down[z])
      /\ \A y \in Zones : Messages(down'[y]) \subseteq Messages(down[y])
  <2>1. Messages(down[z]) = Messages(Tail(down[z])) \union {h}
    BY <1>1, <1>2, MessagesTail
  <2> QED
    BY <1>2, <2>1
<1>4. \A y \in Zones \ {z} : \A l : /\ Led(y, l)' <=> Led(y, l)
                                    /\ Known(y)' = Known(y)
                                    /\ Obeys(y, l)' <=> Obeys(y, l)
  BY <1>1, <1>2 DEF Led, Known, Obeys, Others
<1>5. world # NoDz => world.leader \in Characters
  BY DEF TypeOK, WorldCopies
<1>6. \A l \in Characters :
        /\ Concerns(h, Others(z), l) /\ Puts(h, l) => l \in Known(z)'
        /\ ~Concerns(h, Others(z), l) /\ l \in Known(z) => l \in Known(z)'
        /\ ~Leads(h, Others(z)) /\ Led(z, l) => Led(z, l)'
        /\ h.op = "Leader" /\ h.who = l /\ l \in Known(z) => Led(z, l)'
        /\ h.op = "Created" /\ h.from # z /\ h.copy.leader = l => Led(z, l)'
  BY HandledKnown
<1>7. \A l, T, U :
        /\ NoLead(down[z], Others(z)) <=>
             ~Leads(h, Others(z)) /\ NoLead(Tail(down[z]), Others(z))
        /\ LastSays(down[z], Others(z), l) =>
             /\ LastSays(Tail(down[z]), Others(z), l)
             /\ NoLead(Tail(down[z]), Others(z)) /\ Leads(h, Others(z)) => Says(h, l)
        /\ Arrives(down[z], Others(z), l, T) =>
             /\ NoLead(Tail(down[z]), Others(z)) /\ h.op = "Leader" => l \in T
             /\ /\ Concerns(h, Others(z), l) /\ Puts(h, l) => l \in U
                /\ ~Concerns(h, Others(z), l) /\ l \in T => l \in U
                => Arrives(Tail(down[z]), Others(z), l, U)
  BY <1>1, <1>2, LeadTail
<1> HIDE DEF h
<1>8. LeaderSaved'
  <2> SUFFICES ASSUME world # NoDz, NEW y \in Zones
               PROVE  /\ db.leader = world.leader
                      /\ LastSays(down'[y], Others(y), world.leader)
    BY <1>1 DEF LeaderSaved, Others
  <2>1. db.leader = world.leader /\ LastSays(down[y], Others(y), world.leader)
    BY DEF Leadership, LeaderSaved
  <2> QED
    BY <1>2, <1>7, <2>1
<1>9. ForgottenFits'
  <2> SUFFICES ASSUME past.forgotten, world # NoDz, NEW y \in Zones
               PROVE  NoLead(down'[y], Others(y)) /\ Led(y, world.leader)'
    BY <1>1 DEF Leadership, ForgottenFits, Others
  <2>1. NoLead(down[y], Others(y)) /\ Led(y, world.leader)
    BY DEF Leadership, ForgottenFits
  <2> QED
    BY <1>1, <1>2, <1>4, <1>5, <1>6, <1>7, <2>1
<1>10. NewFits'
  <2> SUFFICES ASSUME NEW y \in Zones, NEW m \in Messages(up[y]), m.op = "Created",
                      NEW x \in Zones
               PROVE  /\ db.leader = m.copy.leader
                      /\ ~Has(down'[x], "Leader")
                      /\ cache'[x] # NoDz => cache'[x].leader = db.leader
    BY <1>1 DEF NewFits
  <2>1. /\ db.leader = m.copy.leader
        /\ \A w \in Zones : /\ ~Has(down[w], "Leader")
                            /\ cache[w] # NoDz => cache[w].leader = db.leader
    BY DEF Leadership, NewFits
  <2>2. ~Has(down[z], "Created") /\ ~Has(down[z], "Deleted")
    BY DEF Existence, CreatedFits, Has
  <2>3. h.op \in {"Change", "Clear"}
    <3>1. h.op # "Created" /\ h.op # "Deleted" /\ h.op # "Leader"
      BY <1>3, <2>1, <2>2 DEF Has
    <3> QED
      BY <1>1, <3>1, Kinds
  <2>4. cache'[z] # NoDz => cache[z] # NoDz /\ cache'[z].leader = cache[z].leader
    <3>1. CASE z \in running
      BY <2>3, <3>1, HandledFits DEF h
    <3>2. CASE z \notin running
      BY <3>2 DEF HandleWorldMessage, Ignores
    <3> QED
      BY <3>1, <3>2
  <2> QED
    BY <1>1, <1>3, <2>1, <2>4 DEF Has
<1>11. ASSUME world # NoDz, ~Excused, NEW y \in Zones, NEW l, l = world.leader
       PROVE  Obeys(y, l)'
  <2>1. l \in Characters
    BY <1>5, <1>11
  <2>2. Obeys(y, l) /\ LastSays(down[y], Others(y), l)
    BY <1>11 DEF Leadership, LeaderFits, LeaderSaved
  <2>3. CASE y # z
    BY <1>4, <2>2, <2>3
  <2>4. CASE y = z
    <3>1. Arrives(down[z], Others(z), l, Known(z))
      BY <2>2, <2>4 DEF Obeys
    <3>2. Arrives(down'[z], Others(z), l, Known(z)')
      BY <1>2, <1>6, <1>7, <2>1, <3>1
    <3>3. ASSUME NoLead(down'[z], Others(z)) PROVE Led(z, l)'
      <4>1. CASE Leads(h, Others(z))
        <5>1. Says(h, l) /\ (h.op = "Leader" => l \in Known(z))
          BY <1>2, <1>7, <2>2, <2>4, <3>1, <3>3, <4>1
        <5>2. h.op = "Created" => h.from # z
          BY <4>1 DEF Leads, Others
        <5> QED
          BY <1>6, <2>1, <5>1, <5>2 DEF Says
      <4>2. CASE ~Leads(h, Others(z))
        <5>1. NoLead(down[z], Others(z))
          BY <1>2, <1>7, <3>3, <4>2
        <5>2. Led(z, l)
          BY <2>2, <2>4, <5>1 DEF Obeys
        <5> QED
          BY <1>6, <2>1, <4>2, <5>2
      <4> QED
        BY <4>1, <4>2
    <3> QED
      BY <2>4, <3>2, <3>3 DEF Obeys, Others
  <2> QED
    BY <2>3, <2>4
<1>12. LeaderFits'
  <2>1. Excused' <=> Excused
    BY <1>1 DEF Excused, Leaves
  <2> QED
    BY <1>1, <1>11, <2>1 DEF LeaderFits, Obeys, Led, Others
<1> QED
  BY <1>8, <1>9, <1>10, <1>12 DEF Leadership

\* Who is a member, in the eyes of world, and is not going to leave is saved,
\* and known wherever world says nothing of him.
LEMMA WhoStays ==
  ASSUME TypeOK, Existence, Membership, world # NoDz,
         NEW l \in world.members \ past.raced
  PROVE  /\ l \in Characters
         /\ ~Leaves(l) => l \in db.members
         /\ \A z \in Zones :
              /\ LastPuts(down[z], Others(z), l, world.members)
              /\ ~Leaves(l) /\ ~Speaks(down[z], Others(z), l) => l \in Known(z)
<1>1. l \in Characters /\ db # NoDz
  BY DEF TypeOK, WorldCopies, Existence, SavedFits
<1>2. SavedMember(l) /\ WorldMember(l)
  BY <1>1 DEF Membership, MemberFits
<1>3. ASSUME NEW z \in Zones, NEW T, SomePuts(up[z], Zones, l, T), ~Leaves(l)
      PROVE  l \in T
  <2>1. PICK i \in DOMAIN up[z] : Concerns(up[z][i], Zones, l) /\ PutsAs(up[z][i], l, T)
    BY <1>3 DEF SomePuts
  <2>2. up[z][i] \in Messages(up[z])
    BY DEF Messages
  <2>3. Puts(up[z][i], l)
    BY <1>3, <2>1, <2>2 DEF Leaves
  <2> QED
    BY <2>1, <2>3 DEF PutsAs
<1>4. ASSUME ~Leaves(l) PROVE l \in db.members
  <2>1. CASE \A z \in Zones : ~Spoken(z, l)
    BY <1>1, <1>2, <2>1 DEF SavedMember
  <2>2. ASSUME NEW z \in Zones, Spoken(z, l) PROVE l \in db.members
    <3>1. LastPuts(up[z], Zones, l, db.members)
      BY <1>1, <1>2 DEF SavedMember
    <3>2. up[z] \in Seq(Heard)
      BY DEF TypeOK
    <3>3. SomePuts(up[z], Zones, l, db.members)
      BY <2>2, <3>1, <3>2, SpeaksEnds DEF Spoken
    <3> QED
      BY <1>3, <1>4, <3>3
  <2> QED
    BY <2>1, <2>2
<1>5. ASSUME NEW z \in Zones, ~Leaves(l), ~Speaks(down[z], Others(z), l)
      PROVE  l \in Known(z)
  <2>1. CASE z \in InTouch /\ cache[z] # NoDz
    <3>1. \/ l \in cache[z].members
          \/ \E y \in Zones : SomePuts(up[y], Zones, l, cache[z].members)
      BY <1>2, <1>5, <2>1 DEF WorldMember, Told
    <3>2. l \in cache[z].members
      BY <1>3, <1>5, <3>1
    <3> QED
      BY <2>1, <3>2 DEF Known
  <2>2. CASE ~(z \in InTouch /\ cache[z] # NoDz)
    BY <1>1, <2>2 DEF Known
  <2> QED
    BY <2>1, <2>2
<1>6. \A z \in Zones : LastPuts(down[z], Others(z), l, world.members)
  BY <1>2 DEF WorldMember
<1> QED
  BY <1>1, <1>4, <1>5, <1>6

\* A zone boots.
LEMMA BootLeadership ==
  ASSUME TypeOK, Existence, Membership, Leadership, NEW z \in Zones, Boot(z)
  PROVE  Leadership'
<1>1. /\ z \notin running /\ running' = running \union {z}
      /\ cache'[z] = IF expired THEN NoDz ELSE db
      /\ \A y \in Zones \ {z} : cache'[y] = cache[y]
      /\ past'.raced = past.raced /\ past'.swapped = past.swapped
      /\ past'.forgotten = past.forgotten
      /\ past'.missed = IF z \in linked THEN past.missed \ {z} ELSE past.missed \union {z}
      /\ UNCHANGED <<db, world, linked, up, down, expired, budget>>
  BY DEF Boot, TypeOK
<1>2. /\ \A y \in Zones \ {z} : y \in InTouch' <=> y \in InTouch
      /\ z \notin InTouch
  BY <1>1 DEF InTouch, TypeOK
<1>3. world # NoDz => db # NoDz /\ db.leader = world.leader
  BY DEF Existence, SavedFits, Leadership, LeaderSaved
<1>4. ASSUME world # NoDz, NEW y \in Zones, Led(y, world.leader)
      PROVE  Led(y, world.leader)'
  <2>1. CASE y = z
    BY <1>1, <1>3, <1>4, <2>1 DEF Led
  <2>2. CASE y # z
    BY <1>1, <1>2, <1>4, <2>2 DEF Led
  <2> QED
    BY <2>1, <2>2
<1>5. LeaderSaved'
  BY <1>1 DEF Leadership, LeaderSaved, Others
<1>6. ForgottenFits'
  BY <1>1, <1>4 DEF Leadership, ForgottenFits, Others
<1>7. NewFits'
  <2> SUFFICES ASSUME NEW y \in Zones, NEW m \in Messages(up[y]), m.op = "Created",
                      NEW x \in Zones
               PROVE  /\ db.leader = m.copy.leader
                      /\ ~Has(down[x], "Leader")
                      /\ cache'[x] # NoDz => cache'[x].leader = db.leader
    BY <1>1 DEF NewFits
  <2>1. /\ db.leader = m.copy.leader
        /\ ~Has(down[x], "Leader")
        /\ cache[x] # NoDz => cache[x].leader = db.leader
    BY DEF Leadership, NewFits
  <2> QED
    BY <1>1, <2>1
<1>8. ASSUME world # NoDz, ~Excused, NEW y \in Zones, NEW l, l = world.leader
      PROVE  Obeys(y, l)'
  <2>1. Obeys(y, l)
    BY <1>8 DEF Leadership, LeaderFits
  <2>2. l \in Characters /\ l \in db.members
    <3>1. l \in world.members \ past.raced /\ ~Leaves(l)
      BY <1>8 DEF Excused
    <3> QED
      BY <1>8, <3>1, WhoStays
  <2>3. l \in Known(y) => l \in Known(y)'
    <3>1. CASE y = z
      BY <1>1, <2>2, <3>1 DEF Known
    <3>2. CASE y # z
      BY <1>1, <1>2, <3>2 DEF Known
    <3> QED
      BY <3>1, <3>2
  <2>4. Arrives(down[y], Others(y), l, Known(y)')
    BY <2>1, <2>3, LeadEnds DEF Obeys
  <2>5. Led(y, l) => Led(y, l)'
    BY <1>1, <1>4, <1>8 DEF Led
  <2>6. NoLead(down[y], Others(y)) => Led(y, l)'
    BY <2>1, <2>5 DEF Obeys
  <2>7. Obeys(y, l)'
    BY <1>1, <2>4, <2>6 DEF Obeys, Others
  <2> QED
    BY <2>7
<1>9. LeaderFits'
  <2>1. Excused' <=> Excused
    BY <1>1 DEF Excused, Leaves
  <2> QED
    BY <1>1, <1>8, <2>1 DEF LeaderFits, Obeys, Led, Others
<1> QED
  BY <1>5, <1>6, <1>7, <1>9 DEF Leadership

\* Fewer zones are in touch, and nothing that is said of one who has not raced
\* is lost.
LEMMA QuietLeadership ==
  ASSUME TypeOK, Existence, Leadership, InTouch' \subseteq InTouch, UNCHANGED db,
         world' = NoDz <=> world = NoDz,
         world # NoDz => /\ world'.leader = world.leader
                         /\ world'.members = world.members
                         /\ world'.needed = world.needed,
         past.raced \subseteq past'.raced, past'.swapped = past.swapped,
         past'.forgotten = past.forgotten, budget'.creations = budget.creations,
         \A z \in InTouch' : cache'[z] = cache[z] /\ down'[z] = down[z],
         \A z \in Zones : cache'[z] = cache[z] \/ cache'[z] = NoDz,
         \A z \in Zones : down'[z] = down[z] \/ down'[z] = <<>>,
         \A z \in Zones : \/ up'[z] = up[z]
                          \/ up'[z] = <<>> /\ AllTouched(up[z]) \subseteq past'.raced
  PROVE  Leadership'
<1>1. ASSUME NEW z \in Zones
      PROVE  /\ Messages(up'[z]) \subseteq Messages(up[z])
             /\ Messages(down'[z]) \subseteq Messages(down[z])
  BY MessagesFew
<1>2. \A z \in Zones : \A op : /\ Has(up'[z], op) => Has(up[z], op)
                               /\ Has(down'[z], op) => Has(down[z], op)
  BY <1>1 DEF Has
<1>3. \A z \in Zones : \A l : Led(z, l) => Led(z, l)'
  BY DEF Led
<1>4. ASSUME NEW z \in Zones, NEW S, NEW l, NEW T
      PROVE  /\ NoLead(down[z], S) => NoLead(down'[z], S)
             /\ LastSays(down[z], S, l) => LastSays(down'[z], S, l)
             /\ Arrives(down[z], S, l, T) => Arrives(down'[z], S, l, T)
  BY LeadEnds
<1>5. LeaderSaved'
  BY <1>4 DEF Leadership, LeaderSaved, Others
<1>6. ForgottenFits'
  BY <1>2, <1>3, <1>4 DEF Leadership, ForgottenFits, Others
<1>7. NewFits'
  <2> SUFFICES ASSUME NEW y \in Zones, NEW m \in Messages(up'[y]), m.op = "Created",
                      NEW x \in Zones
               PROVE  /\ db.leader = m.copy.leader
                      /\ ~Has(down'[x], "Leader")
                      /\ cache'[x] # NoDz => cache'[x].leader = db.leader
    BY DEF NewFits
  <2>1. m \in Messages(up[y])
    BY <1>1
  <2>2. /\ db.leader = m.copy.leader
        /\ ~Has(down[x], "Leader")
        /\ cache[x] # NoDz => cache[x].leader = db.leader
    BY <2>1 DEF Leadership, NewFits
  <2> QED
    BY <1>2, <2>2
<1>8. ASSUME world # NoDz, ~Excused', NEW y \in Zones, NEW l, l = world.leader
      PROVE  Obeys(y, l)'
  <2>1. ~Leaves(l)' /\ l \notin past'.raced /\ l \in Characters
    BY <1>8 DEF Excused, Leaves, TypeOK, WorldCopies
  <2>2. ~Leaves(l)
    <3> SUFFICES ASSUME NEW z \in Zones, NEW m \in Messages(up[z]), Concerns(m, Zones, l)
                 PROVE  Puts(m, l)
      BY DEF Leaves
    <3>1. CASE up'[z] = up[z]
      BY <2>1, <3>1 DEF Leaves
    <3>2. CASE AllTouched(up[z]) \subseteq past'.raced
      <4>1. l \in AllTouched(up[z])
        BY DEF AllTouched, Concerns, Messages
      <4> QED
        BY <2>1, <3>2, <4>1
    <3> QED
      BY <3>1, <3>2
  <2>3. ~Excused
    BY <1>8, <2>2 DEF Excused
  <2>4. Obeys(y, l)
    BY <1>8, <2>3 DEF Leadership, LeaderFits
  <2>5. CASE y \in InTouch'
    <3>1. Known(y)' = Known(y) /\ down'[y] = down[y]
      BY <2>5 DEF Known
    <3> QED
      BY <1>3, <2>4, <3>1 DEF Obeys, Others
  <2>6. CASE y \notin InTouch'
    <3>1. Known(y)' = Characters /\ Led(y, l)'
      BY <2>6 DEF Known, Led
    <3>2. Arrives(down[y], Others(y), l, Characters)
      BY <2>1, <2>4, LeadEnds DEF Obeys
    <3>3. Arrives(down'[y], Others(y), l, Characters)
      BY <1>4, <3>2
    <3> QED
      BY <3>1, <3>3 DEF Obeys, Others
  <2> QED
    BY <2>5, <2>6
<1>9. LeaderFits'
  BY <1>8 DEF LeaderFits, Obeys, Led, Others
<1> QED
  BY <1>5, <1>6, <1>7, <1>9 DEF Leadership

\* World passes m on, or nothing.
Adds(m) == \A y \in Zones : down'[y] = down[y] \/ down'[y] = Append(down[y], m)

\* As long as world has the expedition nothing of a new one is said.
LEMMA NoneNew ==
  ASSUME Existence, Dwindles, world # NoDz
  PROVE  \A y \in Zones : ~Has(up[y], "Created") /\ ~Has(up'[y], "Created")
BY DEF Existence, CreatedFits, Dwindles, Has

\* World keeps the leader and says nothing of him.
LEMMA KeepsLeadership ==
  ASSUME TypeOK, Existence, Leadership, Dwindles, world # NoDz, world' # NoDz,
         NEW m \in Said, m.op \notin {"Created", "Leader"}, Adds(m),
         world'.leader = world.leader,
         UNCHANGED <<db, cache, running, past>>, budget'.creations = budget.creations,
         ~Excused' => ~Excused
  PROVE  Leadership'
<1>1. \A S : ~Leads(m, S)
  BY DEF Leads
<1>2. ASSUME NEW y \in Zones, NEW S, NEW l, NEW T
      PROVE  /\ NoLead(down'[y], S) <=> NoLead(down[y], S)
             /\ LastSays(down[y], S, l) => LastSays(down'[y], S, l)
             /\ Arrives(down[y], S, l, T) => Arrives(down'[y], S, l, T)
  <2>1. down[y] \in Seq(Said)
    BY DEF TypeOK
  <2>2. CASE down'[y] = Append(down[y], m)
    BY <1>1, <2>1, <2>2, LeadAppend
  <2>3. CASE down'[y] = down[y]
    BY <2>3
  <2> QED
    BY <2>2, <2>3 DEF Adds
<1>3. \A y \in Zones : \A l : /\ Led(y, l)' <=> Led(y, l)
                              /\ Known(y)' = Known(y)
  BY DEF Led, Known, InTouch
<1>4. \A y \in Zones : ~Has(up'[y], "Created")
  BY NoneNew
<1>5. LeaderSaved'
  BY <1>2 DEF Leadership, LeaderSaved, Others
<1>6. ForgottenFits'
  BY <1>2, <1>3, <1>4 DEF Leadership, ForgottenFits, Others
<1>7. NewFits'
  BY <1>4 DEF NewFits, Has
<1>8. LeaderFits'
  BY <1>2, <1>3 DEF Leadership, LeaderFits, Obeys, Others
<1> QED
  BY <1>5, <1>6, <1>7, <1>8 DEF Leadership

\* World sets the leader and tells the zones of him, and of m if it must.
LEMMA LeaderTold ==
  ASSUME TypeOK, NEW n \in Said, n.op = "Leader", NEW l, n.who = l,
         NEW message, Broadcast(<<n>> \o message),
         \/ message = <<>>
         \/ \E m \in Said : message = <<m>> /\ m.op \notin {"Created", "Leader"},
         NEW y \in Zones, NEW S, NEW T, NEW W
  PROVE  IF y \in linked
         THEN /\ ~NoLead(down'[y], S)
              /\ LastSays(down'[y], S, l)
              /\ /\ LastPuts(down[y], S, l, W) /\ l \in W
                 /\ ~Speaks(down[y], S, l) => l \in T
                 => Arrives(down'[y], S, l, T)
         ELSE down'[y] = down[y]
<1>1. Leads(n, S) /\ Says(n, l)
  BY DEF Leads, Says
<1> DEFINE q == down[y]
           r == Append(q, n)
<1>2. q \in Seq(Said) /\ r \in Seq(Said)
  BY DEF TypeOK
<1>3. down'[y] = IF y \in linked THEN q \o (<<n>> \o message) ELSE q
  BY DEF Broadcast
<1> HIDE DEF q
<1>4. /\ ~NoLead(r, S) /\ LastSays(r, S, l)
      /\ LastPuts(q, S, l, W) /\ l \in W /\ (~Speaks(q, S, l) => l \in T)
           => Arrives(r, S, l, T)
  BY <1>1, <1>2, LeadAppend
<1>5. CASE message = <<>>
  <2>1. <<n>> \o message = <<n>> /\ q \o <<n>> = r
    BY <1>2, <1>5
  <2>2. down'[y] = IF y \in linked THEN r ELSE q
    BY <1>3, <2>1
  <2> HIDE DEF r
  <2> QED
    BY <1>4, <2>2 DEF q
<1>6. ASSUME NEW m \in Said, message = <<m>>, m.op \notin {"Created", "Leader"}
      PROVE  IF y \in linked
             THEN /\ ~NoLead(down'[y], S)
                  /\ LastSays(down'[y], S, l)
                  /\ /\ LastPuts(q, S, l, W) /\ l \in W
                     /\ ~Speaks(q, S, l) => l \in T
                     => Arrives(down'[y], S, l, T)
             ELSE down'[y] = q
  <2>1. <<n>> \o message = <<n, m>>
    BY <1>6, PairConcat
  <2>2. q \o <<n, m>> = Append(r, m)
    BY <1>2
  <2>3. down'[y] = IF y \in linked THEN Append(r, m) ELSE q
    BY <1>3, <2>1, <2>2
  <2>4. ~Leads(m, S)
    BY <1>6 DEF Leads
  <2> HIDE DEF r
  <2>5. /\ ~NoLead(Append(r, m), S)
        /\ LastSays(Append(r, m), S, l)
        /\ Arrives(r, S, l, T) => Arrives(Append(r, m), S, l, T)
    BY <1>2, <1>4, <2>4, LeadAppend
  <2> QED
    BY <1>4, <2>3, <2>5
<1> QED
  BY <1>5, <1>6 DEF q

\* World sets a leader who is a member and not going to leave, or is excused.
LEMMA SetsLeadership ==
  ASSUME TypeOK, Existence, Membership, Leadership, Dwindles, world # NoDz,
         NEW dz \in WorldCopies, NEW message, SetNewLeader(dz, message),
         \/ message = <<>>
         \/ \E m \in Said : message = <<m>> /\ m.op \notin {"Created", "Leader"},
         UNCHANGED <<cache, running>>, budget'.creations = budget.creations,
         ~Excused' => dz.leader \in world.members /\ ~Leaves(dz.leader)
  PROVE  Leadership'
<1> DEFINE l == dz.leader
           n == [op |-> "Leader", who |-> l]
<1>1. /\ world' = dz /\ Broadcast(<<n>> \o message)
      /\ db' = IF db = NoDz THEN db ELSE [db EXCEPT !.leader = l]
      /\ past'.forgotten = FALSE
      /\ past'.raced = past.raced /\ past'.missed = past.missed
  BY DEF SetNewLeader, TypeOK
<1>2. l \in Characters
  BY DEF WorldCopies
<1>3. n \in Said /\ n.op = "Leader" /\ n.who = l
  BY <1>2 DEF Said
<1>4. db # NoDz /\ db'.leader = l
  <2>1. db # NoDz /\ db \in Copies
    BY DEF TypeOK, Existence, SavedFits
  <2> QED
    BY <1>1, <1>2, <2>1 DEF Copies
<1> HIDE DEF n
<1>5. ASSUME NEW y \in Zones, NEW S, NEW T, NEW W
      PROVE  IF y \in linked
             THEN /\ ~NoLead(down'[y], S)
                  /\ LastSays(down'[y], S, l)
                  /\ /\ LastPuts(down[y], S, l, W) /\ l \in W
                     /\ ~Speaks(down[y], S, l) => l \in T
                     => Arrives(down'[y], S, l, T)
             ELSE down'[y] = down[y]
  BY <1>1, <1>3, LeaderTold
<1>6. \A y \in Zones : y \notin linked => down[y] = <<>> /\ y \notin InTouch
  BY DEF Existence, LinksFit, InTouch
<1>7. InTouch' = InTouch
  BY <1>1 DEF InTouch
<1> HIDE DEF l
<1>8. LeaderSaved'
  <2>1. world'.leader = l
    BY <1>1 DEF l
  <2>2. ASSUME NEW y \in Zones PROVE LastSays(down'[y], Others(y), l)
    <3>1. CASE y \in linked
      BY <1>5, <3>1
    <3>2. CASE y \notin linked
      <4>1. down'[y] = <<>>
        BY <1>5, <1>6, <3>2
      <4> QED
        BY <4>1, LeadEnds
    <3> QED
      BY <3>1, <3>2
  <2> QED
    BY <1>4, <2>1, <2>2 DEF LeaderSaved, Others
<1>9. ForgottenFits'
  BY <1>1 DEF ForgottenFits
<1>10. NewFits'
  BY NoneNew DEF NewFits, Has
<1>11. ASSUME ~Excused', NEW y \in Zones PROVE Obeys(y, l)'
  <2>1. l \in world.members \ past.raced /\ ~Leaves(l)
    BY <1>1, <1>11 DEF Excused, l
  <2>2. /\ LastPuts(down[y], Others(y), l, world.members)
        /\ ~Speaks(down[y], Others(y), l) => l \in Known(y)
    BY <2>1, WhoStays
  <2>3. Known(y)' = Known(y)
    BY <1>7 DEF Known
  <2>4. CASE y \in linked
    <3>1. Arrives(down'[y], Others(y), l, Known(y)) /\ ~NoLead(down'[y], Others(y))
      BY <1>5, <2>1, <2>2, <2>4
    <3> QED
      BY <2>3, <3>1 DEF Obeys, Others
  <2>5. CASE y \notin linked
    <3>1. down'[y] = <<>> /\ y \notin InTouch'
      BY <1>5, <1>6, <1>7, <2>5
    <3>2. Led(y, l)'
      BY <3>1 DEF Led
    <3>3. Arrives(down'[y], Others(y), l, Known(y))
      BY <3>1, LeadEnds
    <3> QED
      BY <2>3, <3>2, <3>3 DEF Obeys, Others
  <2> QED
    BY <2>4, <2>5
<1>12. LeaderFits'
  <2> SUFFICES ASSUME ~Excused', NEW y \in Zones PROVE Obeys(y, world.leader)'
    BY DEF LeaderFits
  <2> QED
    BY <1>1, <1>11 DEF l
<1> QED
  BY <1>8, <1>9, <1>10, <1>12 DEF Leadership

\* World does not have the expedition, and says nothing of a leader.
LEMMA AbsentLeadership ==
  ASSUME TypeOK, Existence, Leadership, Dwindles, world' = NoDz,
         NEW m \in Said, m.op # "Leader", Adds(m),
         world = NoDz => UNCHANGED db,
         UNCHANGED <<cache, past>>, budget'.creations = budget.creations
  PROVE  Leadership'
<1>1. ASSUME NEW y \in Zones PROVE Has(down'[y], "Leader") => Has(down[y], "Leader")
  <2>1. down[y] \in Seq(Said)
    BY DEF TypeOK
  <2>2. Messages(Append(down[y], m)) = Messages(down[y]) \union {m}
    BY <2>1, MessagesAppend
  <2> QED
    BY <2>2 DEF Adds, Has
<1>2. \A y \in Zones : Has(up'[y], "Created") => Has(up[y], "Created")
  BY DEF Dwindles, Has
<1>3. LeaderSaved' /\ LeaderFits'
  BY DEF LeaderSaved, LeaderFits
<1>4. ForgottenFits'
  BY <1>2 DEF Leadership, ForgottenFits
<1>5. NewFits'
  <2> SUFFICES ASSUME NEW y \in Zones, NEW n \in Messages(up'[y]), n.op = "Created",
                      NEW x \in Zones
               PROVE  /\ db'.leader = n.copy.leader
                      /\ ~Has(down'[x], "Leader")
                      /\ cache[x] # NoDz => cache[x].leader = db'.leader
    BY DEF NewFits
  <2>1. n \in Messages(up[y])
    BY DEF Dwindles
  <2>2. world = NoDz
    BY <2>1 DEF Existence, CreatedFits, Has
  <2> QED
    BY <1>1, <2>1, <2>2 DEF Leadership, NewFits
<1> QED
  BY <1>3, <1>4, <1>5 DEF Leadership

\* World hears of a new expedition.
LEMMA CacheNewLeadership ==
  ASSUME TypeOK, Existence, Leadership, NEW z \in Zones, CacheNew(z)
  PROVE  Leadership'
<1> DEFINE m == Head(up[z])
           l == m.copy.leader
<1>1. /\ Hears(z, "Created") /\ Broadcast(<<m>>) /\ UNCHANGED <<db, past>>
      /\ world' = IF world # NoDz THEN world
                  ELSE [members |-> m.copy.members, leader |-> l,
                        needed |-> FALSE, ready |-> FALSE]
  BY DEF CacheNew
<1>2. UNCHANGED <<cache, running, linked, expired, budget>>
  BY <1>1 DEF Hears
<1>3. /\ Dwindles /\ m \in Messages(up[z]) /\ m \in Heard /\ m.op = "Created"
      /\ OnlyFirst(up[z]) => ~Has(up'[z], "Created")
  BY <1>1, HearsDwindles
<1>4. m \in Said /\ m.from = z
  BY <1>3, Kinds DEF Existence, SignedFit, Said
<1>5. Has(up[z], "Created")
  BY <1>3 DEF Has
<1>6. /\ world = NoDz /\ OnlyFirst(up[z])
      /\ \A y \in Zones : /\ ~Has(down[y], "Created")
                          /\ y # z => ~Has(up[y], "Created")
  BY <1>5 DEF Existence, CreatedFits
<1>7. /\ db.leader = l
      /\ \A y \in Zones : /\ ~Has(down[y], "Leader")
                          /\ cache[y] # NoDz => cache[y].leader = l
  BY <1>3 DEF Leadership, NewFits
<1>8. ~past.forgotten
  BY <1>5 DEF Leadership, ForgottenFits
<1>9. world'.leader = l
  BY <1>1, <1>6
<1>10. \A y \in Zones : ~Has(up'[y], "Created")
  BY <1>3, <1>6 DEF Dwindles, Has
<1> HIDE DEF l
<1>11. ASSUME NEW y \in Zones, NEW T
       PROVE  /\ LastSays(down'[y], Others(y), l)
              /\ Arrives(down'[y], Others(y), l, T)
  <2>1. down[y] \in Seq(Said)
    BY DEF TypeOK
  <2>2. NoLead(down[y], Others(y))
    <3>1. \A i \in DOMAIN down[y] : down[y][i] \in Messages(down[y])
      BY DEF Messages
    <3> QED
      BY <1>6, <1>7, <3>1 DEF NoLead, Leads, Has
  <2>3. /\ LastSays(down[y], Others(y), l)
        /\ Arrives(down[y], Others(y), l, T)
    BY <2>2, LeadEnds
  <2>4. Leads(m, Others(y)) => Says(m, l)
    BY <1>3 DEF Says, l
  <2> HIDE DEF m
  <2>5. down'[y] = IF y \in linked THEN Append(down[y], m) ELSE down[y]
    BY <1>1, <1>4, TellsOne
  <2>6. /\ LastSays(Append(down[y], m), Others(y), l)
        /\ Arrives(Append(down[y], m), Others(y), l, T)
    BY <1>3, <1>4, <2>1, <2>3, <2>4, LeadAppend
  <2> QED
    BY <2>3, <2>5, <2>6
<1>12. LeaderSaved'
  BY <1>1, <1>7, <1>9, <1>11 DEF LeaderSaved, Others
<1>13. ForgottenFits' /\ NewFits'
  BY <1>1, <1>8, <1>10 DEF ForgottenFits, NewFits, Has
<1>14. PICK c : c = l
  OBVIOUS
<1>15. ASSUME NEW y \in Zones PROVE Obeys(y, c)'
  <2>1. Led(y, c)'
    BY <1>2, <1>7, <1>14 DEF Led
  <2>2. Arrives(down'[y], Others(y), c, Known(y)')
    BY <1>11, <1>14
  <2> QED
    BY <2>1, <2>2 DEF Obeys, Others
<1>16. LeaderFits'
  BY <1>9, <1>14, <1>15 DEF LeaderFits, Obeys, Led, Others
<1> QED
  BY <1>12, <1>13, <1>16 DEF Leadership

\* World changes its copy: it keeps the leader, or sets one.
LEMMA BecomesStays ==
  ASSUME TypeOK, NEW dz \in WorldCopies, NEW message, Becomes(dz, message),
         dz.leader = world.leader
  PROVE  /\ world' = dz /\ UNCHANGED <<db, past>>
         /\ message = <<>> => \A m : Adds(m)
         /\ \A m \in Said : message = <<m>> => Adds(m)
<1>1. world' = dz /\ Broadcast(message) /\ UNCHANGED <<db, past>>
  BY DEF Becomes
<1>2. ASSUME message = <<>> PROVE \A m : Adds(m)
  <2>1. \A y \in Zones : down[y] \in Seq(Said)
    BY DEF TypeOK
  <2>2. \A y \in Zones : down[y] \o <<>> = down[y]
    BY <2>1
  <2>3. \A y \in Zones : down'[y] = down[y]
    BY <1>1, <1>2, <2>2 DEF Broadcast
  <2> QED
    BY <2>3 DEF Adds
<1>3. ASSUME NEW m \in Said, message = <<m>> PROVE Adds(m)
  BY <1>1, <1>3, TellsOne DEF Adds
<1> QED
  BY <1>1, <1>2, <1>3

\* When world has heard a message that removes l, it is that one or one that
\* is still to come.
LEMMA HearsLeaves ==
  ASSUME TypeOK, NEW z \in Zones, NEW op, Hears(z, op), NEW l, Leaves(l)
  PROVE  \/ Leaves(l)'
         \/ Concerns(Head(up[z]), Zones, l) /\ ~Puts(Head(up[z]), l)
<1>1. /\ up[z] # <<>> /\ up[z] \in Seq(Heard)
      /\ \A y \in Zones : up'[y] = IF y = z THEN Tail(up[z]) ELSE up[y]
  BY HearsDwindles
<1>2. Messages(up[z]) = Messages(Tail(up[z])) \union {Head(up[z])}
  BY <1>1, MessagesTail
<1>3. \A y \in Zones : \A m \in Messages(up[y]) :
        m \in Messages(up'[y]) \/ m = Head(up[z])
  BY <1>1, <1>2
<1> QED
  BY <1>3 DEF Leaves

\* Who keeps the leader keeps in mind that another is owed.
LEMMA ChooseKeepsNeed ==
  ASSUME NEW dz \in WorldCopies, NEW new \in ChooseNewLeader(dz),
         new.leader = dz.leader, dz.needed
  PROVE  new.needed
BY DEF ChooseNewLeader, WorldCopies

\* World hears of a change.
LEMMA ChangeHeardLeadership ==
  ASSUME IInv, Copied, Leadership, NEW z \in Zones, Change(z)
  PROVE  Leadership'
<1> USE DEF IInv, Copied
<1> DEFINE m  == Head(up[z])
           dz == [world EXCEPT !.members = (@ \union m.in) \ m.out]
<1>1. Hears(z, "Change")
  BY DEF Change
<1>2. /\ UNCHANGED <<cache, running, linked, expired, budget>>
      /\ up[z] # <<>> /\ up[z] \in Seq(Heard)
  BY <1>1 DEF Hears, TypeOK
<1>3. Dwindles /\ m \in Messages(up[z]) /\ m \in Heard /\ m.op = "Change"
  BY <1>1, HearsDwindles
<1>4. /\ m \in Said /\ m.from = z
      /\ m.out \subseteq Characters /\ m.in \subseteq Characters
  BY <1>3, Kinds DEF Existence, SignedFit, Said
<1>5. \A l : /\ Concerns(m, Zones, l) => l \in m.out \union m.in
             /\ Puts(m, l) <=> l \in m.in
  BY <1>3 DEF Concerns, Touched, Puts
<1>6. \A l : /\ Leaves(l) => \/ Leaves(l)'
                             \/ Concerns(m, Zones, l) /\ ~Puts(m, l)
  BY <1>1, HearsLeaves
<1>7. AllLate => m.in \subseteq past.raced
  <2>1. 1 \in DOMAIN up[z] /\ up[z][1] = m
    BY <1>2
  <2> QED
    BY <1>3, <2>1 DEF AllLate, Late
<1> HIDE DEF m
<1>8. CASE world = NoDz
  <2>1. Broadcast(<<m>>) /\ UNCHANGED <<world, db, past>>
    BY <1>8 DEF Change, m
  <2>2. Adds(m)
    BY <1>4, <2>1, TellsOne DEF Adds
  <2> QED
    BY <1>2, <1>3, <1>4, <1>8, <2>1, <2>2, AbsentLeadership
<1>9. CASE world # NoDz
  <2>1. PICK new \in IF world.leader \in m.out THEN ChooseNewLeader(dz) ELSE {dz} :
          Becomes(new, <<m>>)
    BY <1>9 DEF Change, m
  <2>2. world \in WorldCopies
    BY <1>9 DEF TypeOK
  <2>3. /\ dz \in WorldCopies /\ dz.members = (world.members \union m.in) \ m.out
        /\ dz.needed = world.needed
    BY <1>4, <2>2 DEF WorldCopies
  <2> HIDE DEF dz
  <2>4. new \in WorldCopies /\ new.members = (world.members \union m.in) \ m.out
    BY <2>1, <2>3, ChooseNewLeaderFits
  <2>5. new # NoDz
    BY <2>4, NoDzAssumption
  <2>6. CASE new.leader = world.leader
    <3> PICK l : l = world.leader
      OBVIOUS
    <3>1. world' = new /\ Adds(m) /\ UNCHANGED <<db, past>>
      BY <1>4, <2>1, <2>4, <2>6, BecomesStays
    <3>2. ASSUME ~Excused' PROVE ~Excused
      <4>1. /\ ~past.forgotten /\ ~past.swapped /\ ~new.needed /\ ~Leaves(l)'
            /\ l \in new.members \ past.raced
        BY <2>6, <3>1, <3>2 DEF Excused, Leaves
      <4>2. l \notin m.out
        BY <2>4, <4>1
      <4>3. ~world.needed
        BY <2>1, <2>3, <4>1, <4>2
      <4>4. ~Leaves(l)
        BY <1>5, <1>6, <4>1, <4>2
      <4>5. l \in world.members
        <5> SUFFICES ASSUME l \notin world.members PROVE FALSE
          OBVIOUS
        <5>1. Leaderless
          BY <1>9, <4>1, <4>3 DEF Leaderless
        <5>2. m.in \subseteq past.raced
          BY <1>7, <5>1 DEF LeaderlessFits
        <5> QED
          BY <2>4, <4>1, <5>2
      <4> QED
        BY <4>1, <4>3, <4>4, <4>5 DEF Excused
    <3>3. m.op \notin {"Created", "Leader"}
      BY <1>3
    <3> QED
      BY <1>2, <1>3, <1>4, <1>9, <2>5, <2>6, <3>1, <3>2, <3>3, KeepsLeadership
  <2>7. CASE new.leader # world.leader
    <3> DEFINE l == new.leader
    <3>1. SetNewLeader(new, <<m>>)
      BY <2>1, <2>7 DEF Becomes
    <3>2. /\ world' = new /\ past'.raced = past.raced
          /\ past'.swapped = (m.in # {})
      <4>1. /\ world' = new
            /\ past' = [past EXCEPT !.forgotten = FALSE,
                          !.swapped = \E i \in DOMAIN <<m>> : <<m>>[i].in # {}]
        BY <3>1 DEF SetNewLeader
      <4>2. (\E i \in DOMAIN <<m>> : <<m>>[i].in # {}) <=> m.in # {}
        OBVIOUS
      <4> QED
        BY <4>1, <4>2 DEF TypeOK
    <3>3. ASSUME ~Excused' PROVE l \in world.members /\ ~Leaves(l)
      <4>1. m.in = {} /\ ~Leaves(l)' /\ l \in new.members
        BY <3>2, <3>3 DEF Excused
      <4>2. l \in world.members /\ l \notin m.out
        BY <2>4, <4>1
      <4> QED
        BY <1>5, <1>6, <4>1, <4>2
    <3>4. m.op \notin {"Created", "Leader"}
      BY <1>3
    <3>5. \/ <<m>> = <<>>
          \/ \E n \in Said : <<m>> = <<n>> /\ n.op \notin {"Created", "Leader"}
      BY <1>4, <3>4
    <3> DEFINE message == <<m>>
    <3> HIDE DEF message
    <3>6. SetNewLeader(new, message)
          /\ \/ message = <<>>
             \/ \E n \in Said : message = <<n>> /\ n.op \notin {"Created", "Leader"}
      BY <3>1, <3>5 DEF message
    <3> QED
      BY <1>2, <1>3, <1>9, <2>4, <3>3, <3>6, SetsLeadership
  <2> QED
    BY <2>6, <2>7
<1> QED
  BY <1>8, <1>9

\* World hears that all members are removed.
LEMMA ClearHeardLeadership ==
  ASSUME IInv, Copied, Leadership, NEW z \in Zones, Clear(z)
  PROVE  Leadership'
<1> USE DEF IInv, Copied
<1> DEFINE m == Head(up[z])
<1>1. /\ Hears(z, "Clear") /\ Broadcast(<<m>>) /\ UNCHANGED <<db, past>>
      /\ world' = IF world = NoDz THEN world ELSE [world EXCEPT !.members = {}]
  BY DEF Clear
<1>2. UNCHANGED <<cache, running, linked, expired, budget>>
  BY <1>1 DEF Hears
<1>3. Dwindles /\ m \in Messages(up[z]) /\ m \in Heard /\ m.op = "Clear"
  BY <1>1, HearsDwindles
<1>4. m \in Said /\ m.op \notin {"Created", "Leader"}
  BY <1>3, Kinds DEF Said
<1> HIDE DEF m
<1>5. Adds(m)
  BY <1>1, <1>4, TellsOne DEF Adds
<1>6. CASE world = NoDz
  BY <1>1, <1>2, <1>3, <1>4, <1>5, <1>6, AbsentLeadership
<1>7. CASE world # NoDz
  <2>1. /\ world' \in WorldCopies /\ world'.members = {}
        /\ world'.leader = world.leader
    BY <1>1, <1>7 DEF TypeOK, WorldCopies
  <2>2. world' # NoDz /\ Excused'
    BY <2>1, NoDzAssumption DEF Excused
  <2> QED
    BY <1>1, <1>2, <1>3, <1>4, <1>5, <1>7, <2>1, <2>2, KeepsLeadership
<1> QED
  BY <1>6, <1>7

\* World hears that the leader wants another.
LEMMA MakeLeaderLeadership ==
  ASSUME IInv, Copied, Leadership, NEW z \in Zones, MakeLeader(z)
  PROVE  Leadership'
<1> USE DEF IInv, Copied
<1> DEFINE m == Head(up[z])
           dz == [world EXCEPT !.leader = m.who]
           d == [op |-> "Deleted"]
<1>1. /\ Hears(z, "Make")
      /\ \/ UNCHANGED <<world, db, down, past>>
         \/ /\ world # NoDz /\ m.who \in world.members
            /\ SetNewLeader(dz, <<>>)
  BY DEF MakeLeader
<1>2. UNCHANGED <<cache, running, linked, expired, budget>>
  BY <1>1 DEF Hears
<1>3. Dwindles /\ m \in Heard /\ m.op = "Make"
  BY <1>1, HearsDwindles
<1>4. \A l : Leaves(l) => Leaves(l)'
  <2>1. \A l : ~Concerns(m, Zones, l)
    BY <1>3 DEF Concerns, Touched
  <2> QED
    BY <1>1, <2>1, HearsLeaves
<1>5. d \in Said /\ d.op \notin {"Created", "Leader"}
  BY DEF Said
<1>6. CASE UNCHANGED <<world, db, down, past>>
  <2>1. Adds(d)
    BY <1>6 DEF Adds
  <2>2. ~Excused' => ~Excused
    BY <1>4, <1>6 DEF Excused
  <2> HIDE DEF d, m
  <2>3. CASE world = NoDz
    BY <1>2, <1>3, <1>5, <1>6, <2>1, <2>3, AbsentLeadership
  <2>4. CASE world # NoDz
    BY <1>2, <1>3, <1>5, <1>6, <2>1, <2>2, <2>4, KeepsLeadership
  <2> QED
    BY <2>3, <2>4
<1>7. CASE world # NoDz /\ m.who \in world.members /\ SetNewLeader(dz, <<>>)
  <2>1. dz \in WorldCopies /\ dz.leader = m.who
    BY <1>3, <1>7, Kinds DEF TypeOK, WorldCopies
  <2> HIDE DEF d, m, dz
  <2>2. world' = dz
    BY <1>7 DEF SetNewLeader
  <2>3. ~Excused' => dz.leader \in world.members /\ ~Leaves(dz.leader)
    BY <1>4, <1>7, <2>1, <2>2 DEF Excused
  <2> QED
    BY <1>2, <1>3, <1>7, <2>1, <2>3, SetsLeadership
<1> QED
  BY <1>1, <1>6, <1>7

\* World looks for a leader when a status changes or one is owed.
LEMMA LookLeadership ==
  ASSUME IInv, Copied, Leadership, StatusChange \/ CheckLeader
  PROVE  Leadership'
<1> USE DEF IInv, Copied
<1> DEFINE d == [op |-> "Deleted"]
<1>1. /\ world # NoDz /\ UNCHANGED <<cache, running, linked, up, expired>>
      /\ budget'.creations = budget.creations
      /\ \E new \in ChooseNewLeader(world) : Becomes(new, <<>>)
  BY DEF StatusChange, CheckLeader, Spends, TypeOK
<1>2. PICK new \in ChooseNewLeader(world) : Becomes(new, <<>>)
  BY <1>1
<1>3. world \in WorldCopies
  BY <1>1 DEF TypeOK
<1>4. new \in WorldCopies /\ new.members = world.members /\ new # NoDz
  BY <1>2, <1>3, ChooseNewLeaderFits, NoDzAssumption
<1>5. d \in Said /\ d.op \notin {"Created", "Leader"}
  BY DEF Said
<1>6. Dwindles /\ \A l : Leaves(l)' <=> Leaves(l)
  BY <1>1 DEF Dwindles, Leaves
<1> HIDE DEF d
<1>7. CASE new.leader = world.leader
  <2>1. world' = new /\ Adds(d) /\ UNCHANGED <<db, past>>
    BY <1>2, <1>4, <1>7, BecomesStays
  <2>2. world.needed => new.needed
    BY <1>2, <1>3, <1>7, ChooseKeepsNeed
  <2>3. ~Excused' => ~Excused
    BY <1>4, <1>6, <1>7, <2>1, <2>2 DEF Excused
  <2> QED
    BY <1>1, <1>4, <1>5, <1>6, <1>7, <2>1, <2>3, KeepsLeadership
<1>8. CASE new.leader # world.leader
  <2>1. SetNewLeader(new, <<>>)
    BY <1>2, <1>8 DEF Becomes
  <2>2. world' = new
    BY <2>1 DEF SetNewLeader
  <2>3. ~Excused' => new.leader \in world.members /\ ~Leaves(new.leader)
    BY <1>4, <1>6, <2>2 DEF Excused
  <2> QED
    BY <1>1, <1>4, <1>6, <2>1, <2>3, SetsLeadership
<1> QED
  BY <1>7, <1>8

\* World deletes the expedition.
LEMMA DeleteLeadership ==
  ASSUME IInv, Copied, Leadership, Delete
  PROVE  Leadership'
<1> USE DEF IInv, Copied
<1> DEFINE m == [op |-> "Deleted"]
<1>1. /\ world # NoDz /\ world' = NoDz /\ Broadcast(<<m>>)
      /\ UNCHANGED <<cache, running, linked, up, expired, budget, past>>
  BY DEF Delete
<1>2. m \in Said /\ m.op # "Leader"
  BY DEF Said
<1> HIDE DEF m
<1>3. Adds(m) /\ Dwindles
  BY <1>1, <1>2, TellsOne DEF Adds, Dwindles
<1> QED
  BY <1>1, <1>2, <1>3, AbsentLeadership

\* World restarts.
LEMMA RestartLeadership ==
  ASSUME IInv, Copied, Leadership, WorldRestart
  PROVE  Leadership'
<1> USE DEF IInv
<1> DEFINE stays == db # NoDz /\ ~expired /\ db.members # {}
<1>1. /\ db' = IF stays THEN db ELSE NoDz
      /\ world' = IF stays
                  THEN [members |-> db.members, leader |-> db.leader,
                        needed |-> FALSE, ready |-> FALSE]
                  ELSE NoDz
      /\ past'.missed = Zones
      /\ past'.forgotten = (stays /\ db.leader \notin db.members)
      /\ up' = [y \in Zones |-> <<>>] /\ down' = [y \in Zones |-> <<>>]
      /\ running' = running
      /\ budget' = [budget EXCEPT !.incidents = @ - 1]
  BY DEF WorldRestart, Spends
<1>2. InTouch' = {}
  BY <1>1 DEF InTouch, TypeOK
<1>3. \A y \in Zones : /\ up'[y] = <<>> /\ down'[y] = <<>>
                       /\ Messages(up'[y]) = {}
                       /\ NoLead(down'[y], Others(y))
  BY <1>1, MessagesFew, LeadEnds
<1>4. \A y \in Zones : \A l : Led(y, l)'
  BY <1>2 DEF Led
<1>5. LeaderSaved'
  <2>1. world' # NoDz => db'.leader = world'.leader
    BY <1>1
  <2>2. \A y \in Zones : \A l : LastSays(down'[y], Others(y), l)
    BY <1>3, LeadEnds
  <2> QED
    BY <2>1, <2>2 DEF LeaderSaved, Others
<1>6. ForgottenFits'
  <2>1. budget'.creations = budget.creations /\ budget.creations \in Nat
    BY <1>1 DEF TypeOK
  <2>2. past'.forgotten => budget'.creations = 0
    <3>1. past'.forgotten => db # NoDz
      BY <1>1, Zenon
    <3>2. db # NoDz => ~(budget.creations > 0)
      BY DEF BeforeCreation
    <3> QED
      BY <2>1, <3>1, <3>2
  <2> QED
    BY <1>3, <1>4, <2>2 DEF ForgottenFits, Has, Others
<1>7. NewFits'
  BY <1>3 DEF NewFits
<1>8. ASSUME NEW y \in Zones, NEW l PROVE Obeys(y, l)'
  <2>1. Arrives(down'[y], Others(y), l, Known(y)')
    BY <1>3, LeadEnds
  <2> QED
    BY <1>4, <2>1 DEF Obeys, Others
<1>9. LeaderFits'
  BY <1>8 DEF LeaderFits, Obeys, Led, Others
<1> QED
  BY <1>5, <1>6, <1>7, <1>9 DEF Leadership

\* A new expedition.
LEMMA TryCreateLeadership ==
  ASSUME IInv, Leadership, NEW z \in Zones, TryCreate(z)
  PROVE  Leadership'
<1> USE DEF IInv
<1>1. /\ budget.creations > 0 /\ UNCHANGED <<world, running, linked, down, expired>>
      /\ past'.forgotten = past.forgotten
  BY DEF TryCreate, Spends, Races, TypeOK
<1>2. /\ world = NoDz
      /\ \A y \in Zones : cache[y] = NoDz /\ up[y] = <<>> /\ down[y] = <<>>
  BY <1>1 DEF BeforeCreation
<1>3. PICK members \in SUBSET Characters : \E leader \in members :
        LET copy == [members |-> members, leader |-> leader]
        IN  /\ db' = copy /\ cache' = [cache EXCEPT ![z] = copy]
            /\ Send(z, [op |-> "Created", from |-> z, copy |-> copy])
  BY DEF TryCreate
<1>4. PICK leader \in members :
        LET copy == [members |-> members, leader |-> leader]
        IN  /\ db' = copy /\ cache' = [cache EXCEPT ![z] = copy]
            /\ Send(z, [op |-> "Created", from |-> z, copy |-> copy])
  BY <1>3
<1> DEFINE copy == [members |-> members, leader |-> leader]
           m == [op |-> "Created", from |-> z, copy |-> copy]
<1>5. /\ db' = copy /\ Send(z, m) /\ m.copy = copy
      /\ \A y \in Zones : cache'[y] = copy \/ cache'[y] = NoDz
  BY <1>2, <1>4 DEF TypeOK
<1>6. ASSUME NEW y \in Zones, NEW n \in Messages(up'[y]) PROVE n = m
  <2>1. up'[y] = Append(<<>>, m) \/ up'[y] = <<>>
    BY <1>2, <1>5 DEF Send, TypeOK
  <2>2. Append(<<>>, m) = <<m>>
    OBVIOUS
  <2> HIDE DEF m
  <2> QED
    BY <1>6, <2>1, <2>2, MessagesFew
<1> HIDE DEF copy, m
<1>7. ~past.forgotten
  BY <1>1 DEF Leadership, ForgottenFits
<1>8. LeaderSaved' /\ LeaderFits' /\ ForgottenFits'
  BY <1>1, <1>2, <1>7 DEF LeaderSaved, LeaderFits, ForgottenFits
<1>9. \A y \in Zones : ~Has(down'[y], "Leader")
  BY <1>1, <1>2, MessagesFew DEF Has
<1>10. NewFits'
  BY <1>5, <1>6, <1>9 DEF NewFits
<1> QED
  BY <1>8, <1>10 DEF Leadership

\* A zone changes members.
LEMMA ChangeLeadership ==
  ASSUME IInv, Copied, Leadership, NEW z \in Zones, NEW out \in SUBSET Characters,
         NEW in \in SUBSET Characters, cache[z] # NoDz, ChangeMembers(z, out, in)
  PROVE  Leadership'
<1> USE DEF IInv, Copied
<1> DEFINE m == [op |-> "Change", from |-> z, out |-> out, in |-> in]
<1>1. /\ Races(z, out \union in) /\ Send(z, m) /\ Spends("changes")
      /\ db' = IF db = NoDz THEN db ELSE [db EXCEPT !.members = (@ \ out) \union in]
      /\ cache' = [cache EXCEPT ![z].members = (@ \ out) \union in]
      /\ UNCHANGED <<world, running, linked, down, expired>>
  BY DEF ChangeMembers
<1>2. m \in Heard /\ m.op = "Change" /\ m.from = z
  BY DEF Heard, Passed
<1>3. Touched(m) = out \union in /\ \A c : Puts(m, c) <=> c \in in
  BY DEF Touched, Puts
<1>4. /\ past'.missed = past.missed /\ past'.swapped = past.swapped
      /\ past'.forgotten = past.forgotten
      /\ budget'.creations = budget.creations
  BY <1>1 DEF Races, Spends, TypeOK
<1>5. /\ cache'[z] # NoDz
      /\ cache'[z].members = (cache[z].members \ out) \union in
      /\ cache'[z].leader = cache[z].leader
      /\ \A y \in Zones \ {z} : cache'[y] = cache[y]
  <2>1. cache[z] \in Copies
    BY DEF TypeOK
  <2>2. cache'[z] = [cache[z] EXCEPT !.members = (@ \ out) \union in]
        /\ \A y \in Zones \ {z} : cache'[y] = cache[y]
    BY <1>1 DEF TypeOK
  <2>3. cache'[z] \in Copies
    BY <2>1, <2>2 DEF Copies
  <2> QED
    BY <2>1, <2>2, <2>3, NoDzAssumption DEF Copies
<1>6. db # NoDz => db'.leader = db.leader
  BY <1>1 DEF TypeOK, Copies
<1> HIDE DEF m
<1>7. \A c \in Characters :
        IF c \in Touched(m) THEN c \in cache'[z].members <=> Puts(m, c)
        ELSE c \in cache'[z].members <=> c \in cache[z].members
  BY <1>3, <1>5
<1>8. Races(z, Touched(m)) /\ Touched(m) \subseteq Characters
  BY <1>1, <1>3
<1> QED
  BY <1>1, <1>2, <1>4, <1>5, <1>6, <1>7, <1>8, SaysLeadership

\* A zone removes all members.
LEMMA RemoveAllLeadership ==
  ASSUME IInv, Copied, Leadership, NEW z \in Zones, RemoveAllMembers(z)
  PROVE  Leadership'
<1> USE DEF IInv, Copied
<1> DEFINE m == [op |-> "Clear", from |-> z]
<1>1. /\ Races(z, Characters) /\ Send(z, m) /\ cache[z] # NoDz /\ Spends("changes")
      /\ db' = IF db = NoDz THEN db ELSE [db EXCEPT !.members = {}]
      /\ cache' = [cache EXCEPT ![z].members = {}]
      /\ UNCHANGED <<world, running, linked, down, expired>>
  BY DEF RemoveAllMembers
<1>2. m \in Heard /\ m.op = "Clear" /\ m.from = z
  BY DEF Heard, Passed
<1>3. Touched(m) = Characters /\ \A c : ~Puts(m, c)
  BY DEF Touched, Puts
<1>4. /\ past'.missed = past.missed /\ past'.swapped = past.swapped
      /\ past'.forgotten = past.forgotten
      /\ budget'.creations = budget.creations
  BY <1>1 DEF Races, Spends, TypeOK
<1>5. /\ cache'[z] # NoDz
      /\ cache'[z].members = {} /\ cache'[z].leader = cache[z].leader
      /\ \A y \in Zones \ {z} : cache'[y] = cache[y]
  <2>1. cache[z] \in Copies
    BY <1>1 DEF TypeOK
  <2>2. cache'[z] = [cache[z] EXCEPT !.members = {}]
        /\ \A y \in Zones \ {z} : cache'[y] = cache[y]
    BY <1>1 DEF TypeOK
  <2>3. cache'[z] \in Copies
    BY <2>1, <2>2 DEF Copies
  <2> QED
    BY <2>1, <2>2, <2>3, NoDzAssumption DEF Copies
<1>6. db # NoDz => db'.leader = db.leader
  BY <1>1 DEF TypeOK, Copies
<1> HIDE DEF m
<1>7. \A c \in Characters :
        IF c \in Touched(m) THEN c \in cache'[z].members <=> Puts(m, c)
        ELSE c \in cache'[z].members <=> c \in cache[z].members
  BY <1>3, <1>5
<1> QED
  BY <1>1, <1>2, <1>3, <1>4, <1>5, <1>6, <1>7, SaysLeadership

\* A zone asks for another leader.
LEMMA DzMakeLeaderLeadership ==
  ASSUME IInv, Copied, Leadership, NEW z \in Zones, NEW c \in Characters,
         DzMakeLeader(z, c)
  PROVE  Leadership'
<1> USE DEF IInv, Copied
<1> DEFINE m == [op |-> "Make", by |-> cache[z].leader, who |-> c]
<1>1. /\ Send(z, m) /\ cache[z] # NoDz /\ Spends("changes")
      /\ UNCHANGED <<db, world, cache, running, linked, down, expired, past>>
  BY DEF DzMakeLeader
<1>2. m \in Heard /\ m.op = "Make"
  <2>1. cache[z] \in Copies
    BY <1>1 DEF TypeOK
  <2> QED
    BY <2>1 DEF Heard, Copies
<1> HIDE DEF m
<1>3. Touched(m) = {} /\ budget'.creations = budget.creations
  BY <1>1, <1>2 DEF Touched, Spends, TypeOK
<1>4. Races(z, Touched(m))
  BY <1>1, <1>3 DEF Races, TypeOK
<1> QED
  BY <1>1, <1>2, <1>3, <1>4, SaysLeadership

\* A zone goes, a link fails or is there again, or time passes.
LEMMA QuietSteps ==
  ASSUME IInv, Copied, Leadership,
         \/ \E z \in Zones : Shutdown(z) \/ LinkLost(z) \/ Reconnect(z)
         \/ CooldownEnds \/ Expire
  PROVE  Leadership'
<1> USE DEF IInv, Copied
<1>1. ASSUME NEW z \in Zones, Shutdown(z) PROVE Leadership'
  <2>1. /\ running' = running \ {z} /\ cache' = [cache EXCEPT ![z] = NoDz]
        /\ budget'.creations = budget.creations
        /\ UNCHANGED <<db, world, linked, up, down, expired, past>>
    BY <1>1 DEF Shutdown, Spends, TypeOK
  <2>2. /\ InTouch' \subseteq InTouch /\ \A y \in InTouch' : cache'[y] = cache[y]
        /\ \A y \in Zones : cache'[y] = cache[y] \/ cache'[y] = NoDz
    BY <2>1 DEF InTouch, TypeOK
  <2> QED
    BY <2>1, <2>2, QuietLeadership
<1>2. ASSUME NEW z \in Zones, LinkLost(z) PROVE Leadership'
  <2>1. /\ linked' = linked \ {z}
        /\ \A y \in Zones : /\ up'[y] = IF y = z THEN <<>> ELSE up[y]
                            /\ down'[y] = IF y = z THEN <<>> ELSE down[y]
        /\ past'.raced = past.raced \union AllTouched(up[z])
        /\ past'.missed = past.missed \union {z}
        /\ past'.swapped = past.swapped /\ past'.forgotten = past.forgotten
        /\ budget'.creations = budget.creations
        /\ UNCHANGED <<db, world, cache, running, expired>>
    BY <1>2 DEF LinkLost, Spends, TypeOK
  <2>2. InTouch' \subseteq InTouch /\ \A y \in InTouch' : y \in Zones /\ y # z
    BY <2>1 DEF InTouch, TypeOK
  <2> QED
    BY <2>1, <2>2, QuietLeadership
<1>3. ASSUME NEW z \in Zones, Reconnect(z) PROVE Leadership'
  <2>1. UNCHANGED <<db, world, cache, running, up, down, expired, budget, past>>
    BY <1>3 DEF Reconnect
  <2>2. InTouch' = InTouch
    BY <2>1 DEF InTouch
  <2> QED
    BY <2>1, <2>2, QuietLeadership
<1>4. CASE CooldownEnds
  <2>1. /\ world # NoDz /\ world' = [world EXCEPT !.ready = TRUE]
        /\ UNCHANGED <<db, cache, running, linked, up, down, expired, budget, past>>
    BY <1>4 DEF CooldownEnds
  <2>2. /\ world' \in WorldCopies /\ world'.members = world.members
        /\ world'.leader = world.leader /\ world'.needed = world.needed
    BY <2>1 DEF TypeOK, WorldCopies
  <2>3. InTouch' = InTouch /\ world' # NoDz
    BY <2>1, <2>2, NoDzAssumption DEF InTouch
  <2> QED
    BY <2>1, <2>2, <2>3, QuietLeadership
<1>5. CASE Expire
  <2>1. /\ UNCHANGED <<db, world, cache, running, linked, up, down, past>>
        /\ budget'.creations = budget.creations
    BY <1>5 DEF Expire, Spends, TypeOK
  <2>2. InTouch' = InTouch
    BY <2>1 DEF InTouch
  <2> QED
    BY <2>1, <2>2, QuietLeadership
<1> QED
  BY <1>1, <1>2, <1>3, <1>4, <1>5

\* Who leads is as it should be at first.
LEMMA InitLeadership == Init => Leadership
<1> SUFFICES ASSUME Init PROVE Leadership
  OBVIOUS
<1>1. /\ world = NoDz /\ past.forgotten = FALSE
      /\ \A y \in Zones : Messages(up[y]) = {}
  BY MessagesFew DEF Init
<1> QED
  BY <1>1 DEF Leadership, LeaderSaved, ForgottenFits, NewFits, LeaderFits

\* It is so after every step.
LEMMA NextLeadership == IInv /\ Copied /\ Leadership /\ [Next]_vars => Leadership'
<1> SUFFICES ASSUME IInv, Copied, Leadership, [Next]_vars PROVE Leadership'
  OBVIOUS
<1>1. ASSUME NEW z \in Zones, NEW c \in Characters, AddMember(z, c) PROVE Leadership'
  BY <1>1, ChangeLeadership DEF AddMember
<1>2. ASSUME NEW z \in Zones, NEW c \in Characters, RemoveMember(z, c)
      PROVE  Leadership'
  BY <1>2, ChangeLeadership DEF RemoveMember
<1>3. ASSUME NEW z \in Zones, NEW c \in Characters, NEW d \in Characters,
             SwapMember(z, c, d)
      PROVE  Leadership'
  BY <1>3, ChangeLeadership DEF SwapMember
<1>4. ASSUME NEW z \in Zones, \E c \in Characters : DzMakeLeader(z, c)
      PROVE  Leadership'
  BY <1>4, DzMakeLeaderLeadership
<1>5. ASSUME NEW z \in Zones,
             \/ TryCreate(z) \/ RemoveAllMembers(z) \/ HandleWorldMessage(z)
             \/ Boot(z)
      PROVE  Leadership'
  BY <1>5, TryCreateLeadership, RemoveAllLeadership, HandleLeadership, BootLeadership
     DEF IInv, Copied
<1>6. ASSUME NEW z \in Zones,
             \/ CacheNew(z) \/ Change(z) \/ Clear(z) \/ MakeLeader(z)
      PROVE  Leadership'
  BY <1>6, CacheNewLeadership, ChangeHeardLeadership, ClearHeardLeadership,
     MakeLeaderLeadership DEF IInv, Copied
<1>7. CASE \/ \E z \in Zones : Shutdown(z) \/ LinkLost(z) \/ Reconnect(z)
           \/ CooldownEnds \/ Expire
  BY <1>7, QuietSteps
<1>8. CASE StatusChange \/ CheckLeader \/ Delete \/ WorldRestart
  BY <1>8, LookLeadership, DeleteLeadership, RestartLeadership
<1>9. CASE UNCHANGED vars
  <2>1. UNCHANGED <<db, world, cache, running, linked, up, down, expired, budget, past>>
    BY <1>9 DEF vars
  <2>2. InTouch' = InTouch
    BY <2>1 DEF InTouch
  <2> QED
    BY <2>1, <2>2, QuietLeadership DEF IInv, Copied
<1> QED
  BY <1>1, <1>2, <1>3, <1>4, <1>5, <1>6, <1>7, <1>8, <1>9 DEF Next

\* When nothing is on the way, the zones obey the leader.
LEMMA LeadershipAgrees == IInv /\ Copied /\ Leadership => LeaderAgrees
<1> SUFFICES ASSUME IInv, Leadership, Settled, world # NoDz,
                    ~world.needed, ~past.swapped,
                    world.leader \in world.members \ past.raced,
                    NEW z \in InTouch, cache[z] # NoDz
             PROVE  cache[z].leader = world.leader
  BY DEF LeaderAgrees
<1>1. z \in Zones
  BY DEF InTouch, IInv, TypeOK
<1>2. \A y \in Zones : Messages(up[y]) = {} /\ NoLead(down[y], Others(y))
  BY MessagesFew, LeadEnds DEF Settled
<1>3. Led(z, world.leader)
  <2>1. CASE past.forgotten
    BY <1>1, <2>1 DEF Leadership, ForgottenFits
  <2>2. CASE ~past.forgotten
    <3>1. ~Leaves(world.leader)
      BY <1>2 DEF Leaves
    <3>2. Obeys(z, world.leader)
      BY <1>1, <2>2, <3>1 DEF Leadership, LeaderFits, Excused
    <3> QED
      BY <1>1, <1>2, <3>2 DEF Obeys
  <2> QED
    BY <2>1, <2>2
<1> QED
  BY <1>3 DEF Led

\* The zones in touch obey the leader world has chosen when nothing is on the
\* way, but for the exemptions named: however zones change the members, ask for
\* another leader, restart and lose their links, and world restarts.
THEOREM DynamicZonesLeaderAgrees == Spec => []LeaderAgrees
<1>1. IInv /\ Copied /\ Leadership /\ [Next]_vars => (IInv /\ Copied /\ Leadership)'
  BY NextInv, NextCopied, NextLeadership
<1>2. Init => IInv /\ Copied /\ Leadership
  BY InitInv, InitCopied, InitLeadership
<1> QED
  BY <1>1, <1>2, LeadershipAgrees, PTL DEF Spec
=============================================================================
