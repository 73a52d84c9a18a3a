---------------------------- MODULE DynamicZones ----------------------------
(***************************************************************************)
(* One expedition, as world, the zones and the database hold it. A zone    *)
(* changes the members in the database and in its own cache and sends the  *)
(* change to world, which applies it and passes it on to all zones; the    *)
(* zone it came from ignores it. Only world changes the leader. Locks,     *)
(* lockouts, places, durations, invitations and statuses are left out:     *)
(* that a member is online is a choice.                                    *)
(***************************************************************************)
EXTENDS Naturals, Sequences, FiniteSets

CONSTANTS
  Zones,         \* zone processes, each the host of one zone
  Characters,
  NoDz,          \* the expedition is not there
  MaxChanges,    \* changes and requests of the zones
  MaxIncidents   \* zones shut down, links lost, restarts of world, expiry

ASSUME DynamicZonesAssumption ==
  MaxChanges \in Nat /\ MaxIncidents \in Nat

VARIABLES
  db,        \* dynamic_zones and dynamic_zone_members: members and leader
  world,     \* dynamic_zone_cache of world: members, leader,
             \*   needed (m_choose_leader_needed) and
             \*   ready (m_choose_leader_cooldown_timer has run out)
  cache,     \* dynamic_zone_cache of each zone: members and leader
  running,   \* the processes that host their zone
  linked,    \* the processes connected to world
  up, down,  \* messages to world and to each process
  expired,   \* IsExpired
  budget,
  past       \* history, for the properties only:
             \*   raced      members of whom changes crossed or were lost
             \*   missed     zones that missed messages since they booted
             \*   swapped    the leader took over from one swapped out
             \*   forgotten  world restarted while a leader was needed

vars == <<db, world, cache, running, linked, up, down, expired, budget, past>>

Spends(what) ==
  budget[what] > 0 /\ budget' = [budget EXCEPT ![what] = @ - 1]

\* The expedition is not there yet; all zones run and are connected.
Init ==
  /\ db = NoDz
  /\ world = NoDz
  /\ cache = [z \in Zones |-> NoDz]
  /\ running = Zones
  /\ linked = Zones
  /\ up = [z \in Zones |-> <<>>]
  /\ down = [z \in Zones |-> <<>>]
  /\ expired = FALSE
  /\ budget = [creations |-> 1, changes |-> MaxChanges,
               incidents |-> MaxIncidents]
  /\ past = [raced |-> {}, missed |-> {}, swapped |-> FALSE,
             forgotten |-> FALSE]

\* The characters whose membership a message may change.
Touched(m) ==
  CASE m.op \in {"Created", "Clear"} -> Characters
    [] m.op = "Change" -> m.out \cup m.in
    [] OTHER -> {}

AllTouched(queue) == UNION {Touched(queue[i]) : i \in DOMAIN queue}

\* What another zone has done that world has not heard of or z has not.
Theirs(z) ==
  {i \in DOMAIN down[z] : Touched(down[z][i]) # {} /\ down[z][i].from # z}

Crossing(z) ==
  (UNION {AllTouched(up[y]) : y \in Zones \ {z}})
    \cup (UNION {Touched(down[z][i]) : i \in Theirs(z)})

\* SendServerPacket of a zone: without a connection it is dropped.
Send(z, m) ==
  up' = IF z \in linked THEN [up EXCEPT ![z] = Append(@, m)] ELSE up

\* A change of the zone z to chars met another on its way or was lost.
Races(z, chars) ==
  past' = [past EXCEPT !.raced =
             @ \cup (IF z \in linked THEN chars \cap Crossing(z) ELSE chars)]

\* ZSList::SendPacket.
Broadcast(messages) ==
  down' = [z \in Zones |->
             IF z \in linked THEN down[z] \o messages ELSE down[z]]

-----------------------------------------------------------------------------
(* Zones.                                                                  *)

\* TryCreate: the leader is always among the members saved.
TryCreate(z) ==
  /\ z \in running
  /\ Spends("creations")
  /\ \E members \in SUBSET Characters : \E leader \in members :
       LET copy == [members |-> members, leader |-> leader]
       IN  /\ db' = copy
           /\ cache' = [cache EXCEPT ![z] = copy]
           /\ Send(z, [op |-> "Created", from |-> z, copy |-> copy])
  /\ Races(z, Characters)
  /\ UNCHANGED <<world, running, linked, down, expired>>

\* The statements and the local change shared by AddMember, RemoveMember and
\* SwapMember. Rows written for an expedition that was deleted stay unused.
ChangeMembers(z, out, in) ==
  /\ Spends("changes")
  /\ db' = IF db = NoDz THEN db ELSE [db EXCEPT !.members = (@ \ out) \cup in]
  /\ cache' = [cache EXCEPT ![z].members = (@ \ out) \cup in]
  /\ Send(z, [op |-> "Change", from |-> z, out |-> out, in |-> in])
  /\ Races(z, out \cup in)
  /\ UNCHANGED <<world, running, linked, down, expired>>

\* Mutant: an invitation is accepted whatever the database says.
AddMemberUnchecked(z, c) ==
  /\ cache[z] # NoDz /\ c \notin cache[z].members
  /\ ChangeMembers(z, {}, {c})

\* AddMember, when an invitation is accepted (DzInviteResponse): it is refused
\* if the database knows no members (ProcessAddConflicts).
AddMember(z, c) ==
  /\ cache[z] # NoDz /\ c \notin cache[z].members
  /\ db # NoDz /\ db.members # {}
  /\ ChangeMembers(z, {}, {c})

\* RemoveMember: the leader's command, or the member quits.
RemoveMember(z, c) ==
  /\ cache[z] # NoDz /\ c \in cache[z].members
  /\ ChangeMembers(z, {c}, {})

\* SwapMember, when an invitation is accepted: HasDatabaseMember is asked for
\* the one who goes.
SwapMember(z, add, remove) ==
  /\ cache[z] # NoDz
  /\ add \notin cache[z].members /\ remove \in cache[z].members
  /\ db # NoDz /\ remove \in db.members
  /\ ChangeMembers(z, {remove}, {add})

\* RemoveAllMembers: the leader's command, or the instance has run out of time.
RemoveAllMembers(z) ==
  /\ cache[z] # NoDz
  /\ Spends("changes")
  /\ db' = IF db = NoDz THEN db ELSE [db EXCEPT !.members = {}]
  /\ cache' = [cache EXCEPT ![z].members = {}]
  /\ Send(z, [op |-> "Clear", from |-> z])
  /\ Races(z, Characters)
  /\ UNCHANGED <<world, running, linked, down, expired>>

\* DzMakeLeader: a command of the leader, in the zone's eyes.
DzMakeLeader(z, c) ==
  /\ cache[z] # NoDz
  /\ Spends("changes")
  /\ Send(z, [op |-> "Make", by |-> cache[z].leader, who |-> c])
  /\ UNCHANGED <<db, world, cache, running, linked, down, expired, past>>

\* HandleWorldMessage: a message of the zone itself, or about an expedition it
\* does not have, changes nothing; nor does a leader who is no member
\* (ProcessLeaderChanged).
Ignores(z, m) ==
  \/ z \notin running
  \/ m.op \in {"Created", "Change", "Clear"} /\ m.from = z
  \/ m.op # "Created" /\ cache[z] = NoDz
  \/ m.op = "Leader" /\ m.who \notin cache[z].members

\* What any other message makes of the zone's copy.
Handled(dz, m) ==
  CASE m.op = "Created" -> m.copy
    [] m.op = "Deleted" -> NoDz
    [] m.op = "Change" -> [dz EXCEPT !.members = (@ \ m.out) \cup m.in]
    [] m.op = "Clear" -> [dz EXCEPT !.members = {}]
    [] m.op = "Leader" -> [dz EXCEPT !.leader = m.who]

HandleWorldMessage(z) ==
  /\ down[z] # <<>>
  /\ down' = [down EXCEPT ![z] = Tail(@)]
  /\ LET m == Head(down[z])
     IN  cache' = IF Ignores(z, m) THEN cache
                  ELSE [cache EXCEPT ![z] = Handled(@, m)]
  /\ UNCHANGED <<db, world, running, linked, up, expired, budget, past>>

\* CacheAllFromDatabase, when a zone boots: at a message of world, or, a static
\* zone, before it is connected.
Boot(z) ==
  /\ z \notin running
  /\ running' = running \cup {z}
  /\ cache' = [cache EXCEPT ![z] = IF expired THEN NoDz ELSE db]
  /\ past' = [past EXCEPT !.missed =
                IF z \in linked THEN @ \ {z} ELSE @ \cup {z}]
  /\ UNCHANGED <<db, world, linked, up, down, expired, budget>>

\* The zone goes, its process stays.
Shutdown(z) ==
  /\ z \in running
  /\ Spends("incidents")
  /\ running' = running \ {z}
  /\ cache' = [cache EXCEPT ![z] = NoDz]
  /\ UNCHANGED <<db, world, linked, up, down, expired, past>>

-----------------------------------------------------------------------------
(* World.                                                                  *)

\* World takes the next message of z, of the kind op.
Hears(z, op) ==
  /\ up[z] # <<>>
  /\ Head(up[z]).op = op
  /\ up' = [up EXCEPT ![z] = Tail(@)]
  /\ UNCHANGED <<cache, running, linked, expired, budget>>

\* ChooseNewLeader. A member who is online and in a zone is preferred, which
\* may be anyone.
ChooseNewLeader(dz) ==
  LET others == dz.members \ {dz.leader}
  IN  IF dz.members = {} \/ ~dz.ready THEN {[dz EXCEPT !.needed = TRUE]}
      ELSE IF others = {} THEN {[dz EXCEPT !.ready = FALSE]}
      ELSE {[dz EXCEPT !.ready = FALSE, !.needed = FALSE, !.leader = c] :
              c \in others}

\* Mutant: the leader is set with update_db and the zones are not told.
SetNewLeaderUnsaid(dz, message) ==
  /\ world' = dz
  /\ db' = IF db = NoDz THEN db ELSE [db EXCEPT !.leader = dz.leader]
  /\ Broadcast(message)
  /\ past' = [past EXCEPT !.forgotten = FALSE, !.swapped = FALSE]

\* SetNewLeader: the database, then SendZonesLeaderChanged, before the message
\* that made it necessary is passed on.
SetNewLeader(dz, message) ==
  /\ world' = dz
  /\ db' = IF db = NoDz THEN db ELSE [db EXCEPT !.leader = dz.leader]
  /\ Broadcast(<<[op |-> "Leader", who |-> dz.leader]>> \o message)
  /\ past' = [past EXCEPT !.forgotten = FALSE,
                !.swapped = \E i \in DOMAIN message : message[i].in # {}]

\* dz is world's copy from now on.
Becomes(dz, message) ==
  IF dz.leader # world.leader THEN SetNewLeader(dz, message)
  ELSE /\ world' = dz
       /\ Broadcast(message)
       /\ UNCHANGED <<db, past>>

\* CacheNewDynamicZone.
CacheNew(z) ==
  /\ Hears(z, "Created")
  /\ LET copy == Head(up[z]).copy
     IN  world' = IF world # NoDz THEN world
                  ELSE [members |-> copy.members, leader |-> copy.leader,
                        needed |-> FALSE, ready |-> FALSE]
  /\ Broadcast(<<Head(up[z])>>)
  /\ UNCHANGED <<db, past>>

\* ServerOP_DzAddRemoveMember and ServerOP_DzSwapMembers: the new member is
\* added first. ProcessMemberAddRemove looks for a new leader when the
\* leader is removed.
Change(z) ==
  /\ Hears(z, "Change")
  /\ LET m  == Head(up[z])
         dz == [world EXCEPT !.members = (@ \cup m.in) \ m.out]
     IN  IF world = NoDz
         THEN Broadcast(<<m>>) /\ UNCHANGED <<world, db, past>>
         ELSE \E new \in IF world.leader \in m.out
                         THEN ChooseNewLeader(dz) ELSE {dz} :
                Becomes(new, <<m>>)

\* ServerOP_DzRemoveAllMembers: nobody looks for a leader.
Clear(z) ==
  /\ Hears(z, "Clear")
  /\ world' = IF world = NoDz THEN world ELSE [world EXCEPT !.members = {}]
  /\ Broadcast(<<Head(up[z])>>)
  /\ UNCHANGED <<db, past>>

\* ServerOP_DzMakeLeader: SetNewLeader if the one who asks is the leader and
\* the new one a member, who is online or not.
MakeLeader(z) ==
  /\ Hears(z, "Make")
  /\ LET m == Head(up[z])
     IN  \/ UNCHANGED <<world, db, down, past>>
         \/ /\ world # NoDz
            /\ world.leader = m.by /\ m.who \in world.members
            /\ SetNewLeader([world EXCEPT !.leader = m.who], <<>>)

\* ServerOP_DzUpdateMemberStatus from some zone, ProcessMemberStatusChange, when
\* the leader is offline.
StatusChange ==
  /\ world # NoDz
  /\ Cardinality(world.members) > 1
  /\ Spends("changes")
  /\ \E new \in ChooseNewLeader(world) : Becomes(new, <<>>)
  /\ UNCHANGED <<cache, running, linked, up, expired>>

\* Process of an expedition that stays: CheckLeader.
CheckLeader ==
  /\ world # NoDz
  /\ world.needed
  /\ \E new \in ChooseNewLeader(world) : Becomes(new, <<>>)
  /\ UNCHANGED <<cache, running, linked, up, expired, budget>>

\* Mutant: the zones are not told.
DeleteUnsaid ==
  /\ world # NoDz
  /\ expired \/ world.members = {}
  /\ world' = NoDz
  /\ db' = NoDz
  /\ UNCHANGED <<cache, running, linked, up, down, expired, budget, past>>

\* DynamicZoneManager::Process of one that has expired or has no members, with
\* no client inside.
Delete ==
  /\ world # NoDz
  /\ expired \/ world.members = {}
  /\ world' = NoDz
  /\ db' = NoDz
  /\ Broadcast(<<[op |-> "Deleted"]>>)
  /\ UNCHANGED <<cache, running, linked, up, expired, budget, past>>

\* The cooldown of ChooseNewLeader is over.
CooldownEnds ==
  /\ world # NoDz /\ ~world.ready
  /\ world' = [world EXCEPT !.ready = TRUE]
  /\ UNCHANGED <<db, cache, running, linked, up, down, expired, budget, past>>

\* The time of the instance is over: IsExpired.
Expire ==
  /\ ~expired /\ db # NoDz
  /\ Spends("incidents")
  /\ expired' = TRUE
  /\ UNCHANGED <<db, world, cache, running, linked, up, down, past>>

-----------------------------------------------------------------------------
(* Links.                                                                  *)

\* The connection of a process fails, and what is on the way is lost.
LinkLost(z) ==
  /\ z \in linked
  /\ Spends("incidents")
  /\ linked' = linked \ {z}
  /\ up' = [up EXCEPT ![z] = <<>>]
  /\ down' = [down EXCEPT ![z] = <<>>]
  /\ past' = [past EXCEPT !.raced = @ \cup AllTouched(up[z]),
                          !.missed = @ \cup {z}]
  /\ UNCHANGED <<db, world, cache, running, expired>>

\* OnConnected does not ask for what was missed.
Reconnect(z) ==
  /\ z \notin linked
  /\ linked' = linked \cup {z}
  /\ UNCHANGED <<db, world, cache, running, up, down, expired, budget, past>>

\* World ends and starts: PurgeExpiredDynamicZones, CacheAllFromDatabase.
WorldRestart ==
  /\ Spends("incidents")
  /\ LET stays == db # NoDz /\ ~expired /\ db.members # {}
     IN  /\ db' = IF stays THEN db ELSE NoDz
         /\ world' = IF stays
                     THEN [members |-> db.members, leader |-> db.leader,
                           needed |-> FALSE, ready |-> FALSE]
                     ELSE NoDz
         /\ past' = [raced |-> {}, missed |-> Zones, swapped |-> FALSE,
                     forgotten |-> stays /\ db.leader \notin db.members]
  /\ linked' = {}
  /\ up' = [z \in Zones |-> <<>>]
  /\ down' = [z \in Zones |-> <<>>]
  /\ UNCHANGED <<cache, running, expired>>

Next ==
  \/ \E z \in Zones :
       \/ TryCreate(z)
       \/ \E c \in Characters :
            \/ AddMember(z, c)
            \/ RemoveMember(z, c)
            \/ \E d \in Characters : SwapMember(z, c, d)
            \/ DzMakeLeader(z, c)
       \/ RemoveAllMembers(z)
       \/ HandleWorldMessage(z)
       \/ Boot(z)
       \/ Shutdown(z)
       \/ CacheNew(z) \/ Change(z) \/ Clear(z) \/ MakeLeader(z)
       \/ LinkLost(z) \/ Reconnect(z)
  \/ StatusChange \/ CheckLeader \/ Delete \/ CooldownEnds \/ Expire
  \/ WorldRestart

Spec == Init /\ [][Next]_vars

-----------------------------------------------------------------------------
(* Properties.                                                             *)

Copies == [members : SUBSET Characters, leader : Characters]
WorldCopies == [members : SUBSET Characters, leader : Characters,
                needed : BOOLEAN, ready : BOOLEAN]

\* NoDz is no expedition.
ASSUME NoDzAssumption == NoDz \notin Copies \union WorldCopies

\* What world passes on, and what it hears and says besides.
Passed ==
  [op : {"Created"}, from : Zones, copy : {dz \in Copies : dz.leader \in dz.members}]
    \union [op : {"Change"}, from : Zones,
            out : SUBSET Characters, in : SUBSET Characters]
    \union [op : {"Clear"}, from : Zones]
Heard == Passed \union [op : {"Make"}, by : Characters, who : Characters]
Said == Passed \union [op : {"Leader"}, who : Characters] \union [op : {"Deleted"}]

\* The values the variables range over; a new expedition's leader is a member.
TypeOK ==
  /\ db \in Copies \union {NoDz}
  /\ world \in WorldCopies \union {NoDz}
  /\ cache \in [Zones -> Copies \union {NoDz}]
  /\ running \subseteq Zones /\ linked \subseteq Zones
  /\ up \in [Zones -> Seq(Heard)] /\ down \in [Zones -> Seq(Said)]
  /\ expired \in BOOLEAN
  /\ budget \in [creations : 0..1, changes : 0..MaxChanges,
                incidents : 0..MaxIncidents]
  /\ past \in [raced : SUBSET Characters, missed : SUBSET Zones,
              swapped : BOOLEAN, forgotten : BOOLEAN]

Settled == \A z \in Zones : up[z] = <<>> /\ down[z] = <<>>
Agree(S, T) == S \ past.raced = T \ past.raced
InTouch == running \ past.missed

\* When nothing is on the way, world, the database and every zone that missed
\* nothing since it booted have the same members, but for those of whom two
\* zones' changes crossed or one was lost; and an expedition that was deleted is
\* gone everywhere. (A zone that boots after the end of the time loads none.)
CopiesAgree ==
  Settled =>
    /\ world # NoDz => db # NoDz /\ Agree(db.members, world.members)
    /\ \A z \in InTouch :
         /\ world # NoDz =>
              IF cache[z] = NoDz THEN expired
              ELSE Agree(cache[z].members, world.members)
         /\ world = NoDz /\ db = NoDz => cache[z] = NoDz

\* When nothing is on the way and world owes no choice, these zones obey the
\* leader world has chosen, although a zone ignores one it does not know as a
\* member: unless he came in by the swap that took the old leader out (world
\* then names him before the zones hear of the swap) or is one of those of whom
\* changes crossed.
LeaderAgrees ==
  Settled /\ world # NoDz =>
    \/ world.needed \/ past.swapped
    \/ world.leader \notin world.members \ past.raced
    \/ \A z \in InTouch : cache[z] # NoDz => cache[z].leader = world.leader

\* An expedition with members is led by one of them, or world knows that it
\* owes a leader: unless it restarted meanwhile (m_choose_leader_needed is not
\* saved), or all members were removed while others were being added.
LeaderIsMember ==
  world # NoDz =>
    \/ world.leader \in world.members
    \/ world.members \subseteq past.raced
    \/ world.needed
    \/ past.forgotten
=============================================================================
