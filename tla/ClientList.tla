----------------------------- MODULE ClientList -----------------------------
(***************************************************************************)
(* World's list of who is on the server: an entry for every login, updated *)
(* by the client's connection to world, by the zone servers and by timers  *)
(* (world/clientlist.cpp, cliententry.cpp, and the parts of client.cpp and *)
(* zoneserver.cpp that change entries).                                    *)
(*                                                                         *)
(* World is one thread.  What a zone server says of a client is left open: *)
(* any message about any entry, known or not, may arrive from any zone     *)
(* server that is connected, which covers late, lost and repeated ones.    *)
(* Status numbers are those of CLE_Status.  Every account is below the     *)
(* status that exempts it from the limit on clients per address.           *)
(***************************************************************************)
EXTENDS Integers, FiniteSets

CONSTANTS
  ZoneServers,      \* ZoneServer objects that may exist at a time
  Clients,          \* connections of clients to world
  IPs,              \* addresses
  None,             \* no zone server, and the address 0
  StaleLimit,       \* CheckStale removes an entry beyond it: 20
  MaxClientsPerIP,  \* rule World:MaxClientsPerIP, 0 for no limit
  DisconnectAll,    \* rule World:IPLimitDisconnectAll
  MaxEntries        \* bound: entries created in a behaviour

ASSUME ClientListAssumption ==
  /\ None \notin ZoneServers \union IPs
  /\ StaleLimit \in Nat
  /\ MaxClientsPerIP \in Nat
  /\ DisconnectAll \in BOOLEAN
  /\ MaxEntries \in Nat

VARIABLES
  listed,       \* clientlist: the entries in it
  entry,        \* each entry by its id
  lastId,       \* NextCLEID - 1
  numplayers,   \* numplayers
  servers,      \* the zone servers in ZSList
  playerCount,  \* zone_player_count of each of them
  client        \* the connections: the entry they hold, whether zone_id is set

vars == <<listed, entry, lastId, numplayers, servers, playerCount, client>>

Never == 0
Offline == 1
Online == 2
CharSelect == 3
Zoning == 4
InZone == 5

Ids == 1..MaxEntries
NoEntry == 0

\* An entry that does not exist.
Blank == [online |-> Never, stale |-> 0, server |-> None, ip |-> None,
          front |-> FALSE]

\* A connection that has not logged in.
Connected(ip) == [cle |-> NoEntry, zone |-> FALSE, ip |-> ip]

Init ==
  /\ listed = {}
  /\ entry = [e \in Ids |-> Blank]
  /\ lastId = 0
  /\ numplayers = 0
  /\ servers = {}
  /\ playerCount = [z \in ZoneServers |-> 0]
  /\ client \in [Clients -> {Connected(ip) : ip \in IPs}]

-----------------------------------------------------------------------------
(* ClientListEntry                                                         *)

\* Mutant: an update of the status alone leaves the entry in its zone.
CampsBelow(status) == status < CharSelect

\* SetOnline makes the entry leave its zone (Camp).
Camps(status) == status < Zoning

\* The entry r after SetOnline: Online never lowers a status.
WithStatus(r, status) ==
  LET online == IF status # Online \/ r.online < Online
                THEN status ELSE r.online
  IN  [r EXCEPT !.online = online,
                !.server = IF Camps(status) THEN None ELSE @,
                !.stale = IF Camps(status) \/ online >= Online THEN 0 ELSE @]

\* Mutant: players are counted from character selection on.
PlayersAddedLate(r, status) ==
  IF status >= CharSelect /\ r.online < CharSelect THEN 1
  ELSE IF status < Online /\ r.online >= Online THEN -1 ELSE 0

\* What SetOnline adds to numplayers.
PlayersAdded(r, status) ==
  IF status >= Online /\ r.online < Online THEN 1
  ELSE IF status < Online /\ r.online >= Online THEN -1 ELSE 0

\* RemovePlayer of the zone server z, if there is one.
RemovePlayer(z) ==
  IF z = None THEN playerCount ELSE [playerCount EXCEPT ![z] = @ - 1]

\* Mutant: the zone server it comes from is not told.
MovePlayerIn(old, new) ==
  [z \in ZoneServers |-> playerCount[z] + (IF z = new /\ z # old THEN 1 ELSE 0)]

\* The counts when an entry goes from the zone server old to new.
MovePlayer(old, new) ==
  [z \in ZoneServers |-> playerCount[z] + (IF z = new THEN 1 ELSE 0)
                                        - (IF z = old THEN 1 ELSE 0)]

\* An entry's SetOnline, for entries that exist.
SetOnline(e, status) ==
  /\ entry' = [entry EXCEPT ![e] = WithStatus(entry[e], status)]
  /\ numplayers' = numplayers + PlayersAdded(entry[e], status)
  /\ playerCount' = IF Camps(status) THEN RemovePlayer(entry[e].server)
                    ELSE playerCount

Players(es) == {e \in es : entry[e].online >= Online}
In(z, es) == {e \in es : entry[e].server = z}

\* The entries es were set Offline and taken out of the list: numplayers and
\* the count of a zone server without them.
PlayersWithout(es) == numplayers - Cardinality(Players(es))
CountsWithout(es) ==
  [z \in ZoneServers |-> playerCount[z] - Cardinality(In(z, es))]

\* RemoveCLEReferances: no connection holds one of the entries es any more.
Released(es) ==
  [c \in Clients |-> IF client[c].cle \in es
                     THEN [client[c] EXCEPT !.cle = NoEntry] ELSE client[c]]

-----------------------------------------------------------------------------
(* The login server announces a client (CLEAdd).                           *)

CLEAdd(ip) ==
  /\ lastId < MaxEntries
  /\ lastId' = lastId + 1
  /\ listed' = listed \union {lastId + 1}
  /\ entry' = [entry EXCEPT ![lastId + 1] = [Blank EXCEPT !.ip = ip]]
  /\ UNCHANGED <<numplayers, servers, playerCount, client>>

-----------------------------------------------------------------------------
(* A connection of a client to world.                                      *)

\* HandleSendLoginInfoPacket finds the entry e for the key it is sent.
LogIn(c, e, zoning) ==
  /\ e \in listed
  /\ LET r == WithStatus(entry[e], IF zoning THEN Online ELSE CharSelect)
     IN  entry' = [entry EXCEPT ![e] = [r EXCEPT !.ip = client[c].ip]]
  /\ numplayers' = numplayers
                     + PlayersAdded(entry[e], IF zoning THEN Online ELSE CharSelect)
  /\ playerCount' = RemovePlayer(entry[e].server)
  /\ client' = [client EXCEPT ![c].cle = e]
  /\ UNCHANGED <<listed, lastId, servers>>

\* Process keeps the connection's entry alive.
KeepAlive(c) ==
  /\ client[c].cle # NoEntry
  /\ entry' = [entry EXCEPT ![client[c].cle].stale = 0]
  /\ UNCHANGED <<listed, lastId, numplayers, servers, playerCount, client>>

\* The order of the list: Append adds at the end, Insert at the front.
Position(e) == IF entry[e].front THEN -e ELSE e
Before(e) == {f \in listed : Position(f) < Position(e)}
IsPrevious(f, e) ==
  f \in Before(e) /\ \A g \in Before(e) : Position(g) <= Position(f)

OfIP(ip) == {e \in listed : entry[e].ip = ip}

\* DisconnectByIP: RemoveCurrent goes on to the next entry and Advance then
\* goes past it, so an entry that follows a removed one is not looked at.
DisconnectedByIP(ip) ==
  LET looked[e \in listed] ==
        \A f \in listed : IsPrevious(f, e) => ~(looked[f] /\ f \in OfIP(ip))
  IN  {e \in OfIP(ip) : looked[e]}

\* GetCLEIP counts the entries of the address that are in a zone; these are
\* those with which the count is at the limit or beyond.
OverLimit(ip) ==
  {e \in OfIP(ip) : /\ entry[e].server # None
                    /\ Cardinality({f \in OfIP(ip) : entry[f].server # None
                           /\ f \in Before(e)}) + 1 >= MaxClientsPerIP}

\* The entries GetCLEIP disconnects and removes.
Limited(ip) ==
  IF MaxClientsPerIP = 0 \/ OverLimit(ip) = {} THEN {}
  ELSE IF DisconnectAll THEN DisconnectedByIP(ip) ELSE OverLimit(ip)

\* What EnterWorld comes to: the client waits (for a zone to boot, or for the
\* zone to accept it), is told that the zone is unavailable, or is sent on
\* (Clearance).  Without an entry it cannot be sent on.
Outcomes == {"waits", "unavailable", "cleared"}
Outcome(c, outcome, status) ==
  \/ outcome = "unavailable" /\ status = CharSelect
  \/ outcome = "cleared" /\ status = Zoning

\* HandleEnterWorldPacket: the limit per address first, which may take the
\* client's own entry, then EnterWorld.
EnterWorld(c, outcome) ==
  LET gone == Limited(client[c].ip)
      own  == client[c].cle
      kept == own \notin gone
      zone == outcome # "unavailable"
      freed == Released(gone)
  IN  /\ own # NoEntry
      /\ outcome = "cleared" => kept
      /\ listed' = listed \ gone
      /\ client' = [freed EXCEPT ![c].zone = zone]
      /\ \/ /\ outcome = "waits" \/ ~kept
            /\ entry' = [e \in Ids |-> IF e \in gone THEN Blank ELSE entry[e]]
            /\ numplayers' = PlayersWithout(gone)
            /\ playerCount' = CountsWithout(gone)
         \/ \E status \in {CharSelect, Zoning} :
              /\ kept
              /\ Outcome(c, outcome, status)
              /\ entry' = [e \in Ids |-> IF e \in gone THEN Blank
                             ELSE IF e = own THEN WithStatus(entry[e], status)
                             ELSE entry[e]]
              /\ numplayers' = PlayersWithout(gone)
                                 + PlayersAdded(entry[own], status)
              /\ playerCount' =
                   IF Camps(status)
                   THEN CountsWithout(gone \union {own}) ELSE CountsWithout(gone)
      /\ UNCHANGED <<lastId, servers>>

\* A client that waited goes on: the zone has booted or has answered
\* (EnterWorld(false), Clearance), or there is no zone for it, by an answer
\* or by the time-out of the boot (TellClientZoneUnavailable).
GoesOn(c, outcome) ==
  /\ client[c].zone
  /\ client' = [client EXCEPT ![c].zone = outcome # "unavailable"]
  /\ IF client[c].cle = NoEntry
     THEN outcome = "unavailable" /\ UNCHANGED <<entry, numplayers, playerCount>>
     ELSE \E status \in {CharSelect, Zoning} :
            Outcome(c, outcome, status) /\ SetOnline(client[c].cle, status)
  /\ UNCHANGED <<listed, lastId, servers>>

\* The connection is removed (~Client), at OP_WorldLogout after the entry was
\* set Offline; later the slot serves another connection.
Disconnect(c, logout, ip) ==
  /\ client' = [client EXCEPT ![c] = Connected(ip)]
  /\ IF client[c].cle # NoEntry /\ (logout \/ ~client[c].zone)
     THEN SetOnline(client[c].cle, Offline)
     ELSE UNCHANGED <<entry, numplayers, playerCount>>
  /\ UNCHANGED <<listed, lastId, servers>>

-----------------------------------------------------------------------------
(* What zone servers say of their clients.                                 *)

\* ClientUpdate for an entry in the list: Update.
UpdateEntry(z, e) ==
  /\ entry' = [entry EXCEPT ![e] = WithStatus([entry[e] EXCEPT !.server = z], InZone)]
  /\ numplayers' = numplayers + PlayersAdded(entry[e], InZone)
  /\ playerCount' = MovePlayer(entry[e].server, z)

\* ... LeavingZone, with status Zoning or Offline; ignored from a zone the
\* entry is not in.
LeavingZone(z, e, status) ==
  /\ entry[e].server = z
  /\ entry' = [entry EXCEPT ![e] =
                 [WithStatus(entry[e], status) EXCEPT !.server = None]]
  /\ numplayers' = numplayers + PlayersAdded(entry[e], status)
  /\ playerCount' = RemovePlayer(z)

LeavingOtherZone(z, e) ==
  entry[e].server # z /\ UNCHANGED <<entry, numplayers, playerCount>>

ClientUpdate(z, e) ==
  /\ z \in servers
  /\ e \in listed
  /\ \/ UpdateEntry(z, e)
     \/ LeavingZone(z, e, Zoning)
     \/ LeavingZone(z, e, Offline)
     \/ LeavingOtherZone(z, e)
  /\ UNCHANGED <<listed, lastId, servers, client>>

\* ClientUpdate for an entry that is not in the list makes one: InZone, Zoning
\* when the client is leaving for another zone, Online when it is going.
ClientUpdateUnknown(z, status) ==
  /\ z \in servers
  /\ lastId < MaxEntries
  /\ lastId' = lastId + 1
  /\ listed' = listed \union {lastId + 1}
  /\ entry' = [entry EXCEPT ![lastId + 1] =
       WithStatus([Blank EXCEPT !.server = IF status >= Zoning THEN z ELSE None,
                                !.front = TRUE], status)]
  /\ numplayers' = numplayers + PlayersAdded(Blank, status)
  /\ playerCount' = IF status >= Zoning THEN MovePlayer(None, z) ELSE playerCount
  /\ UNCHANGED <<servers, client>>

\* CLEKeepAlive for the clients in a zone.
CLEKeepAlive(es) ==
  /\ servers # {}
  /\ entry' = [e \in Ids |-> IF e \in es \intersect listed
                             THEN [entry[e] EXCEPT !.stale = 0] ELSE entry[e]]
  /\ UNCHANGED <<listed, lastId, numplayers, servers, playerCount, client>>

-----------------------------------------------------------------------------
(* Zone servers come, sleep and go.                                        *)

AddServer(z) ==
  /\ z \notin servers
  /\ servers' = servers \union {z}
  /\ playerCount' = [playerCount EXCEPT ![z] = 0]
  /\ UNCHANGED <<listed, entry, lastId, numplayers, client>>

\* Mutant: entries that are zoning are passed over.
ReferringInZone(z) == {e \in In(z, listed) : entry[e].online = InZone}

\* The entries that refer to the zone server z.
Referring(z) == In(z, listed)

\* CLERemoveZSRef for the entries of z; their zone server is cleared first,
\* so it is not told of it.
CLERemoveZSRef(z) ==
  /\ entry' = [e \in Ids |-> IF e \in Referring(z)
                             THEN WithStatus(entry[e], Offline) ELSE entry[e]]
  /\ numplayers' = PlayersWithout(Referring(z))

\* SetZone(0).
SleepZone(z) ==
  /\ z \in servers
  /\ CLERemoveZSRef(z)
  /\ playerCount' = [playerCount EXCEPT ![z] = 0]
  /\ UNCHANGED <<listed, lastId, servers, client>>

\* ZSList::Remove destroys the zone server.
RemoveServer(z) ==
  /\ z \in servers
  /\ CLERemoveZSRef(z)
  /\ servers' = servers \ {z}
  /\ UNCHANGED <<listed, lastId, playerCount, client>>

-----------------------------------------------------------------------------
(* CLCheckStale, every ten seconds.                                        *)

\* Mutant: the age stops at the limit and never goes beyond it.
AgeSaturated(r) == IF r.stale < StaleLimit THEN r.stale + 1 ELSE r.stale

\* m_stale after one more check.
Age(r) == r.stale + 1

\* The entries that this check removes.
StaleEntries == {e \in listed : Age(entry[e]) > StaleLimit}

CheckStale ==
  /\ listed # {}
  /\ listed' = listed \ StaleEntries
  /\ entry' = [e \in Ids |-> IF e \in StaleEntries THEN Blank
                 ELSE IF e \in listed THEN [entry[e] EXCEPT !.stale = Age(entry[e])]
                 ELSE entry[e]]
  /\ numplayers' = PlayersWithout(StaleEntries)
  /\ playerCount' = CountsWithout(StaleEntries)
  /\ client' = Released(StaleEntries)
  /\ UNCHANGED <<lastId, servers>>

-----------------------------------------------------------------------------
Next ==
  \/ \E ip \in IPs : CLEAdd(ip)
  \/ \E c \in Clients :
       \/ \E e \in Ids, zoning \in BOOLEAN : LogIn(c, e, zoning)
       \/ KeepAlive(c)
       \/ \E outcome \in Outcomes : EnterWorld(c, outcome) \/ GoesOn(c, outcome)
       \/ \E logout \in BOOLEAN, ip \in IPs : Disconnect(c, logout, ip)
  \/ \E z \in ZoneServers :
       \/ \E e \in Ids : ClientUpdate(z, e)
       \/ \E status \in {Online, Zoning, InZone} : ClientUpdateUnknown(z, status)
       \/ AddServer(z) \/ SleepZone(z) \/ RemoveServer(z)
  \/ \E es \in SUBSET Ids : CLEKeepAlive(es)
  \/ CheckStale

Spec == Init /\ [][Next]_vars

\* The timer of CheckStale goes off again and again.  Nothing is asked of
\* clients and zone servers.
FairSpec == Spec /\ WF_vars(CheckStale)

-----------------------------------------------------------------------------
(* Properties                                                              *)

\* The values the variables range over.
TypeOK ==
  /\ listed \subseteq 1..lastId
  /\ entry \in [Ids -> [online : Never..InZone, stale : 0..StaleLimit,
                        server : ZoneServers \union {None},
                        ip : IPs \union {None}, front : BOOLEAN]]
  /\ lastId \in 0..MaxEntries
  /\ numplayers \in Nat
  /\ servers \subseteq ZoneServers
  /\ playerCount \in [ZoneServers -> Nat]
  /\ client \in [Clients -> [cle : Ids \union {NoEntry}, zone : BOOLEAN, ip : IPs]]

\* numplayers, which world compares with its capacity (login_server.cpp:168),
\* is the number of entries that are at least Online, however the statuses
\* set by clients, zones and timers follow each other.
PlayersCounted == numplayers = Cardinality(Players(listed))

\* The population of each zone server (zone_player_count, which decides which
\* zones are empty) is the number of entries that refer to it.
ZonePlayersCounted ==
  \A z \in servers : playerCount[z] = Cardinality(In(z, listed))

\* An entry is in a zone only while its status says that a character plays:
\* the populations of the zones together never exceed numplayers.
InZoneMeansPlaying ==
  \A e \in listed : entry[e].server # None => entry[e].online >= Zoning

\* Nothing points to what was destroyed: no entry to a zone server that left,
\* no connection to an entry that was removed (RemoveCLEReferances).
NothingDangles ==
  /\ \A e \in listed : entry[e].server \in servers \union {None}
  /\ \A c \in Clients : client[c].cle \in listed \union {NoEntry}

\* An entry that has begun to age is kept alive by somebody or leaves the
\* list: what a crashed zone or client leaves behind does not stay.
AgingEnds ==
  \A e \in Ids : (e \in listed /\ entry[e].stale > 0)
                   ~> (e \notin listed \/ entry[e].stale = 0)

\* ruletypes.h:340, IPLimitDisconnectAll: "Disconnect all current clients by
\* IP if they go over the IP limit".
LimitEmptiesAddress ==
  [][\A c \in Clients, outcome \in Outcomes :
       EnterWorld(c, outcome) /\ OverLimit(client[c].ip) # {} =>
         \A e \in listed' : entry'[e].ip # client[c].ip]_vars
=============================================================================
