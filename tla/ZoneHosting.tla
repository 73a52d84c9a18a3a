----------------------------- MODULE ZoneHosting -----------------------------
(***************************************************************************)
(* World's list of zone servers, the zone processes behind it and the      *)
(* clients that ask world to enter a zone (world/zonelist.cpp,             *)
(* zoneserver.cpp, client.cpp, clientlist.cpp; zone/worldserver.cpp,       *)
(* zone.cpp).  A process boots the zone world names, announces it with     *)
(* SetZone, and tells world when it is gone.  World goes by what it was    *)
(* told last, and by what it has asked for itself.                         *)
(*                                                                         *)
(* A step of world, or of a process, handles one message, one packet or    *)
(* one timer.  Booting is one step of the process, which handles nothing   *)
(* else meanwhile, and it knows every zone of Zones by its id.  Instances, *)
(* static zones, ports, and the time an authorization lives are left out:  *)
(* a reply is taken to come sooner.                                        *)
(***************************************************************************)
EXTENDS Integers, FiniteSets, SequencesExt

CONSTANTS
  Servers,       \* zone processes
  Zones,
  Clients,
  SeenCharacterSelect,  \* the others are zoning, world lets them pass at once
  None,          \* zone id 0, server id 0, a null pointer
  Gone,          \* the id of a ZoneServer that was removed, never used again
  KillProcessOnDynamicShutdown,  \* a rule, TRUE by default
  MaxRequests,   \* bound: asking to enter, and zoning, in a behaviour
  MaxIncidents   \* bound: operators' commands, links and processes that fail

ASSUME HostingAssumption ==
  /\ IsFiniteSet(Servers) /\ IsFiniteSet(Clients)
  /\ SeenCharacterSelect \subseteq Clients
  /\ None \notin Servers \union Zones \union {Gone}
  /\ Gone \notin Servers
  /\ KillProcessOnDynamicShutdown \in BOOLEAN
  /\ MaxRequests \in Nat /\ MaxIncidents \in Nat

VARIABLES
  list,      \* world: zone_server_list
  view,      \* world: zone_server_zone_id
  named,     \* world: zone_name, the zone announced last
  booting,   \* world: is_booting_up
  client,    \* world: the Clients
  hosted,    \* process: the zone that is loaded
  auth,      \* process: client_auth_list
  link,      \* the connection between the two
  down, up,  \* messages on it, to the process and to world
  warned,    \* history: the server warned of the client when it asked last
  budget     \* what is left of the two bounds

world == <<list, view, named, booting, client, warned>>
process == <<hosted, auth>>
vars == <<world, process, link, down, up, budget>>

\* From world.
ZoneBootup(z) == [op |-> "ZoneBootup", zone |-> z]
ZoneIncClient(c, z) == [op |-> "ZoneIncClient", client |-> c, zone |-> z]
AcceptWorldEntrance(c) == [op |-> "AcceptWorldEntrance", client |-> c]
DropClient(c) == [op |-> "DropClient", client |-> c]
ZoneShutdown == [op |-> "ZoneShutdown"]
\* From the process.
SetZone(z) == [op |-> "SetZone", zone |-> z]
Response(c, ok) == [op |-> "AcceptWorldEntrance", client |-> c, ok |-> ok]

\* A Client that asks for nothing, after TellClientZoneUnavailable too.
Unavailable == [zone |-> None, waiting |-> None, triggered |-> FALSE,
                timer |-> FALSE]

Init ==
  /\ list = <<>>
  /\ view = [s \in Servers |-> None]
  /\ named = [s \in Servers |-> None]
  /\ booting = [s \in Servers |-> FALSE]
  /\ client = [c \in Clients |-> Unavailable]
  /\ hosted = [s \in Servers |-> None]
  /\ auth = [s \in Servers |-> {}]
  /\ link = [s \in Servers |-> "none"]
  /\ down = [s \in Servers |-> <<>>]
  /\ up = [s \in Servers |-> <<>>]
  /\ warned = [c \in Clients |-> None]
  /\ budget = [requests |-> MaxRequests, incidents |-> MaxIncidents]

Spends(what) ==
  budget[what] > 0 /\ budget' = [budget EXCEPT ![what] = @ - 1]

Listed == {list[i] : i \in DOMAIN list}

\* The first server of the list that is one of servers, or None.
FirstOf(servers) ==
  LET i == SelectInSeq(list, LAMBDA s : s \in servers)
  IN  IF i = 0 THEN None ELSE list[i]

\* FindByZoneID, by the zones in map.
FindByZoneID(map, z) == FirstOf({s \in Listed : map[s] = z})

\* The server ZSList::TriggerBootup takes when nobody hosts the zone.
Idle == FirstOf({s \in Listed : view[s] = None /\ ~booting[s]})

-----------------------------------------------------------------------------
(* World: Client::EnterWorld.                                              *)

\* ZoneServer::TriggerBootup.
TriggerBootup(s, z) ==
  /\ booting' = [booting EXCEPT ![s] = TRUE]
  /\ view' = [view EXCEPT ![s] = z]
  /\ down' = [down EXCEPT ![s] = Append(@, ZoneBootup(z))]

\* The clients that are announced to a zone server now.
Announced(cs) == {c \in cs : ~client[c].triggered}

\* What server u is sent when c enters zone z at t: the others drop the
\* client, t is warned and asked, unless the client is refused.
Messages(c, z, t, u, refused) ==
  CASE u = t ->
         (IF c \in Announced({c}) THEN <<ZoneIncClient(c, z)>> ELSE <<>>)
         \o (IF c \in SeenCharacterSelect \ refused
             THEN <<AcceptWorldEntrance(c)>> ELSE <<>>)
    [] u # t -> IF c \in Announced({c}) THEN <<DropClient(c)>> ELSE <<>>

\* A Client whose zone server was found; refused, because the zone is locked
\* or the client's entry in the client list is gone.
EnteredClient(c, z, refused) ==
  IF c \in refused THEN Unavailable
  ELSE [client[c] EXCEPT !.zone = z, !.waiting = None, !.triggered = TRUE]

\* The clients cs enter z at t, one after the other in the given order.  base
\* is booting before they do.
Enter(cs, order, z, t, refused, base) ==
  /\ down' = [u \in Servers |->
                IF u \in Listed
                THEN down[u] \o FlattenSeq([i \in 1..Len(order) |->
                                  Messages(order[i], z, t, u, refused)])
                ELSE down[u]]
  /\ booting' = [base EXCEPT ![t] = @ \/ Announced(cs) # {}]
  /\ warned' = [c \in Clients |->
                  IF c \in refused THEN None
                  ELSE IF c \in Announced(cs) THEN t
                  ELSE IF c \in cs THEN None ELSE warned[c]]

\* The Client that waits for s to boot z.
WaitingClient(c, z, s) ==
  [client[c] EXCEPT !.zone = z, !.waiting = s, !.timer = TRUE]

\* OP_EnterWorld for a character who is in z.  It may come again before it
\* is answered.
EnterWorld(c, z) ==
  /\ Spends("requests")
  /\ LET t == FindByZoneID(view, z) IN
     \/ /\ t # None
        /\ \E refused \in SUBSET {c} :
             /\ Enter({c}, <<c>>, z, t, refused, booting)
             /\ client' = [client EXCEPT ![c] = EnteredClient(c, z, refused)]
        /\ view' = view
     \/ /\ t = None /\ Idle # None
        /\ TriggerBootup(Idle, z)
        /\ client' = [client EXCEPT ![c] = WaitingClient(c, z, Idle)]
        /\ warned' = [warned EXCEPT ![c] = None]
     \/ /\ t = None /\ Idle = None
        /\ client' = [client EXCEPT ![c] = Unavailable]
        /\ warned' = [warned EXCEPT ![c] = None]
        /\ UNCHANGED <<view, booting, down>>
  /\ UNCHANGED <<list, named, process, link, up>>

\* autobootup_timeout has expired.
BootTimeout(c) ==
  /\ client[c].timer
  /\ client' = [client EXCEPT ![c] = Unavailable]
  /\ warned' = [warned EXCEPT ![c] = None]
  /\ UNCHANGED <<list, view, named, booting, process, link, down, up, budget>>

\* The Client is deleted.
Leave(c) ==
  /\ client[c] # Unavailable
  /\ client' = [client EXCEPT ![c] = Unavailable]
  /\ warned' = [warned EXCEPT ![c] = None]
  /\ UNCHANGED <<list, view, named, booting, process, link, down, up, budget>>

\* The client leaves for the zone it was sent to, which lets it in.
Arrive(c, s) ==
  /\ warned[c] = s
  /\ c \in auth[s]
  /\ auth' = [auth EXCEPT ![s] = @ \ {c}]
  /\ client' = [client EXCEPT ![c] = Unavailable]
  /\ warned' = [warned EXCEPT ![c] = None]
  /\ UNCHANGED <<list, view, named, booting, hosted, link, down, up, budget>>

-----------------------------------------------------------------------------
(* World: messages, connections and the operators' commands.               *)

Receives(s, m) ==
  /\ s \in Listed
  /\ up[s] # <<>>
  /\ m = Head(up[s])
  /\ up' = [up EXCEPT ![s] = Tail(@)]

\* Mutant: the clients of a zone that did not boot are not told.
TurnedAwayNever(s, z) == {}

\* ClientList::ZoneBootup: the clients who waited for s to boot another
\* zone than z, which is what it hosts.
TurnedAway(s, z) ==
  {c \in Clients : client[c].waiting = s /\ client[c].zone # z}

\* ZoneServer::SetZone; the clients who wait for the zone enter it, at the
\* first server that hosts it, in the order of the client list.
RecvSetZone(s, z) ==
  /\ Receives(s, SetZone(z))
  /\ view' = [view EXCEPT ![s] = z]
  /\ named' = [named EXCEPT ![s] = z]
  /\ LET in == {c \in Clients : client[c].waiting # None /\ client[c].zone = z}
         free == [booting EXCEPT ![s] = FALSE]
         t == FindByZoneID(view', z)
     IN \/ /\ in = {}
           /\ booting' = free
           /\ client' = [c \in Clients |-> IF c \in TurnedAway(s, z)
                                           THEN Unavailable ELSE client[c]]
           /\ warned' = [c \in Clients |-> IF c \in TurnedAway(s, z)
                                           THEN None ELSE warned[c]]
           /\ down' = down
        \/ /\ in # {}
           /\ \E refused \in SUBSET in, order \in SetToSeqs(in) :
                /\ Enter(in, order, z, t, refused \union TurnedAway(s, z), free)
                /\ client' = [c \in Clients |->
                                CASE c \in TurnedAway(s, z) -> Unavailable
                                  [] c \in in -> EnteredClient(c, z, refused)
                                  [] OTHER -> client[c]]
  /\ UNCHANGED <<list, process, link, budget>>

\* Client::Clearance: the client is sent to the first server that hosts the
\* zone, or told that there is none.
RecvResponse(s, c, ok) ==
  /\ Receives(s, Response(c, ok))
  /\ IF ok /\ client[c].zone # None /\ FindByZoneID(view, client[c].zone) # None
     THEN UNCHANGED <<client, warned>>
     ELSE /\ client' = [client EXCEPT ![c] = Unavailable]
          /\ warned' = [warned EXCEPT ![c] = None]
  /\ UNCHANGED <<list, view, named, booting, process, link, down, budget>>

\* ServerOP_ZoneToZoneRequest: somebody in the zone of s goes to z.
ZoneToZone(s, z) ==
  /\ Spends("requests")
  /\ s \in Listed /\ view[s] # None
  /\ FindByZoneID(view, z) = None
  /\ Idle # None
  /\ TriggerBootup(Idle, z)
  /\ UNCHANGED <<list, named, client, warned, process, link, up>>

\* SOPZoneBootup refuses a zone that some server has announced.
HostedAlready(z) == \E t \in Listed : named[t] = z

\* The operators' command to boot z at s.
SOPZoneBootup(s, z) ==
  /\ Spends("incidents")
  /\ s \in Listed
  /\ ~HostedAlready(z)
  /\ TriggerBootup(s, z)
  /\ UNCHANGED <<list, named, client, warned, process, link, up>>

\* The operators' command to shut down the zone at s.
SOPZoneShutdown(s) ==
  /\ Spends("incidents")
  /\ s \in Listed
  /\ down' = [down EXCEPT ![s] = Append(@, ZoneShutdown)]
  /\ UNCHANGED <<world, process, link, up>>

\* ZSList::Add, and what the process sends first (OnConnected).  A process
\* connects again when world has noticed that the old link is down.
Connect(s) ==
  /\ link[s] = "none"
  /\ link' = [link EXCEPT ![s] = "linked"]
  /\ list' = Append(list, s)
  /\ up' = [up EXCEPT ![s] = <<SetZone(hosted[s])>>]
  /\ UNCHANGED <<view, named, booting, client, warned, process, down, budget>>

\* ZSList::Remove.  What was still on the link is lost, and no later
\* ZoneServer has the id of this one.
RemoveServer(s) ==
  /\ link[s] = "closed"
  /\ link' = [link EXCEPT ![s] = "none"]
  /\ list' = RemoveFirst(list, s)
  /\ view' = [view EXCEPT ![s] = None]
  /\ named' = [named EXCEPT ![s] = None]
  /\ booting' = [booting EXCEPT ![s] = FALSE]
  /\ client' = [c \in Clients |-> IF client[c].waiting = s
                                  THEN [client[c] EXCEPT !.waiting = Gone]
                                  ELSE client[c]]
  /\ warned' = [c \in Clients |-> IF warned[c] = s THEN None ELSE warned[c]]
  /\ down' = [down EXCEPT ![s] = <<>>]
  /\ up' = [up EXCEPT ![s] = <<>>]
  /\ UNCHANGED <<process, budget>>

-----------------------------------------------------------------------------
(* The zone process.                                                       *)

Handles(s, m) ==
  /\ link[s] = "linked"
  /\ down[s] # <<>>
  /\ m = Head(down[s])
  /\ down' = [down EXCEPT ![s] = Tail(@)]

Sends(s, m) == up' = [up EXCEPT ![s] = Append(@, m)]

\* Mutant: a boot that fails is not announced.
FailureUnannounced(s) == up' = up

\* Zone::Init failed: the Zone says so when it is deleted, then Bootup.
FailureAnnounced(s) ==
  up' = [up EXCEPT ![s] = @ \o <<SetZone(None), SetZone(None)>>]

\* Zone::Bootup for z, which also lets in the clients cs.
Bootup(s, z, cs) ==
  \/ /\ hosted' = [hosted EXCEPT ![s] = z]
     /\ auth' = [auth EXCEPT ![s] = @ \union cs]
     /\ Sends(s, SetZone(z))
  \/ /\ UNCHANGED process
     /\ FailureAnnounced(s)

RecvZoneBootup(s, z) ==
  /\ Handles(s, ZoneBootup(z))
  /\ IF hosted[s] = None THEN Bootup(s, z, {})
     ELSE Sends(s, SetZone(hosted[s])) /\ UNCHANGED process
  /\ UNCHANGED <<world, link, budget>>

\* Mutant: the client is let in when the zone was there already, not when
\* it boots for it.
LetInLate(s, z, c) == {}

\* Who is let in when the zone boots for client c.
LetIn(s, z, c) == {c}

RecvZoneIncClient(s, c, z) ==
  /\ Handles(s, ZoneIncClient(c, z))
  /\ IF hosted[s] = None THEN Bootup(s, z, LetIn(s, z, c))
     ELSE /\ Sends(s, SetZone(hosted[s]))
          /\ auth' = IF hosted[s] = z
                     THEN [auth EXCEPT ![s] = @ \union {c}] ELSE auth
          /\ hosted' = hosted
  /\ UNCHANGED <<world, link, budget>>

\* The zone may be full; without a zone there is no answer.
RecvAcceptWorldEntrance(s, c) ==
  /\ Handles(s, AcceptWorldEntrance(c))
  /\ IF hosted[s] = None THEN up' = up
     ELSE \E ok \in BOOLEAN : Sends(s, Response(c, ok))
  /\ UNCHANGED <<world, process, link, budget>>

RecvDropClient(s, c) ==
  /\ Handles(s, DropClient(c))
  /\ auth' = [auth EXCEPT ![s] = @ \ {c}]
  /\ UNCHANGED <<world, hosted, link, up, budget>>

\* Zone::Shutdown: by default the process ends with its zone.
Shutdown(s) ==
  /\ hosted' = [hosted EXCEPT ![s] = None]
  /\ auth' = [auth EXCEPT ![s] = {}]
  /\ up' = IF link[s] = "linked"
           THEN [up EXCEPT ![s] = Append(@, SetZone(None))] ELSE up
  /\ link' = IF KillProcessOnDynamicShutdown /\ link[s] = "linked"
             THEN [link EXCEPT ![s] = "closed"] ELSE link

RecvZoneShutdown(s) ==
  /\ Handles(s, ZoneShutdown)
  /\ IF hosted[s] = None
     THEN Sends(s, SetZone(None)) /\ UNCHANGED <<process, link>>
     ELSE Shutdown(s)
  /\ UNCHANGED <<world, budget>>

\* Nobody is in the zone when autoshutdown_timer expires.
AutoShutdown(s) ==
  /\ hosted[s] # None
  /\ Shutdown(s)
  /\ UNCHANGED <<world, down, budget>>

\* The connection fails, the process goes on.
Disconnect(s) ==
  /\ Spends("incidents")
  /\ link[s] = "linked"
  /\ link' = [link EXCEPT ![s] = "closed"]
  /\ UNCHANGED <<world, process, down, up>>

Crash(s) ==
  /\ Spends("incidents")
  /\ link[s] = "linked"
  /\ link' = [link EXCEPT ![s] = "closed"]
  /\ hosted' = [hosted EXCEPT ![s] = None]
  /\ auth' = [auth EXCEPT ![s] = {}]
  /\ UNCHANGED <<world, down, up>>

-----------------------------------------------------------------------------
WorldReceives(s) ==
  \/ \E z \in Zones \union {None} : RecvSetZone(s, z)
  \/ \E c \in Clients, ok \in BOOLEAN : RecvResponse(s, c, ok)

ProcessHandles(s) ==
  \/ \E z \in Zones : RecvZoneBootup(s, z)
  \/ \E c \in Clients, z \in Zones : RecvZoneIncClient(s, c, z)
  \/ \E c \in Clients : RecvAcceptWorldEntrance(s, c) \/ RecvDropClient(s, c)
  \/ RecvZoneShutdown(s)

Next ==
  \/ \E c \in Clients, z \in Zones : EnterWorld(c, z)
  \/ \E c \in Clients : BootTimeout(c) \/ Leave(c)
  \/ \E c \in Clients, s \in Servers : Arrive(c, s)
  \/ \E s \in Servers, z \in Zones : ZoneToZone(s, z) \/ SOPZoneBootup(s, z)
  \/ \E s \in Servers :
       \/ WorldReceives(s)
       \/ ProcessHandles(s)
       \/ SOPZoneShutdown(s)
       \/ Connect(s)
       \/ RemoveServer(s)
       \/ AutoShutdown(s)
       \/ Disconnect(s)
       \/ Crash(s)

Spec == Init /\ [][Next]_vars

-----------------------------------------------------------------------------
(* Properties.                                                             *)

InDown(s, op) == \E i \in DOMAIN down[s] : down[s][i].op = op
InUp(s, op) == \E i \in DOMAIN up[s] : up[s][i].op = op

\* An announcement is on its way from s, or what will make s send one.
AnswerComing(s) ==
  \/ InUp(s, "SetZone")
  \/ InDown(s, "ZoneBootup") \/ InDown(s, "ZoneIncClient")

\* World is right about a server in the end: what it believes of it, and of
\* its being booted, is so unless an announcement is under way.
ViewSettles ==
  \A s \in Servers :
    link[s] = "linked" /\ ~AnswerComing(s) =>
      /\ view[s] = hosted[s]
      /\ named[s] = hosted[s]
      /\ ~booting[s]

\* Nobody waits for nothing: the server a client waits for will announce
\* something, which ends the wait, and a time-out runs for those whose server
\* was lost.
WaitIsFounded ==
  \A c \in Clients :
    client[c].waiting # None =>
      /\ client[c].zone # None
      /\ client[c].timer
      /\ \/ client[c].waiting = Gone
         \/ link[client[c].waiting] = "closed"
         \/ AnswerComing(client[c].waiting)

\* c is in the authorizations of s, or will be: it has been announced, and
\* not dropped since.
Expected(c, s) ==
  \/ /\ c \in auth[s]
     /\ DropClient(c) \notin {down[s][i] : i \in DOMAIN down[s]}
  \/ \E i \in DOMAIN down[s] :
       /\ down[s][i] = ZoneIncClient(c, client[c].zone)
       /\ \A j \in DOMAIN down[s] : j > i => down[s][j] # DropClient(c)

\* "warn the zone we're coming": a client that world sends to the zone it
\* warned of it is expected there, or will be when the zone has handled its
\* messages, unless the zone has shut down.  A client that asks again
\* unanswered is not announced again, and excepted; authorizations do not age.
SentWhereExpected ==
  \A s \in Servers, c \in Clients :
    /\ s \in Listed /\ up[s] # <<>> /\ Head(up[s]) = Response(c, TRUE)
    /\ client[c].zone # None
    /\ FindByZoneID(view, client[c].zone) = s
    /\ warned[c] = s
    /\ hosted[s] = client[c].zone
    => Expected(c, s)
=============================================================================
