# Verification of the NMS server

TLA+ models of the parts of the NMS server (an EQEmu server,
`Release-NMS-Server`) whose correctness hangs on the order in which things
happen, with TLC configurations that check them on small instances and TLAPS
proofs for all instances of what matters most. Paths below are relative to
`src/Release-NMS-Server`.

    tlc -workers 2 -config Stream.cfg MCDaybreakStream
    tlapm DaybreakConnectionProofs.tla

## 1. The system

A server is a set of processes: one login server, one world, any number of
zones, launchers that fork the zones, and helper servers. Game clients reach
login, world and zones over UDP with the Daybreak protocol; the processes reach
each other over TCP ("servertalk"). Every process runs one libuv event loop and
is otherwise single-threaded: timers, datagrams and messages are handled one at
a time, to completion. What makes the system hard is between the processes:
datagrams are lost, repeated and reordered, peers crash and come back at the
same address, children die while they are being stopped, connections drop and
what was reported over them is out of date.

| Component | State | Operations | Talks to | Hard because of | Correct when |
|---|---|---|---|---|---|
| **Daybreak reliable streams** `common/net/daybreak_connection.cpp` | per stream: `sequence_out`, `sent_packets`, `sequence_in`, `packet_queue`, the fragment being put together | queue, resend, ack, out-of-order ack, receive packet/fragment, process queue | the peer's stream over UDP | loss, duplication, reordering, 16-bit numbers that wrap, a peer that is closing | packets come out in order, once, none lost while both ends are open |
| **Daybreak sessions** same file, and `common/net/eqstream.cpp` | `m_connections`, each connection's status and times, `m_streams` | session request, disconnect, close, the three time-outs, erase | owner of the stream (callbacks), peer | late and repeated requests, restarted clients, close from both sides at once | a session that ends stays ended, and every session that should end does |
| **Daybreak send path** same file | `m_buffered_packets`, data budget | combine, flush, send, drop | socket | sizes estimated before encoding | datagrams fit, order is kept |
| **Zone launcher** `eqlaunch/`, `common/proc_launcher.cpp` | a `ZoneLaunch` per zone with state and timers, `s_running`, `m_running`, `m_signalCount` | start, restart, stop, fork, reap, kill, give up, report status, shut down | world (servertalk), kernel (fork, signals, waitpid) | deaths at any time, signals merged, stop against death against restart, fork failing | one process per zone, a stopped zone stays stopped, a dead one comes back, world is told the truth |
| World's view of launchers `world/launcher_link.cpp`, `launcher_list.cpp` | links, desired and reported zone states | boot, restart, stop, ghosting | launcher | reconnects, boot timer | desired = running in the end |
| Server-to-server messaging `common/net/servertalk_*` | byte buffer, handshake state, reconnect timer | connect, frame, dispatch | all processes | reconnects in the middle of a message | messages whole and in order per connection |
| **World client list** `world/cliententry.cpp`, `clientlist.cpp` | an entry per login with status, age, zone server; `numplayers`; the population of each zone server | login, connections, messages of zones, zone servers that come and go, ageing, limit per address | clients, zones, login | late messages of several zones about one client, objects destroyed while others refer to them | counts are right, nothing dangles, what nobody keeps alive goes |
| **World zone list** `world/zonelist.cpp`, `zoneserver.cpp`, `client.cpp`, and the process: `zone/worldserver.cpp`, `zone/zone.cpp` | zone servers with the zone world believes they host, clients that wait; the zone a process hosts and whom it expects | enter world, boot, announce, accept, drop, shut down, time-out | clients, zone processes | requests and announcements that cross, boots that fail, links that fail | world's view settles, waits end, clients are sent where they are expected |
| **Dynamic zones** `common/dynamic_zone_base.cpp`, `zone/dynamic_zone.cpp`, `world/dynamic_zone*.cpp` | members and leader of an expedition: in the database, in world's `dynamic_zone_cache` (with a pending choice of leader and its cooldown) and in each zone's | create, add, remove, swap, remove all, make leader, expire, delete; boot of a zone, restart of world | zones, world, database | every zone changes the members at once and tells the others through world: changes cross, broadcasts are missed | copies agree, all obey one leader, he is a member |
| Shared tasks `world/shared_task_manager.cpp` | members, progress | offer, accept, add, remove, complete | zones, database | like dynamic zones | copies agree |
| Login server `loginserver/` | clients, sessions, world servers | login, play request | clients, worlds | answers that come after a client left | a client plays on one world |
| **Task scheduler** `common/event/task_scheduler.h` | queue, worker threads, futures | enqueue, work, stop, destroy | login server's threads | the only component with threads | no wake-up lost, tasks begin in order, whoever waits is answered |
| Chat, mail, query servers `ucs/`, `queryserv/` | lists | request handlers | clients, world | little | - |
| Zone simulation `zone/` | entities, spells, fights | game rules | clients, world | size of the data | game rules |
| Shared memory loader, quests, plugins, client library, vendored libraries | - | - | - | - | - |

`PROJECT.json` lists every component with its status, and 40 hazards, each at
its line with the properties that are about it.

## 2. Modules

| Module | Models |
|---|---|
| `SequenceOrder` | `CompareSequence`, the order of 16-bit sequence numbers, and what it promises |
| `FifoChannel` | abstract: what an application may rely on, a FIFO channel that may close |
| `DaybreakStream` | one direction of one reliable stream: sender, receiver, network. Implements `FifoChannel` |
| `DaybreakFragments` | cutting messages into packets and reassembly, over the channel `FifoChannel` promises |
| `DaybreakSession` | the life of sessions in a server: requests, closing, time-outs, stream registry |
| `DaybreakBuffer` | combining small packets, flushing, the data budget, datagram sizes |
| `ZoneLaunch` | a launcher with its zones, their processes, signals, and what world was told |
| `TaskPool` | abstract: what callers may rely on, a pool of threads that begins tasks in order and once, and breaks promises only when it is idle |
| `TaskScheduler` | the scheduler with its lock, its condition variable, its threads, callers and destructor. Implements `TaskPool` |
| `ClientList` | world's list of who is on the server |
| `ZoneHosting` | world's list of zone servers, the zone processes behind it, the clients that ask for zones, and the messages between them |
| `DynamicZones` | one expedition as the database, world and the zones hold it, and the messages between them |
| `DaybreakSizes` | header sizes and the limits of a session, for the next two |
| `DaybreakConnectionProofs` | theorems about `SequenceOrder`, `DaybreakStream` and `DaybreakSession` |
| `DaybreakSendPathProofs` | theorems about `DaybreakFragments` and `DaybreakBuffer` |
| `ZoneLaunchProofs`, `TaskSchedulerProofs`, `ClientListProofs`, `ZoneHostingProofs`, `DynamicZonesProofs` | theorems about the module of that name |
| `SequenceLemmas` | lemmas about sequences (concatenation, `FlattenSeq`, `RemoveFirst`, orders of a set), and induction and recursion over `0..n` |
| `MC...` | instances for TLC |

The Daybreak layers are composed by what they promise: `DaybreakStream` is
shown to implement `FifoChannel`, and `DaybreakFragments` starts from a channel
that is FIFO. `DaybreakSession` supplies the closing (`CloseSender`,
`CloseReceiver`) that `DaybreakStream` allows at any time.

### DaybreakStream

A packet is its ordinal, the number of packets queued before it. The code sees
only `Seq16(ordinal)`, ordinal modulo `SequenceSpace` (2^16); the maps
`sent_packets` and `packet_queue` are sets of ordinals that are looked up,
emplaced into and erased from by their 16-bit key, as `std::map` does. All
decisions are made by `CompareSequence` on the keys, so the ordinals are history
and the properties are about them.

| Action | Code |
|---|---|
| `QueuePacket(k)` | `InternalQueuePacket`: number, emplace into `sent_packets`, send; `k` fragments at once |
| `ProcessResend` | `ProcessResend(stream)` past its delay gate, limited to `ResendLimit` packets in key order |
| `RecvAck`, `RecvOutOfOrderAck` | `Ack`, `OutOfOrderAck` |
| `RecvFuture`, `RecvPast`, `RecvCurrent` | `OP_Packet`/`OP_Fragment` in `ProcessDecodedPacket`, by result of the comparison |
| `ProcessQueue` | `ProcessQueue`, the whole loop |
| `CloseSender`, `CloseReceiver` | any cause of leaving `StatusConnected`, and the manager's erase |
| `Lose` | UDP; a datagram stays in the network when received, so it may come again |

While closing, a receiver refuses `OP_Packet` and still takes `OP_Fragment`
(lines 684 and 721 of the source differ there); `ProcessQueue` pops a refused
packet all the same. `Takes` and `ProcessQueue` keep both.

Two assumptions about the environment are stated as operators.
`WindowAllows`: fewer than `CompareLimit` (10000) packets are outstanding.
Nothing in the code limits them; above 10000 the comparison is wrong and at
65536 `emplace` drops packets, so the statements are false without it (a hazard
in the list). `Alive`: a datagram does not survive 10000 later packets.

### DaybreakSession

`session` keeps every connection object ever made, since owners hold shared
pointers after the manager dropped them; `managed` is `m_connections`,
`streams` is `m_streams`. Time is counted in ticks of the manager's timer, ages
are capped just above their time-out. `Tick` is one run of the timer: `Process`
of all connections, their erasure, and `ProcessResend`. A peer may send
anything at any time. The statuses `Connecting` and the client-side constructor
are left out: no server here starts sessions that way.

Modelled as it is in the code and worth knowing: a stale session is erased as
`Disconnecting`, never becomes `Disconnected`, and so stays in `m_streams` and
with owners that wait for `CLOSED`; a request with another connect code is not
answered but counts as a sign of life, so a restarted client keeps its own old
session alive as long as it tries; `Close` on a `Disconnected` object makes it
`Disconnecting` again, without consequence, as nothing drives it.

### DaybreakFragments and DaybreakBuffer

Payloads are ranges of bytes. `Cut` is the arithmetic of `InternalQueuePacket`
with its three limits, `RecvWhole`, `RecvFirst`, `RecvNext` the reassembly.
`DaybreakBuffer.BufferedSend` and `Tick` are `InternalBufferedSend` and the
timer, with `FlushBuffer` and `InternalSend` as operators on a record of the
state because one call makes several of them in a row; `counted` is
`m_buffered_packets_length`, which the code keeps beside the packets. `m_hold_time` is set only
in the constructors, so in the code every timer run flushes; the model does too.

### ZoneLaunch

The launcher is one thread whose loop is cut at the points where a child can
die or a signal interrupt: `BeginPass`, one `ReapKnown`/`ReapDeleted` per
`waitpid`, `DoneReaping`, one `ZoneTurn` per zone, then idle, where messages
(`StartZone`, `RestartZone`, `StopZone`), `Connect`, `Disconnect` and `Shutdown`
are handled. `StopResult`, `RestartResult`, `TerminateResult` are `Stop`,
`Restart` and `OnTerminate` as functions of one zone. The operating system is
`Dies`, `HandleSigChild`, `Expire`, `ExpireStart`; a `SIGCHLD` that is already
pending is not queued again, and an increment of `m_signalCount` that falls
into its decrement may be lost, because it is neither atomic nor volatile.
Two things are freer than the code: zones take their turn in any order (the map
has an order), and timers tick for any time. One is later: a zone that returned
false is erased after the loop over the zones, here at its turn; nothing between
reads it.

After the launcher gives up on a process (five kills, and a sixth time-out without a death) it deletes
the `ZoneLaunch` while `m_running` still points to it. `ReapDeleted` gives the
outcomes of the late death: only the static counter is changed, a later object
in the same memory is told, or the launcher faults. Most properties therefore
say what holds `~gaveUp`, a history variable.

World's part is only `reported`: what the last status it received says.

### TaskScheduler

The one component with threads. A critical section of `_lock` is one step, so
that a thread's test of the condition and its falling asleep are one; `notify_one`,
`notify_all` and the joins, which come after the lock was given up, are steps of
their own. `Enqueue` is `Enqueue`/`EnqueueThrows` and `NotifyOne`, the caller's
`res.get()` is `Get`; `ProcessWork` is `Return`, `Sleep`, `Take`, `Work`; the
constructor is `StartThread`, `Started`; the destructor `Stop`, `NotifyAll`,
`Destroy`. `WakeUp` is a spurious wake-up. Destroying the queue breaks the
promises of the tasks in it. Calls under way when the object is destroyed go on
(they hold a future, not the scheduler); none begins afterwards.

The abstract `TaskPool` knows a task as queued, begun, finished or broken, and no
threads. The mapping is `TaskState`.

### ClientList

World is one thread, so each packet, message and timer is one step.

| Action | Code |
|---|---|
| `CLEAdd` | `ClientList::CLEAdd`, when login announces a client |
| `LogIn`, `KeepAlive`, `EnterWorld`, `GoesOn`, `Disconnect` | `Client`: `HandleSendLoginInfoPacket`; `Process`; `HandleEnterWorldPacket`; `Clearance` and `TellClientZoneUnavailable`; `OP_WorldLogout` and `~Client` |
| `ClientUpdate`, `ClientUpdateUnknown`, `CLEKeepAlive` | `ClientList::ClientUpdate` with `Update`, `LeavingZone` or a new entry; `ServerOP_ClientListKA` |
| `AddServer`, `SleepZone`, `RemoveServer` | the `ZoneServer`'s constructor, `SetZone(0)`, destructor |
| `CheckStale` | `CLCheckStale` |

`WithStatus`, `PlayersAdded` are `SetOnline` with `Camp`. Messages of zone servers
are not queued: any message about any entry may come from any zone server that is
connected, which covers whatever a zone may say late or twice. The list's order
matters once, in `DisconnectByIP`, and is kept as a position. All accounts are
below the status exempt from the limit per address, and rules that set the limit
by status or account are abstracted into `MaxClientsPerIP`.

### ZoneHosting

Both ends of the conversation about who hosts what, with a queue of messages in
each direction. `view`, `named`, `booting` are `zone_server_zone_id`, `zone_name`
and `is_booting_up` of world's `ZoneServer`; `hosted`, `auth` are the process's
`zone` and `client_auth_list`; `client` is `zone_id`, `zone_waiting_for_bootup`,
`enter_world_triggered` and the boot time-out of world's `Client`.

| Action | Code |
|---|---|
| `EnterWorld`, `BootTimeout`, `Leave` | `Client::EnterWorld`, `Process`, `~Client` |
| `RecvSetZone` | `ZoneServer::SetZone` with `ClientList::ZoneBootup`, all the clients it lets go on |
| `RecvResponse` | `ServerOP_AcceptWorldEntrance` and `Clearance` |
| `ZoneToZone` | `ServerOP_ZoneToZoneRequest` that boots a zone |
| `SOPZoneBootup`, `SOPZoneShutdown` | the operators' commands |
| `Connect`, `RemoveServer` | `ZSList::Add` with the process's `OnConnected`; `ZSList::Remove` |
| `RecvZoneBootup`, `RecvZoneIncClient`, `RecvAcceptWorldEntrance`, `RecvDropClient`, `RecvZoneShutdown`, `AutoShutdown` | `zone/worldserver.cpp` and `zone/zone.cpp` |
| `Arrive` | the client is let in (`GetAuth`) |
| `Disconnect`, `Crash` | TCP, operating system |

Simplified: a boot is one step of the process, which handles nothing else
meanwhile; a process reconnects only after world noticed that the old link was
down; the reply to a client comes before its authorization gets old; a process knows
every zone. A boot that fails is announced twice, by the `Zone` that is deleted and
by `Bootup` (`FailureAnnounced`). `RemoveServer`
gives the clients that waited for the server the mark `Gone`: server ids are not used
again. `warned` is history, the server that was told of the client.

`ClientList` and `ZoneHosting` meet in world's `Client`: `EnterWorld` of the first
leaves the outcome open (`Outcomes`), the second computes it.

### DynamicZones

`db` is the rows of `dynamic_zones` and `dynamic_zone_members`; `world` and
`cache[z]` are the `DynamicZone` objects of world and of each zone; `up` and `down`
the messages on the links. World's copy also has `needed`
(`m_choose_leader_needed`) and `ready` (`m_choose_leader_cooldown_timer`).

| Action | Code |
|---|---|
| `TryCreate` | `DynamicZone::TryCreate` of a zone |
| `AddMember`, `RemoveMember`, `SwapMember`, `RemoveAllMembers` | `common/dynamic_zone_base.cpp`, with the checks of `zone/dynamic_zone.cpp` before them: statements, own copy, message |
| `DzMakeLeader` | the leader's command, which only asks world |
| `HandleWorldMessage` (`Ignores`, `Handled`) | `HandleWorldMessage` of `zone/dynamic_zone.cpp` |
| `Boot`, `Shutdown` | `CacheAllFromDatabase` in `Zone::Init`; the zone goes, its process stays |
| `CacheNew`, `Change`, `Clear`, `MakeLeader` | `DynamicZoneManager::HandleZoneMessage` with `ProcessMemberAddRemove`, `ChooseNewLeader`, `SetNewLeader` |
| `StatusChange`, `CheckLeader`, `CooldownEnds` | `ProcessMemberStatusChange`, `CheckLeader` |
| `Expire`, `Delete` | `IsExpired`, `DynamicZoneManager::Process` |
| `LinkLost`, `Reconnect`, `WorldRestart` | TCP; `OnConnected`, which asks for nothing; `PurgeExpiredDynamicZones` and `CacheAllFromDatabase` of world |

Each handler is one step with its statements, its change of the copy and its
message: a process is one thread, and another process that reads the database in
between (a zone that boots) still has the message before it, since world's
broadcast comes later. What another process *writes* in between is a step before
or after. `Boot` may come at any time, with messages already under way to the
process.

`past` is history. The code resolves nothing when two zones change the same member
at once: the last statement wins in the database and the last message in world,
which need not be the same change. `past.raced` names such members and
`past.missed` the zones that lost a message since they booted; `CopiesAgree` says
that nothing else makes the copies differ.

## 3. Runs

| Run | Bounds | Shows |
|---|---|---|
| `stream` | numbers modulo 5, limit 2, 6 packets, 2 fragments, resend 1 | `InOrder`, `NoLoss`, `NothingStaleQueued`, `FifoSafety` (refinement of `FifoChannel`) under loss, duplication, reordering and closing; `FifoDelivery` (its liveness), `EventuallyAcknowledged` |
| `session` | 2 endpoints, 2 connect codes, 2 sessions, time-outs 3, 2 and 1 ticks | `ManagedHasStream`, `ClosingIsFinal`, and the time-outs: `SilentPeerLeaves`, `CloseCompletes`, `UnackedCloses` |
| `fragments` | packets of 16 bytes, messages up to 33 bytes, 3 messages | `Reassembled`, `PacketFits` |
| `buffer` | the real sizes, 7 lengths at the limits, 4 packets | `OrderKept`, `DatagramFits` without compression |
| `buffer_compressed` | the same with compression | violation: a datagram of 513 bytes |
| `launcher` | 2 zones, 2 processes, 1 kill before giving up, 3 requests | `OneProcess`, `CountUntilGiveUp`, `StatusCurrent`, `StopIsFinal`, `StopCompletes`, `DeadZoneRestarts` |
| `launcher_reap` | 2 zones, 2 processes | violation, see section 4 |
| `tasks` | 3 threads, 3 callers, 4 tasks | `NoLostWakeUp`, `NobodySleepsThroughStop`, `PoolSafety` (refinement of `TaskPool`), `EveryCallReturns`, `StopReturns` |
| `clients` | 2 zone servers, 2 connections, 2 entries, 1 address with 1 client, stale after 1 check | `PlayersCounted`, `ZonePlayersCounted`, `InZoneMeansPlaying`, `NothingDangles`, `AgingEnds` |
| `clients_address` | 3 entries, 1 zone server, 1 connection | violation: entries of the address stay |
| `hosting` | 2 processes, 2 zones, 2 clients, 2 requests, 1 incident, symmetric | `ViewSettles`, `WaitIsFounded`, `SentWhereExpected` |
| `dynamic_zones` | 2 zones, 2 characters, 1 expedition, 3 changes, 1 incident, symmetric | `CopiesAgree`, `LeaderAgrees`, `LeaderIsMember` |

`TypeOK` is checked where a bound or a cap could be missed; those of the scheduler,
the client list and the dynamic zones are proved.

Why the bounds are enough. *Streams*: six packets at modulus 5 pass the wrap
with old and new packets of the same key in flight; nine packets at modulus 7 with
three outstanding were checked as well, and the proofs remove the bounds
altogether for safety (as they do for all the other components, section 5).
`ResendLimit = 1` is the hardest case: a pass reaches one packet only, and after
the wrap it is the newest. *Sessions*: sessions meet only through an endpoint, and two
objects are enough for an old and a new one at the same endpoint or one at each.
The time-outs keep their order (stale > resend > close). *Fragments*: 33 bytes at
packets of 16 (9 and 5 bytes of payload) give one to five packets with every
remainder. *Buffer*: the lengths are those at which a branch changes. *Launcher*:
two zones compete for the start timer and for signals, and two processes let one
zone's successor run beside a process that is still dying; giving up after one
failure instead of five shortens every path and drops none. *Tasks*: with three
threads one may sleep, one work and one be on its way; four tasks let the queue
hold more than threads are awake. *Clients*: two entries and two connections are
one entry shared by two connections, two at one address beyond its limit, or one
that its zone makes anew. *Hosting*: what goes wrong between world and a process
takes two requests that cross and one incident; three requests of one client, and
two incidents with two clients (13 million states) were checked too. *Dynamic
zones*: one zone makes a change and the other hears of it or makes its own; three
changes let a member be swapped in while another goes, and leave one for the
leader; three zones, three characters and two incidents were checked too, each
with fewer of the others. `launcher`,
`tasks` and `clients` check liveness and use no symmetry.

A deadlock is allowed where the run's cfg says so: a stream is done when all its
packets are, the launcher exits, messages are used up, requests and incidents are. Sessions, buffers, fragments and
the client list have a timer or a message that always can come, and the scheduler
an end (`Gone`) when nobody is inside; there deadlock is checked.

### Fairness

* Streams: the manager's timer fires for ever (weak fairness of
  `ProcessResend`, `ProcessQueue`), and a datagram that is sent again and again
  arrives some time (strong fairness of the receptions). Liveness says what
  happens while neither end closes: the properties have the exit `~open`.
* Sessions: weak fairness of `Tick` only. Nothing is assumed of a peer or owner.
* Launcher: the loop, signal delivery, and timers go on; fork does not fail for
  ever, `waitpid` does not pass over the same child for ever, a `SIGKILL`ed process ends. A
  process need not obey `SIGTERM`. `StartsShared` says that a zone gets the
  shared start timer in the end. The code gives it that when `RestartWait` (10 s)
  is longer than `ZoneBootInterval` (2 s) times the zones that crash at once; with
  more of them a zone late in the map can starve (a hazard).

* Tasks: every thread that can take a step takes it, tasks end (they have
  deadlines), and the destructor goes on once it began. Nobody has to enqueue or
  destroy anything, and no thread wakes up spuriously.
* Clients: weak fairness of `CheckStale`, a timer. Nothing is asked of clients and
  zone servers.

`ZoneHosting` has no liveness: nothing in the code makes a process answer (a zone
that has just gone does not, `zone/worldserver.cpp:360`). `ViewSettles` and
`WaitIsFounded` are what can be said of waiting as safety: either nothing is
outstanding and world is right, or an announcement, or what causes one, is on the
link, or a time-out runs. `DynamicZones` has none either: without a resend, what was
missed stays missed, and its properties speak of the states where nothing is on the way.

`DeadZoneRestarts` speaks of a death whose signal is still on its way or counted
(`SignalsCover`). Without that it is false: that is `launcher_reap`.

## 4. What the runs found

1. **A datagram one byte too long** (`buffer_compressed`).
   `InternalBufferedSend` sizes an `OP_Combined` without the compress flag. With
   compression on and 510 bytes that do not compress, 513 bytes are copied to a
   512-byte buffer. `InternalQueuePacket` does count the flag.
2. **A zone that dies with another is never restarted** (`launcher_reap`). Two
   children that die together raise one `SIGCHLD`; `Process` reaps one child per
   signal.
3. **An entry that is passed over** (`clients_address`). `DisconnectByIP` removes
   an entry, which moves its iterator on, and advances once more.

Seen while modelling, without a run of their own (most are in the list of hazards):

* `Restart` ignores `StateRestartPending`, so that a restart whose wait times out
  (`zone_launch.cpp:191`) signals nothing.
* `s_running` goes wrong when a process dies after the launcher gave up on it.
* The launcher's last `TerminateAll(true)` is to "kill anybody left"
  (`eqlaunch/eqlaunch.cpp:163`), but clears `m_running` before `Terminate` looks its
  processes up there (`proc_launcher.cpp:315`, `321`): no signal is sent.
* `enter_world_triggered` outlives the zone it was set for: asked again, a client
  is sent to a process that does not expect it (`world/client.cpp:1657`).
* A client that enters a zone that has just gone gets no answer
  (`zone/worldserver.cpp:360`).
* The boot time-out goes on when the zone has booted (`world/client.cpp:1440`).
* A process says that it hosts nothing when it connects; world may take that for the
  answer to a boot it has asked for meanwhile, and turns the client away.
* The operators' command looks for a zone by the name it announced, which a booting
  zone has not done yet: two processes can host one zone (`world/zonelist.cpp:650`).
* When a leader is swapped out, world names the member swapped in before it passes on
  the swap, and the other zones refuse him as no member
  (`zone/dynamic_zone.cpp:1335`).
* `m_choose_leader_needed` is not saved: an expedition whose leader left during the
  cooldown stays without one if world restarts (`world/dynamic_zone.cpp:35`).
* Neither zones nor world read the members again after a connection was lost.
* The invitations of a character who goes offline are looked up after its id was
  cleared (`world/cliententry.cpp:224`).

## 5. Theorems

`DaybreakConnectionProofs` proves, first, `CompareSequenceCorrect`: for numbers modulo any
`SequenceSpace > 2 * CompareLimit`, two packets at most `CompareLimit` apart are
ordered as they were queued. It rests on lemmas about `%`.

Of streams it proves, from `SequenceAssumption` and `StreamAssumption` only, for every number space, bound, fragment count and
resend limit: `StreamTypeOK`, `StreamInOrder`, `StreamNoLoss`,
`StreamNothingStaleQueued`, and `StreamIsFifo`, that each behaviour is one of
`FifoChannel` under the refinement mapping.

None of the invariants is inductive alone. `IInv` adds

* `NetworkOK`: whatever is in flight is within `CompareLimit` of the newest
  packet, so that `CompareSequenceCorrect` applies to every comparison made; an
  acknowledgement in flight names a packet the receiver took, an out-of-order
  one a packet it took or holds;
* `SentOK`: the same closeness for `sent_packets`;
* that the receiver is at most `CompareLimit` behind.

`OrderTest` turns comparisons of keys into comparisons of ordinals, `SameKey`,
`QueueKeys` and `QueueHead` show that within the window a key has one packet, and
then there is one lemma per action. The implementation proof maps the receiver's
steps (`RecvCurrent`, a `ProcessQueue` of `k` packets) to the channel's delivery
step, `QueuePacket` to its offer, the closing steps to its close, the rest to
stuttering.

Of sessions it proves `SessionTypes`, `SessionManagedHasStream` and
`SessionClosingIsFinal` from `SessionAssumption`. Together the first two are
inductive. `MayBecome` collects what any datagram, time-out or owner may do to one
connection, `OneConnection` shows once that such a step is harmless; a new
connection and the timer's `Tick`, which touch several, have lemmas of their own.

`ZoneLaunchProofs` proves `LauncherTypeOK`, `LauncherOneProcess`, `LauncherCount`,
`LauncherStatusCurrent` and `LauncherStopIsFinal` from `LauncherAssumption`, for any
finite sets of zones and processes. What makes them inductive together is `Tied`:
a process that exists has a handler, no handler dangles, and `m_ref` and
`m_running` are each other's inverse on running zones, as long as the launcher has
not given up on a process and not exited. `Tied` says that `Terminate` finds the
process of a running zone, so that `Stop` never jumps to `Stopped` over a living
process (which would leave the count, the report and the handler wrong at once),
and that the zone told of a death is a running one, so that counting it off
is right. `Fit` bounds `m_killFails` by the state. Most actions start and end no
process; `Quiet` and `QuietStep` treat them alike, and only `Start`, the reaping
of a process and giving up need an argument of their own.

`TaskSchedulerProofs` proves `SchedulerTypeOK`, `SchedulerNobodySleeps`,
`SchedulerNoLostWakeUp` and `SchedulerIsPool` from `SchedulerAssumption`, for any
finite sets of threads and callers. The inductive invariant says that `_tasks` holds
the last accepted tasks in their order (`Queued`), that every task taken before is
either done or in the hands of exactly one thread (`Taken`, `Holding`), and in which
phase of the owner which threads may be where (`Phases`). `NoLostWakeUp` is
inductive by counting: a step moves at most one thread or caller, and the lemmas on
cardinalities say what that does to the two sides. In the refinement `Enqueue` is
`Accept`, `Take` is `Begin` (the threads at work cover the tasks begun, so that
there is a free one), `Work` is `Finish`, `Stop` is `Close`, `Destroy` is `Abandon`.

`ClientListProofs` proves the five invariants of `ClientList` from
`ClientListAssumption`, for any zone servers, connections, addresses and limits.
They are inductive only together, with `Shape`: that a count does not go below zero
(the type of `numplayers` and `playerCount`) follows from its being a cardinality;
that an entry does not count for a zone server that is gone, from
`NothingDangles`; and that a removed entry takes along at most one player and one
place in a zone, from `InZoneMeansPlaying`. `OneChange`, `SomeGone` and `ZoneLeft` say
once what a change of one entry, the removal of several, and a zone server's
leaving do to the counts; each action has a lemma that uses one of them.

`DaybreakSendPathProofs` proves `FragmentsReassembled` and `FragmentsPacketFits` from
`FragmentAssumption`, for every packet size that leaves room for a byte in a first
fragment, every length and number of messages. Smaller sizes are not covered, although
nothing excludes them: the constructor takes the size of the peer's request if it is
below its own, without a lower bound (`daybreak_connection.cpp:313`). `LaterFits` and `CutIsFit` say what
`InternalQueuePacket` cuts (pieces that begin where the one before ends, the last one
ending with the message; `RoundUp` is its rounding up of the number of fragments). The
inductive invariant says that the channel holds such pieces one after the other
(`ChannelFits`), and that its first packet goes on where the receiver stands
(`ReceiverFits`): therefore `fragment_total_bytes` alone tells a first fragment from
a later one.

Of the buffer it proves `BufferOrderKept`, for all sizes, limits and rates, and under
`LengthsFit`, that each packet handed over fits a datagram by itself,
`BufferDatagramFits` (without compression) and `BufferOneByteOver` (with it, a datagram
is too long by one byte at most, so the run `buffer_compressed` shows the worst).
`LengthsFit` is what `InternalQueuePacket` sees to: a reliable packet is cut to
`MaxPacketSize` less CRC, headers and flag (`FragmentsPacketFits`), an unreliable one is at
most 255 bytes less the CRC. The invariant, `Holds`, says that what was
sent followed by what is held is everything in its order, that `counted` is the length of
what is held, and that what is held would fit. `InternalBufferedSend` decides by `counted`
before it adds a packet: that this is the size `FlushBuffer` makes of the packets later
needs that `counted` is a sum, which `LengthAppend` and `LengthKept` say of the recursive
`Length`.

`ZoneHostingProofs` proves `HostingInvariant`, `HostingViewSettles`, `HostingWaitIsFounded` and
`HostingSentWhereExpected` from `HostingAssumption`, for any finite sets of servers, zones
and clients and any bounds on requests and incidents. The invariant has these parts:

* `ListInv`: world lists just the servers it is connected to, each once; so that what
  the first server found with a zone id says is about a connected one;
* `TruthInv`: of each server, `Settled`: the last announcement under way is the zone the
  process hosts; if none is, what it announced last; and if moreover nothing is on its way to
  it that will be announced, what world believes. `ViewSettles` is the last of these. Alone
  it is not inductive: a shutdown puts an announcement behind one that is under way, and world
  believes each in turn;
* `WaitIsFounded`, inductive with `TruthInv`: an announcement that would end the wait of a
  client ends it, because `RecvSetZone` lets all clients go on whose zone it is and turns
  away those who wait for this server;
* `QuietInv` and `SentInv`: a process that hosts nothing leaves no answer behind;
  and the client that was announced to a server is in one of the ways of `Awaited` on its way
  to be expected there, from the announcement to the answer.

The broadcast of `RecvSetZone` sends messages for all clients it lets go on, in any order;
`FlattenAppend` and `FlattenSplit` say of the messages of one client that they are in one piece,
with those of others before and after. `HostingSentWhereExpected` has the rule
`KillProcessOnDynamicShutdown` as its hypothesis, which is on by default. Without it the
property is false, as TLC shows with three requests: the process loses its zone with an
answer under way, is booted for the same zone again for another client, and the answer, which
was about the first time, sends its client there. With the rule the process ends with its zone,
and what comes next comes on a new link.

`DynamicZonesProofs` proves `DynamicZonesTypeOK`, `DynamicZonesLeaderIsMember`,
`DynamicZonesCopiesAgree` and `DynamicZonesLeaderAgrees` from `DynamicZonesAssumption`
(the bounds are numbers) and `NoDzAssumption` (no expedition is none), for any zones,
characters and numbers of changes and incidents. `LeaderIsMember` alone is not inductive: it breaks when all members are
removed, of which world hears later than the database. `ClearsFit` says that while
such a message is on its way the database has no members, so that nobody can be
added any more, and that whoever is added by messages world hears after it crossed
the removal; `LeaderlessFits` says the same once world has heard it. `BeforeCreation`
says that there is nothing to remove before the expedition is created.

`CopiesAgree` and `LeaderAgrees` speak of quiet moments only; the invariants say what the
messages on the way will make of the copies. No fold over a queue is needed for that: a
message about a character settles whether he is a member, so only the *last* one about him
counts (`LastPuts`, `SomePuts`, with lemmas for a queue that grows at its end or loses its
head). The invariants have these parts:

* `Existence`, where the expedition is there: the queues of a zone without a link are empty
  (`LinksFit`); a creation on the way is the first message and the only one, and world and the
  other zones do not have the expedition yet (`CreatedFits`); what world has is saved
  (`SavedFits`); a zone that missed nothing and has no copy is going to be told of the
  expedition, and one that still has a copy of a deleted one is going to be told that
  (`CachedFits`);
* `Membership`, for each character of whom no changes crossed: at most one zone has something
  on its way to world about him, and nothing on its way from world (`AloneFits`); the last of it
  is what the database holds, and if there is none world holds the same (`SavedMember`); the
  last message world sent a zone about him is what world holds, and if there is none the
  zone holds it too, or holds what world is going to hear (`WorldMember`). `AloneFits` is
  where `past.raced` comes in: a second zone that changes the character while a message about
  him is on its way breaks it, and puts him there;
* `Leadership`: the leader is saved, and the last message about a leader in each queue names him
  (`LeaderSaved`). That is not enough, since a zone ignores a leader it does not know as a
  member. `LeaderFits` adds `Arrives`: when the zone comes to the last message about
  a leader, what it has heard before has made him a member and not removed him again. This
  follows from `Membership` when world sets a leader who is a member and is not about to leave
  (`WhoStays`); a swap that names the new leader *before* the change that brings him in breaks
  it, which is the exemption `past.swapped`. `ForgottenFits` and `NewFits` are about a restart
  of world and a new expedition.

Induction over data: the induction theorems of the library take an operator as a parameter,
which the provers at hand do not instantiate. `SequenceLemmas` does without: `LeastElement`,
`InductionTo` and `RecursionTo` speak of *sets* of numbers and of functions on `0..n`. With
them `FlattenDef` and `LengthDef` show that the recursive functions in `FlattenSeq` and
`Length` exist and satisfy their equations, after which each induction is one on a set.

Model-checked only: all liveness, which is outside the prover's reach (`FifoDelivery`,
`EventuallyAcknowledged`, `SilentPeerLeaves`, `CloseCompletes`, `UnackedCloses`,
`DeadZoneRestarts`, `StopCompletes`, `StopReturns`, `EveryCallReturns`, `AgingEnds`). Every
safety property of a passing run is a theorem.

## 6. Not modelled, and why

* CRC, XOR and zlib contents, statistics, pings: they change no control state. A
  packet with a wrong CRC is `RecvOther` or a loss.
* The four streams of a connection share `m_acked_since_last_resend` and the
  limit of a pass. That only decides when `ProcessResend` acts; the action may
  always occur. `m_last_ack - now > 1000` in it is never true.
* `OP_AppCombined`, unreliable packets: no state.
* Exceptions out of an application's handler, which would leave a half-read
  fragment total behind.
* The resend time-out reads the first *key* of `sent_packets`; the session model
  takes it as the age of the oldest packet, which it is until the numbers wrap.
* Client list: look-ups, who-lists, guild and LFG data, caches by guild, invitations.
* Hosting: instances, static zones, ports, authorizations that get old, and a process
  that does not know the zone it is to boot: `Bootup` then returns without a word
  (`zone/zone.cpp:98`), and world goes on taking it for booting.
* A scheduler that is started twice, or called after its destruction.
* Dynamic zones: locks, lockouts, places, durations and statuses (that a member is
  online is a choice), the invitation before a member is added, expeditions made by
  world, several expeditions, shared tasks.
* World's side of launchers, the servertalk link and login: in the plan. Windows branches; Perl, Lua and SQL; the zone simulation.

## 7. Plan

Done, in this order: `SequenceOrder`, `FifoChannel`, `DaybreakStream` with its
proofs; `DaybreakSession`; `DaybreakFragments`; `DaybreakBuffer`; `ZoneLaunch`;
the proofs of sessions and launcher; `TaskScheduler` and `ClientList` with their
proofs; `ZoneHosting`; `DynamicZones` with the proof of `LeaderIsMember`; the proofs of
fragments, of `ZoneHosting` and of the buffer, and of `CopiesAgree` and `LeaderAgrees`.

Next, most important first:

1. `LauncherLink`: world's side of a launcher (boot timer, dynamic zone count,
   ghosted links), composed with `ZoneLaunch` over an abstract servertalk link
   that drops messages while down. Property: what world believes is what the
   launcher does.
2. `Servertalk`: framing of the byte stream and reconnects (`m_buffer` survives a
   lost connection), handshake; refines the links assumed by `ZoneHosting` and 1.
3. `LoginHandover`: the play request between login, world and client.
4. Extensions: keys in the resend time-out, handler exceptions in fragments,
   instances and ports in `ZoneHosting`.

Theorems next: a theorem for each new component's safety properties; for the present ones,
that `DynamicZones` implements one shared expedition when no changes cross and no zone misses a
message.
