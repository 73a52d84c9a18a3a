----------------------------- MODULE ZoneLaunch -----------------------------
(***************************************************************************)
(* The launcher (eqlaunch): it forks zone servers on the world's request,  *)
(* restarts the ones that die and stops or restarts them on request        *)
(* (eqlaunch/zone_launch.cpp, worldserver.cpp and the loop of              *)
(* eqlaunch.cpp; common/proc_launcher.cpp, the build for UNIX).            *)
(*                                                                         *)
(* The launcher is one thread: a pass of its loop reaps dead children and  *)
(* then gives every zone a turn, and messages come between passes.         *)
(* Children die, and SIGCHLD interrupts, at any point.  A timer ticks      *)
(* until it has expired, how long that takes is left open.                 *)
(***************************************************************************)
EXTENDS Integers, FiniteSets

CONSTANTS
  Zones,          \* short names
  Pids,           \* bound: processes at a time, not reaped ones included
  ProcError,      \* ProcLauncher::ProcError, -1
  Deleted,        \* the handler of a Spec whose ZoneLaunch was deleted
  KillFailLimit,  \* 5
  MaxRequests     \* bound: requests from world in a behaviour

ASSUME LauncherAssumption ==
  /\ IsFiniteSet(Zones) /\ IsFiniteSet(Pids)
  /\ ProcError \notin Pids \union Zones
  /\ Deleted \notin Zones \union {ProcError}
  /\ KillFailLimit \in Nat
  /\ MaxRequests \in Nat

VARIABLES
  zone,         \* zones, the ZoneLaunch of each short name
  running,      \* m_running: the handler of each process
  child,        \* operating system: the processes
  pending,      \* operating system: a SIGCHLD waits to be delivered
  signalCount,  \* m_signalCount
  sRunning,     \* s_running
  startTimer,   \* s_startTimer
  pc,           \* where the launcher is in its loop
  todo,         \* zones that have not had their turn in this pass
  connected,    \* the connection to world
  reported,     \* world: whether a zone runs, by the last status sent
  requests,     \* requests handled so far
  gaveUp        \* history: a ZoneLaunch gave up on its process

processes == <<running, child, pending, signalCount>>
link == <<connected, reported, requests>>
vars == <<zone, processes, sRunning, startTimer, pc, todo, link, gaveUp>>

IsRunningState(s) == s \in {"Started", "RestartPending", "StopPending"}
IsRunning(z) == IsRunningState(zone[z].state)
States == {"Absent", "StartPending", "Started", "RestartPending",
           "StopPending", "Stopped"}

\* Short names that are not in the map.
Absent == [state |-> "Absent", ref |-> ProcError, timer |-> "off",
           killFails |-> 0]
Present == {z \in Zones : zone[z].state # "Absent"}

Unreaped == {p \in Pids : child[p] # "none"}
Zombies == {p \in Pids : child[p] = "dead"}

Init ==
  /\ zone = [z \in Zones |-> Absent]
  /\ running = [p \in Pids |-> ProcError]
  /\ child = [p \in Pids |-> "none"]
  /\ pending = FALSE
  /\ signalCount = 0
  /\ sRunning = 0
  /\ startTimer = "ticking"
  /\ pc = "idle"
  /\ todo = {}
  /\ connected = FALSE
  /\ reported = [z \in Zones |-> FALSE]
  /\ requests = 0
  /\ gaveUp = FALSE

\* SendStatus for the zones zs, which will be as in map; a message is
\* dropped while there is no connection.
Reported(zs, map) ==
  [z \in Zones |-> IF connected /\ z \in zs
                   THEN IsRunningState(map[z].state) ELSE reported[z]]

-----------------------------------------------------------------------------
(* ProcLauncher::Terminate and the two ways to ask for it.                 *)

\* The processes after a signal; one that is dying takes no notice.
Signalled(ps, graceful) ==
  [p \in Pids |->
     IF p \notin ps \/ child[p] \in {"none", "dead", "killed"} THEN child[p]
     ELSE IF graceful THEN "asked" ELSE "killed"]

Known(p) == p \in Pids /\ running[p] # ProcError

\* Mutant: the wait for the process's death is not timed.
StoppedNoTimer(z) ==
  CASE zone[z].state = "StartPending" -> [zone[z] EXCEPT !.state = "Stopped"]
    [] IsRunning(z) -> [zone[z] EXCEPT !.state = "StopPending"]
    [] OTHER -> zone[z]

\* The ZoneLaunch after Stop; whether its process is signalled is Stops.
StopResult(z) ==
  CASE zone[z].state = "StartPending" -> [zone[z] EXCEPT !.state = "Stopped"]
    [] IsRunning(z) /\ Known(zone[z].ref) ->
         [zone[z] EXCEPT !.state = "StopPending", !.timer = "ticking"]
    [] IsRunning(z) /\ zone[z].ref # ProcError /\ ~Known(zone[z].ref) ->
         [zone[z] EXCEPT !.state = "Stopped"]
    [] OTHER -> zone[z]
Stops(z) == IsRunning(z) /\ Known(zone[z].ref)

\* Mutant: a restart is accepted while a stop is pending.
RestartableAlsoStopping(z) ==
  zone[z].state \in {"Started", "StopPending"}

\* Restart acts in StateStarted alone.
Restartable(z) == zone[z].state = "Started"
RestartResult(z) ==
  CASE Restartable(z) /\ Known(zone[z].ref) ->
         [zone[z] EXCEPT !.state = "RestartPending", !.timer = "ticking"]
    [] Restartable(z) /\ zone[z].ref # ProcError /\ ~Known(zone[z].ref) ->
         [zone[z] EXCEPT !.state = "Stopped"]
    [] OTHER -> zone[z]

-----------------------------------------------------------------------------
(* Requests from world (WorldServer::HandleMessage) and the connection.    *)

Receives == pc = "idle" /\ connected /\ requests < MaxRequests
                        /\ requests' = requests + 1

\* Mutant: a zone that is there already is created once more.
CreatesAlways(z) == zone[z].state # "StartPending"

\* ZR_Start for a zone in the map is ignored.
Creates(z) == zone[z].state = "Absent"

\* The constructor triggers m_timer, the first start does not wait for it.
StartZone(z) ==
  /\ Receives
  /\ Creates(z)
  /\ zone' = [zone EXCEPT ![z] = [state |-> "StartPending", ref |-> ProcError,
                                  timer |-> "expired", killFails |-> 0]]
  /\ UNCHANGED <<processes, sRunning, startTimer, pc, todo, connected,
                 reported, gaveUp>>

RestartZone(z) ==
  /\ Receives
  /\ zone[z].state # "Absent"
  /\ zone' = [zone EXCEPT ![z] = RestartResult(z)]
  /\ child' = IF Restartable(z) /\ Known(zone[z].ref)
              THEN Signalled({zone[z].ref}, TRUE) ELSE child
  /\ UNCHANGED <<running, pending, signalCount, sRunning, startTimer, pc,
                 todo, connected, reported, gaveUp>>

StopZone(z) ==
  /\ Receives
  /\ zone[z].state # "Absent"
  /\ zone' = [zone EXCEPT ![z] = StopResult(z)]
  /\ child' = IF Stops(z) THEN Signalled({zone[z].ref}, TRUE) ELSE child
  /\ UNCHANGED <<running, pending, signalCount, sRunning, startTimer, pc,
                 todo, connected, reported, gaveUp>>

\* Mutant: a new connection is given no statuses.
ConnectSilently ==
  /\ pc = "idle" /\ ~connected
  /\ connected' = TRUE
  /\ reported' = [z \in Zones |-> FALSE]
  /\ UNCHANGED <<zone, processes, sRunning, startTimer, pc, todo, requests,
                 gaveUp>>

\* OnConnected: world starts from nothing, every status is sent.
Connect ==
  /\ pc = "idle" /\ ~connected
  /\ connected' = TRUE
  /\ reported' = [z \in Zones |-> IsRunning(z)]
  /\ UNCHANGED <<zone, processes, sRunning, startTimer, pc, todo, requests,
                 gaveUp>>

Disconnect ==
  /\ pc = "idle" /\ connected
  /\ connected' = FALSE
  /\ UNCHANGED <<zone, processes, sRunning, startTimer, pc, todo, reported,
                 requests, gaveUp>>

-----------------------------------------------------------------------------
(* A pass of the loop.                                                     *)

BeginPass ==
  /\ pc = "idle"
  /\ pc' = "reap"
  /\ UNCHANGED <<zone, processes, sRunning, startTimer, todo, link, gaveUp>>

\* Mutant: the restart timer is not started.
TerminatedNoTimer(z) ==
  CASE zone[z].state \in {"Started", "RestartPending", "StartPending"} ->
         [zone[z] EXCEPT !.state = "StartPending"]
    [] zone[z].state = "StopPending" -> [zone[z] EXCEPT !.state = "Stopped"]
    [] OTHER -> zone[z]

\* The ZoneLaunch after OnTerminate.
TerminateResult(z) ==
  CASE zone[z].state \in {"Started", "StartPending"} ->
         [zone[z] EXCEPT !.state = "StartPending", !.timer = "ticking"]
    [] zone[z].state = "RestartPending" ->
         [zone[z] EXCEPT !.state = "StartPending"]
    [] zone[z].state = "StopPending" -> [zone[z] EXCEPT !.state = "Stopped"]
    [] OTHER -> zone[z]

\* Mutant: a process that was being stopped is not counted off.
CountedOffIfStarted(z) ==
  IF zone[z].state = "StopPending" THEN sRunning ELSE sRunning - 1

\* OnTerminate counts the process off in every state.
CountedOff(z) == sRunning - 1

OnTerminate(z) ==
  /\ sRunning' = CountedOff(z)
  /\ zone' = [zone EXCEPT ![z] = TerminateResult(z)]
  /\ reported' = Reported({z}, zone')

Reaping == pc \in {"reap", "reapStopped", "reapTerminated"}

\* One turn of ProcLauncher::Process: waitpid returns p.
Reap(p) ==
  /\ Reaping
  /\ signalCount > 0
  /\ child[p] = "dead"
  /\ signalCount' = signalCount - 1
  /\ child' = [child EXCEPT ![p] = "none"]
  /\ running' = [running EXCEPT ![p] = ProcError]
  /\ UNCHANGED <<pending, startTimer, pc, todo, connected, requests, gaveUp>>

\* ProcessTerminated tells the ZoneLaunch.
ReapKnown(p) ==
  /\ running[p] \in Zones
  /\ Reap(p)
  /\ OnTerminate(running[p])

\* The ZoneLaunch has been deleted and its Spec still points to it: what
\* OnTerminate does is undefined.  The memory is as it was, and only the
\* static counter matters; or it is a later ZoneLaunch's; or it faults.
ReapDeleted(p) ==
  /\ running[p] = Deleted
  /\ \/ /\ Reap(p)
        /\ sRunning' = sRunning - 1
        /\ UNCHANGED <<zone, reported>>
     \/ /\ Reap(p)
        /\ \E z \in Present : OnTerminate(z)
     \/ /\ Reaping
        /\ signalCount > 0
        /\ child[p] = "dead"
        /\ pc' = "gone"
        /\ UNCHANGED <<zone, processes, sRunning, startTimer, todo, link,
                       gaveUp>>

\* The signals are used up, or waitpid found nobody dead.
ReapingEnds ==
  /\ signalCount > 0 => Zombies = {}
  /\ signalCount' = IF signalCount = 0 \/ Unreaped = {} THEN 0
                    ELSE signalCount - 1

DoneReaping ==
  /\ pc = "reap"
  /\ ReapingEnds
  /\ todo' = Present
  /\ pc' = IF Present = {} THEN "idle" ELSE "zones"
  /\ UNCHANGED <<zone, running, child, pending, sRunning, startTimer, link,
                 gaveUp>>

\* z has had its turn.
Turn(z) ==
  /\ pc = "zones"
  /\ z \in todo
  /\ todo' = todo \ {z}
  /\ pc' = IF todo = {z} THEN "idle" ELSE "zones"

MayStart(z) ==
  /\ zone[z].state = "StartPending"
  /\ zone[z].timer = "expired"
  /\ startTimer = "expired"

\* Start, fork returns p.
Start(z, p) ==
  /\ Turn(z)
  /\ MayStart(z)
  /\ child[p] = "none"
  /\ child' = [child EXCEPT ![p] = "up"]
  /\ running' = [running EXCEPT ![p] = z]
  /\ zone' = [zone EXCEPT ![z] = [state |-> "Started", ref |-> p,
                                  timer |-> "off", killFails |-> 0]]
  /\ sRunning' = sRunning + 1
  /\ startTimer' = "ticking"
  /\ reported' = Reported({z}, zone')
  /\ UNCHANGED <<pending, signalCount, connected, requests, gaveUp>>

\* Start, fork fails.
StartFails(z) ==
  /\ Turn(z)
  /\ MayStart(z)
  /\ zone' = [zone EXCEPT ![z].timer = "ticking", ![z].ref = ProcError]
  /\ startTimer' = "ticking"
  /\ UNCHANGED <<processes, sRunning, link, gaveUp>>

\* StateRestartPending, m_timer has expired: Restart, which does nothing in
\* this state.
RestartTimeout(z) ==
  /\ Turn(z)
  /\ zone[z].state = "RestartPending"
  /\ zone[z].timer = "expired"
  /\ zone' = [zone EXCEPT ![z] = [RestartResult(z) EXCEPT !.timer = "ticking"]]
  /\ UNCHANGED <<processes, sRunning, startTimer, link, gaveUp>>

\* Mutant: the failures are counted one too far.
GivesUpLate(z) == zone[z].killFails + 1 > KillFailLimit + 1

\* ++m_killFails > 5
GivesUp(z) == zone[z].killFails + 1 > KillFailLimit

\* StateStopPending, m_timer has expired: Stop(false).
KillAgain(z) ==
  /\ Turn(z)
  /\ zone[z].state = "StopPending"
  /\ zone[z].timer = "expired"
  /\ ~GivesUp(z)
  /\ zone' = [zone EXCEPT ![z] =
                [StopResult(z) EXCEPT !.killFails = @ + 1,
                                      !.timer = "ticking"]]
  /\ child' = IF Stops(z) THEN Signalled({zone[z].ref}, FALSE) ELSE child
  /\ UNCHANGED <<running, pending, signalCount, sRunning, startTimer, link,
                 gaveUp>>

GiveUp(z) ==
  /\ Turn(z)
  /\ zone[z].state = "StopPending"
  /\ zone[z].timer = "expired"
  /\ GivesUp(z)
  /\ zone' = [zone EXCEPT ![z].state = "Stopped", ![z].timer = "ticking",
                          ![z].killFails = @ + 1]
  /\ sRunning' = sRunning - 1
  /\ reported' = Reported({z}, zone')
  /\ gaveUp' = TRUE
  /\ UNCHANGED <<processes, startTimer, connected, requests>>

\* StateStopped: Process returns false and the pass ends with the deletion.
Delete(z) ==
  /\ Turn(z)
  /\ zone[z].state = "Stopped"
  /\ zone' = [zone EXCEPT ![z] = Absent]
  /\ running' = [p \in Pids |-> IF running[p] = z THEN Deleted
                                ELSE running[p]]
  /\ UNCHANGED <<child, pending, signalCount, sRunning, startTimer, link,
                 gaveUp>>

\* Nothing to do in this turn.
Waits(z) ==
  /\ Turn(z)
  /\ \/ zone[z].state = "Started"
     \/ /\ zone[z].state \in {"RestartPending", "StopPending"}
        /\ zone[z].timer # "expired"
     \/ zone[z].state = "StartPending" /\ ~MayStart(z)
  /\ UNCHANGED <<zone, processes, sRunning, startTimer, link, gaveUp>>

ZoneTurn(z) ==
  \/ \E p \in Pids : Start(z, p)
  \/ StartFails(z)
  \/ RestartTimeout(z)
  \/ KillAgain(z)
  \/ GiveUp(z)
  \/ Delete(z)
  \/ Waits(z)

-----------------------------------------------------------------------------
(* The end of main, once CatchSignal has cleared RunLoops.                 *)

\* Every zone is told to stop.
Shutdown ==
  /\ pc = "idle"
  /\ zone' = [z \in Zones |-> StopResult(z)]
  /\ child' = Signalled({zone[z].ref : z \in {y \in Zones : Stops(y)}}, TRUE)
  /\ pc' = "reapStopped"
  /\ UNCHANGED <<running, pending, signalCount, sRunning, startTimer, todo,
                 link, gaveUp>>

\* TerminateAll(false) asks every process once more; TerminateAll(true)
\* clears m_running first, so that Terminate knows none of them, and the
\* launcher exits.
TerminateAll ==
  /\ ReapingEnds
  /\ \/ /\ pc = "reapStopped"
        /\ pc' = "reapTerminated"
        /\ child' = Signalled({p \in Pids : Known(p)}, TRUE)
        /\ running' = running
     \/ /\ pc = "reapTerminated"
        /\ pc' = "gone"
        /\ running' = [p \in Pids |-> ProcError]
        /\ child' = child
  /\ UNCHANGED <<zone, pending, sRunning, startTimer, todo, link, gaveUp>>

-----------------------------------------------------------------------------
(* The operating system.                                                   *)

\* A process ends: it crashed, or obeyed.  A SIGCHLD that is already
\* pending is not queued a second time.
Dies(p) ==
  /\ child[p] \in {"up", "asked", "killed"}
  /\ child' = [child EXCEPT ![p] = "dead"]
  /\ pending' = TRUE
  /\ UNCHANGED <<zone, running, signalCount, sRunning, startTimer, pc, todo,
                 link, gaveUp>>

\* HandleSigChild.  While m_signalCount is being decremented its increment
\* can be lost, m_signalCount is neither atomic nor volatile.
HandleSigChild ==
  /\ pc # "gone"
  /\ pending
  /\ pending' = FALSE
  /\ \/ signalCount' = signalCount + 1
     \/ Reaping /\ signalCount > 0 /\ signalCount' = signalCount
  /\ UNCHANGED <<zone, running, child, sRunning, startTimer, pc, todo, link,
                 gaveUp>>

Expire(z) ==
  /\ pc # "gone"
  /\ zone[z].timer = "ticking"
  /\ zone' = [zone EXCEPT ![z].timer = "expired"]
  /\ UNCHANGED <<processes, sRunning, startTimer, pc, todo, link, gaveUp>>

ExpireStart ==
  /\ pc # "gone"
  /\ startTimer = "ticking"
  /\ startTimer' = "expired"
  /\ UNCHANGED <<zone, processes, sRunning, pc, todo, link, gaveUp>>

-----------------------------------------------------------------------------
Loop ==
  \/ BeginPass
  \/ \E p \in Pids : ReapKnown(p) \/ ReapDeleted(p)
  \/ DoneReaping
  \/ TerminateAll
  \/ \E z \in Zones : ZoneTurn(z)

Next ==
  \/ \E z \in Zones : StartZone(z) \/ RestartZone(z) \/ StopZone(z)
  \/ Connect
  \/ Disconnect
  \/ Loop
  \/ Shutdown
  \/ \E p \in Pids : Dies(p)
  \/ HandleSigChild
  \/ \E z \in Zones : Expire(z)
  \/ ExpireStart

Spec == Init /\ [][Next]_vars

\* A zone whose own timer has expired is in the end given its turn while
\* s_startTimer has expired too: a zone that failed waits RestartWait (10 s)
\* before it competes again, the next start is ZoneBootInterval (2 s) later.
StartsShared ==
  \A z \in Zones :
    []<>(\/ zone[z].state # "StartPending" \/ zone[z].timer # "expired"
         \/ pc = "zones" /\ z \in todo /\ MayStart(z)
         \/ pc \notin {"idle", "reap", "zones"})

\* The event loop's 32 ms timer keeps the passes coming, timers expire,
\* signals are delivered, waitpid, which takes the oldest child, passes over
\* nobody for ever, nor does fork fail for ever, and SIGKILL is obeyed.
\* SIGTERM need not be: a zone that hangs never gets to it.
Fairness ==
  /\ WF_vars(Loop)
  /\ WF_vars(HandleSigChild)
  /\ WF_vars(ExpireStart)
  /\ \A z \in Zones : WF_vars(Expire(z))
  /\ StartsShared
  /\ \A z \in Zones : SF_vars(\E p \in Pids : Start(z, p))
  /\ \A p \in Pids : SF_vars(ReapKnown(p))
  /\ \A p \in Pids : WF_vars(child[p] = "killed" /\ Dies(p))

FairSpec == Spec /\ Fairness

-----------------------------------------------------------------------------
(* Properties.                                                             *)

ZoneRecord ==
  [state : States, ref : Pids \union {ProcError},
   timer : {"off", "ticking", "expired"}, killFails : 0..(KillFailLimit + 1)]
ChildStates == {"none", "up", "asked", "killed", "dead"}

\* Every variable has its type; m_killFails stays below its limit.
TypeOK ==
  /\ zone \in [Zones -> ZoneRecord]
  /\ running \in [Pids -> Zones \union {Deleted, ProcError}]
  /\ child \in [Pids -> ChildStates]
  /\ pending \in BOOLEAN
  /\ signalCount \in Nat
  /\ sRunning \in Int
  /\ startTimer \in {"ticking", "expired"}
  /\ pc \in {"idle", "reap", "zones", "reapStopped", "reapTerminated", "gone"}
  /\ todo \subseteq Zones
  /\ connected \in BOOLEAN
  /\ reported \in [Zones -> BOOLEAN]
  /\ requests \in 0..MaxRequests
  /\ gaveUp \in BOOLEAN

\* Until the launcher gives up on a process or exits, a zone has one process
\* exactly when its ZoneLaunch says it is running, and that is the process
\* m_ref names: Terminate finds it, and no zone is run twice.
OneProcess ==
  ~gaveUp /\ pc # "gone" =>
    \A z \in Zones : {p \in Unreaped : running[p] = z} =
                     IF IsRunning(z) THEN {zone[z].ref} ELSE {}

\* s_running is "the number of zones running under this launcher".
RunningIsCount == sRunning = Cardinality({z \in Zones : IsRunning(z)})

\* It is, as long as the launcher has not given up on a process.
CountUntilGiveUp == ~gaveUp => RunningIsCount

\* Once the connection is up, the last status sent for a zone says what its
\* ZoneLaunch says now, however requests, deaths and reconnects interleave.
StatusCurrent ==
  connected /\ ~gaveUp => \A z \in Zones : reported[z] = IsRunning(z)

StaysStopped ==
  ~gaveUp => \A z \in Zones :
    zone[z].state \in {"StopPending", "Stopped"} =>
      zone'[z].state \in {"StopPending", "Stopped", "Absent"}

\* A zone that is being stopped is not started again: not by its death, and
\* not by a restart asked for before or after.
StopIsFinal == [][StaysStopped]_vars

\* A stop comes to its end, even for a process that ignores SIGTERM and when
\* its SIGCHLD was lost among others.
StopCompletes ==
  \A z \in Zones :
    zone[z].state = "StopPending" ~>
      zone[z].state # "StopPending" \/ pc \notin {"idle", "reap", "zones"}

\* There is a signal for every process that died and was not reaped.
SignalsCover ==
  signalCount + (IF pending THEN 1 ELSE 0) >= Cardinality(Zombies)

\* A zone whose process died is started again, unless it is stopped, or a
\* signal is lost: two processes die at a time, or an increment of
\* m_signalCount goes under.
DeadZoneRestarts ==
  \A z \in Zones :
    (zone[z].state = "Started" /\ child[zone[z].ref] = "dead" /\ SignalsCover) ~>
      \/ zone[z].state = "Started" /\ child[zone[z].ref] = "up"
      \/ zone[z].state \in {"StopPending", "Stopped", "Absent"}
      \/ ~SignalsCover
      \/ pc \notin {"idle", "reap", "zones"}
      \/ gaveUp

\* "Call regularly to check for terminated background processes": every dead
\* child is noticed by some later pass.
DeathIsNoticed ==
  \A p \in Pids :
    child[p] = "dead" ~>
      child[p] # "dead" \/ pc \notin {"idle", "reap", "zones"}
=============================================================================
