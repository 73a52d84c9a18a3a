--------------------------- MODULE ZoneLaunchProofs ---------------------------
(***************************************************************************)
(* The safety of the launcher, for any zones, processes and kill limit.    *)
(***************************************************************************)
EXTENDS ZoneLaunch, FiniteSetTheorems, TLAPS

\* Only a stopped zone has used up its kills.
Fit(r) ==
  r \in ZoneRecord /\ (r.state # "Stopped" => r.killFails <= KillFailLimit)

RestOK ==
  /\ running \in [Pids -> Zones \union {Deleted, ProcError}]
  /\ child \in [Pids -> ChildStates]
  /\ pending \in BOOLEAN
  /\ signalCount \in Nat
  /\ sRunning \in Int
  /\ startTimer \in {"ticking", "expired"}
  /\ pc \in {"idle", "reap", "zones", "reapStopped", "reapTerminated", "gone"}
  /\ todo \subseteq Zones
  /\ connected \in BOOLEAN
  /\ reported \in [Zones -> BOOLEAN]
  /\ requests \in 0..MaxRequests
  /\ gaveUp \in BOOLEAN

ZonesFit == zone \in [Zones -> ZoneRecord] /\ \A z \in Zones : Fit(zone[z])

\* m_ref and m_running are each other's inverse on the processes there are.
Tied ==
  /\ \A p \in Pids : child[p] = "none" <=> running[p] = ProcError
  /\ \A p \in Pids : running[p] # Deleted
  /\ \A z \in Zones : IsRunning(z) =>
       zone[z].ref \in Pids /\ running[zone[z].ref] = z
  /\ \A p \in Pids : running[p] \in Zones =>
       IsRunning(running[p]) /\ zone[running[p]].ref = p

ProcessesTied == ~gaveUp /\ pc # "gone" => Tied

\* The inductive invariant.
IInv ==
  /\ ZonesFit
  /\ RestOK
  /\ ProcessesTied
  /\ StatusCurrent
  /\ CountUntilGiveUp

\* A step that starts and ends no process.
Quiet ==
  /\ \A z \in Zones :
       /\ IsRunning(z)' <=> IsRunning(z)
       /\ IsRunning(z) => zone'[z].ref = zone[z].ref
       /\ zone[z].state \in {"StopPending", "Stopped"} =>
            zone'[z].state \in {"StopPending", "Stopped", "Absent"}
  /\ pc' # "gone" =>
       /\ pc # "gone"
       /\ running' = running
       /\ \A p \in Pids : child'[p] = "none" <=> child[p] = "none"
  /\ sRunning' = sRunning
  /\ \/ connected' = connected /\ reported' = reported
     \/ ~connected'
     \/ \A z \in Zones : reported'[z] = IsRunning(z)'

\* The number of running zones does not change in a quiet step either.
LEMMA QuietStep ==
  ASSUME IInv, ZonesFit', RestOK', ~gaveUp => Quiet, gaveUp' = gaveUp
  PROVE  IInv' /\ StaysStopped
<1>1. ProcessesTied'
  BY DEF IInv, ProcessesTied, Tied, Quiet
<1>2. StatusCurrent'
  <2> SUFFICES ASSUME connected', ~gaveUp, NEW z \in Zones
               PROVE  reported'[z] = IsRunning(z)'
    BY DEF StatusCurrent
  <2>1. CASE connected' = connected /\ reported' = reported
    <3>1. reported[z] = IsRunning(z)
      BY <2>1 DEF IInv, StatusCurrent
    <3>2. IsRunning(z)' = IsRunning(z)
      BY DEF Quiet, IsRunning, IsRunningState
    <3> QED
      BY <2>1, <3>1, <3>2, Zenon
  <2>2. CASE \A y \in Zones : reported'[y] = IsRunning(y)'
    BY <2>2, Zenon
  <2> QED
    BY <2>1, <2>2 DEF Quiet
<1>3. CountUntilGiveUp'
  <2> SUFFICES ASSUME ~gaveUp PROVE RunningIsCount'
    BY DEF CountUntilGiveUp
  <2>1. {z \in Zones : IsRunning(z)}' = {z \in Zones : IsRunning(z)}
    BY DEF Quiet
  <2> QED
    BY <2>1 DEF IInv, CountUntilGiveUp, RunningIsCount, Quiet
<1>4. StaysStopped
  BY DEF StaysStopped, Quiet
<1> QED
  BY <1>1, <1>2, <1>3, <1>4 DEF IInv

\* One ZoneLaunch changes.
LEMMA ZoneUpdate ==
  ASSUME IInv, NEW z \in Zones, NEW r, Fit(r), zone' = [zone EXCEPT ![z] = r]
  PROVE  ZonesFit' /\ \A y \in Zones : zone'[y] = IF y = z THEN r ELSE zone[y]
<1>1. zone \in [Zones -> ZoneRecord] /\ r \in ZoneRecord
  BY DEF IInv, ZonesFit, Fit
<1>2. /\ zone' \in [Zones -> ZoneRecord]
      /\ \A y \in Zones : zone'[y] = IF y = z THEN r ELSE zone[y]
  BY <1>1
<1> QED
  BY <1>2 DEF IInv, ZonesFit

\* Signals make no process and reap none.
LEMMA SignalledOK ==
  ASSUME IInv, NEW ps, NEW g \in BOOLEAN
  PROVE  /\ Signalled(ps, g) \in [Pids -> ChildStates]
         /\ \A p \in Pids : Signalled(ps, g)[p] = "none" <=> child[p] = "none"
<1> SUFFICES ASSUME NEW p \in Pids
             PROVE  /\ Signalled(ps, g)[p] \in ChildStates
                    /\ Signalled(ps, g)[p] = "none" <=> child[p] = "none"
  BY DEF Signalled
<1>1. child[p] \in ChildStates
  BY DEF IInv, RestOK
<1>2. CASE p \notin ps \/ child[p] \in {"none", "dead", "killed"}
  BY <1>1, <1>2 DEF Signalled
<1>3. CASE ~(p \notin ps \/ child[p] \in {"none", "dead", "killed"}) /\ g
  BY <1>1, <1>3 DEF Signalled, ChildStates
<1>4. CASE ~(p \notin ps \/ child[p] \in {"none", "dead", "killed"}) /\ ~g
  BY <1>1, <1>4 DEF Signalled, ChildStates
<1> QED
  BY <1>2, <1>3, <1>4

\* Init establishes the invariant.
LEMMA InitIInv == Init => IInv
<1> SUFFICES ASSUME Init PROVE IInv
  OBVIOUS
<1>1. Fit(Absent)
  BY LauncherAssumption DEF Fit, Absent, ZoneRecord, States
<1>2. \A z \in Zones : zone[z] = Absent /\ ~IsRunning(z)
  BY DEF Init, Absent, IsRunning, IsRunningState
<1>3. ZonesFit
  BY <1>1, <1>2 DEF Init, ZonesFit, Fit
<1>4. RestOK
  <2>1. reported \in [Zones -> BOOLEAN]
    BY Zenon DEF Init
  <2>2. pending \in BOOLEAN /\ connected \in BOOLEAN /\ gaveUp \in BOOLEAN
    BY Zenon DEF Init
  <2>3. requests \in 0..MaxRequests
    BY LauncherAssumption DEF Init
  <2>4. /\ running \in [Pids -> Zones \union {Deleted, ProcError}]
        /\ child \in [Pids -> ChildStates]
    BY DEF Init, ChildStates
  <2> QED
    BY <2>1, <2>2, <2>3, <2>4 DEF Init, RestOK
<1>5. ProcessesTied
  BY <1>2, LauncherAssumption DEF Init, ProcessesTied, Tied
<1>6. StatusCurrent
  BY DEF Init, StatusCurrent
<1>7. CountUntilGiveUp
  <2>1. {z \in Zones : IsRunning(z)} = {}
    BY <1>2
  <2> QED
    BY <2>1, FS_EmptySet DEF Init, CountUntilGiveUp, RunningIsCount
<1> QED
  BY <1>3, <1>4, <1>5, <1>6, <1>7 DEF IInv

\* What a stop, a restart and a death make of one ZoneLaunch.
LEMMA StopResultOK ==
  ASSUME IInv, NEW z \in Zones
  PROVE  /\ Fit(StopResult(z))
         /\ zone[z].state \in {"StopPending", "Stopped"} =>
              StopResult(z).state \in {"StopPending", "Stopped"}
         /\ Tied => /\ IsRunningState(StopResult(z).state) <=> IsRunning(z)
                    /\ IsRunning(z) => StopResult(z).ref = zone[z].ref
<1>1. zone[z] \in ZoneRecord /\ Fit(zone[z])
  BY DEF IInv, ZonesFit
<1>2. Tied /\ IsRunning(z) => Known(zone[z].ref)
  BY LauncherAssumption DEF Tied, Known
<1>3. CASE zone[z].state = "StartPending"
  <2>1. StopResult(z) = [zone[z] EXCEPT !.state = "Stopped"]
    BY <1>3 DEF StopResult, IsRunning, IsRunningState
  <2> QED
    BY <1>1, <1>3, <2>1
       DEF Fit, ZoneRecord, States, IsRunning, IsRunningState
<1>4. CASE IsRunning(z) /\ Known(zone[z].ref)
  <2>1. StopResult(z) =
          [zone[z] EXCEPT !.state = "StopPending", !.timer = "ticking"]
    BY <1>4 DEF StopResult, IsRunning, IsRunningState
  <2> QED
    BY <1>1, <1>4, <2>1
       DEF Fit, ZoneRecord, States, IsRunning, IsRunningState
<1>5. CASE IsRunning(z) /\ zone[z].ref # ProcError /\ ~Known(zone[z].ref)
  <2>1. StopResult(z) = [zone[z] EXCEPT !.state = "Stopped"]
    BY <1>5 DEF StopResult, IsRunning, IsRunningState
  <2> QED
    BY <1>1, <1>2, <1>5, <2>1
       DEF Fit, ZoneRecord, States, IsRunning, IsRunningState
<1>6. CASE /\ zone[z].state # "StartPending"
           /\ ~ (IsRunning(z) /\ Known(zone[z].ref))
           /\ ~ (IsRunning(z) /\ zone[z].ref # ProcError /\ ~Known(zone[z].ref))
  <2>1. StopResult(z) = zone[z]
    BY <1>6 DEF StopResult
  <2> QED
    BY <1>1, <2>1 DEF IsRunning
<1> QED
  BY <1>3, <1>4, <1>5, <1>6

\* A restart acts in Started alone and keeps the process.
LEMMA RestartResultOK ==
  ASSUME IInv, NEW z \in Zones
  PROVE  /\ Fit(RestartResult(z))
         /\ zone[z].state # "Started" => RestartResult(z) = zone[z]
         /\ Tied => /\ IsRunningState(RestartResult(z).state) <=> IsRunning(z)
                    /\ IsRunning(z) => RestartResult(z).ref = zone[z].ref
<1>1. zone[z] \in ZoneRecord /\ Fit(zone[z])
  BY DEF IInv, ZonesFit
<1>2. Tied /\ IsRunning(z) => Known(zone[z].ref)
  BY LauncherAssumption DEF Tied, Known
<1>3. CASE Restartable(z) /\ Known(zone[z].ref)
  <2>1. RestartResult(z) =
          [zone[z] EXCEPT !.state = "RestartPending", !.timer = "ticking"]
    BY <1>3 DEF RestartResult
  <2> QED
    BY <1>1, <1>3, <2>1
       DEF Fit, ZoneRecord, States, IsRunning, IsRunningState, Restartable
<1>4. CASE Restartable(z) /\ zone[z].ref # ProcError /\ ~Known(zone[z].ref)
  <2>1. RestartResult(z) = [zone[z] EXCEPT !.state = "Stopped"]
    BY <1>4 DEF RestartResult
  <2> QED
    BY <1>1, <1>2, <1>4, <2>1
       DEF Fit, ZoneRecord, States, IsRunning, IsRunningState, Restartable
<1>5. CASE /\ ~ (Restartable(z) /\ Known(zone[z].ref))
           /\ ~ (/\ Restartable(z)
                 /\ zone[z].ref # ProcError /\ ~Known(zone[z].ref))
  <2>1. RestartResult(z) = zone[z]
    BY <1>5 DEF RestartResult
  <2> QED
    BY <1>1, <2>1 DEF IsRunning
<1>6. zone[z].state # "Started" => ~Restartable(z)
  BY DEF Restartable
<1> QED
  BY <1>3, <1>4, <1>5, <1>6

\* After a death the zone is not running, and stopped if it was to be.
LEMMA TerminateResultOK ==
  ASSUME IInv, NEW z \in Zones
  PROVE  /\ Fit(TerminateResult(z))
         /\ ~IsRunningState(TerminateResult(z).state)
         /\ zone[z].state \in {"StopPending", "Stopped"} =>
              TerminateResult(z).state = "Stopped"
<1>1. zone[z] \in ZoneRecord /\ Fit(zone[z])
  BY DEF IInv, ZonesFit
<1>2. CASE zone[z].state \in {"Started", "StartPending"}
  <2>1. TerminateResult(z) =
          [zone[z] EXCEPT !.state = "StartPending", !.timer = "ticking"]
    BY <1>2 DEF TerminateResult
  <2> QED
    BY <1>1, <1>2, <2>1 DEF Fit, ZoneRecord, States, IsRunningState
<1>3. CASE zone[z].state = "RestartPending"
  <2>1. TerminateResult(z) = [zone[z] EXCEPT !.state = "StartPending"]
    BY <1>3 DEF TerminateResult
  <2> QED
    BY <1>1, <1>3, <2>1 DEF Fit, ZoneRecord, States, IsRunningState
<1>4. CASE zone[z].state = "StopPending"
  <2>1. TerminateResult(z) = [zone[z] EXCEPT !.state = "Stopped"]
    BY <1>4 DEF TerminateResult
  <2> QED
    BY <1>1, <1>4, <2>1 DEF Fit, ZoneRecord, States, IsRunningState
<1>5. CASE zone[z].state \in {"Absent", "Stopped"}
  <2>1. TerminateResult(z) = zone[z]
    BY <1>5 DEF TerminateResult
  <2> QED
    BY <1>1, <1>5, <2>1 DEF IsRunningState
<1> QED
  BY <1>1, <1>2, <1>3, <1>4, <1>5 DEF ZoneRecord, States

\* A step that changes one ZoneLaunch without starting or ending a process.
LEMMA QuietUpdate ==
  ASSUME IInv, NEW z \in Zones, NEW r, Fit(r), zone' = [zone EXCEPT ![z] = r],
         RestOK', UNCHANGED <<sRunning, connected, reported, gaveUp>>,
         pc # "gone", pc' # "gone",
         zone[z].state \in {"StopPending", "Stopped"} =>
           r.state \in {"StopPending", "Stopped", "Absent"},
         Tied /\ ~gaveUp =>
           /\ IsRunningState(r.state) <=> IsRunning(z)
           /\ IsRunning(z) => r.ref = zone[z].ref
           /\ running' = running,
         \A p \in Pids : child'[p] = "none" <=> child[p] = "none"
  PROVE  IInv' /\ StaysStopped
<1>1. ZonesFit' /\ \A y \in Zones : zone'[y] = IF y = z THEN r ELSE zone[y]
  BY ZoneUpdate
<1>2. ~gaveUp => Tied
  BY DEF IInv, ProcessesTied
<1>3. ~gaveUp => Quiet
  BY <1>1, <1>2 DEF Quiet, IsRunning
<1> QED
  BY <1>1, <1>3, QuietStep

\* What every request leaves alone.
LEMMA RequestOK ==
  ASSUME IInv, Receives, child' \in [Pids -> ChildStates],
         UNCHANGED <<running, pending, signalCount, sRunning, startTimer, pc,
                     todo, connected, reported, gaveUp>>
  PROVE  RestOK' /\ pc = "idle" /\ pc' = "idle"
<1>1. requests' \in 0..MaxRequests
  BY LauncherAssumption DEF IInv, RestOK, Receives
<1> QED
  BY <1>1 DEF IInv, RestOK, Receives

\* A new ZoneLaunch has no process yet.
LEMMA StartZoneStep ==
  ASSUME IInv, NEW z \in Zones, StartZone(z)
  PROVE  IInv' /\ StaysStopped
<1> DEFINE r == [state |-> "StartPending", ref |-> ProcError,
                 timer |-> "expired", killFails |-> 0]
<1>1. Fit(r) /\ r.state = "StartPending"
  <2>1. 0 \in 0..(KillFailLimit + 1) /\ 0 <= KillFailLimit
    BY LauncherAssumption
  <2> QED
    BY <2>1 DEF Fit, ZoneRecord, States
<1>2. child' \in [Pids -> ChildStates] /\ child' = child
  BY DEF StartZone, processes, IInv, RestOK
<1>3. RestOK' /\ pc = "idle" /\ pc' = "idle"
  BY <1>2, RequestOK DEF StartZone, processes
<1>4. /\ zone' = [zone EXCEPT ![z] = r]
      /\ zone[z].state = "Absent"
      /\ UNCHANGED <<sRunning, connected, reported, gaveUp, running>>
  BY DEF StartZone, Creates, processes
<1>5. ~IsRunning(z) /\ ~IsRunningState(r.state)
  BY <1>1, <1>4 DEF IsRunning, IsRunningState
<1> HIDE DEF r
<1> QED
  BY <1>1, <1>2, <1>3, <1>4, <1>5, QuietUpdate

\* A restart signals the process and waits for its death.
LEMMA RestartZoneStep ==
  ASSUME IInv, NEW z \in Zones, RestartZone(z)
  PROVE  IInv' /\ StaysStopped
<1>1. /\ child' \in [Pids -> ChildStates]
      /\ \A p \in Pids : child'[p] = "none" <=> child[p] = "none"
  <2>1. child' = child \/ child' = Signalled({zone[z].ref}, TRUE)
    BY DEF RestartZone
  <2>2. TRUE \in BOOLEAN
    OBVIOUS
  <2>3. CASE child' = child
    BY <2>3 DEF IInv, RestOK
  <2>4. CASE child' = Signalled({zone[z].ref}, TRUE)
    BY <2>2, <2>4, SignalledOK, Zenon
  <2> QED
    BY <2>1, <2>3, <2>4
<1>2. RestOK' /\ pc = "idle" /\ pc' = "idle"
  BY <1>1, RequestOK DEF RestartZone
<1>3. /\ zone' = [zone EXCEPT ![z] = RestartResult(z)]
      /\ UNCHANGED <<sRunning, connected, reported, gaveUp, running>>
  BY DEF RestartZone
<1> QED
  BY <1>1, <1>2, <1>3, RestartResultOK, QuietUpdate

\* So does a stop.
LEMMA StopZoneStep ==
  ASSUME IInv, NEW z \in Zones, StopZone(z)
  PROVE  IInv' /\ StaysStopped
<1>1. /\ child' \in [Pids -> ChildStates]
      /\ \A p \in Pids : child'[p] = "none" <=> child[p] = "none"
  <2>1. child' = child \/ child' = Signalled({zone[z].ref}, TRUE)
    BY DEF StopZone
  <2>2. TRUE \in BOOLEAN
    OBVIOUS
  <2>3. CASE child' = child
    BY <2>3 DEF IInv, RestOK
  <2>4. CASE child' = Signalled({zone[z].ref}, TRUE)
    BY <2>2, <2>4, SignalledOK, Zenon
  <2> QED
    BY <2>1, <2>3, <2>4
<1>2. RestOK' /\ pc = "idle" /\ pc' = "idle"
  BY <1>1, RequestOK DEF StopZone
<1>3. /\ zone' = [zone EXCEPT ![z] = StopResult(z)]
      /\ UNCHANGED <<sRunning, connected, reported, gaveUp, running>>
  BY DEF StopZone
<1> QED
  BY <1>1, <1>2, <1>3, StopResultOK, QuietUpdate

\* Steps that leave the zones and their processes alone.
LEMMA SameZonesStep ==
  ASSUME IInv, RestOK',
         UNCHANGED <<zone, running, sRunning, gaveUp>>,
         pc' # "gone" => pc # "gone",
         \A p \in Pids : child'[p] = "none" <=> child[p] = "none",
         \/ UNCHANGED <<connected, reported>>
         \/ ~connected'
         \/ \A z \in Zones : reported'[z] = IsRunning(z)
  PROVE  IInv' /\ StaysStopped
<1>1. ZonesFit'
  BY DEF IInv, ZonesFit
<1>2. \A z \in Zones : IsRunning(z)' = IsRunning(z)
  BY DEF IsRunning
<1>3. \/ connected' = connected /\ reported' = reported
      \/ ~connected'
      \/ \A z \in Zones : reported'[z] = IsRunning(z)'
  BY <1>2, Zenon
<1>4. Quiet
  BY <1>2, <1>3 DEF Quiet
<1> QED
  BY <1>1, <1>4, QuietStep

\* World is told the truth about every zone.
LEMMA ConnectStep ==
  ASSUME IInv, Connect
  PROVE  IInv' /\ StaysStopped
<1>1. \A z \in Zones : IsRunning(z) \in BOOLEAN
  BY DEF IsRunning, IsRunningState
<1>2. reported' \in [Zones -> BOOLEAN]
  BY <1>1, Zenon DEF Connect
<1>3. RestOK'
  BY <1>2 DEF IInv, RestOK, Connect, processes
<1>4. \A z \in Zones : reported'[z] = IsRunning(z)
  BY Zenon DEF Connect
<1> QED
  BY <1>3, <1>4, SameZonesStep DEF Connect, processes

\* Without a connection nothing is promised of the reports.
LEMMA DisconnectStep ==
  ASSUME IInv, Disconnect
  PROVE  IInv' /\ StaysStopped
<1>1. RestOK'
  BY DEF IInv, RestOK, Disconnect, processes
<1> QED
  BY <1>1, SameZonesStep DEF Disconnect, processes

\* A pass begins; nothing else changes.
LEMMA BeginPassStep ==
  ASSUME IInv, BeginPass
  PROVE  IInv' /\ StaysStopped
<1>1. RestOK'
  BY DEF IInv, RestOK, BeginPass, processes, link
<1> QED
  BY <1>1, SameZonesStep DEF BeginPass, processes, link

\* The signal counter does not go below 0.
LEMMA CountStaysNat ==
  ASSUME IInv, ReapingEnds
  PROVE  signalCount' \in Nat
  BY DEF IInv, RestOK, ReapingEnds

\* Reaping ends without touching a zone.
LEMMA DoneReapingStep ==
  ASSUME IInv, DoneReaping
  PROVE  IInv' /\ StaysStopped
<1>1. signalCount' \in Nat
  BY CountStaysNat DEF DoneReaping
<1>2. RestOK'
  BY <1>1 DEF IInv, RestOK, DoneReaping, Present, link
<1> QED
  BY <1>2, SameZonesStep DEF DoneReaping, link

\* A dead process is there until it is reaped.
LEMMA DiesStep ==
  ASSUME IInv, NEW p \in Pids, Dies(p)
  PROVE  IInv' /\ StaysStopped
<1>1. /\ child' \in [Pids -> ChildStates]
      /\ \A q \in Pids : child'[q] = "none" <=> child[q] = "none"
  BY DEF IInv, RestOK, Dies, ChildStates
<1>2. RestOK'
  BY <1>1 DEF IInv, RestOK, Dies, link
<1> QED
  BY <1>1, <1>2, SameZonesStep DEF Dies, link

\* The handler only counts, if that.
LEMMA HandleSigChildStep ==
  ASSUME IInv, HandleSigChild
  PROVE  IInv' /\ StaysStopped
<1>1. RestOK'
  <2>1. signalCount' \in Nat
    BY DEF IInv, RestOK, HandleSigChild
  <2>2. pending' \in BOOLEAN
    BY Zenon DEF HandleSigChild
  <2> QED
    BY <2>1, <2>2 DEF IInv, RestOK, HandleSigChild, link
<1> QED
  BY <1>1, SameZonesStep DEF HandleSigChild, link

\* The start timer expires.
LEMMA ExpireStartStep ==
  ASSUME IInv, ExpireStart
  PROVE  IInv' /\ StaysStopped
<1>1. RestOK'
  BY DEF IInv, RestOK, ExpireStart, processes, link
<1> QED
  BY <1>1, SameZonesStep DEF ExpireStart, processes, link

\* What a turn leaves alone.
LEMMA TurnOK ==
  ASSUME IInv, NEW z \in Zones, Turn(z)
  PROVE  /\ pc = "zones" /\ pc' \in {"idle", "zones"}
         /\ todo' \subseteq Zones
  BY DEF IInv, RestOK, Turn

\* The time-out of a restart changes a timer and nothing else.
LEMMA RestartTimeoutStep ==
  ASSUME IInv, NEW z \in Zones, RestartTimeout(z)
  PROVE  IInv' /\ StaysStopped
<1> DEFINE r == [zone[z] EXCEPT !.timer = "ticking"]
<1>1. RestartResult(z) = zone[z]
  BY RestartResultOK DEF RestartTimeout
<1>2. zone[z] \in ZoneRecord /\ Fit(zone[z]) /\ zone[z].state = "RestartPending"
  BY DEF IInv, ZonesFit, RestartTimeout
<1>3. Fit(r) /\ r.state = zone[z].state /\ r.ref = zone[z].ref
  BY <1>2 DEF Fit, ZoneRecord
<1>4. zone' = [zone EXCEPT ![z] = r]
  BY <1>1 DEF RestartTimeout
<1>5. RestOK' /\ pc # "gone" /\ pc' # "gone"
  BY TurnOK DEF IInv, RestOK, RestartTimeout, processes, link
<1>6. IsRunning(z) <=> IsRunningState(r.state)
  BY <1>3 DEF IsRunning
<1> HIDE DEF r
<1> QED
  BY <1>2, <1>3, <1>4, <1>5, <1>6, QuietUpdate
     DEF RestartTimeout, processes, link

\* A kill is counted, within the limit.
LEMMA KillAgainStep ==
  ASSUME IInv, NEW z \in Zones, KillAgain(z)
  PROVE  IInv' /\ StaysStopped
<1> DEFINE s == StopResult(z)
           r == [s EXCEPT !.killFails = @ + 1, !.timer = "ticking"]
<1>1. zone[z] \in ZoneRecord /\ zone[z].state = "StopPending"
  BY DEF IInv, ZonesFit, KillAgain
<1>2. /\ Fit(s) /\ s \in ZoneRecord
      /\ s.state \in {"StopPending", "Stopped"}
      /\ Tied => /\ IsRunningState(s.state) <=> IsRunning(z)
                 /\ IsRunning(z) => s.ref = zone[z].ref
  BY <1>1, StopResultOK DEF Fit
<1>3. s.killFails = zone[z].killFails
  BY <1>1 DEF StopResult, ZoneRecord
<1>4. s.killFails + 1 \in 0..KillFailLimit
  BY <1>1, <1>3, LauncherAssumption DEF KillAgain, GivesUp, ZoneRecord
<1> HIDE DEF s
<1>5. Fit(r) /\ r.state = s.state /\ r.ref = s.ref
  <2> DEFINE k == s.killFails + 1
  <2>1. k \in 0..(KillFailLimit + 1) /\ k <= KillFailLimit
    BY <1>4, LauncherAssumption
  <2> HIDE DEF k
  <2>2. [s EXCEPT !.killFails = k, !.timer = "ticking"] \in ZoneRecord
    BY <1>2, <2>1 DEF ZoneRecord
  <2>3. r = [s EXCEPT !.killFails = k, !.timer = "ticking"]
    BY DEF k
  <2> QED
    BY <1>2, <2>1, <2>2, <2>3 DEF Fit, ZoneRecord
<1>6. zone' = [zone EXCEPT ![z] = r]
  BY DEF KillAgain, s
<1>7. /\ child' \in [Pids -> ChildStates]
      /\ \A p \in Pids : child'[p] = "none" <=> child[p] = "none"
  <2>1. FALSE \in BOOLEAN
    OBVIOUS
  <2>2. CASE child' = child
    BY <2>2 DEF IInv, RestOK
  <2>3. CASE child' = Signalled({zone[z].ref}, FALSE)
    BY <2>1, <2>3, SignalledOK, Zenon
  <2> QED
    BY <2>2, <2>3 DEF KillAgain
<1>8. RestOK' /\ pc # "gone" /\ pc' # "gone"
  BY <1>7, TurnOK DEF IInv, RestOK, KillAgain, link
<1>9. IsRunningState(r.state) <=> IsRunningState(s.state)
  BY <1>5
<1> HIDE DEF r
<1> QED
  BY <1>1, <1>2, <1>5, <1>6, <1>7, <1>8, <1>9, QuietUpdate DEF KillAgain, link

\* A failed fork leaves the zone without a process, as it was.
LEMMA StartFailsStep ==
  ASSUME IInv, NEW z \in Zones, StartFails(z)
  PROVE  IInv' /\ StaysStopped
<1> DEFINE r == [zone[z] EXCEPT !.timer = "ticking", !.ref = ProcError]
<1>1. zone[z] \in ZoneRecord /\ Fit(zone[z]) /\ zone[z].state = "StartPending"
  BY DEF IInv, ZonesFit, StartFails, MayStart
<1>2. Fit(r) /\ r.state = "StartPending"
  BY <1>1 DEF Fit, ZoneRecord
<1>3. zone' = [zone EXCEPT ![z] = r]
  BY <1>1 DEF StartFails, IInv, ZonesFit
<1>4. RestOK' /\ pc # "gone" /\ pc' # "gone"
  BY TurnOK DEF IInv, RestOK, StartFails, processes, link
<1>5. ~IsRunning(z) /\ ~IsRunningState(r.state)
  BY <1>1, <1>2 DEF IsRunning, IsRunningState
<1> HIDE DEF r
<1> QED
  BY <1>1, <1>2, <1>3, <1>4, <1>5, QuietUpdate DEF StartFails, processes, link

\* A zone's timer expires.
LEMMA ExpireStep ==
  ASSUME IInv, NEW z \in Zones, Expire(z)
  PROVE  IInv' /\ StaysStopped
<1> DEFINE r == [zone[z] EXCEPT !.timer = "expired"]
<1>1. zone[z] \in ZoneRecord /\ Fit(zone[z])
  BY DEF IInv, ZonesFit
<1>2. Fit(r) /\ r.state = zone[z].state /\ r.ref = zone[z].ref
  BY <1>1 DEF Fit, ZoneRecord
<1>3. zone' = [zone EXCEPT ![z] = r]
  BY DEF Expire
<1>4. RestOK' /\ pc # "gone" /\ pc' # "gone"
  BY DEF IInv, RestOK, Expire, processes, link
<1>5. IsRunningState(r.state) <=> IsRunning(z)
  BY <1>2 DEF IsRunning
<1> HIDE DEF r
<1> QED
  BY <1>2, <1>3, <1>4, <1>5, QuietUpdate DEF Expire, processes, link

\* A zone that is stopped has no process whose handler could dangle, unless
\* the launcher gave up on it.
LEMMA DeleteStep ==
  ASSUME IInv, NEW z \in Zones, Delete(z)
  PROVE  IInv' /\ StaysStopped
<1>1. zone[z].state = "Stopped" /\ ~IsRunning(z) /\ ~IsRunningState(Absent.state)
  BY DEF Delete, IsRunning, IsRunningState, Absent
<1>2. Fit(Absent) /\ Absent.state = "Absent"
  BY LauncherAssumption DEF Fit, Absent, ZoneRecord, States
<1>3. RestOK' /\ pc # "gone" /\ pc' # "gone"
  BY TurnOK DEF IInv, RestOK, Delete, link
<1>4. Tied => running' = running
  <2> SUFFICES ASSUME Tied PROVE running' = running
    OBVIOUS
  <2>1. \A p \in Pids : running[p] # z
    BY <1>1 DEF Tied
  <2>2. running' = [p \in Pids |-> running[p]]
    BY <2>1 DEF Delete
  <2> QED
    BY <2>2 DEF IInv, RestOK
<1> QED
  BY <1>1, <1>2, <1>3, <1>4, QuietUpdate DEF Delete, link

\* A turn in which there is nothing to do.
LEMMA WaitsStep ==
  ASSUME IInv, NEW z \in Zones, Waits(z)
  PROVE  IInv' /\ StaysStopped
<1>1. RestOK' /\ pc # "gone" /\ pc' # "gone"
  BY TurnOK DEF IInv, RestOK, Waits, processes, link
<1> QED
  BY <1>1, SameZonesStep DEF Waits, processes, link

\* The last step of the end clears m_running, and no one looks at it again.
LEMMA TerminateAllStep ==
  ASSUME IInv, TerminateAll
  PROVE  IInv' /\ StaysStopped
<1>1. /\ child' \in [Pids -> ChildStates]
      /\ \A p \in Pids : child'[p] = "none" <=> child[p] = "none"
  <2>1. TRUE \in BOOLEAN
    OBVIOUS
  <2>2. CASE child' = Signalled({p \in Pids : Known(p)}, TRUE)
    BY <2>1, <2>2, SignalledOK, Zenon
  <2>3. CASE child' = child
    BY <2>3 DEF IInv, RestOK
  <2> QED
    BY <2>2, <2>3 DEF TerminateAll
<1>2. signalCount' \in Nat
  BY CountStaysNat DEF TerminateAll
<1>3. RestOK'
  BY <1>1, <1>2 DEF IInv, RestOK, TerminateAll, link
<1>4. ZonesFit' /\ \A z \in Zones : IsRunning(z)' = IsRunning(z)
  BY DEF IInv, ZonesFit, IsRunning, TerminateAll
<1>5. Quiet
  BY <1>1, <1>4 DEF Quiet, TerminateAll, link
<1> QED
  BY <1>3, <1>4, <1>5, QuietStep DEF TerminateAll

\* At the end every zone is told to stop, each as by a request.
LEMMA ShutdownStep ==
  ASSUME IInv, Shutdown
  PROVE  IInv' /\ StaysStopped
<1>1. /\ child' \in [Pids -> ChildStates]
      /\ \A p \in Pids : child'[p] = "none" <=> child[p] = "none"
  <2>1. TRUE \in BOOLEAN
    OBVIOUS
  <2> QED
    BY <2>1, SignalledOK, Zenon DEF Shutdown
<1>2. RestOK'
  BY <1>1 DEF IInv, RestOK, Shutdown, link
<1>3. zone' = [z \in Zones |-> StopResult(z)]
  BY DEF Shutdown
<1>4. ZonesFit'
  BY <1>3, StopResultOK DEF ZonesFit, Fit
<1>5. ~gaveUp => Tied
  BY DEF IInv, ProcessesTied, Shutdown
<1>6. ~gaveUp => Quiet
  BY <1>1, <1>3, <1>5, StopResultOK DEF Quiet, Shutdown, link, IsRunning
<1> QED
  BY <1>2, <1>4, <1>6, QuietStep DEF Shutdown

\* What the reaping of a process leaves alone.
LEMMA ReapOK ==
  ASSUME IInv, NEW p \in Pids, Reap(p)
  PROVE  /\ signalCount' \in Nat
         /\ child' \in [Pids -> ChildStates]
         /\ running' \in [Pids -> Zones \union {Deleted, ProcError}]
         /\ \A q \in Pids :
              /\ child'[q] = IF q = p THEN "none" ELSE child[q]
              /\ running'[q] = IF q = p THEN ProcError ELSE running[q]
         /\ pc # "gone"
         /\ pc' = pc
  BY DEF IInv, RestOK, Reap, Reaping, ChildStates

\* A death that a ZoneLaunch hears of keeps the types.
LEMMA OnTerminateOK ==
  ASSUME IInv, NEW p \in Pids, Reap(p), NEW z \in Zones, OnTerminate(z)
  PROVE  /\ RestOK' /\ ZonesFit'
         /\ \A y \in Zones :
              zone'[y] = IF y = z THEN TerminateResult(z) ELSE zone[y]
<1>1. ZonesFit' /\ \A y \in Zones :
        zone'[y] = IF y = z THEN TerminateResult(z) ELSE zone[y]
  BY TerminateResultOK, ZoneUpdate DEF OnTerminate
<1>2. sRunning' \in Int
  BY DEF IInv, RestOK, OnTerminate, CountedOff
<1>3. reported' \in [Zones -> BOOLEAN]
  <2> SUFFICES ASSUME NEW y \in Zones
               PROVE  (IF connected /\ y \in {z}
                       THEN IsRunningState(zone'[y].state) ELSE reported[y])
                        \in BOOLEAN
    BY Zenon DEF OnTerminate, Reported
  <2>1. reported[y] \in BOOLEAN
    BY DEF IInv, RestOK
  <2>2. IsRunningState(zone'[y].state) \in BOOLEAN
    BY DEF IsRunningState
  <2> QED
    BY <2>1, <2>2, Zenon
<1> QED
  BY <1>1, <1>2, <1>3, ReapOK DEF IInv, RestOK, Reap

\* A death the launcher hears of: the zone was running, this was its process.
LEMMA DeathStep ==
  ASSUME IInv, NEW p \in Pids, NEW z \in Zones, running[p] = z, Reap(p),
         OnTerminate(z)
  PROVE  IInv' /\ StaysStopped
<1>1. running[p] = z /\ Reap(p) /\ OnTerminate(z)
  OBVIOUS
<1>2. /\ RestOK' /\ ZonesFit'
      /\ \A y \in Zones :
           zone'[y] = IF y = z THEN TerminateResult(z) ELSE zone[y]
  BY <1>1, OnTerminateOK
<1>3. gaveUp' = gaveUp /\ connected' = connected
  BY <1>1 DEF Reap
<1>4. ASSUME ~gaveUp
      PROVE  Tied' /\ RunningIsCount' /\ (connected => \A y \in Zones :
                                            reported'[y] = IsRunning(y)')
                   /\ StaysStopped
  <2>1. Tied
    BY <1>1, <1>4, ReapOK DEF IInv, ProcessesTied
  <2>2. IsRunning(z) /\ zone[z].ref = p
    BY <1>1, <2>1 DEF Tied
  <2>3. ~IsRunning(z)'
    BY <1>1, <1>2, TerminateResultOK DEF IsRunning
  <2>4. \A y \in Zones : y # z => zone'[y] = zone[y] /\ IsRunning(y)' = IsRunning(y)
    BY <1>2 DEF IsRunning
  <2>5. Tied'
    <3> USE <1>1, <2>1, <2>2, <2>3, <2>4, ReapOK, LauncherAssumption
    <3>1. \A q \in Pids : child'[q] = "none" <=> running'[q] = ProcError
      BY DEF Tied
    <3>2. \A q \in Pids : running'[q] # Deleted
      BY DEF Tied
    <3>3. \A y \in Zones : IsRunning(y)' =>
            zone'[y].ref \in Pids /\ running'[zone'[y].ref] = y
      BY DEF Tied
    <3>4. \A q \in Pids : running'[q] \in Zones =>
            /\ IsRunningState(zone'[running'[q]].state)
            /\ zone'[running'[q]].ref = q
      <4> SUFFICES ASSUME NEW q \in Pids, running'[q] \in Zones
                   PROVE  /\ IsRunningState(zone'[running'[q]].state)
                          /\ zone'[running'[q]].ref = q
        OBVIOUS
      <4>1. q # p /\ running'[q] = running[q]
        BY LauncherAssumption
      <4>2. /\ IsRunning(running[q]) /\ zone[running[q]].ref = q
            /\ running[q] \in Zones /\ running[q] # z
        BY <4>1 DEF Tied
      <4> QED
        BY <4>1, <4>2 DEF IsRunning
    <3> QED
      BY <3>1, <3>2, <3>3, <3>4 DEF Tied, IsRunning
  <2>6. RunningIsCount'
    <3> DEFINE S == {y \in Zones : IsRunning(y)}
    <3>1. IsFiniteSet(S) /\ z \in S
      BY <1>1, <2>2, LauncherAssumption, FS_Subset
    <3>2. S' = S \ {z}
      BY <2>3, <2>4
    <3>3. Cardinality(S') = Cardinality(S) - 1
      BY <3>1, <3>2, FS_RemoveElement
    <3>4. sRunning = Cardinality(S)
      BY <1>4 DEF IInv, CountUntilGiveUp, RunningIsCount
    <3> QED
      BY <1>1, <3>3, <3>4 DEF RunningIsCount, OnTerminate, CountedOff
  <2>7. ASSUME connected, NEW y \in Zones PROVE reported'[y] = IsRunning(y)'
    <3>1. CASE y = z
      BY <1>1, <2>7, <3>1, Zenon DEF OnTerminate, Reported, IsRunning
    <3>2. CASE y # z
      <4>1. reported'[y] = reported[y]
        BY <1>1, <2>7, <3>2 DEF OnTerminate, Reported
      <4>2. reported[y] = IsRunning(y)
        BY <1>4, <2>7 DEF IInv, StatusCurrent
      <4> QED
        BY <2>4, <3>2, <4>1, <4>2, Zenon
    <3> QED
      BY <3>1, <3>2
  <2>8. StaysStopped
    <3> SUFFICES ASSUME NEW y \in Zones,
                        zone[y].state \in {"StopPending", "Stopped"}
                 PROVE  zone'[y].state \in {"StopPending", "Stopped", "Absent"}
      BY DEF StaysStopped
    <3>1. CASE y = z
      BY <1>1, <1>2, <3>1, TerminateResultOK
    <3>2. CASE y # z
      BY <2>4, <3>2
    <3> QED
      BY <3>1, <3>2
  <2> QED
    BY <2>5, <2>6, <2>7, <2>8
<1>5. ProcessesTied' /\ StatusCurrent' /\ CountUntilGiveUp' /\ StaysStopped
  BY <1>3, <1>4, Zenon DEF ProcessesTied, StatusCurrent, CountUntilGiveUp, StaysStopped
<1> QED
  BY <1>2, <1>5 DEF IInv

\* The handler of a reaped process names the zone.
LEMMA ReapKnownStep ==
  ASSUME IInv, NEW p \in Pids, ReapKnown(p)
  PROVE  IInv' /\ StaysStopped
<1>1. PICK z \in Zones : z = running[p]
  BY DEF ReapKnown
<1> QED
  BY <1>1, DeathStep DEF ReapKnown

\* Once the launcher gave up nothing but the types is promised.
LEMMA GaveUpStep ==
  ASSUME ZonesFit', RestOK', gaveUp'
  PROVE  ProcessesTied' /\ StatusCurrent' /\ CountUntilGiveUp' /\ IInv'
  BY DEF IInv, ProcessesTied, StatusCurrent, CountUntilGiveUp

\* A handler dangles only after the launcher gave up on a process.
LEMMA ReapDeletedStep ==
  ASSUME IInv, NEW p \in Pids, ReapDeleted(p)
  PROVE  IInv' /\ StaysStopped
<1>1. pc # "gone" /\ running[p] = Deleted
  BY DEF ReapDeleted, Reap, Reaping
<1>2. gaveUp
  BY <1>1 DEF IInv, ProcessesTied, Tied
<1>3. gaveUp'
  BY <1>2 DEF ReapDeleted, Reap
<1>4. CASE Reap(p) /\ sRunning' = sRunning - 1 /\ UNCHANGED <<zone, reported>>
  <2>1. RestOK'
    <3>1. sRunning' \in Int
      BY <1>4 DEF IInv, RestOK
    <3> QED
      BY <3>1, <1>4, ReapOK, Zenon DEF IInv, RestOK, Reap
  <2>2. ZonesFit'
    BY <1>4 DEF IInv, ZonesFit
  <2> QED
    BY <1>2, <1>3, <2>1, <2>2, GaveUpStep DEF StaysStopped
<1>5. CASE Reap(p) /\ \E z \in Present : OnTerminate(z)
  <2>1. RestOK' /\ ZonesFit'
    BY <1>5, OnTerminateOK DEF Present
  <2> QED
    BY <1>2, <1>3, <2>1, GaveUpStep DEF StaysStopped
<1>6. CASE /\ pc' = "gone"
           /\ UNCHANGED <<zone, processes, sRunning, startTimer, todo, link,
                          gaveUp>>
  <2>1. RestOK' /\ ZonesFit'
    BY <1>6 DEF IInv, RestOK, ZonesFit, processes, link
  <2> QED
    BY <1>2, <1>3, <2>1, GaveUpStep DEF StaysStopped
<1> QED
  BY <1>4, <1>5, <1>6 DEF ReapDeleted

\* Giving up stops the zone for good and ends the other promises.
LEMMA GiveUpStep ==
  ASSUME IInv, NEW z \in Zones, GiveUp(z)
  PROVE  IInv' /\ StaysStopped
<1> DEFINE k == zone[z].killFails + 1
           r == [zone[z] EXCEPT !.state = "Stopped", !.timer = "ticking",
                                !.killFails = k]
<1>1. zone[z] \in ZoneRecord /\ Fit(zone[z]) /\ zone[z].state = "StopPending"
  BY DEF IInv, ZonesFit, GiveUp
<1>2. k \in 0..(KillFailLimit + 1)
  BY <1>1, LauncherAssumption DEF Fit, ZoneRecord
<1>3. zone' = [zone EXCEPT ![z] = r]
  BY <1>1 DEF GiveUp, IInv, ZonesFit
<1> HIDE DEF k
<1>4. Fit(r) /\ r.state = "Stopped"
  BY <1>1, <1>2 DEF Fit, ZoneRecord, States
<1> HIDE DEF r
<1>5. ZonesFit' /\ \A y \in Zones : zone'[y] = IF y = z THEN r ELSE zone[y]
  BY <1>3, <1>4, ZoneUpdate
<1>6. reported' \in [Zones -> BOOLEAN]
  <2> SUFFICES ASSUME NEW y \in Zones
               PROVE  (IF connected /\ y \in {z}
                       THEN IsRunningState(zone'[y].state) ELSE reported[y])
                        \in BOOLEAN
    BY Zenon DEF GiveUp, Reported
  <2>1. reported[y] \in BOOLEAN
    BY DEF IInv, RestOK
  <2>2. IsRunningState(zone'[y].state) \in BOOLEAN
    BY DEF IsRunningState
  <2> QED
    BY <2>1, <2>2, Zenon
<1>7. gaveUp' = TRUE
  BY DEF GiveUp
<1>8. RestOK'
  <2>1. sRunning' \in Int
    BY DEF GiveUp, IInv, RestOK
  <2>2. gaveUp' \in BOOLEAN
    BY <1>7, Zenon
  <2>3. pc' \in {"idle", "zones"} /\ todo' \subseteq Zones
    BY TurnOK DEF GiveUp
  <2> QED
    BY <1>6, <2>1, <2>2, <2>3 DEF IInv, RestOK, GiveUp, processes
<1>9. StaysStopped
  BY <1>1, <1>4, <1>5 DEF StaysStopped
<1> QED
  BY <1>5, <1>7, <1>8, <1>9, GaveUpStep

\* fork returns a process nobody had.
LEMMA StartStep ==
  ASSUME IInv, NEW z \in Zones, NEW p \in Pids, Start(z, p)
  PROVE  IInv' /\ StaysStopped
<1> DEFINE r == [state |-> "Started", ref |-> p, timer |-> "off",
                 killFails |-> 0]
<1>1. Fit(r) /\ r.state = "Started" /\ r.ref = p
  <2>1. 0 \in 0..(KillFailLimit + 1) /\ 0 <= KillFailLimit
    BY LauncherAssumption
  <2> QED
    BY <2>1 DEF Fit, ZoneRecord, States
<1>2. zone' = [zone EXCEPT ![z] = r]
  BY DEF Start
<1> HIDE DEF r
<1>3. ZonesFit' /\ \A y \in Zones : zone'[y] = IF y = z THEN r ELSE zone[y]
  BY <1>1, <1>2, ZoneUpdate
<1>4. /\ child' \in [Pids -> ChildStates]
      /\ running' \in [Pids -> Zones \union {Deleted, ProcError}]
      /\ child[p] = "none"
      /\ \A q \in Pids :
           /\ child'[q] = IF q = p THEN "up" ELSE child[q]
           /\ running'[q] = IF q = p THEN z ELSE running[q]
  BY DEF Start, IInv, RestOK, ChildStates
<1>5. reported' = [y \in Zones |->
                     IF connected /\ y \in {z}
                     THEN IsRunningState(zone'[y].state) ELSE reported[y]]
  BY DEF Start, Reported
<1>6. reported' \in [Zones -> BOOLEAN]
  <2> SUFFICES ASSUME NEW y \in Zones
               PROVE  (IF connected /\ y \in {z}
                       THEN IsRunningState(zone'[y].state) ELSE reported[y])
                        \in BOOLEAN
    BY <1>5, Zenon
  <2>1. reported[y] \in BOOLEAN
    BY DEF IInv, RestOK
  <2>2. IsRunningState(zone'[y].state) \in BOOLEAN
    BY DEF IsRunningState
  <2> QED
    BY <2>1, <2>2, Zenon
<1>7. sRunning' = sRunning + 1 /\ startTimer' = "ticking"
  BY DEF Start
<1>8. pc = "zones" /\ pc' \in {"idle", "zones"} /\ todo' \subseteq Zones
  BY TurnOK DEF Start
<1>9. RestOK'
  <2>1. sRunning' \in Int
    BY <1>7 DEF IInv, RestOK
  <2>2. /\ pending' \in BOOLEAN /\ connected' \in BOOLEAN /\ gaveUp' \in BOOLEAN
        /\ signalCount' \in Nat /\ requests' \in 0..MaxRequests
    BY Zenon DEF IInv, RestOK, Start
  <2>3. /\ startTimer' \in {"ticking", "expired"}
        /\ pc' \in {"idle", "reap", "zones", "reapStopped", "reapTerminated",
                    "gone"}
    BY <1>7, <1>8
  <2> QED
    BY <1>4, <1>6, <1>8, <2>1, <2>2, <2>3, Zenon DEF RestOK
<1>10. zone[z].state = "StartPending" /\ ~IsRunning(z) /\ IsRunning(z)'
  BY <1>1, <1>3 DEF Start, MayStart, IsRunning, IsRunningState
<1>11. gaveUp' = gaveUp /\ connected' = connected
  BY DEF Start
<1>12. ASSUME ~gaveUp
       PROVE  Tied' /\ RunningIsCount' /\ (connected => \A y \in Zones :
                                             reported'[y] = IsRunning(y)')
                    /\ StaysStopped
  <2>1. Tied
    BY <1>8, <1>12 DEF IInv, ProcessesTied
  <2>2. running[p] = ProcError
    BY <1>4, <2>1 DEF Tied
  <2>3. \A y \in Zones : y # z => zone'[y] = zone[y] /\ IsRunning(y)' = IsRunning(y)
    BY <1>3 DEF IsRunning
  <2>4. zone'[z].ref = p
    BY <1>1, <1>3
  <2>5. Tied'
    <3> USE <1>4, <1>10, <2>1, <2>2, <2>3, <2>4, LauncherAssumption
    <3>1. \A q \in Pids : child'[q] = "none" <=> running'[q] = ProcError
      BY DEF Tied
    <3>2. \A q \in Pids : running'[q] # Deleted
      BY DEF Tied
    <3>3. \A y \in Zones : IsRunning(y)' =>
            zone'[y].ref \in Pids /\ running'[zone'[y].ref] = y
      BY DEF Tied
    <3>4. \A q \in Pids : running'[q] \in Zones =>
            /\ IsRunningState(zone'[running'[q]].state)
            /\ zone'[running'[q]].ref = q
      <4> SUFFICES ASSUME NEW q \in Pids, running'[q] \in Zones
                   PROVE  /\ IsRunningState(zone'[running'[q]].state)
                          /\ zone'[running'[q]].ref = q
        OBVIOUS
      <4>1. CASE q = p
        BY <4>1 DEF IsRunning
      <4>2. CASE q # p
        <5>1. /\ running'[q] = running[q]
              /\ IsRunning(running[q]) /\ zone[running[q]].ref = q
          BY <4>2 DEF Tied
        <5>2. running[q] # z
          BY <5>1
        <5> QED
          BY <5>1, <5>2 DEF IsRunning
      <4> QED
        BY <4>1, <4>2
    <3> QED
      BY <3>1, <3>2, <3>3, <3>4 DEF Tied, IsRunning
  <2>6. RunningIsCount'
    <3> DEFINE S == {y \in Zones : IsRunning(y)}
    <3>1. IsFiniteSet(S) /\ z \notin S
      BY <1>10, LauncherAssumption, FS_Subset
    <3>2. S' = S \union {z}
      BY <1>10, <2>3
    <3>3. Cardinality(S') = Cardinality(S) + 1
      BY <3>1, <3>2, FS_AddElement
    <3>4. sRunning = Cardinality(S)
      BY <1>12 DEF IInv, CountUntilGiveUp, RunningIsCount
    <3> QED
      BY <1>7, <3>3, <3>4 DEF RunningIsCount
  <2>7. ASSUME connected, NEW y \in Zones PROVE reported'[y] = IsRunning(y)'
    <3>1. CASE y = z
      BY <1>5, <2>7, <3>1, Zenon DEF IsRunning
    <3>2. CASE y # z
      <4>1. reported'[y] = reported[y]
        BY <1>5, <2>7, <3>2
      <4>2. reported[y] = IsRunning(y)
        BY <1>12, <2>7 DEF IInv, StatusCurrent
      <4> QED
        BY <2>3, <3>2, <4>1, <4>2, Zenon
    <3> QED
      BY <3>1, <3>2
  <2>8. StaysStopped
    BY <1>10, <2>3 DEF StaysStopped
  <2> QED
    BY <2>5, <2>6, <2>7, <2>8
<1>13. ProcessesTied' /\ StatusCurrent' /\ CountUntilGiveUp' /\ StaysStopped
  BY <1>11, <1>12, Zenon
     DEF ProcessesTied, StatusCurrent, CountUntilGiveUp, StaysStopped
<1> QED
  BY <1>3, <1>9, <1>13 DEF IInv

\* Every step keeps the invariant and starts no stopped zone.
LEMMA NextIInv ==
  ASSUME IInv, [Next]_vars
  PROVE  IInv' /\ [StaysStopped]_vars
<1>1. ASSUME NEW z \in Zones, StartZone(z) \/ RestartZone(z) \/ StopZone(z)
      PROVE  IInv' /\ StaysStopped
  BY <1>1, StartZoneStep, RestartZoneStep, StopZoneStep
<1>2. ASSUME NEW p \in Pids, ReapKnown(p) \/ ReapDeleted(p)
      PROVE  IInv' /\ StaysStopped
  BY <1>2, ReapKnownStep, ReapDeletedStep
<1>3. ASSUME NEW z \in Zones, ZoneTurn(z)
      PROVE  IInv' /\ StaysStopped
  BY <1>3, StartStep, StartFailsStep, RestartTimeoutStep, KillAgainStep,
     GiveUpStep, DeleteStep, WaitsStep DEF ZoneTurn
<1>4. CASE Loop
  BY <1>2, <1>3, <1>4, BeginPassStep, DoneReapingStep, TerminateAllStep DEF Loop
<1>5. CASE UNCHANGED vars
  <2>1. UNCHANGED <<zone, running, child, pending, signalCount, sRunning,
                    startTimer, pc, todo, connected, reported, requests, gaveUp>>
    BY <1>5 DEF vars, processes, link
  <2>2. RestOK'
    BY <2>1 DEF IInv, RestOK
  <2>3. IInv'
    BY <2>1, <2>2, SameZonesStep
  <2> QED
    BY <1>5, <2>3
<1>6. CASE Next
  BY <1>1, <1>4, <1>6, ConnectStep, DisconnectStep, ShutdownStep, DiesStep,
     HandleSigChildStep, ExpireStep, ExpireStartStep DEF Next
<1> QED
  BY <1>5, <1>6

\* The invariant holds in every behaviour.
LEMMA Invariance == Spec => []IInv
  BY InitIInv, NextIInv, PTL DEF Spec

\* Type correctness, for every set of zones and processes; m_killFails never
\* passes its limit by more than one.
THEOREM LauncherTypeOK == Spec => []TypeOK
<1>1. IInv => TypeOK
  BY DEF IInv, ZonesFit, RestOK, TypeOK
<1> QED
  BY <1>1, Invariance, PTL

\* A running zone has one process, the one m_ref names; others have none.
THEOREM LauncherOneProcess == Spec => []OneProcess
<1>1. IInv => OneProcess
  <2> SUFFICES ASSUME IInv, ~gaveUp, pc # "gone", NEW z \in Zones
               PROVE  {p \in Unreaped : running[p] = z} =
                      IF IsRunning(z) THEN {zone[z].ref} ELSE {}
    BY DEF OneProcess
  <2>1. Tied
    BY DEF IInv, ProcessesTied
  <2>2. \A p \in Unreaped : running[p] = z => IsRunning(z) /\ zone[z].ref = p
    BY <2>1 DEF Tied, Unreaped
  <2>3. IsRunning(z) => zone[z].ref \in Unreaped /\ running[zone[z].ref] = z
    BY <2>1, LauncherAssumption DEF Tied, Unreaped
  <2> QED
    BY <2>2, <2>3
<1> QED
  BY <1>1, Invariance, PTL

\* Until the launcher gives up on a process s_running counts the zones.
THEOREM LauncherCount == Spec => []CountUntilGiveUp
<1>1. IInv => CountUntilGiveUp
  BY DEF IInv
<1> QED
  BY <1>1, Invariance, PTL

\* While the connection is up world's last report of a zone is true.
THEOREM LauncherStatusCurrent == Spec => []StatusCurrent
<1>1. IInv => StatusCurrent
  BY DEF IInv
<1> QED
  BY <1>1, Invariance, PTL

\* A zone that is being stopped is never started again.
THEOREM LauncherStopIsFinal == Spec => StopIsFinal
  BY InitIInv, NextIInv, PTL DEF Spec, StopIsFinal
=============================================================================
