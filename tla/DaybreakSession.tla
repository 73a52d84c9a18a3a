--------------------------- MODULE DaybreakSession ---------------------------
(***************************************************************************)
(* The life of Daybreak sessions in a server process:                      *)
(* DaybreakConnectionManager and the status of its DaybreakConnections     *)
(* (common/net/daybreak_connection.cpp), with the map of streams that      *)
(* EQStreamManager (common/net/eqstream.cpp) keeps beside them.            *)
(*                                                                         *)
(* The peer is the environment: any datagram may come from any endpoint at *)
(* any time, which covers loss, duplication, reordering and a client that  *)
(* crashed and started again.  Time passes in ticks of the manager's       *)
(* timer; a time-out constant is the option of that name in ticks.         *)
(***************************************************************************)
EXTENDS Integers, Sequences, FiniteSets

CONSTANTS
  Endpoints,     \* peer addresses
  Codes,         \* connect codes a peer may choose
  MaxSessions,   \* bound: connections created in a behaviour
  StaleTicks,    \* stale_connection_ms
  ResendTicks,   \* resend_timeout
  CloseTicks     \* connection_close_time

ASSUME SessionAssumption ==
  /\ MaxSessions \in Nat
  /\ StaleTicks \in Nat \ {0}
  /\ ResendTicks \in Nat \ {0}
  /\ CloseTicks \in Nat \ {0}

VARIABLES
  session,   \* every connection object created, in order
  managed,   \* m_connections: the object at each endpoint, or None
  streams    \* m_streams: the objects with an EQStream registered

sessionVars == <<session, managed, streams>>

None == 0
Never == -1         \* no packet waits for an acknowledgement
Objects == 1..Len(session)
Managed == {o \in Objects : managed[session[o].endpoint] = o}

SessionInit ==
  /\ session = <<>>
  /\ managed = [e \in Endpoints |-> None]
  /\ streams = {}

-----------------------------------------------------------------------------
(* DaybreakConnection.                                                     *)

\* The server constructor.  m_close_time is the epoch: long ago.
NewSession(e, c) ==
  [endpoint |-> e, code |-> c, status |-> "Connected",
   quiet   |-> 0,               \* ticks since m_last_recv
   closing |-> CloseTicks + 1,  \* ticks since m_close_time
   unacked |-> Never]           \* ticks since first_sent of sent_packets' first

\* ProcessPacket begins by noting the time, whatever the packet is.
Heard(s) == [s EXCEPT !.quiet = 0]

\* Mutant: closing again starts the clock again.
ClosedAgain(s) == [s EXCEPT !.status = "Disconnecting", !.closing = 0]

\* Close()
Closed(s) ==
  IF s.status = "Disconnecting" THEN s
  ELSE [s EXCEPT !.status = "Disconnecting", !.closing = 0]

\* Mutant: the resend time-out is never noticed.
ResendProcessedOnly(s) == s

\* ProcessResend, for the one branch that changes the status.
ResendProcessed(s) == IF s.unacked >= ResendTicks THEN Closed(s) ELSE s

-----------------------------------------------------------------------------
(* Datagrams: DaybreakConnectionManager::ProcessPacket.                    *)

\* Mutant: a request with another code starts the session over in place.
RequestedOver(s, e, c) == IF c = s.code THEN Heard(s) ELSE NewSession(e, c)

\* OP_SessionRequest for a known connection: an answer if the code is the
\* session's, nothing if it is another; the time is noted either way.
Requested(s, e, c) == Heard(s)

\* OP_SessionRequest; an unknown endpoint gets a new connection.
RecvRequest(e, c) ==
  \/ /\ managed[e] = None
     /\ Len(session) < MaxSessions
     /\ session' = Append(session, NewSession(e, c))
     /\ managed' = [managed EXCEPT ![e] = Len(session) + 1]
     /\ streams' = streams \union {Len(session) + 1}
  \/ /\ managed[e] # None
     /\ session' = [session EXCEPT ![managed[e]] = Requested(@, e, c)]
     /\ UNCHANGED <<managed, streams>>

\* Any packet that leaves the status and sent_packets alone: data, keep
\* alive, one whose CRC is wrong.
RecvOther(e) ==
  /\ managed[e] # None
  /\ session' = [session EXCEPT ![managed[e]] = Heard(@)]
  /\ UNCHANGED <<managed, streams>>

\* OP_Ack, OP_OutOfOrderAck: sent_packets is emptied, or a packet no older
\* becomes its first.
RecvAckFrom(e) ==
  /\ managed[e] # None
  /\ session[managed[e]].unacked # Never
  /\ \E age \in Never..session[managed[e]].unacked :
       session' = [session EXCEPT ![managed[e]] =
                     [Heard(@) EXCEPT !.unacked = age]]
  /\ UNCHANGED <<managed, streams>>

\* OP_SessionDisconnect.  m_close_time stays as it is.
RecvDisconnect(e) ==
  /\ managed[e] # None
  /\ session' = [session EXCEPT ![managed[e]] =
                   [Heard(@) EXCEPT !.status = "Disconnecting"]]
  /\ UNCHANGED <<managed, streams>>

-----------------------------------------------------------------------------
(* The code that owns the stream; it may do so after the session is gone.  *)

\* EQStream::QueuePacket, reliable.
AppQueue(o) ==
  /\ session[o].unacked = Never
  /\ session' = [session EXCEPT ![o].unacked = 0]
  /\ UNCHANGED <<managed, streams>>

\* EQStream::Close.
AppClose(o) ==
  /\ session' = [session EXCEPT ![o] = Closed(@)]
  /\ UNCHANGED <<managed, streams>>

-----------------------------------------------------------------------------
(* The manager's timer: Process, then ProcessResend, of every connection.  *)

\* Mutant: counts one tick too far.
CappedLate(age, limit) ==
  IF age = Never \/ age > limit + 1 THEN age ELSE age + 1

Capped(age, limit) == IF age = Never \/ age > limit THEN age ELSE age + 1

Aged(s) ==
  [s EXCEPT !.quiet = Capped(@, StaleTicks),
            !.closing = Capped(@, CloseTicks),
            !.unacked = Capped(@, ResendTicks)]

\* Mutant: only sessions with something unacknowledged become stale.
StaleIfIdle(s) ==
  s.status = "Connected" /\ s.quiet > StaleTicks /\ s.unacked # Never

Stale(s) == s.status = "Connected" /\ s.quiet > StaleTicks
CloseDone(s) == s.status = "Disconnecting" /\ s.closing > CloseTicks

\* A session closed in full ends Disconnected; a stale one does not.
Processed(s) ==
  IF CloseDone(s) THEN [s EXCEPT !.status = "Disconnected"]
  ELSE IF Stale(s) THEN [s EXCEPT !.status = "Disconnecting"]
  ELSE ResendProcessed(s)

\* Mutant: unregistered as soon as the session begins to close.
UnregisteredEarly(done) ==
  done \union {o \in Managed : session[o].status = "Disconnecting"}

\* DaybreakConnectionStateChange: only StatusDisconnected unregisters.
Unregistered(done) == done

Tick ==
  LET aged == [o \in Objects |->
                 IF o \in Managed THEN Aged(session[o]) ELSE session[o]]
      done == {o \in Managed : CloseDone(aged[o])}
      gone == done \union {o \in Managed : Stale(aged[o])}
  IN  /\ session' = [o \in Objects |->
                       IF o \in Managed THEN Processed(aged[o])
                       ELSE session[o]]
      /\ managed' = [e \in Endpoints |->
                       IF managed[e] \in gone THEN None ELSE managed[e]]
      /\ streams' = streams \ Unregistered(done)

Recv(e) ==
  \/ \E c \in Codes : RecvRequest(e, c)
  \/ RecvOther(e)
  \/ RecvAckFrom(e)
  \/ RecvDisconnect(e)

SessionNext ==
  \/ \E e \in Endpoints, c \in Codes : RecvRequest(e, c)
  \/ \E e \in Endpoints : RecvOther(e)
  \/ \E e \in Endpoints : RecvAckFrom(e)
  \/ \E e \in Endpoints : RecvDisconnect(e)
  \/ \E o \in Objects : AppQueue(o)
  \/ \E o \in Objects : AppClose(o)
  \/ Tick

SessionSpec == SessionInit /\ [][SessionNext]_sessionVars

\* The event loop runs the timer for ever; nothing is assumed of a peer.
SessionFairSpec == SessionSpec /\ WF_sessionVars(Tick)

-----------------------------------------------------------------------------
(* Properties.                                                             *)

Connection ==
  [endpoint : Endpoints, code : Codes,
   status : {"Connected", "Disconnecting", "Disconnected"},
   quiet : 0..(StaleTicks + 1), closing : 0..(CloseTicks + 1),
   unacked : Never..(ResendTicks + 1)]

\* The three maps have their types, the ages their bounds.
SessionTypeOK ==
  /\ session \in Seq(Connection)
  /\ Len(session) <= MaxSessions
  /\ managed \in [Endpoints -> None..Len(session)]
  /\ streams \subseteq Objects

\* A connection the manager still drives has its stream registered, so that
\* packets and state changes find it, at the endpoint it was made for.
ManagedHasStream ==
  \A e \in Endpoints : managed[e] # None =>
    /\ session[managed[e]].endpoint = e
    /\ session[managed[e]].status # "Disconnected"
    /\ managed[e] \in streams

NeverReopens ==
  \A o \in Objects :
    /\ session[o].status # "Connected" => session'[o].status # "Connected"
    /\ o \notin Managed => o \notin Managed'

\* A session that has begun to close is never Connected again, nor is one the
\* manager has dropped ever driven again, whatever datagrams come late.
ClosingIsFinal == [][NeverReopens]_sessionVars

\* An endpoint from which nothing more is heard is given up in the end, so
\* that a client that starts again there can get a session.
SilentPeerLeaves ==
  \A e \in Endpoints :
    []<><<Recv(e)>>_sessionVars \/ []<>(managed[e] = None)

\* Once a session is closing its stream is unregistered in the end, even if
\* the peer goes on sending and the owner goes on closing it.
CloseCompletes ==
  \A o \in 1..MaxSessions :
    (o \in Managed /\ session[o].status = "Disconnecting")
      ~> (o \notin streams)

\* A peer that never acknowledges the packet that waits longest loses its
\* session, whatever else it sends to keep it alive.
Acknowledges(e) ==
  /\ managed[e] # None
  /\ session'[managed[e]].unacked < session[managed[e]].unacked

UnackedCloses ==
  \A e \in Endpoints :
    \/ []<><<Acknowledges(e)>>_sessionVars
    \/ []<>(managed[e] = None \/ session[managed[e]].unacked = Never)
=============================================================================
