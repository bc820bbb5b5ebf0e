---------------------------- MODULE RealtimeClient ----------------------------
(***************************************************************************)
(* AgentBackendRealtimeClient: the agent's one WebSocket link to the       *)
(* backend.  A connection attempt awaits an access token and then an       *)
(* account session before it creates a socket; timers, socket events,      *)
(* token refreshes, searches and the two ways of stopping interleave with  *)
(* it at each await.                                                       *)
(*                                                                         *)
(* Sockets are numbered in the order they are created.  A socket has two   *)
(* sides: the NodeHeaderWebSocket object, closed once by finishClose, and  *)
(* the wire under it, whose HTTP upgrade close() does not abort.  Delays   *)
(* (the back-off and reconnectAttempts behind it) are left out: a timer    *)
(* that is set may fire at any time.                                       *)
(***************************************************************************)
EXTENDS Integers, FiniteSets

CONSTANTS
  Requests,      \* ids of search.run requests; callers draw a fresh one per run
  MaxSockets,    \* bound on sockets created
  MaxRefreshes,  \* bound on access token refreshes
  MaxFailures,   \* bound on failed attempts and lost connections
  MaxStops,      \* bound on calls of stop()
  AckFirst       \* the backend sends hello.ack before any message that closes the socket

ASSUME RealtimeAssumption ==
  /\ AckFirst \in BOOLEAN
  /\ MaxSockets \in Nat /\ MaxRefreshes \in Nat
  /\ MaxFailures \in Nat /\ MaxStops \in Nat

VARIABLES
  started, stopping,
  attempt,       \* connect(): "none", or the await it is suspended at
  timer,         \* reconnectTimer is set
  heartbeat,     \* heartbeatTimer is set
  ws,            \* the current socket, 0 for null
  created,       \* the number of sockets created so far
  closed,        \* sockets on which finishClose has run
  wire,          \* the connection under each socket
  stopCommand,   \* a stop command has been accepted
  outcome,       \* what became of each runSearch call
  sentOn,        \* the socket its request went out on
  refreshes, failures, stops

link     == <<ws, created, closed, wire, heartbeat>>
searches == <<outcome, sentOn>>
bounds   == <<refreshes, failures, stops>>
vars == <<started, stopping, attempt, timer, link, stopCommand, searches, bounds>>

Sockets == 1..MaxSockets
Pending == {r \in Requests : outcome[r] = "pending"}
IsOpen(c) == c \in Sockets /\ c \notin closed /\ wire[c] = "up"
Open == ws # 0 /\ IsOpen(ws)

TypeOK ==
  /\ started \in BOOLEAN /\ stopping \in BOOLEAN /\ stopCommand \in BOOLEAN
  /\ attempt \in {"none", "token", "session"}
  /\ timer \in BOOLEAN /\ heartbeat \in BOOLEAN
  /\ created \in 0..MaxSockets /\ ws \in 0..created
  /\ closed \subseteq Sockets
  /\ wire \in [Sockets -> {"none", "handshake", "up", "down"}]
  /\ outcome \in [Requests -> {"none", "pending", "answered", "timeout", "closed"}]
  /\ sentOn \in [Requests -> 0..MaxSockets]
  /\ refreshes \in 0..MaxRefreshes /\ failures \in 0..MaxFailures
  /\ stops \in 0..MaxStops

Init ==
  /\ started = FALSE /\ stopping = FALSE /\ stopCommand = FALSE
  /\ attempt = "none" /\ timer = FALSE /\ heartbeat = FALSE
  /\ ws = 0 /\ created = 0 /\ closed = {}
  /\ wire = [c \in Sockets |-> "none"]
  /\ outcome = [r \in Requests |-> "none"]
  /\ sentOn = [r \in Requests |-> 0]
  /\ refreshes = 0 /\ failures = 0 /\ stops = 0

-----------------------------------------------------------------------------
(* Steps shared by several handlers.                                       *)

Active == started /\ ~stopping

\* rejectPendingSearchRuns: CONNECTION_CLOSED for every request in flight.
RejectPending ==
  /\ outcome' = [r \in Requests |-> IF outcome[r] = "pending" THEN "closed" ELSE outcome[r]]
  /\ UNCHANGED sentOn

\* finishClose of the current socket and its onclose up to the reconnection:
\* the object is dead at once, but an upgrade still under way is not aborted.
\* handleData goes on with the rest of its chunk: lateAck says that a hello.ack
\* follows the message that closed the socket, and starts the heartbeat anew.
CloseCurrent(lateAck) ==
  /\ closed' = closed \union {ws}
  /\ wire' = [wire EXCEPT ![ws] = IF @ = "up" THEN "down" ELSE @]
  /\ ws' = 0
  /\ heartbeat' = lateAck
  /\ RejectPending
  /\ UNCHANGED created

\* Only the socket that said hello is acknowledged.
LateAcks(c) == IF AckFirst \/ c # ws THEN {FALSE} ELSE BOOLEAN

\* Bug: the back-off is armed without looking at stopping.
ScheduleAlways == timer' = TRUE

\* scheduleReconnect, reached with no timer set.
Schedule == timer' = IF Active THEN TRUE ELSE timer

\* The body of stop(): an attempt that is suspended is not cancelled.
Shutdown(lateAck) ==
  /\ stopping' = TRUE /\ started' = FALSE /\ timer' = FALSE
  /\ IF ws # 0
     THEN CloseCurrent(lateAck)
     ELSE heartbeat' = FALSE /\ RejectPending /\ UNCHANGED <<ws, created, closed, wire>>

-----------------------------------------------------------------------------
(* The runner's calls.                                                     *)

Start ==
  /\ ~started
  /\ started' = TRUE
  /\ attempt' = IF stopping \/ attempt # "none" THEN attempt ELSE "token"
  /\ UNCHANGED <<stopping, timer, link, stopCommand, searches, bounds>>

Stop ==
  /\ stops < MaxStops
  /\ stops' = stops + 1
  /\ Shutdown(FALSE)
  /\ UNCHANGED <<attempt, stopCommand, refreshes, failures>>

RunSearch(r) ==
  /\ outcome[r] = "none"
  /\ Open
  /\ outcome' = [outcome EXCEPT ![r] = "pending"]
  /\ sentOn' = [sentOn EXCEPT ![r] = ws]
  /\ UNCHANGED <<started, stopping, attempt, timer, link, stopCommand, bounds>>

\* Bug: the timer only logs, and waits for the answer.
SearchTimeoutIgnored(r) ==
  /\ outcome[r] = "pending"
  /\ UNCHANGED vars

SearchTimeout(r) ==
  /\ outcome[r] = "pending"
  /\ outcome' = [outcome EXCEPT ![r] = "timeout"]
  /\ UNCHANGED <<started, stopping, attempt, timer, link, stopCommand, sentOn, bounds>>

-----------------------------------------------------------------------------
(* connect() after each of its awaits.                                     *)

TimerFires ==
  /\ timer
  /\ timer' = FALSE
  /\ attempt' = IF Active /\ attempt = "none" THEN "token" ELSE attempt
  /\ UNCHANGED <<started, stopping, link, stopCommand, searches, bounds>>

TokenResolved ==
  /\ attempt = "token"
  /\ attempt' = IF Active THEN "session" ELSE "none"
  /\ UNCHANGED <<started, stopping, timer, link, stopCommand, searches, bounds>>

\* buildHandshakeHeaders returned; the socket is created whatever happened to
\* the client during that await.
SessionResolved ==
  /\ attempt = "session" /\ created < MaxSockets
  /\ created' = created + 1
  /\ ws' = created'
  /\ wire' = [wire EXCEPT ![created'] = "handshake"]
  /\ attempt' = "none"
  /\ UNCHANGED <<started, stopping, timer, closed, heartbeat, stopCommand, searches, bounds>>

\* Either await rejects: the catch block schedules the next attempt.
AttemptFails ==
  /\ attempt # "none" /\ failures < MaxFailures
  /\ failures' = failures + 1
  /\ Schedule
  /\ attempt' = "none"
  /\ UNCHANGED <<started, stopping, link, stopCommand, searches, refreshes, stops>>

\* Bug: the reconnect timer is left running.
RefreshKeepsTimer ==
  /\ refreshes < MaxRefreshes /\ Active
  /\ refreshes' = refreshes + 1
  /\ IF attempt = "none"
     THEN /\ attempt' = "token"
          /\ IF ws = 0 THEN UNCHANGED <<link, searches>> ELSE CloseCurrent(FALSE)
     ELSE UNCHANGED <<attempt, link, searches>>
  /\ UNCHANGED <<started, stopping, timer, stopCommand, failures, stops>>

\* Bug: the new attempt starts beside the open socket.
RefreshKeepsSocket ==
  /\ refreshes < MaxRefreshes /\ Active
  /\ refreshes' = refreshes + 1
  /\ timer' = FALSE
  /\ attempt' = IF attempt = "none" THEN "token" ELSE attempt
  /\ UNCHANGED <<started, stopping, link, searches, stopCommand, failures, stops>>

\* Bug: onclose takes the close for a deliberate one, and no attempt follows.
RefreshOnlyCloses ==
  /\ refreshes < MaxRefreshes /\ Active
  /\ refreshes' = refreshes + 1
  /\ timer' = FALSE
  /\ IF attempt = "none" /\ ws # 0 THEN CloseCurrent(FALSE) ELSE UNCHANGED <<link, searches>>
  /\ UNCHANGED <<started, stopping, attempt, stopCommand, failures, stops>>

\* An access token was refreshed, here or for an HTTP call.
TokenRefreshed ==
  /\ refreshes < MaxRefreshes /\ Active
  /\ refreshes' = refreshes + 1
  /\ timer' = FALSE
  /\ IF attempt = "none"
     THEN /\ attempt' = "token"
          /\ IF ws = 0 THEN UNCHANGED <<link, searches>> ELSE CloseCurrent(FALSE)
     ELSE UNCHANGED <<attempt, link, searches>>
  /\ UNCHANGED <<started, stopping, stopCommand, failures, stops>>

-----------------------------------------------------------------------------
(* The socket's events.                                                    *)

\* 'upgrade': an object that is closed gets a live connection all the same.
Upgraded(c) ==
  /\ wire[c] = "handshake"
  /\ wire' = [wire EXCEPT ![c] = "up"]
  /\ UNCHANGED <<started, stopping, attempt, timer, ws, created, closed, heartbeat,
                 stopCommand, searches, bounds>>

\* The current socket's handshake fails or its connection is lost: onclose.
ConnectionLost ==
  /\ ws # 0 /\ wire[ws] \in {"handshake", "up"} /\ failures < MaxFailures
  /\ failures' = failures + 1
  /\ closed' = closed \union {ws}
  /\ wire' = [wire EXCEPT ![ws] = "down"]
  /\ ws' = 0 /\ heartbeat' = FALSE
  /\ RejectPending
  /\ Schedule
  /\ UNCHANGED <<started, stopping, attempt, created, stopCommand, refreshes, stops>>

\* The far side ends a connection whose object is already closed: no onclose.
ZombieEnds(c) ==
  /\ c \in closed /\ wire[c] \in {"handshake", "up"}
  /\ wire' = [wire EXCEPT ![c] = "down"]
  /\ UNCHANGED <<started, stopping, attempt, timer, ws, created, closed, heartbeat,
                 stopCommand, searches, bounds>>

\* hello.ack: startHeartbeat.
HelloAck ==
  /\ Open
  /\ heartbeat' = TRUE
  /\ UNCHANGED <<started, stopping, attempt, timer, ws, created, closed, wire,
                 stopCommand, searches, bounds>>

\* search.run.response or search.run.error, for a request still in flight.
SearchAnswered(r) ==
  /\ outcome[r] = "pending" /\ IsOpen(sentOn[r])
  /\ outcome' = [outcome EXCEPT ![r] = "answered"]
  /\ UNCHANGED <<started, stopping, attempt, timer, link, stopCommand, sentOn, bounds>>

\* A message the router cannot serve, on any live wire, closes the socket that
\* is current when it arrives, which may still be in its handshake.
ProtocolError(c) ==
  /\ wire[c] = "up" /\ ws # 0 /\ failures < MaxFailures
  /\ failures' = failures + 1
  /\ \E lateAck \in LateAcks(c) : CloseCurrent(lateAck)
  /\ Schedule
  /\ UNCHANGED <<started, stopping, attempt, stopCommand, refreshes, stops>>

\* control.stop_requested on any live wire, a zombie's included: the first
\* command is accepted, and the runner's handler calls stop() at once.
StopRequested(c) ==
  /\ wire[c] = "up" /\ ~stopCommand
  /\ stopCommand' = TRUE
  /\ \E lateAck \in LateAcks(c) : Shutdown(lateAck)
  /\ UNCHANGED <<attempt, bounds>>

Next ==
  \/ Start \/ Stop
  \/ TimerFires \/ TokenResolved \/ SessionResolved \/ AttemptFails \/ TokenRefreshed
  \/ ConnectionLost \/ HelloAck
  \/ \E c \in Sockets : \/ Upgraded(c) \/ ZombieEnds(c)
                        \/ ProtocolError(c) \/ StopRequested(c)
  \/ \E r \in Requests : RunSearch(r) \/ SearchTimeout(r) \/ SearchAnswered(r)

Spec == Init /\ [][Next]_vars

\* Timers fire and awaited calls settle; the network finishes a handshake.
Fairness ==
  /\ WF_vars(Start) /\ WF_vars(TimerFires) /\ WF_vars(TokenResolved)
  /\ WF_vars(SessionResolved)
  /\ \A c \in Sockets : WF_vars(Upgraded(c))
  /\ \A r \in Requests : WF_vars(SearchTimeout(r))

FairSpec == Spec /\ Fairness

-----------------------------------------------------------------------------
(* Properties.                                                             *)

\* connect() never overtakes itself: an active client has exactly one of a
\* current socket, an attempt under way and a reconnect timer.  More than one
\* would open a second link; none would leave the client disconnected for good
\* ("onclose handles retries").
SingleLink ==
  Active => \/ ws # 0 /\ attempt = "none" /\ ~timer
            \/ ws = 0 /\ attempt # "none" /\ ~timer
            \/ ws = 0 /\ attempt = "none" /\ timer

\* No socket is forgotten open: whatever the client no longer refers to has
\* been closed, so stop() reaches every socket it must close.
NoForgottenSocket == \A c \in 1..created : c \in closed \/ c = ws

\* A request in flight belongs to the open current socket: it can be answered,
\* and the closing of that socket rejects it.
PendingOnOpenLink == \A r \in Pending : Open /\ sentOn[r] = ws

\* If the backend acknowledges a hello before it sends anything that closes the
\* socket, the heartbeat interval never outlives the connection it was started
\* for; otherwise a hello.ack behind the closing message restarts it.
HeartbeatOnOpenLink == AckFirst /\ heartbeat => Open

\* Once stopping, no attempt starts and no timer is armed; an attempt already
\* past its token check may still create its socket.
StoppingIsQuiet ==
  [][stopping => /\ attempt' # "none" => attempt # "none"
                 /\ timer' => timer]_vars

\* Every search settles.
SearchSettles == \A r \in Requests : (outcome[r] = "pending") ~> (outcome[r] # "pending")

\* A client that is not told to stop is connected again and again, whatever
\* refreshes, failed attempts and lost connections it has been through.
StaysConnected == (Active ~> (Open \/ stopping))
=============================================================================
