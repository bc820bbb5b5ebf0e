------------------------- MODULE RealtimeClientProofs -------------------------
(***************************************************************************)
(* The safety properties of RealtimeClient hold for every number of        *)
(* sockets, requests, refreshes, failures and stops.  They are proved      *)
(* together, from one inductive invariant: each leans on the others.       *)
(***************************************************************************)
EXTENDS RealtimeClient, TLAPS

\* Before start() nothing has been set in motion.
Unstarted == ~started /\ ~stopping => ws = 0 /\ attempt = "none" /\ ~timer

\* An attempt runs only while there is no socket, stopped or not: this is what
\* lets SessionResolved overwrite ws without losing one.
AttemptAlone == attempt # "none" => ws = 0

\* Numbers not handed out yet name no socket.
Uncreated == \A c \in Sockets : c > created => c \notin closed /\ wire[c] = "none"

\* The current socket is alive: onclose clears ws in the step that closes it.
CurrentAlive == ws # 0 => ws \notin closed /\ wire[ws] \in {"handshake", "up"}

IInv ==
  /\ TypeOK
  /\ SingleLink /\ Unstarted /\ AttemptAlone
  /\ Uncreated /\ CurrentAlive /\ NoForgottenSocket
  /\ PendingOnOpenLink /\ HeartbeatOnOpenLink

\* A client that has been constructed satisfies the inductive invariant.
LEMMA InitIInv == Init => IInv
<1>. SUFFICES ASSUME Init PROVE IInv
  OBVIOUS
<1>1. TypeOK
  <2>1. /\ 0 \in 0..MaxSockets /\ 0 \in 0..MaxRefreshes
        /\ 0 \in 0..MaxFailures /\ 0 \in 0..MaxStops /\ 0 \in 0..0
    BY RealtimeAssumption DEF RealtimeAssumption
  <2>2. /\ wire \in [Sockets -> {"none", "handshake", "up", "down"}]
        /\ outcome \in [Requests -> {"none", "pending", "answered", "timeout", "closed"}]
        /\ sentOn \in [Requests -> 0..MaxSockets]
    BY <2>1 DEF Init
  <2>. QED
    BY <2>1, <2>2 DEF Init, TypeOK
<1>2. SingleLink /\ Unstarted /\ AttemptAlone
  BY DEF Init, SingleLink, Unstarted, AttemptAlone, Active
<1>3. Uncreated /\ CurrentAlive /\ NoForgottenSocket
  BY DEF Init, Uncreated, CurrentAlive, NoForgottenSocket
<1>4. PendingOnOpenLink /\ HeartbeatOnOpenLink
  BY DEF Init, PendingOnOpenLink, HeartbeatOnOpenLink, Pending
<1>. QED
  BY <1>1, <1>2, <1>3, <1>4 DEF IInv

\* What IInv says of sockets, searches and the heartbeat; started, stopping,
\* attempt and timer are accounted for apart.
SocketFacts ==
  /\ closed \subseteq Sockets
  /\ wire \in [Sockets -> {"none", "handshake", "up", "down"}]
  /\ created \in 0..MaxSockets /\ ws \in 0..created /\ heartbeat \in BOOLEAN
  /\ outcome \in [Requests -> {"none", "pending", "answered", "timeout", "closed"}]
  /\ sentOn \in [Requests -> 0..MaxSockets]
  /\ Uncreated /\ CurrentAlive /\ NoForgottenSocket
  /\ PendingOnOpenLink /\ HeartbeatOnOpenLink

\* Closing the current socket, whatever becomes of its wire, keeps them.
LEMMA ClosingKeepsFacts ==
  ASSUME SocketFacts, ws # 0, NEW w \in {"none", "handshake", "up", "down"},
         closed' = closed \union {ws}, wire' = [wire EXCEPT ![ws] = w],
         ws' = 0, created' = created, RejectPending,
         heartbeat' \in BOOLEAN, AckFirst => heartbeat' = FALSE
  PROVE  SocketFacts'
<1>1. /\ sentOn' = sentOn
      /\ outcome' = [r \in Requests |-> IF outcome[r] = "pending" THEN "closed" ELSE outcome[r]]
  BY DEF RejectPending
<1>2. ws \in Sockets
  BY RealtimeAssumption DEF RealtimeAssumption, SocketFacts, Sockets
<1>3. /\ closed' \subseteq Sockets
      /\ created' \in 0..MaxSockets /\ heartbeat' \in BOOLEAN
      /\ sentOn' \in [Requests -> 0..MaxSockets]
  BY <1>1, <1>2 DEF SocketFacts
<1>9. ws' \in 0..created'
  BY RealtimeAssumption DEF RealtimeAssumption, SocketFacts
<1>4. wire' \in [Sockets -> {"none", "handshake", "up", "down"}]
  BY <1>2 DEF SocketFacts
<1>5. outcome' \in [Requests -> {"none", "pending", "answered", "timeout", "closed"}]
  BY <1>1 DEF SocketFacts
<1>6. Uncreated' /\ NoForgottenSocket'
  BY <1>2 DEF SocketFacts, Uncreated, NoForgottenSocket, Sockets
<1>7. CurrentAlive' /\ HeartbeatOnOpenLink'
  BY DEF CurrentAlive, HeartbeatOnOpenLink
<1>8. Pending' = {}
  BY <1>1 DEF Pending, SocketFacts
<1>. QED
  BY <1>3, <1>4, <1>5, <1>6, <1>7, <1>8, <1>9 DEF SocketFacts, PendingOnOpenLink

\* Closing the socket a message arrived on keeps them, with or without a hello.ack
\* behind that message.
LEMMA CloseKeepsFacts ==
  ASSUME SocketFacts, ws # 0,
         NEW lateAck \in BOOLEAN, AckFirst => lateAck = FALSE, CloseCurrent(lateAck)
  PROVE  SocketFacts' /\ ws' = 0
<1>. DEFINE w == IF wire[ws] = "up" THEN "down" ELSE wire[ws]
<1>1. w \in {"none", "handshake", "up", "down"}
  BY RealtimeAssumption DEF RealtimeAssumption, SocketFacts, Sockets
<1>2. /\ closed' = closed \union {ws} /\ wire' = [wire EXCEPT ![ws] = w]
      /\ ws' = 0 /\ heartbeat' = lateAck /\ created' = created /\ RejectPending
  BY DEF CloseCurrent
<1>. HIDE DEF w
<1>. QED
  BY <1>1, <1>2, ClosingKeepsFacts

\* The same for the body of stop(), with or without a socket to close.
LEMMA ShutdownKeepsFacts ==
  ASSUME SocketFacts,
         NEW lateAck \in BOOLEAN, AckFirst => lateAck = FALSE, Shutdown(lateAck)
  PROVE  SocketFacts' /\ ws' = 0 /\ stopping' = TRUE /\ started' = FALSE /\ timer' = FALSE
<1>1. CASE ws # 0
  BY <1>1, CloseKeepsFacts DEF Shutdown
<1>2. CASE ws = 0
  <2>1. /\ heartbeat' = FALSE /\ sentOn' = sentOn
        /\ ws' = ws /\ created' = created /\ closed' = closed /\ wire' = wire
        /\ outcome' = [r \in Requests |->
                         IF outcome[r] = "pending" THEN "closed" ELSE outcome[r]]
    BY <1>2 DEF Shutdown, RejectPending
  <2>2. Pending' = {}
    BY <2>1 DEF Pending, SocketFacts
  <2>. QED
    BY <1>2, <2>1, <2>2
    DEF Shutdown, SocketFacts, Uncreated, CurrentAlive, NoForgottenSocket,
        PendingOnOpenLink, HeartbeatOnOpenLink
<1>. QED
  BY <1>1, <1>2

\* Every step keeps the inductive invariant.
LEMMA StepIInv == IInv /\ [Next]_vars => IInv'
<1>. SUFFICES ASSUME IInv, [Next]_vars PROVE IInv'
  OBVIOUS
<1>. USE RealtimeAssumption DEF RealtimeAssumption
<1>f. SocketFacts
  BY DEF IInv, TypeOK, SocketFacts
<1>. DEFINE Control == /\ started \in BOOLEAN /\ stopping \in BOOLEAN /\ timer \in BOOLEAN
                       /\ attempt \in {"none", "token", "session"}
<1>c. Control
  BY DEF IInv, TypeOK
<1>s. ASSUME SocketFacts', Control', SingleLink', Unstarted', AttemptAlone',
             stopCommand' \in BOOLEAN,
             refreshes' \in 0..MaxRefreshes, failures' \in 0..MaxFailures,
             stops' \in 0..MaxStops
      PROVE  IInv'
  BY <1>s DEF IInv, TypeOK, SocketFacts
<1>1. CASE Start
  <2>1. SocketFacts'
    BY <1>1, <1>f DEF Start, link, searches, SocketFacts, Uncreated, CurrentAlive,
       NoForgottenSocket, PendingOnOpenLink, HeartbeatOnOpenLink, Pending, Open, IsOpen
  <2>2. SingleLink' /\ Unstarted' /\ AttemptAlone' /\ Control'
    BY <1>1, <1>c DEF Start, link, IInv, SingleLink, Unstarted, AttemptAlone, Active
  <2>. QED
    BY <1>1, <2>1, <2>2, <1>s DEF Start, bounds, IInv, TypeOK
<1>2. CASE Stop
  <2>1. /\ SocketFacts' /\ ws' = 0 /\ stopping' = TRUE /\ started' = FALSE
        /\ timer' = FALSE /\ attempt' = attempt
    BY <1>2, <1>f, ShutdownKeepsFacts DEF Stop
  <2>2. SingleLink' /\ Unstarted' /\ AttemptAlone' /\ Control'
    BY <2>1, <1>c DEF SingleLink, Unstarted, AttemptAlone, Active
  <2>. QED
    BY <1>2, <2>1, <2>2, <1>s DEF Stop, IInv, TypeOK
<1>3. CASE TimerFires
  <2>1. SocketFacts'
    BY <1>3, <1>f DEF TimerFires, link, searches, SocketFacts, Uncreated, CurrentAlive,
       NoForgottenSocket, PendingOnOpenLink, HeartbeatOnOpenLink, Pending, Open, IsOpen
  <2>2. SingleLink' /\ Unstarted' /\ AttemptAlone' /\ Control'
    BY <1>3, <1>c DEF TimerFires, link, IInv, SingleLink, Unstarted, AttemptAlone, Active
  <2>. QED
    BY <1>3, <2>1, <2>2, <1>s DEF TimerFires, bounds, IInv, TypeOK
<1>4. CASE TokenResolved
  <2>1. SocketFacts'
    BY <1>4, <1>f DEF TokenResolved, link, searches, SocketFacts, Uncreated, CurrentAlive,
       NoForgottenSocket, PendingOnOpenLink, HeartbeatOnOpenLink, Pending, Open, IsOpen
  <2>2. SingleLink' /\ Unstarted' /\ AttemptAlone' /\ Control'
    BY <1>4, <1>c DEF TokenResolved, link, IInv, SingleLink, Unstarted, AttemptAlone, Active
  <2>. QED
    BY <1>4, <2>1, <2>2, <1>s DEF TokenResolved, bounds, IInv, TypeOK
<1>5. CASE SessionResolved
  <2>1. /\ ws = 0 /\ attempt' = "none" /\ created' = created + 1 /\ ws' = created + 1
        /\ created + 1 \in Sockets
        /\ wire' = [wire EXCEPT ![created + 1] = "handshake"]
        /\ UNCHANGED <<started, stopping, timer, closed, heartbeat, stopCommand,
                       searches, bounds>>
    BY <1>5, <1>f DEF SessionResolved, IInv, AttemptAlone, SocketFacts, Sockets
  <2>2. Pending = {} /\ (AckFirst => ~heartbeat)
    BY <2>1, <1>f DEF SocketFacts, PendingOnOpenLink, HeartbeatOnOpenLink, Open, Pending
  <2>3. Uncreated' /\ CurrentAlive' /\ NoForgottenSocket'
    BY <2>1, <1>f DEF SocketFacts, Uncreated, CurrentAlive, NoForgottenSocket, Sockets
  <2>4. PendingOnOpenLink' /\ HeartbeatOnOpenLink'
    BY <2>1, <2>2 DEF searches, Pending, PendingOnOpenLink, HeartbeatOnOpenLink
  <2>5. SocketFacts'
    BY <2>1, <2>3, <2>4, <1>f DEF SocketFacts, searches, Sockets
  <2>6. SingleLink' /\ Unstarted' /\ AttemptAlone' /\ Control'
    <3>1. ws' # 0
      BY <2>1, <1>f DEF SocketFacts
    <3>2. ~started => stopping
      BY <1>5 DEF IInv, Unstarted, SessionResolved
    <3>3. Active => ~timer
      BY <1>5 DEF IInv, SingleLink, SessionResolved
    <3>. QED
      BY <2>1, <3>1, <3>2, <3>3, <1>c DEF SingleLink, Unstarted, AttemptAlone, Active
  <2>. QED
    BY <2>1, <2>5, <2>6, <1>s DEF bounds, IInv, TypeOK
<1>6. CASE AttemptFails
  <2>1. SocketFacts'
    BY <1>6, <1>f DEF AttemptFails, link, searches, SocketFacts, Uncreated, CurrentAlive,
       NoForgottenSocket, PendingOnOpenLink, HeartbeatOnOpenLink, Pending, Open, IsOpen
  <2>2. SingleLink' /\ Unstarted' /\ AttemptAlone' /\ Control'
    BY <1>6, <1>c DEF AttemptFails, Schedule, link, IInv, SingleLink, Unstarted,
       AttemptAlone, Active
  <2>. QED
    BY <1>6, <2>1, <2>2, <1>s DEF AttemptFails, IInv, TypeOK
<1>7. CASE TokenRefreshed
  <2>1. SocketFacts'
    <3>1. CASE attempt = "none" /\ ws # 0
      BY <1>7, <1>f, <3>1, CloseKeepsFacts DEF TokenRefreshed
    <3>2. CASE ~(attempt = "none" /\ ws # 0)
      <4>1. UNCHANGED <<link, searches>>
        BY <1>7, <3>2 DEF TokenRefreshed
      <4>. QED
        BY <4>1, <1>f DEF link, searches, SocketFacts, Uncreated, CurrentAlive,
           NoForgottenSocket, PendingOnOpenLink, HeartbeatOnOpenLink, Pending, Open, IsOpen
    <3>. QED
      BY <3>1, <3>2
  <2>2. ws' = 0 /\ attempt' # "none" /\ timer' = FALSE /\ Control'
        /\ started' = started /\ stopping' = stopping /\ Active
    BY <1>7, <1>c DEF TokenRefreshed, CloseCurrent, link, IInv, AttemptAlone
  <2>3. SingleLink' /\ Unstarted' /\ AttemptAlone'
    BY <2>2 DEF SingleLink, Unstarted, AttemptAlone, Active
  <2>. QED
    BY <1>7, <2>1, <2>2, <2>3, <1>s DEF TokenRefreshed, IInv, TypeOK
<1>8. ASSUME NEW c \in Sockets, Upgraded(c) PROVE IInv'
  <2>1. SocketFacts'
    BY <1>8, <1>f DEF Upgraded, searches, SocketFacts, Uncreated, CurrentAlive,
       NoForgottenSocket, PendingOnOpenLink, HeartbeatOnOpenLink, Pending, Open, IsOpen,
       Sockets
  <2>2. SingleLink' /\ Unstarted' /\ AttemptAlone' /\ Control'
    BY <1>8, <1>c DEF Upgraded, IInv, SingleLink, Unstarted, AttemptAlone, Active
  <2>. QED
    BY <1>8, <2>1, <2>2, <1>s DEF Upgraded, bounds, IInv, TypeOK
<1>9. CASE ConnectionLost
  <2>1. /\ ws # 0 /\ ws' = 0 /\ closed' = closed \union {ws}
        /\ wire' = [wire EXCEPT ![ws] = "down"]
        /\ heartbeat' = FALSE /\ created' = created /\ RejectPending
    BY <1>9 DEF ConnectionLost
  <2>3. SocketFacts'
    BY <2>1, <1>f, ClosingKeepsFacts
  <2>4. SingleLink' /\ Unstarted' /\ AttemptAlone' /\ Control'
    BY <1>9, <2>1, <1>c DEF ConnectionLost, Schedule, IInv, SingleLink, Unstarted,
       AttemptAlone, Active
  <2>. QED
    BY <1>9, <2>3, <2>4, <1>s DEF ConnectionLost, IInv, TypeOK
<1>10. ASSUME NEW c \in Sockets, ZombieEnds(c) PROVE IInv'
  <2>1. SocketFacts'
    BY <1>10, <1>f DEF ZombieEnds, searches, SocketFacts, Uncreated, CurrentAlive,
       NoForgottenSocket, PendingOnOpenLink, HeartbeatOnOpenLink, Pending, Open, IsOpen,
       Sockets
  <2>2. SingleLink' /\ Unstarted' /\ AttemptAlone' /\ Control'
    BY <1>10, <1>c DEF ZombieEnds, IInv, SingleLink, Unstarted, AttemptAlone, Active
  <2>. QED
    BY <1>10, <2>1, <2>2, <1>s DEF ZombieEnds, bounds, IInv, TypeOK
<1>11. CASE HelloAck
  <2>1. SocketFacts'
    BY <1>11, <1>f DEF HelloAck, searches, SocketFacts, Uncreated, CurrentAlive,
       NoForgottenSocket, PendingOnOpenLink, HeartbeatOnOpenLink, Pending, Open, IsOpen
  <2>2. SingleLink' /\ Unstarted' /\ AttemptAlone' /\ Control'
    BY <1>11, <1>c DEF HelloAck, IInv, SingleLink, Unstarted, AttemptAlone, Active
  <2>. QED
    BY <1>11, <2>1, <2>2, <1>s DEF HelloAck, bounds, IInv, TypeOK
<1>12. ASSUME NEW c \in Sockets, ProtocolError(c) PROVE IInv'
  <2>1. SocketFacts' /\ ws # 0 /\ ws' = 0
    <3>1. PICK lateAck \in LateAcks(c) : CloseCurrent(lateAck)
      BY <1>12 DEF ProtocolError
    <3>2. lateAck \in BOOLEAN /\ (AckFirst => lateAck = FALSE)
      BY <3>1 DEF LateAcks
    <3>. QED
      BY <1>12, <1>f, <3>1, <3>2, CloseKeepsFacts DEF ProtocolError
  <2>2. SingleLink' /\ Unstarted' /\ AttemptAlone' /\ Control'
    BY <1>12, <2>1, <1>c DEF ProtocolError, Schedule, IInv, SingleLink, Unstarted,
       AttemptAlone, Active
  <2>. QED
    BY <1>12, <2>1, <2>2, <1>s DEF ProtocolError, IInv, TypeOK
<1>13. ASSUME NEW c \in Sockets, StopRequested(c) PROVE IInv'
  <2>1. /\ SocketFacts' /\ ws' = 0 /\ stopping' = TRUE /\ started' = FALSE
        /\ timer' = FALSE /\ attempt' = attempt
    <3>1. PICK lateAck \in LateAcks(c) : Shutdown(lateAck)
      BY <1>13 DEF StopRequested
    <3>2. lateAck \in BOOLEAN /\ (AckFirst => lateAck = FALSE)
      BY <3>1 DEF LateAcks
    <3>. QED
      BY <1>13, <1>f, <3>1, <3>2, ShutdownKeepsFacts DEF StopRequested
  <2>2. SingleLink' /\ Unstarted' /\ AttemptAlone' /\ Control'
    BY <2>1, <1>c DEF SingleLink, Unstarted, AttemptAlone, Active
  <2>. QED
    BY <1>13, <2>1, <2>2, <1>s DEF StopRequested, bounds, IInv, TypeOK
<1>14. ASSUME NEW r \in Requests, RunSearch(r) PROVE IInv'
  <2>1. SocketFacts'
    BY <1>14, <1>f DEF RunSearch, link, SocketFacts, Uncreated, CurrentAlive,
       NoForgottenSocket, PendingOnOpenLink, HeartbeatOnOpenLink, Pending, Open, IsOpen
  <2>2. SingleLink' /\ Unstarted' /\ AttemptAlone' /\ Control'
    BY <1>14, <1>c DEF RunSearch, link, IInv, SingleLink, Unstarted, AttemptAlone, Active
  <2>. QED
    BY <1>14, <2>1, <2>2, <1>s DEF RunSearch, bounds, IInv, TypeOK
<1>15. ASSUME NEW r \in Requests, SearchTimeout(r) \/ SearchAnswered(r) PROVE IInv'
  <2>0. /\ UNCHANGED <<started, stopping, attempt, timer, link, stopCommand, sentOn, bounds>>
        /\ outcome' \in {[outcome EXCEPT ![r] = "timeout"], [outcome EXCEPT ![r] = "answered"]}
    BY <1>15 DEF SearchTimeout, SearchAnswered
  <2>1. SocketFacts'
    BY <2>0, <1>f DEF link, SocketFacts, Uncreated, CurrentAlive,
       NoForgottenSocket, PendingOnOpenLink, HeartbeatOnOpenLink, Pending, Open, IsOpen
  <2>2. SingleLink' /\ Unstarted' /\ AttemptAlone' /\ Control'
    BY <2>0, <1>c DEF link, IInv, SingleLink, Unstarted, AttemptAlone, Active
  <2>. QED
    BY <2>0, <2>1, <2>2, <1>s DEF bounds, IInv, TypeOK
<1>16. CASE UNCHANGED vars
  <2>1. SocketFacts'
    BY <1>16, <1>f DEF vars, link, searches, SocketFacts, Uncreated, CurrentAlive,
       NoForgottenSocket, PendingOnOpenLink, HeartbeatOnOpenLink, Pending, Open, IsOpen
  <2>2. SingleLink' /\ Unstarted' /\ AttemptAlone' /\ Control'
    BY <1>16, <1>c DEF vars, link, IInv, SingleLink, Unstarted, AttemptAlone, Active
  <2>. QED
    BY <1>16, <2>1, <2>2, <1>s DEF vars, bounds, IInv, TypeOK
<1>. QED
  BY <1>1, <1>2, <1>3, <1>4, <1>5, <1>6, <1>7, <1>8, <1>9, <1>10, <1>11, <1>12, <1>13,
     <1>14, <1>15, <1>16 DEF Next

\* The inductive invariant holds in every reachable state.
THEOREM Invariance == Spec => []IInv
<1>. QED
  BY InitIInv, StepIInv, PTL DEF Spec

\* Every variable keeps its type.
THEOREM TypeCorrect == Spec => []TypeOK
<1>1. IInv => TypeOK
  BY DEF IInv
<1>. QED
  BY <1>1, Invariance, PTL

\* An active client has exactly one of a current socket, an attempt under way
\* and a reconnect timer: it neither doubles its link nor gives up on it.
THEOREM LinkIsSingle == Spec => []SingleLink
<1>1. IInv => SingleLink
  BY DEF IInv
<1>. QED
  BY <1>1, Invariance, PTL

\* Every socket the client no longer refers to has been closed.
THEOREM NoSocketForgotten == Spec => []NoForgottenSocket
<1>1. IInv => NoForgottenSocket
  BY DEF IInv
<1>. QED
  BY <1>1, Invariance, PTL

\* A search in flight can be answered on the open current socket, and the
\* heartbeat runs only on an open socket.
THEOREM OpenLinkOnly == Spec => [](PendingOnOpenLink /\ HeartbeatOnOpenLink)
<1>1. IInv => PendingOnOpenLink /\ HeartbeatOnOpenLink
  BY DEF IInv
<1>. QED
  BY <1>1, Invariance, PTL

\* No step of a stopping client starts an attempt or arms the timer.
THEOREM StopsQuietly == Spec => StoppingIsQuiet
<1>. DEFINE Quiet == /\ attempt' # "none" => attempt # "none"
                     /\ timer' => timer
<1>1. ASSUME TypeOK, Next, stopping PROVE Quiet
  <2>. SUFFICES ASSUME ~(UNCHANGED <<attempt, timer>>) PROVE Quiet
    OBVIOUS
  <2>1. CASE Start \/ Stop \/ TimerFires
    BY <1>1, <2>1 DEF Start, Stop, Shutdown, TimerFires, Active
  <2>2. CASE TokenResolved \/ SessionResolved
    <3>1. timer' = timer /\ attempt # "none"
      BY <2>2 DEF TokenResolved, SessionResolved
    <3>. QED
      BY <3>1
  <2>5. CASE AttemptFails \/ TokenRefreshed \/ ConnectionLost
    BY <1>1, <2>5 DEF AttemptFails, TokenRefreshed, ConnectionLost, Schedule, Active
  <2>3. ASSUME NEW c \in Sockets, ProtocolError(c) \/ StopRequested(c) PROVE Quiet
    BY <1>1, <2>3 DEF ProtocolError, StopRequested, Shutdown, Schedule, Active
  <2>4. ASSUME \/ HelloAck
               \/ \E c \in Sockets : Upgraded(c) \/ ZombieEnds(c)
               \/ \E r \in Requests : RunSearch(r) \/ SearchTimeout(r) \/ SearchAnswered(r)
        PROVE  Quiet
    BY <2>4 DEF HelloAck, Upgraded, ZombieEnds, RunSearch, SearchTimeout, SearchAnswered
  <2>. QED
    BY <1>1, <2>1, <2>2, <2>3, <2>4, <2>5 DEF Next
<1>2. IInv /\ [Next]_vars => [stopping => Quiet]_vars
  BY <1>1 DEF IInv
<1>. QED
  BY <1>2, Invariance, PTL DEF Spec, StoppingIsQuiet
=============================================================================
