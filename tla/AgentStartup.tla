---------------------------- MODULE AgentStartup ----------------------------
(***************************************************************************)
(* What stands before the runtime: MCP servers (and `grepmind init`) that  *)
(* ping the runtime of their data directory, spawn one when nobody         *)
(* answers, wait for it under a deadline and register their workspace      *)
(* (agent-rpc/bootstrap.ts, mcp/runtime-context.ts), while their tools are *)
(* already called.  Composed with RuntimeLifecycle: a spawned process goes *)
(* through the steps of that module, and a client sees its files.          *)
(***************************************************************************)
EXTENDS RuntimeLifecycle

CONSTANT Clients  \* MCP servers on the data directory

VARIABLES
  prep   \* per client: where prepareMcpRuntime is

allVars == <<vars, prep>>

Preparing == {"ping", "spawn", "wait", "register"}

StartupInit ==
  /\ Init
  /\ prep = [c \in Clients |-> "ping"]

In(c, step) == prep[c] = step
To(c, step) == prep' = [prep EXCEPT ![c] = step]

-----------------------------------------------------------------------------
(* What a client observes.                                                 *)

\* Somebody accepts connections at the socket path.  A ping needs no token and
\* is answered by a runtime that stops as well.
PingAnswered == socket # None /\ listening[socket]

\* Any other request takes its token from the meta file, and a stopping runtime
\* refuses it.
RequestServed ==
  /\ PingAnswered
  /\ metaFile = socket
  /\ ~stopping[socket]

-----------------------------------------------------------------------------
(* One preparation per client: its promise is kept, a failed one too.      *)

\* ensureAgentAuth, whose steps Credentials has, throws.
AuthFails(c) ==
  /\ In(c, "ping")
  /\ To(c, "failed")
  /\ UNCHANGED vars

\* Only "nobody there" makes the client start a runtime.
EnsureAgentRuntime(c) ==
  /\ In(c, "ping")
  /\ To(c, IF PingAnswered THEN "register" ELSE "spawn")
  /\ UNCHANGED vars

\* A runtime too busy to answer within a second ends the preparation.
PingTimesOut(c) ==
  /\ In(c, "ping") /\ PingAnswered
  /\ failures < MaxFailures /\ Mishaps < MaxMishaps
  /\ failures' = failures + 1
  /\ To(c, "failed")
  /\ UNCHANGED <<files, pc, server, overlapped, early, stops, deaths>>

\* `run --detach`: a process of its own, which outlives the client.
SpawnDetached(c) ==
  /\ In(c, "spawn")
  /\ \E p \in Procs : Launch(p)
  /\ To(c, "wait")

\* The command cannot be spawned; here also when the instance has no process left.
SpawnFails(c) ==
  /\ In(c, "spawn")
  /\ \A p \in Procs : ~At(p, "start", "off")
  /\ To(c, "failed")
  /\ UNCHANGED vars

WaitForAgentRuntimeReady(c) ==
  /\ In(c, "wait") /\ PingAnswered
  /\ To(c, "register")
  /\ UNCHANGED vars

\* Bug: the wait polls for ever.
NoDeadline(c) == FALSE /\ UNCHANGED allVars

\* RUNTIME_START_TIMEOUT.
DeadlinePasses(c) ==
  /\ In(c, "wait")
  /\ To(c, "failed")
  /\ UNCHANGED vars

\* ensureWorkspaceRegistered: listProjects, and registerProject without a match.
EnsureWorkspaceRegistered(c) ==
  /\ In(c, "register")
  /\ To(c, IF RequestServed THEN "ready" ELSE "failed")
  /\ UNCHANGED vars

\* The backend refuses the registration, or does not answer in time.
RegistrationFails(c) ==
  /\ In(c, "register") /\ RequestServed
  /\ failures < MaxFailures /\ Mishaps < MaxMishaps
  /\ failures' = failures + 1
  /\ To(c, "failed")
  /\ UNCHANGED <<files, pc, server, overlapped, early, stops, deaths>>

ClientStep(c) ==
  \/ EnsureAgentRuntime(c) \/ SpawnDetached(c) \/ SpawnFails(c)
  \/ WaitForAgentRuntimeReady(c) \/ EnsureWorkspaceRegistered(c)

ClientNext(c) ==
  \/ ClientStep(c)
  \/ AuthFails(c) \/ PingTimesOut(c) \/ DeadlinePasses(c) \/ RegistrationFails(c)

StartupNext ==
  \/ Next /\ UNCHANGED prep
  \/ \E c \in Clients : ClientNext(c)

\* Subprocesses and requests have timeouts, and the deadline of a wait comes.
StartupSpec ==
  /\ StartupInit /\ [][StartupNext]_allVars
  /\ Fairness
  /\ \A c \in Clients : WF_allVars(ClientStep(c)) /\ WF_allVars(DeadlinePasses(c))

-----------------------------------------------------------------------------
(* Properties.                                                             *)

StartupTypeOK ==
  /\ TypeOK
  /\ prep \in [Clients -> Preparing \union {"ready", "failed"}]

\* Where starts have not overlapped nor been stopped half-way, a client that
\* registers while a runtime is up and not stopping is served: no dead or failed
\* process has left or removed a socket or a meta file in its way.
ServingIsUsable ==
  [][\A c \in Clients :
       (/\ Undisturbed /\ In(c, "register") /\ prep'[c] = "failed"
        /\ \E p \in Procs : Serving(p))
       => failures' # failures]_allVars

\* Every preparation ends, and with it every call of a tool, for they all wait
\* for it: whatever happens to the runtimes.
PreparationEnds ==
  \A c \in Clients : prep[c] \in Preparing ~> prep[c] \in {"ready", "failed"}
=============================================================================
