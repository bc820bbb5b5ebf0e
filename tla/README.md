# Verification of the Grepmind agent

This directory holds TLA+ models of the Grepmind agent, the TLC runs that check
them and TLAPS proofs about them. The agent (`src/packages/agent`) is a local
daemon: one process per data directory that keeps an embedded PGlite replica of
a remote index, publishes the local git heads, and answers search requests of
CLI commands and of the MCP server over a Unix socket. `src/packages/agent-rpc`
is the client side of that socket, `src/packages/mcp` an MCP server on top of
it, and `src/packages/grepmind` and `src/packages/deployment` install things.
The backend itself is not in the repository; where a model needs it, it is
modelled from how the agent uses it and marked external in `PROJECT.json`.

There are no tests in the repository, so the properties below come from what the
code is plainly for, from its comments and error messages, and from the READMEs
and plans beside it.

## 1. Inventory

Every TypeScript process here is single-threaded: what interleaves are the
awaits. "Step" below always means the code between two awaits. Files, rows and
the backend are shared between processes.

| Component | State it keeps | Operations | Hard behaviour | What makes it correct |
|---|---|---|---|---|
| Project sync (`services/project-sync*`) | rows of one binding: attachments, pending attachments, revisions, file lists, sync status; the locals of a running `syncProject` | pages of a delta, file lists, invalidations, stale attachments, completion | no transaction spans two queries; a backend call can fail between any two; the process can die; payload states are read once | nothing the backend owes is skipped for good; a payload marked synced is whole; the replica catches up |
| Artifact import (`artifact-import-service.ts`) | chunks and materialisation rows | clear, replace, import in batches, upsert row | profile upgrades between plan and import; order of chunk and row deletes | a `ready` row has all chunks of its profile version |
| Project registry (`project-registry-service.ts`) | projects, branches, embedding profiles, active branch | register, refresh, observe, unbind, clean | local rows and the backend's binding are changed by two calls | a local project has a binding; an erased one leaves no rows |
| Runtime lock and artifacts (`runtime/control.ts`) | `agent.lock`, `agent.pid`, `agent.meta.json`, the socket file | acquire, release, stale checks, clean-up | every check and the unlink it decides are separate file operations, by several processes | one database owner; dead runtimes' files stop nobody |
| Runtime server (`runtime/server/agent-runtime-server.ts`) | lock, server, runner, meta, `stopping`, queue | start, stop, tick, connections | stop during start; failing start; a stop from signal, RPC, backend and a socket error | whoever is told to stop ends; whoever serves can be found |
| Writer queue (`runtime/single-writer-queue.ts`) | a promise chain | enqueue, waitForIdle | a failing task must not block | one task at a time, every task gets its turn |
| RPC dispatch and idempotency (`request-dispatcher.ts`, `idempotency-store.ts`) | one record per method and key in `agent_meta` | read, replay, conflict, write, expire | death between task and record; retry after timeout; replay of errors | a key is carried out once and answered alike |
| Realtime client (`backend/agent-backend-realtime-client.ts`, `realtime/*`) | current socket, attempt, timers, pending searches | connect, reconnect, refresh token, search, stop | an attempt suspended while everything else happens; zombie sockets | one link, always one on the way, nothing left behind |
| Realtime routing and bridges (`realtime/message-router.ts`, `search-bridge.ts`, `source-bridge.ts`) | none of their own | validate a frame, run a search or export, answer | answers after the socket has gone | only valid payloads reach services; errors answer or close |
| Revision publication (`revision-publication*`) | attach state per binding, in memory | attach, sync head, deduplicate, re-attach | stale rejections, heads that move, concurrent readers of the map | a published head is deduplicated only under the epoch it was published in |
| Source requests (`agent-source-request-service.ts`) | none | snapshot export, commit graph for an attach epoch | attach state replaced during an export | nothing is exported for a stale epoch |
| Search head (`search-head-service.ts`, `search-result-merge.ts`) | none | resolve local head, repair through the queue, merge | head moves, deadline passes in the queue | results belong to the head that was observed |
| Local searches (`local-pglite-search-service.ts`, `local-rg-*`) | child process, buffers | vector search, `rg` with limits | timeouts, truncated output, reads during a sync | limits hold, processes are ended |
| Backend client and credentials (`agent-backend-client.ts`, `auth-token-provider.ts`, `agent-rpc/src/auth-refresh.ts`, `command-handlers/auth.ts`) | one keychain record per sign-in, the name of the one in use in the config file | request, 401/refresh/retry, rotate, renew a session, sign in, sign out | processes write back a whole record they have read; the answer of a rotation is lost | a rotated token is not lost; what the config names can be found |
| Agent runner (`cli/agent-runner.ts`) | runtime, realtime client, `stopping` | start, tick, sync head, stop | failures half way through a start | a failed start leaves nothing open |
| Agent RPC client and bootstrap (`packages/agent-rpc`) | none | request, ping, spawn, wait, register the workspace | two clients spawn at once; fixed idempotency key | a started client has a runtime and a registered workspace |
| MCP server (`packages/mcp`) | one cached startup promise | startup, `code_search`, `agent_status` | failing startups are cached or retried | a search runs only on a prepared workspace |
| `grepmind init` (`packages/grepmind/src/init`) | `.grepmind.json` and the MCP configuration of three clients | plan, consent, prepare the agent, register, write each file | others edit the files during a login that takes minutes; any step fails | nobody else's entry is touched; a re-run changes nothing; what was configured is served |
| `grepmind deploy` and its templates (`packages/grepmind/src/deploy.ts`, `packages/deployment`) | a deployment directory: `.env`, `config.yml`, secrets, tfvars | copy, render, generate secrets, start | a command dies between two files over an earlier deployment; a timer starts the services meanwhile | what runs was configured by one command, with the secrets its volumes were made with |
| Repositories, schema, commands, CLI | rows | SQL, printing | little | see `PROJECT.json` |

How they interact: the runner's tick and every mutating RPC go through the
writer queue to the registry, publication and sync services, which call the
backend over HTTP and PGlite. Searches and status reads do not use the queue,
but for the repairs that a search asks for. The realtime client calls back into
the source-request service and into `AgentRuntimeServer.stop`. Processes meet
only at the files of the data directory, the socket, the keychain and, for the
two commands of `packages/grepmind`, the files they configure.

`PROJECT.json` lists each component with its status and, under `hazards`, what
can go wrong at which line and which property would see it.

## 2. Modules

| Module | Models | Composes |
|---|---|---|
| `ProjectSync` | `syncProject`, artifact import, and the registry operations on the same rows | with an external backend that publishes, withdraws and upgrades |
| `RealtimeClient` | the WebSocket link with its attempts, timers, sockets and searches | with an external backend and network |
| `RuntimeLifecycle` | several processes on one data directory: lock, files, socket, `start()` and `stop()` as two threads of one process | with the operating system's deaths |
| `AgentStartup` | MCP servers that ping, spawn, wait for and register at a runtime | extends `RuntimeLifecycle`: what they spawn goes through its steps |
| `RpcIdempotency` | queue, idempotency records and the register, unbind and clean tasks, called by MCP startups and CLI commands | with the backend's bindings and the runtime's deaths |
| `AnswerOnce` | abstract: what the records promise a caller | refined by `RpcIdempotency` |
| `HeadPublication` | attach epochs and the publication of the local head, in the writer queue | with a user who moves the working tree and another device |
| `HeadRequests` | searches that repair the head through that queue, and source requests fenced by the attach state | extends `HeadPublication`, whose variables they share |
| `ExactSearch` | a search with an exact pattern: `rg` as a child process, its limits and timeouts, the merge | with the child and the operating system's kills |
| `Credentials` | everybody who renews or replaces what a sign-in left on the machine | with the backend that rotates |
| `WorkspaceInit` | `grepmind init` and the files it merges into | with edits by others and the agent's host |
| `Deployment` | `grepmind deploy init`, `generate-secrets.sh`, `start-grepmind.sh` | the three on one directory, over several commands |
| `*Proofs` | theorems about the module they are named after, with their lemmas and inductive invariants; `RuntimeProofs` is about `RuntimeLifecycle` and `AgentStartup`, `SearchProofs` about `HeadRequests` and `ExactSearch` | |
| `MC*` | constants and symmetry for TLC | |

Definitions are named after the function they stand for wherever there is one;
`map` in `PROJECT.json` gives the lines. Definitions commented `Bug:` are
deliberate mistakes that `mutants` swaps in to see that a property notices.

### ProjectSync

Variables are the tables (`inventory` = `project_revision_attachments`,
`pending` = `project_attachment_sync_state`, `revisions` =
`project_revisions.needs_files_sync`, `files`, `chunks`, `ready` =
`project_materializations`), the backend (`published`, `tombstoned`, `version`),
and the locals of the running call with a phase `pc`. Each phase is a query, or
a run of queries nothing can be observed between. A page is any prefix of what
is owed; a batch of an import any subset of what is left. The size and byte
limits that cut pages and batches are thereby abstracted away, and so are paths,
texts and timestamps. `docs_chunk_tags`, the `targets` option and
`refreshProject` are not modelled. Registration, observation and clean need the
worker idle, which is what the writer queue gives.

### RealtimeClient

`attempt` is the await at which `connect()` is suspended, `ws` the current
socket, `closed` and `wire` the two sides of every socket ever created:
`finishClose` runs at most once on the object, while the HTTP upgrade under it
may still complete and make it a zombie. Backoff delays are left out (a timer
that is set may fire at any time), and so are single heartbeats,
`updateBindings` and the account-session refresh of a refused handshake. Of the
frames that may follow a closing one in the same chunk only `hello.ack` is
modelled (`lateAck`), since it is the one that changes state.

### RuntimeLifecycle and AgentStartup

`lockFile`, `pidFile`, `metaFile` and `socket` name the process that wrote or
bound each; `lockPid` says whether the pid is in the lock yet. `pc[p]["start"]`
and `pc[p]["stop"]` are the two threads of control. Every file operation with an
await behind it is one action. A failing start (`Fail`) goes through the same
steps as a stop on the start thread. Pids are not reused; closing a server
unlinks the path it is bound to, as libuv does; the queue's `waitForIdle` is
assumed to settle. A probe that times out on a live listener (500 ms) is not
modelled.

`AgentStartup` adds `prep`, where each client's `prepareMcpRuntime` is. A ping
needs only a listening socket; every other request also needs the meta file of
the process that listens (its token) and a runtime that is not stopping. Any
failure but "nobody there" ends the preparation, and a failed promise is kept.
`ensureAgentAuth` can fail here without saying how; `Credentials` has its steps.

### RpcIdempotency

A caller makes one call; its retry is another caller with the same key. Callers
are MCP startups (key derived from the workspace, hence shared) and commands
(own key). `records` is `agent_meta`, `projects` the local and `remote` the
backend's bindings; `pc` is the await a call is at. A skipped registration (no
GitHub access) is a result of its own, recorded as a success. `Crash` is the
death of a runtime and the immediate takeover by the next; PGlite writes are
taken to be atomic and durable and not to fail. Refusals before the queue
(token, protocol version, `SHUTTING_DOWN`) simply mean the call is not made.
Other tasks in the queue only delay these ones.

### HeadPublication and HeadRequests

`tree` is what git would say now, `seen` what the running task has read so far:
origin, branch and commit are three processes, so a task may put a head together
from two working trees. `attach` is the binding's entry of `stateByBindingId`;
`active` the copy that a task carries over its awaits and writes back. The
backend keeps its current `epoch`, who attached under each, what it `accepted`
and what it has `indexed`; its decision on a publication is any that its
interface allows. `queue` holds the tick and the repairs of searches in the
order of `enqueue`; `promise` is what a repair will tell its search.

A search (`sstep`) reads the branch and commit, looks for a local revision, and
otherwise enqueues a repair and waits; all its repairs share one deadline, and a
repair whose deadline has passed when its turn comes does nothing. A source
request (`xstep`) compares its epoch with a copy of the attach state, awaits
reads of git, and is served. `syncProject` is one step, since `ProjectSync` has
its detail. What a served request then reads and sends is left out.

### ExactSearch

A line of `rg`'s output has a kind, a file and a number; `printed` counts the
half lines it has written, because a chunk may end inside a line, and `reader`
is the state of `consumeStdoutChunk`. A match whose path or text is not UTF-8
comes as bytes (`"bytes"`), and `normalizeRgEvent` passes over it. Each chunk is
decoded on its own (`Decoded`): where it ends inside a character of a path
(`WideFiles`), that match is of a file that does not exist (`Garbled`), or is
not let through by the globs of a docs search, which is as good as bytes. Text
that is spoiled in this way only changes a preview and is left out. `rg` may
hang, exit with an error, be killed, and ignore a SIGTERM until the escalation.
What it would print is a function of the files it is given (`Outputs`), one for
each state of the working tree; the semantic answer is any of a set of
responses. Matches are known by their place in the output. The merge is stated
by ranks: an item that is kept stands behind those whose sort key comes before
its own (`Ahead`), which is what a stable sort does, and the limit lets through
those with fewer than `Limit` ahead of them.

### Credentials

A sign-in has one record with a rotating token and a session; of each only
"newest or spent" is kept. A task reads the record, awaits the backend, and
writes the whole record back: `task[t].held` is what it read, `cred` what it is
about to store. `auth` is the entry that the config file names, `memory` the one
in the running runtime's config object, which is read at its start. A copy's
`since` says who has written the record since it was read: nobody, the task
itself, or another one. With it the model tells apart what the code cannot:
`behind` has the halves (token or session) whose answer was lost, on the way or
with the task that had it, and those a writer of the other half took from a
record older than another task's write; `undone` the sign-ins whose rotated
token the very request that rotated it put back.

### WorkspaceInit

A file is its parts. `.grepmind.json` has a host, the include and exclude lists
(`rules`), the top-level keys init does not know (`other`), and what it knows
and does not write (`extra`: `$schema`, `mcp`, an older version, sections
without a list, further keys of one), which the first rewrite drops. A JSON file
is the entry with its command, environment and extra keys, and everything else
(`others`); a TOML file a sequence of sections, each with all the text up to the
next header, so that a comment above the header after the Codex block goes with
the block. `tidy` says whether a rewrite would change the layout; `Invalid` does
not parse; `Words` is what the parts that are not init's may say. An entry's
`tuned` stands for `--data-dir` and `--mcp-startup-timeout-ms`, which are
written into every entry; a data directory of another agent is not modelled, the
model has one. A command that runs has the plan, the consents, and where it is;
between its reads and its writes others may edit. `settled` is what the last
successful command configured. `fresh` are the files nobody else has changed
since they were read. Registering always binds here; what a fixed key replays
after a clean is `RpcIdempotency`'s subject.

### Deployment

A file's content is the command that wrote it, or `template`. A command
remembers as much of its input as the later steps use. `ReadConfig` and
`ValidateDockerConfig` are the two places where a configuration is refused,
before and after the template is copied: the reading trims options but takes a
secret that is not empty as it is, the validation trims secrets too. `Readings`
computes what the second can meet after the first. A symbolic link in the way is
found file by file, so that refusal may come half-way and is an end of its own
(`linked`). One operator gives one command after the other; the script is also
run by a timer, which waits for nobody. `docker compose run grepmind-migrate`
starts the bundled services it depends on (`docker-compose.bundled.yml:12-20`),
so Postgres' volume takes its password in `Migrate`, whatever becomes of the
migration, and the migration can succeed only with that password. MinIO takes
its credentials from the environment at every start, so its volume remembers
none. A `copyFile` is one step (a torn `config.yml` is not modelled), and so is
the check of the target directory, which is not a link itself.

## 3. Runs

Twelve runs; three of them are the findings of section 5.

| Run | Instance | Properties |
|---|---|---|
| `sync` | 3 attachments of 2 revisions (one attached twice, on two branches), 2 files, 1 target, 2 profile versions; 2 failures, 1 death, 1 clean, 2 of these together | `NothingLost`, `SyncedPayloadIsWhole`, `ReadyIsBacked`, `LossIsBounded`, `ForgetsOnlyStale`, `EventuallyCaughtUp` |
| `realtime` | 2 searches, 5 sockets, 2 refreshes, 2 failures, 2 stops, `hello.ack` in any order | `SingleLink`, `NoForgottenSocket`, `StoppingIsQuiet`, `SearchSettles`, `StaysConnected` |
| `life` | 2 runtimes and 1 client; 1 failure, stop or death | `OneDatabase`, `RaceElectsOne`, `AloneFailsOnlyAtBoot`, `RaceIsWon`, `StopEnds`, `ServingIsUsable`, `PreparationEnds` |
| `life_race`, `life_stop` | 2 runtimes | `LockExcludes`, `ShuttingDownEnds`: violated |
| `rpc` | 2 startups with one key and 2 branches, 1 unbind, 1 clean; 1 failure, 1 timeout, 1 death, 1 expiry | `OneExecution`, `ReadyIsRegistered`, the refinement `AnswersOnce`, `CallsEnd` |
| `rpc_stale` | 2 startups, 1 clean | `StartupIsRegistered`: violated |
| `head` | 4 working trees (2 commits, 2 remotes, a detached HEAD), 1 search or one of 2 source requests, 2 events less one for the caller | `AttachStateIsTrue`, `ChangedMeansMoved`, `ServedUnderItsEpoch`, `HeadGetsSearchable`, `SearchesEnd` |
| `search` | 2 files, one with a path that is not ASCII, 5 outputs of `rg`, 3 semantic answers; 2 matches, 4 lines of output and 2 items at most | `PartialIsSaid`, `EvidenceIsShown`, `SearchEnds` |
| `credentials` | 1 request, 1 refresher, 2 sign-ins, 1 event | `CredentialIsCurrent`, `ConfigNamesLogin`, `TasksEnd` |
| `init` | 2 hosts, Codex and one JSON client, 8 command lines, 4, 5 and 5 initial files; 2 commands, 1 edit | `ConfiguredIsServed`, `UnrelatedKept`, `ConsentedReplacement`, `RerunIsQuiet` |
| `deployment` | 3 commands (symmetric) of any job and input, 1 death | `StartedFromOneInit`, `SecretsFitVolumes`, `RefusedUntouched` |

Why the bounds are enough. *sync*: the cases that matter are a revision shared
by two attachments, an attachment with a lower id that arrives after a higher
one on another branch, a file list cut after its first page, and a profile
upgraded between plan and import; three attachments, two files and two versions
are the least with all of them, and two mishaps allow a failure inside the
recovery from a failure or a death. *realtime*: five sockets are more than two
refreshes and two failures can use up before the client settles. *life*: two
processes are one that left something behind, or is on its way, and one that
judges it; every mishap may fall on either at any step. The safety properties
are proved for any number of processes and mishaps. *rpc*: two callers share a
key, the other two change what their record says; each fault can fall anywhere
once. *head*: two events are a move and another device's attachment, or a move
away and back; beside a search or a source request one event is left to come
between any two of its steps, and a search with its repairs beside the tick
makes the queue's order matter; the safety properties are proved for any number.
*search*: the outputs have a match beside a limit of matches, a match in bytes
and a cut inside a line of either file, the answers have overlapping and
repeated items and one without evidence. *credentials*: two tasks are what it
takes to overwrite each other's half, two sign-ins to save one under a task of
the other. *init*: each initial file and each command line is a branch of the
plan; two commands make a re-run. *deployment*: a deployment, another one over
it that dies, and what is done to repair it.

Every counter that is bounded (`MaxFailures`, `MaxCrashes`, `MaxMishaps`,
`MaxEvents`, `MaxCallers`, ...) is bounded in the guard of the action that
raises it; `MaxMishaps`, `MaxEvents` and `MaxCallers` bound sums, to spend the
states on combinations of few. Runs with `CHECK_DEADLOCK FALSE` are of systems
that really end: all processes exited, all calls answered, a stopped client.

Fairness.

- `ProjectSync`: the tick polls for ever (`scheduleNextTick` is called in a
  `finally`), and a running call proceeds, because each query and each backend
  request settles; failures are finitely many.
- `RealtimeClient`: timers fire, awaited calls settle, a handshake ends; nothing
  forces the backend to answer a search.
- `RuntimeLifecycle`, `AgentStartup`: each thread of a live process proceeds, a
  client's requests have timeouts and its deadline comes; nothing forces a
  launch, a stop or a death.
- `RpcIdempotency`: the runtime proceeds with whatever call has the turn.
- `HeadRequests`: the task that has the queue proceeds, the tick is enqueued
  again, reads of git and requests settle, deadlines pass. Strong fairness is
  used once, for the poll interval of the project (`PollElapses`): its condition
  is looked at only between two tasks of the queue, where it is enabled again
  and again, and it compares with a clock that does not go back. Nothing forces
  the user, the other device or the backend's indexing; `HeadGetsSearchable` is
  conditional on the latter.
- `Credentials`: every step of a task; nobody has to sign in.
- `ExactSearch`: the service, the timeout and its escalation, and the kernel's
  kill; `rg` itself may hang.

Deeper points behind some properties:

- `NothingLost` is an invariant, not only eventual: the branch cursor sent to
  the backend is the highest known attachment, so an attachment below it whose
  files are missing must have a pending row at every moment a call may fail.
  With a death it does not hold: the two inserts of `processRevisionDelta` are
  separate, and so are the deletes of `deletePayloadIfUnused`: a death between
  those of the files and of the row leaves a row that calls an empty payload
  synced, and every attachment that finds it later trusts it. `LossIsBounded`
  says what a death costs: one attachment nobody asks for again (`Lost`) or one
  such payload (`Emptied`), not both. The attachments that a row emptied in this
  way misleads are not counted: there is no bound on them.
- `OneDatabase`, `AloneFailsOnlyAtBoot` and `ServingIsUsable` are stated for
  starts that neither overlap nor are stopped half-way. With overlapping starts
  the lock does not exclude (finding 1). Two processes that are each stopped
  during their own start, one after the other, also end with two open databases:
  the stop has released the lock, the start goes on (finding 2) and opens the
  database again. `RaceElectsOne` shows that where starts overlap the socket's
  `EADDRINUSE` still elects one server.
- `ReadyIsRegistered` excepts workspaces that were cleaned or unbound: for those
  the recorded success is stale (finding 3).
- `AttachStateIsTrue` is what the deduplication of a publication rests on: it is
  skipped for a head that the state calls materialized under its epoch, and the
  state is captured before awaits and written after them.
- `ServedUnderItsEpoch` needs the remote to be read between the fence and the
  answer: the attach state may be replaced meanwhile.
- `CredentialIsCurrent` says of each half of a record on its own that it is the
  newest there is, or with the task that will store it, and names the three ways
  in which the code loses one (`GivenUp`): the answer is lost, with or without
  its task; a task stores the other half with a record it read before another
  task's write; a request that refreshes its session has loaded the record
  before its own rotation and puts the old token back. What it shows is that
  there is no fourth way: two tasks that rotate one token, or renew one session,
  at the same time never cost it.
- `SecretsFitVolumes` is not about what is in the files: with secrets forced
  over an older volume the script stops at its migration, for as long as they
  are there, and what runs is what was up before.
- `UnrelatedKept` names the parts that survive; the others (`extra`, comments)
  are not promised, because the code drops them.
- `PartialIsSaid` is about the matches that can be read: one in bytes, or whose
  path was spoiled by the end of a chunk, goes without a word. It ties three
  ways of being incomplete (stopped at a limit, timed out, killed) to what the
  answer says; a kill from outside makes an answer truncated without a warning
  text, which the property allows.
- `ConsentedReplacement`, `UnrelatedKept` and `RerunIsQuiet` are action
  properties: what a write may do to a file that others own too.

## 4. Proofs

`tlapm` proves, for every value of the constants:

| Theorem | Says |
|---|---|
| `ProjectSyncProofs!TypeCorrect`, `NothingIsLost`, `SyncedIsWhole`, `PendingHasAttachment`, `OnlyStaleForgotten` | the type invariant; `NothingLost` and `SyncedPayloadIsWhole` until the first death; that pending attachments are in the inventory, and `ForgetsOnlyStale`, always |
| `ProjectSyncProofs!LossBounded`, `ReadyMeansBacked` | `LossIsBounded` always; `ReadyIsBacked` until the first death |
| `RealtimeClientProofs!TypeCorrect`, `LinkIsSingle`, `NoSocketForgotten`, `OpenLinkOnly`, `StopsQuietly` | every safety property of `realtime`, and that searches and heartbeat are on the open link |
| `RuntimeProofs!TypeCorrect`, `OneAtATime`, `LeftoversAreHarmless`, `OneIsElected` | types, `OneDatabase`, `AloneFailsOnlyAtBoot`, `RaceElectsOne` |
| `RuntimeProofs!StartupTypeCorrect`, `SpawnedOneAtATime`, `ServedByWhoServes` | types and `OneDatabase` of the composition, `ServingIsUsable` |
| `RpcIdempotencyProofs!TypeCorrect`, `ExecutesOnce`, `ReadyMeansRegistered`, `LocalMeansBound`, `ImplementsAnswerOnce` | every safety property of `rpc`, that a local project has a binding, and that the module implements `AnswerOnce` |
| `SearchProofs!TypeCorrect`, `AttachedTruly`, `ChangesAreMoves`, `ServesItsEpoch` | every safety property of `head` |
| `SearchProofs!ExactTypeCorrect`, `PartialAnswersSaySo`, `MatchesAreShown` | types, `PartialIsSaid`, `EvidenceIsShown`: every safety property of `search` |
| `CredentialsProofs!TypeCorrect`, `CredentialStaysCurrent`, `ConfigNamesTheLogin` | types, `CredentialIsCurrent`, `ConfigNamesLogin`: every safety property of `credentials` |
| `WorkspaceInitProofs!TypeCorrect`, `WhatIsConfiguredIsServed`, `TheRestIsKept`, `ReplacedWithConsent`, `ASecondRunIsQuiet` | types and every property of `init` |
| `DeploymentProofs!TypeCorrect`, `StartsFromOneInit`, `SecretsFit`, `RefusalsChangeNothing` | every property of `deployment` |

Assumptions are the named `ASSUME`s of the modules: the shapes of the constant
functions, bounds that are naturals, a `None` that is no other value
(`NoneAssumption`, `NothingAssumption`), in `RpcIdempotency` that each caller is
of one kind, and in `WorkspaceInit` that the JSON clients are those the command
knows (`AgentAssumption`), that the default host is one (`HostAssumption`), and
that the initial files have the forms the model gives them (`FileAssumption`).
TLC evaluates them in the runs. Type invariants that are proved are not checked
again by a run.

*ProjectSync.* `IInv` = `TypeOK`, `Books`, and `Promises` as long as `crashes =
0`. `NothingLost` is not inductive: `ClearCompleted` deletes pending rows in
bulk, `DropRevision` forgets a payload, and whether that is safe depends on the
call's locals. `Books` relates them to the rows: the payload states read at the
start of the call agree with the rows wherever they are used (`PayloadAgrees`),
a completed attachment's payload is synced (`CompletedIsSynced`), a stale one is
withdrawn (`StaleIsTombstoned`), the payload being erased has no attachment left
(`DroppedIsUnused`), and so on. Steps that touch none of it are handled together
by `QuietKeeps`, the ways a call ends by `EndKeeps`. The library's well-founded
induction is used for one fact only: a set of attachment ids has a least and a
greatest element.

*The replica.* `LossBounded` counts: the attachments that are lost but for the
one in hand (`Outstanding`) and the payloads that are emptied but for the one
being erased (`Hollow`) are together never more than the deaths so far, since a
death adds what was in hand, and nothing was in hand both to be inserted and to
be erased (`OutstandingStep`, `HollowStep`); cardinalities come from
`FiniteSetTheorems`. `ReadyMeansBacked` follows the import from plan to row: the
plan is of a live attachment (`LiveIsHandled`, `Foundations`), an old profile's
rows are hinted and gone before its chunks are replaced (`Fresh`), one plan is
at work per target (`OnePerTarget`), and what it has imported so far is there
(`Imported`).

*RealtimeClient.* The properties are proved together. `SingleLink` needs that an
attempt runs only while `ws` is null even after `stop()` (`AttemptAlone`),
because `SessionResolved` overwrites `ws`; `PendingOnOpenLink` needs that the
current socket is not closed (`CurrentAlive`) and that a new socket has no past
(`Uncreated`). `SocketFacts` collects what a closing must keep, and is proved of
the three ways of closing once.

*RuntimeLifecycle.* Types need `Closed`: what each thread has let go of by its
end, for only then may a process exit. `OneDatabase` is inductive only with
`Orderly`: one process starts at a time; whoever has the database, the socket or
the pid file has the lock, and `agent.lock` names it (`LockHeld`); the stale
check cannot mistake its owner for dead, because a runtime that is up has its
pid in `agent.pid` until the last steps of its stop, when `agent.lock` speaks
for it (`Named`); the path stays free from its check to `listen()` (`Binds`).
From the same invariant no file of a dead process makes a start fail.
`RaceElectsOne`, where starts do overlap, rests on the socket alone: without
deaths, stops and failures the path names exactly the process that listens, so
every probe finds it and nobody unlinks it (`Raced`).

*AgentStartup.* A client changes nothing of a runtime (`ClientsWatch`), so the
invariants carry over to the composition. `Usable` adds that a runtime that is
up and not stopping is bound to the path and has written the meta file.

*RpcIdempotency.* Everything rests on `Serial`: one call has the queue's turn
(`Alone`), a task runs while its key has no record (`Unrecorded`), and an answer
is on record before it is given (`AnswerRecorded`). `Registered` says the same
"ok is backed by a project that is, or was, there" of the record, of the result
on its way and of the outcome; `Bound` adds that between the two halves of a
registration nobody can unbind. The refinement maps a record to `decided` and an
outcome to `given`; `WriteRecord` is `Decide` because of `Unrecorded`, `Answer`
is `Give` because of `AnswerRecorded`, `DropExpired` is `Forget`, and a death
refuses a set of callers at once.

*HeadRequests.* What a task has read and what it carries over an await is
related to the backend (`Locals`), which only ever adds epochs, acceptances and
indexed heads, so what was true of a copied attach state stays true. A repair is
queued once and settled once (`Queued`); the head it compares with is faithful
unless the tree has moved since the search began (`Faithful`); a source
request's copy is of the epoch it was fenced with (`Fences`).

*Credentials.* `CredentialIsCurrent` is not inductive: a write could put an old
token back. `Sole` says why it does not: whoever is about to store an answer has
the only newest copy, since the backend takes each token and each session once,
and of two tasks that began with one copy the second is refused. The other half
of the record is safe by `Abreast`: a copy that nobody has written over since it
was read has what is stored, and of any other copy the write is one of the ways
named. Steps come in four kinds, each of which keeps the invariant for one
reason: a task goes on (`TurnStep`), the backend gives out something
(`SpendStep`), a record is written (`StoreStep`), tasks die (`DeathKeeps`); the
others move no task (`Bystander`). For the config, `Names`: every sign-in made
is stored until somebody signs out of it; and `Settled`: all who may write the
config agree on the last one, unless a writer was running that had read an
earlier config (`overrun`).

*WorkspaceInit.* The command keeps its locals over prompts and a login of
minutes. `AsRead`: what it has read is what a file holds while nobody has edited
it. `Signed`: from the first file on the agent is signed in at the chosen host.
`Decided` remembers why the command it will write was chosen. `Done` says of
each file it is through with that it holds an entry of one form (`EntryStands`),
and `Stands` says it of what the last successful command configured, as long as
the running one has written nothing or asks for the same (`Again`): a command
that asks for something else may be half-way through the files, one that asks
for the same leaves them alone (`AgainIsQuiet`). For the Codex file, a sequence
of sections, the lemmas say what the text search for a block finds and what
replacing it does (`Splice`): all other sections are kept in their order
(`ReplacedBlock`), a generated block is found again (`BlockIsFound`), and
replaced by an equal one it leaves the file as it is (`BlockIsKept`). The
library's theorems on sequences, finite sets and well-founded relations give the
arithmetic of splicing and the least index.

*ExactSearch.* For the reader, `Printing`: it has parsed the first whole lines
of what it has buffered, all of them unless it has enough matches, has buffered
all it has received unless there was too much of it, and an exit code other than
a signal's says that all was printed. So what is left in the buffer at the end
adds the next line or nothing (`RestIsFirst`), and the matches answered are
those of the first lines. For the merge: the sort keys of the items that are
kept are different and in a total order (`KeptSorts`), so the first n of them
are n (`FirstAreAsMany`, by the least n for which they were not); a match in an
item is evidence for one it lies in (`BestIsInside`), that item survives the
removal of duplicates because an equal one has no evidence (`EvidenceIsKept`),
and an item without evidence has a later key. Hence it is shown, or `Limit`
items with evidence are (`MatchIsShown`).

*Deployment.* One command writes at a time (`OneAtATime`); a command that copies
leaves placeholders before it renders, and the script refuses placeholders, so a
directory that a death has left half-written cannot be started; whoever wrote a
file is in `touched` (`WritersTouched`); what the script has read is what is
there unless a forced command wrote meanwhile (`ScriptReads`); between the
migration and the start of the services the secrets are those of the volume
(`Migrated`), and what is up was written (`UpWritten`). A command that may still
be refused has written nothing, unless it copied the template with a blank
secret (`UntouchedYet`, `MayBeRefused`, `InputsRender`).

Only model-checked: all liveness (`EventuallyCaughtUp`, `SearchSettles`,
`StaysConnected`, `RaceIsWon`, `StopEnds`, `PreparationEnds`, `CallsEnd`,
`HeadGetsSearchable`, `SearchesEnd`, `TasksEnd`, `SearchEnds`), which is beyond
the prover with its fairness.

## 5. Findings

1. `life_race`: the lock file is created by `open(…, 'wx')` and gets its pid by
   a later write. A second start that looks in between reads no pid, takes the
   lock for stale, unlinks it and makes its own; both have the database open.
2. `life_stop`: `stop()` during `start()` finishes before it; `start()` never
   looks at `stopping` again, listens and stays, answering everything but `ping`
   with "Agent runtime is shutting down".
3. `rpc_stale`: the idempotency key of `ensureWorkspaceRegistered` is the same
   for ever, so after a clean the recorded success is replayed for seven days
   and the startup succeeds without a registered workspace. A registration that
   was skipped for want of GitHub access is replayed the same way.

Noticed while modelling, without a run of their own:

- Retryable errors are recorded like any other result, so a retry with the same
  key is told to retry without being tried.
- `packages/mcp/README.md:68` says that the MCP client is connected only after
  the preparation; `packages/mcp/src/index.ts:38-42` starts the preparation,
  connects, and lets every tool wait for the one promise, which is kept when it
  fails.
- A death in `deletePayloadIfUnused` between the deletes of the files
  (`invalidations.ts:107`) and of the row (131) leaves a revision that is
  trusted and empty; nothing repairs it until its attachments have all gone
  stale once more or the project is cleaned.
- A request that refreshes its account session loads the credential, gets a
  token, which may rotate it, and stores the credential it had loaded: its own
  rotation is undone (`auth-token-provider.ts:208-218`, `255-268`), and the next
  rotation is refused.
- After `auth logout` a running runtime's next refresh stores the credential
  again (its config object still names it); see `packages/agent/README.md:77`.
- `grepmind init` for another host, while a runtime runs or the workspace has a
  binding, keeps the old ones and prints the new hostname in its summary.
- A recognised entry whose `command` is an array is reported as preserved but
  replaced; an entry made with a custom `--mcp-package` is not recognised by a
  later `init`.
- `local-rg-search-runner.ts`: a context line is attached to the preview of the
  match before it even when it precedes the next one (422); exit code 2 drops
  the matches already found (204); a UTF-8 character cut between two chunks is
  decoded in halves (153); an external kill sets `truncated` without a warning;
  matches that `rg` gives as bytes are dropped without a word (345), though the
  answer may be called complete.
- An exact search fails as a whole (`RG_INVALID_INPUT`) when the semantic answer
  names more than 200 files or a path of more than 500 characters; the RPC
  `limit` does not prevent it.
- A timer run of `start-grepmind.sh` during a forced `deploy init` can start
  services from files of two commands; `StartedFromOneInit` excepts it
  (`disturbed`). A forced `init` of a bundled deployment, or a forced
  `generate-secrets.sh`, replaces the secrets that the Postgres volume was made
  with: from then on the migration fails and the daily run of the script with
  it.
- A configured `deploy init --force` over a deployment that is refused for a
  secret of white space has already replaced `config.yml` by the template
  (`deploy.ts:279-284`, then `881-906`).
- The first `grepmind init` of a repository drops `$schema`, `mcp` and unknown
  keys of `code` and `docs` from `.grepmind.json` (`project-config.ts:105-119`,
  `143-163`), and comments under the Codex block (`toml-config.ts:171-177`).

## 6. Not modelled, and plan

Not modelled, with the reason (see also the notes of `components`):

- *RPC request validation* and the validators of realtime payloads: stateless
  normalisation, one field at a time. An operator for them would repeat the code
  and relate nothing to anything.
- *Commands and CLI*: argument parsing, prompts, printing and read-only status
  queries over services that are modelled.
- *Vector search* over PGlite: a query; only its success or failure is in
  `HeadRequests`. A search runs beside the queue and may read chunks while a
  sync replaces them; that hazard is listed without a property.
- *Formats of snapshots and commit graphs* and their size limits.
- *The browser flow* of a sign-in; `Credentials` has what it stores.
- *Terraform, compose and Kubernetes files*: declarations.
- *SQL text, PGlite, migrations, launchd files*: I/O or layout.

Left for later, in this order: the reads of a vector search as steps beside an
import of `ProjectSync`; `refreshProject` and the `targets` option;
`updateBindings` and the account-session refresh of the realtime handshake.
