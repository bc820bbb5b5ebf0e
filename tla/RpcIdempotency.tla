---------------------------- MODULE RpcIdempotency ----------------------------
(***************************************************************************)
(* Mutating RPC calls to one runtime: the single-writer queue, the         *)
(* idempotency records of request-dispatcher.ts and idempotency-store.ts,  *)
(* and the registerProject, unbindProject and cleanProject tasks behind    *)
(* them, called by MCP startups (ensureWorkspaceRegistered, whose key is   *)
(* the same for every startup of a workspace) and by CLI commands (whose   *)
(* key is new).  A step is what happens between two awaits.                *)
(*                                                                         *)
(* A caller makes one call.  Its retry is another caller with the same key.*)
(***************************************************************************)
EXTENDS Naturals, Sequences, FiniteSets

CONSTANTS
  Startups, Registrars, Unbinders, Cleaners, \* the callers, by what they do
  Workspaces, WorkspaceOf,                   \* and the workspace of each
  Branches,                                  \* params that differ between callers
  MaxFailures, \* bound on failing, cut-off or skipped backend calls
  MaxTimeouts, \* bound on callers that give up
  MaxCrashes,  \* bound on deaths of the runtime
  MaxExpiries, \* bound on records that outlive their seven days
  None

Callers == Startups \union Registrars \union Unbinders \union Cleaners
Registering == Startups \union Registrars
Keys == Workspaces \union (Callers \ Startups)
KeyOf == [c \in Callers |-> IF c \in Startups THEN WorkspaceOf[c] ELSE c]

\* What a task can end with: a result, a registration the backend skips for want
\* of GitHub access, an error it calls retryable, or any other error.
Answers == {"ok", "skipped", "retryable", "failed"}
\* And what a call can end with instead: REQUEST_EXPIRED, a key used with other
\* params, no response in time, a broken connection.
NoTask == {"expired", "conflict", "timeout", "broken"}

Record == [answer : Answers, params : Branches \union {None}, expired : BOOLEAN]

ASSUME RpcAssumption ==
  /\ WorkspaceOf \in [Callers -> Workspaces]
  /\ Workspaces \intersect Callers = {}
  /\ Registering \intersect (Unbinders \union Cleaners) = {}
  /\ Startups \intersect Registrars = {} /\ Unbinders \intersect Cleaners = {}
  /\ None \notin Branches \union Answers \union NoTask \union {"found", "nothing"}
  /\ None \notin Record
  /\ MaxFailures \in Nat /\ MaxTimeouts \in Nat /\ MaxCrashes \in Nat /\ MaxExpiries \in Nat

VARIABLES
  pc,       \* where the call of each caller is
  params,   \* the branch it registers, or None
  result,   \* what its task has come to, or None
  outcome,  \* what the caller was told, or None
  queue,    \* SingleWriterQueue: the calls that wait for their turn
  records,  \* agent_meta: the record of each key, or None
  projects, \* the local projects
  remote,   \* the backend's bindings
  tried,    \* the callers whose task has begun
  removed,  \* the workspaces a clean or an unbind has deleted so far
  torn,     \* those whose unbind may have reached the backend only
  failures, crashes, expiries

call == <<pc, params, result, outcome>>
store == <<queue, records>>
rows == <<projects, remote>>
history == <<tried, removed, torn, failures, crashes, expiries>>
vars == <<call, store, rows, history>>

Steps == {"idle", "listed", "queued", "read", "drop", "task", "backend", "apply",
          "record", "answer", "done"}

\* The task of c has begun and its result is not recorded yet.
Executing(c) == pc[c] \in {"task", "backend", "apply", "record"}
\* The queue has given c its turn.
Running(c) == Executing(c) \/ pc[c] \in {"read", "drop", "answer"}

TypeOK ==
  /\ pc \in [Callers -> Steps]
  /\ params \in [Callers -> Branches \union {None}]
  /\ result \in [Callers -> Answers \union {None}]
  /\ \A c \in Callers : pc[c] \in {"record", "answer"} => result[c] # None
  /\ outcome \in [Callers -> Answers \union NoTask \union {"found", "nothing", None}]
  /\ queue \in Seq(Callers)
  /\ records \in [Keys -> Record \union {None}]
  /\ projects \subseteq Workspaces /\ remote \subseteq Workspaces
  /\ tried \subseteq Callers /\ removed \subseteq Workspaces /\ torn \subseteq Workspaces
  /\ failures \in 0..MaxFailures /\ crashes \in 0..MaxCrashes
  /\ expiries \in 0..MaxExpiries

Init ==
  /\ pc = [c \in Callers |-> "idle"]
  /\ params = [c \in Callers |-> None]
  /\ result = [c \in Callers |-> None]
  /\ outcome = [c \in Callers |-> None]
  /\ queue = <<>> /\ records = [k \in Keys |-> None]
  /\ projects = {} /\ remote = {}
  /\ tried = {} /\ removed = {} /\ torn = {}
  /\ failures = 0 /\ crashes = 0 /\ expiries = 0

Go(c, s) == pc' = [pc EXCEPT ![c] = s]

\* The response reaches a caller that still waits for it.
Tell(c, a) == outcome' = [outcome EXCEPT ![c] = IF @ = None THEN a ELSE @]

-----------------------------------------------------------------------------
(* The callers.                                                            *)

\* listProjects does not go through the queue.  A startup that finds its
\* workspace is ready; a clean that finds nothing is over.
List(c) ==
  /\ pc[c] = "idle" /\ c \in Startups \union Cleaners
  /\ LET registered == WorkspaceOf[c] \in projects IN
     IF registered = (c \in Startups)
     THEN /\ Go(c, "done")
          /\ Tell(c, IF registered THEN "found" ELSE "nothing")
     ELSE Go(c, "listed") /\ UNCHANGED outcome
  /\ UNCHANGED <<params, result, store, rows, history>>

\* The branch is whatever the workspace has checked out by now.
Send(c) ==
  /\ pc[c] = "listed" \/ (pc[c] = "idle" /\ c \in Registrars \union Unbinders)
  /\ IF c \in Registering
     THEN \E b \in Branches : params' = [params EXCEPT ![c] = b]
     ELSE UNCHANGED params
  /\ queue' = Append(queue, c)
  /\ Go(c, "queued")
  /\ UNCHANGED <<result, outcome, records, rows, history>>

\* The caller gives up; its call does not.
TimeOut(c) ==
  /\ pc[c] = "queued" \/ Running(c)
  /\ outcome[c] = None
  /\ Cardinality({d \in Callers : outcome[d] = "timeout"}) < MaxTimeouts
  /\ Tell(c, "timeout")
  /\ UNCHANGED <<pc, params, result, store, rows, history>>

-----------------------------------------------------------------------------
(* The queue and the idempotency record.                                   *)

\* Bug: a task is started when it is enqueued.
StartAtOnce(c) ==
  /\ queue # <<>> /\ Head(queue) = c
  /\ queue' = Tail(queue)
  /\ Go(c, "read")
  /\ UNCHANGED <<params, result, outcome, records, rows, history>>

\* Bug: a task that was refused keeps its turn.
StartNext(c) ==
  /\ queue # <<>> /\ Head(queue) = c
  /\ \A d \in Callers : ~Running(d) /\ outcome[d] # "expired"
  /\ queue' = Tail(queue)
  /\ \/ Go(c, "read") /\ UNCHANGED outcome
     \/ Go(c, "done") /\ Tell(c, "expired")
  /\ UNCHANGED <<params, result, records, rows, history>>

\* The task before it has settled; its deadline may have passed.
Dequeue(c) ==
  /\ queue # <<>> /\ Head(queue) = c
  /\ \A d \in Callers : ~Running(d)
  /\ queue' = Tail(queue)
  /\ \/ Go(c, "read") /\ UNCHANGED outcome
     \/ Go(c, "done") /\ Tell(c, "expired")
  /\ UNCHANGED <<params, result, records, rows, history>>

\* Bug: a recorded error is not a record.
ReadSkipsErrors(c) ==
  /\ pc[c] = "read"
  /\ LET record == records[KeyOf[c]] IN
     \/ record = None /\ Go(c, "task") /\ UNCHANGED <<result, outcome>>
     \/ record # None /\ record.expired /\ Go(c, "drop") /\ UNCHANGED <<result, outcome>>
     \/ /\ record # None /\ ~record.expired
        /\ record.answer \in {"retryable", "failed"}
        /\ Go(c, "task") /\ UNCHANGED <<result, outcome>>
     \/ /\ record # None /\ ~record.expired /\ record.params # params[c]
        /\ record.answer \notin {"retryable", "failed"}
        /\ Go(c, "done") /\ Tell(c, "conflict") /\ UNCHANGED result
     \/ /\ record # None /\ ~record.expired /\ record.params = params[c]
        /\ record.answer \notin {"retryable", "failed"}
        /\ result' = [result EXCEPT ![c] = record.answer]
        /\ Go(c, "answer") /\ UNCHANGED outcome
  /\ UNCHANGED <<params, store, rows, history>>

\* The params are compared only with a record that has not expired.
Read(c) ==
  /\ pc[c] = "read"
  /\ LET record == records[KeyOf[c]] IN
     \/ record = None /\ Go(c, "task") /\ UNCHANGED <<result, outcome>>
     \/ record # None /\ record.expired /\ Go(c, "drop") /\ UNCHANGED <<result, outcome>>
     \/ /\ record # None /\ ~record.expired /\ record.params # params[c]
        /\ Go(c, "done") /\ Tell(c, "conflict") /\ UNCHANGED result
     \/ /\ record # None /\ ~record.expired /\ record.params = params[c]
        /\ result' = [result EXCEPT ![c] = record.answer]
        /\ Go(c, "answer") /\ UNCHANGED outcome
  /\ UNCHANGED <<params, store, rows, history>>

DropExpired(c) ==
  /\ pc[c] = "drop"
  /\ records' = [records EXCEPT ![KeyOf[c]] = None]
  /\ Go(c, "task")
  /\ UNCHANGED <<params, result, outcome, queue, rows, history>>

\* writeSuccess or writeError.
WriteRecord(c) ==
  /\ pc[c] = "record"
  /\ records' = [records EXCEPT ![KeyOf[c]] =
       [answer |-> result[c], params |-> params[c], expired |-> FALSE]]
  /\ Go(c, "answer")
  /\ UNCHANGED <<params, result, outcome, queue, rows, history>>

Answer(c) ==
  /\ pc[c] = "answer"
  /\ Tell(c, result[c])
  /\ Go(c, "done")
  /\ UNCHANGED <<params, result, store, rows, history>>

-----------------------------------------------------------------------------
(* The tasks.                                                              *)

EndsWith(c, a) == result' = [result EXCEPT ![c] = a] /\ Go(c, "record")

\* registerProject calls the backend; the other two require the local project.
Begin(c) ==
  /\ pc[c] = "task"
  /\ tried' = tried \union {c}
  /\ \/ /\ c \in Registering \/ WorkspaceOf[c] \in projects
        /\ Go(c, IF c \in Cleaners THEN "apply" ELSE "backend")
        /\ UNCHANGED result
     \/ /\ c \notin Registering /\ WorkspaceOf[c] \notin projects
        /\ EndsWith(c, "failed")
  /\ UNCHANGED <<params, outcome, store, rows, removed, torn, failures, crashes, expiries>>

\* Bug: a binding the backend already had is taken for a registered project.
RegisterKnown(c) ==
  /\ pc[c] = "backend" /\ c \in Registering
  /\ remote' = remote \union {WorkspaceOf[c]}
  /\ IF WorkspaceOf[c] \in remote
     THEN EndsWith(c, "ok")
     ELSE Go(c, "apply") /\ UNCHANGED result
  /\ UNCHANGED <<params, outcome, store, projects, history>>

BackendRegisters(c) ==
  /\ pc[c] = "backend" /\ c \in Registering
  /\ remote' = remote \union {WorkspaceOf[c]}
  /\ Go(c, "apply")
  /\ UNCHANGED <<params, result, outcome, store, projects, history>>

BackendUnbinds(c) ==
  /\ pc[c] = "backend" /\ c \in Unbinders
  /\ remote' = remote \ {WorkspaceOf[c]}
  /\ Go(c, "apply")
  /\ UNCHANGED <<params, result, outcome, store, projects, history>>

\* A registration may be skipped; a call may fail, whether the backend has carried
\* it out or not.
BackendFails(c) ==
  /\ pc[c] = "backend" /\ failures < MaxFailures
  /\ failures' = failures + 1
  /\ \/ c \in Registering /\ EndsWith(c, "skipped") /\ UNCHANGED <<remote, torn>>
     \/ \E a \in {"retryable", "failed"} : EndsWith(c, a) /\ UNCHANGED <<remote, torn>>
     \/ /\ \E a \in {"retryable", "failed"} : EndsWith(c, a)
        /\ remote' = IF c \in Registering THEN remote \union {WorkspaceOf[c]}
                                          ELSE remote \ {WorkspaceOf[c]}
        /\ torn' = IF c \in Registering THEN torn ELSE torn \union {WorkspaceOf[c]}
  /\ UNCHANGED <<params, outcome, store, projects, tried, removed, crashes, expiries>>

\* One transaction.
Apply(c) ==
  /\ pc[c] = "apply"
  /\ IF c \in Registering
     THEN projects' = projects \union {WorkspaceOf[c]} /\ UNCHANGED removed
     ELSE /\ projects' = projects \ {WorkspaceOf[c]}
          /\ removed' = removed \union {WorkspaceOf[c]}
  /\ EndsWith(c, "ok")
  /\ UNCHANGED <<params, outcome, store, remote, tried, torn, failures, crashes, expiries>>

-----------------------------------------------------------------------------
(* The process and time.                                                   *)

\* The runtime dies and another one takes over the data directory.
Crash ==
  /\ crashes < MaxCrashes
  /\ crashes' = crashes + 1
  /\ LET cut == {c \in Callers : pc[c] = "queued" \/ Running(c)} IN
     /\ pc' = [c \in Callers |-> IF c \in cut THEN "done" ELSE pc[c]]
     /\ outcome' = [c \in Callers |->
          IF c \in cut /\ outcome[c] = None THEN "broken" ELSE outcome[c]]
     /\ torn' = torn \union
          {WorkspaceOf[c] : c \in {d \in cut \intersect Unbinders : pc[d] = "apply"}}
  /\ queue' = <<>>
  /\ UNCHANGED <<params, result, records, rows, tried, removed, failures, expiries>>

Expire(k) ==
  /\ expiries < MaxExpiries
  /\ records[k] # None /\ ~records[k].expired
  /\ expiries' = expiries + 1
  /\ records' = [records EXCEPT ![k] =
       [answer |-> records[k].answer, params |-> records[k].params, expired |-> TRUE]]
  /\ UNCHANGED <<call, queue, rows, tried, removed, torn, failures, crashes>>

RuntimeStep(c) ==
  \/ Dequeue(c) \/ Read(c) \/ DropExpired(c) \/ WriteRecord(c) \/ Answer(c)
  \/ Begin(c) \/ BackendRegisters(c) \/ BackendUnbinds(c) \/ BackendFails(c) \/ Apply(c)

Next ==
  \/ \E c \in Callers : List(c) \/ Send(c) \/ TimeOut(c) \/ RuntimeStep(c)
  \/ Crash \/ \E k \in Keys : Expire(k)

\* Database queries and backend calls settle.
Spec == Init /\ [][Next]_vars
FairSpec == Spec /\ WF_vars(\E c \in Callers : RuntimeStep(c))

-----------------------------------------------------------------------------
(* Properties.                                                             *)

\* A task runs alone, and only while its key has no record: a call that was
\* answered, lost or timed out is never carried out again by a retry, unless the
\* process died before the record was written or the record has expired.
OneExecution ==
  \A c \in Callers : Executing(c) =>
    /\ records[KeyOf[c]] = None
    /\ \A d \in Callers : Running(d) => d = c

\* What a caller is told is what the record of its key says, at once and for as
\* long as the record is kept, whatever crashes and however often it is asked.
Promise == INSTANCE AnswerOnce WITH
  Calls <- Callers, NoAnswer <- "no answer",
  decided <- [k \in Keys |-> IF records[k] = None THEN None ELSE records[k].answer],
  given <- [c \in Callers |->
    IF outcome[c] \in Answers \union {None} THEN outcome[c] ELSE "no answer"]
AnswersOnce == Promise!Spec

\* A startup that is told its workspace is registered finds it registered, unless
\* the workspace has been cleaned or unbound at some time.
ReadyIsRegistered ==
  \A c \in Startups : outcome[c] \in {"ok", "found"} =>
    WorkspaceOf[c] \in projects \/ WorkspaceOf[c] \in removed

\* A local project has a binding at the backend, except between the two halves of
\* an unbind, or when they were torn apart.
LocalIsBound ==
  \A w \in projects :
    \/ w \in remote \union torn
    \/ \E c \in Unbinders : WorkspaceOf[c] = w /\ pc[c] = "apply"

\* Every call that is sent ends, whatever the calls before it came to: the queue
\* is empty and idle again and again.
CallsEnd == []<>(queue = <<>> /\ \A c \in Callers : ~Running(c))

\* A startup succeeds only with a registered workspace: "No local project is
\* registered" after a successful startup is a bug of its preparation.
StartupIsRegistered ==
  [][\A c \in Startups :
       outcome[c] = None /\ outcome'[c] \in {"ok", "found"} =>
         WorkspaceOf[c] \in projects]_vars
=============================================================================
