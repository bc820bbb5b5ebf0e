--------------------------- MODULE HeadPublication ---------------------------
(***************************************************************************)
(* RevisionPublicationService in the writer queue: the runner's tick and   *)
(* the repairs that searches ask for read the local git head, keep the     *)
(* binding attached to the backend under an epoch, publish the head, and   *)
(* then sync the project.  The user moves the working tree, another device *)
(* attaches the same binding, and calls fail, between any two steps.       *)
(*                                                                         *)
(* One binding.  A git read is a step of its own: origin, branch and       *)
(* commit are three processes, so a head may be put together from two      *)
(* working trees.  syncProject is one step here (ProjectSync models it),   *)
(* the backend is external.  lastQueuedHead is only logged and left out.   *)
(***************************************************************************)
EXTENDS Integers, Sequences

CONSTANTS
  Trees,        \* the working trees the user may move to: remote, branch, commit
  FirstTree,    \* the one to begin with
  Searches,     \* searches, each of which may ask for repairs
  MaxEvents,    \* bound on moves of the working tree, attachments by another device,
                \* failures of the tick and an unregistration, together
  None          \* null; as a branch, a detached HEAD

VARIABLES
  tree, moves,                      \* the working tree
  epoch, sources, accepted, indexed,\* backend: current epoch, who attached under each, heads
  events,
  registered, local, due,           \* project row, local revisions of heads, sync timer
  attach,                           \* stateByBindingId of the binding
  queue, task,                      \* tasks waiting, and the one that runs
  step, seen, active, again,        \* its await, its git reads, its attach state
  granted, decision,                \* what the backend answered to it
  promise, expected, overdue        \* per search: its repair's result and arguments

world   == <<tree, moves>>
backend == <<epoch, sources, accepted, indexed>>
project == <<registered, local, due>>
worker  == <<task, step, seen, active, again, granted, decision>>
repairs == <<promise, expected, overdue>>
hvars == <<world, backend, events, project, attach, queue, worker, repairs>>

Tick == "tick"
Remotes == {t.remote : t \in Trees}
Branches == {t.branch : t \in Trees} \ {None}
Commits == {t.commit : t \in Trees}
Heads == [branch : Branches, commit : Commits]
HeadOf(t) == [branch |-> t.branch, commit |-> t.commit]

ASSUME HeadAssumption ==
  /\ Trees \subseteq [remote : Remotes, branch : Branches \union {None}, commit : Commits]
  /\ FirstTree \in Trees
  /\ Tick \notin Searches /\ None \notin Searches \union Heads
  /\ None # Tick
  /\ MaxEvents \in Nat

Nowhere == [remote |-> None, branch |-> None, commit |-> None]
Materializations == [epoch : Nat, head : Heads]
AttachStates == [epoch : Nat, remote : Remotes, observed : Heads \union {None},
                 materialized : Materializations \union {None}]

HeadTypeOK ==
  /\ tree \in Trees /\ moves \in 0..MaxEvents
  /\ epoch \in Nat /\ sources \in Seq([mine : BOOLEAN, remote : Remotes])
  /\ accepted \subseteq [epoch : Nat, head : Heads] /\ indexed \subseteq Heads
  /\ events \in 0..MaxEvents
  /\ registered \in BOOLEAN /\ local \subseteq Heads /\ due \in BOOLEAN
  /\ attach \in AttachStates \union {None} /\ active \in AttachStates \union {None}
  /\ queue \in Seq(Searches \union {Tick}) /\ task \in Searches \union {Tick, None}
  /\ step \in {"idle", "checkBranch", "checkCommit", "remote", "branch", "commit",
               "attaching", "attached", "syncing", "synced", "sync"}
  /\ seen \in [remote : Remotes \union {None}, branch : Branches \union {None},
               commit : Commits \union {None}]
  /\ again \in BOOLEAN /\ granted \in Nat
  /\ decision \in {"none", "materialized", "queued", "stale_rejected"}
  /\ promise \in [Searches -> {"none", "queued", "synced", "expired", "changed", "failed"}]
  /\ expected \in [Searches -> Heads \union {None}]
  /\ overdue \subseteq Searches

HInit ==
  /\ tree = FirstTree /\ moves = 0
  /\ epoch = 0 /\ sources = <<>> /\ accepted = {} /\ indexed = {}
  /\ events \in 0..MaxEvents
  /\ registered = TRUE /\ local = {} /\ due = TRUE
  /\ attach = None /\ active = None
  /\ queue = <<>> /\ task = None /\ step = "idle" /\ seen = Nowhere
  /\ again = FALSE /\ granted = 0 /\ decision = "none"
  /\ promise = [s \in Searches |-> "none"]
  /\ expected = [s \in Searches |-> None] /\ overdue = {}

-----------------------------------------------------------------------------
(* The surroundings.                                                       *)

Happens == events < MaxEvents /\ events' = events + 1

\* A checkout, commit or change of origin.
Move ==
  /\ registered /\ Happens
  /\ moves' = moves + 1
  /\ \E t \in Trees \ {tree} : tree' = t
  /\ UNCHANGED <<backend, project, attach, queue, worker, repairs>>

\* Another device attaches the binding: requests under older epochs are stale.
OtherAttach ==
  /\ Happens
  /\ epoch' = epoch + 1
  /\ \E r \in Remotes : sources' = Append(sources, [mine |-> FALSE, remote |-> r])
  /\ UNCHANGED <<accepted, indexed, world, project, attach, queue, worker, repairs>>

\* The backend's job for a queued head is done.
Index ==
  /\ \E a \in accepted : a.head \notin indexed /\ indexed' = indexed \union {a.head}
  /\ UNCHANGED <<epoch, sources, accepted, events, world, project, attach, queue,
                 worker, repairs>>

\* unbindProject or cleanProject, a task of the same queue.
Unregister ==
  /\ registered /\ task = None /\ Happens
  /\ registered' = FALSE /\ local' = {}
  /\ UNCHANGED <<world, backend, due, attach, queue, worker, repairs>>

\* pollIntervalMs have passed since the last sync.  Only AfterPublish looks at the
\* timer, so it may as well fire before the task starts.
PollElapses ==
  /\ task = None /\ ~due /\ due' = TRUE
  /\ UNCHANGED <<world, backend, events, registered, local, attach, queue, worker, repairs>>

-----------------------------------------------------------------------------
(* Tasks.                                                                  *)

\* scheduleNextTick: the next tick is queued when the last one has ended.
QueueTick ==
  /\ task # Tick /\ \A i \in 1..Len(queue) : queue[i] # Tick
  /\ queue' = Append(queue, Tick)
  /\ UNCHANGED <<world, backend, events, project, attach, worker, repairs>>

EndTask ==
  /\ task' = None /\ step' = "idle" /\ seen' = Nowhere
  /\ active' = None /\ again' = FALSE /\ granted' = 0 /\ decision' = "none"

Settle(s, result) == promise' = [promise EXCEPT ![s] = result]

\* runOnce, up to the first git read.  Without a project it forgets every attach
\* state.
StartTick ==
  /\ task = None /\ queue # <<>> /\ Head(queue) = Tick
  /\ queue' = Tail(queue)
  /\ IF registered
     THEN /\ task' = Tick /\ step' = "branch"
          /\ seen' = [seen EXCEPT !.remote = tree.remote]
          /\ UNCHANGED <<attach, active, again, granted, decision>>
     ELSE attach' = None /\ UNCHANGED worker
  /\ UNCHANGED <<world, backend, events, project, repairs>>

\* repairLocalHead: a repair that waited past its deadline does nothing.
StartRepair ==
  /\ task = None /\ queue # <<>> /\ Head(queue) \in Searches
  /\ queue' = Tail(queue)
  /\ IF Head(queue) \in overdue \/ ~registered
     THEN /\ Settle(Head(queue), IF Head(queue) \in overdue THEN "expired" ELSE "failed")
          /\ UNCHANGED worker
     ELSE /\ task' = Head(queue) /\ step' = "checkBranch"
          /\ UNCHANGED <<promise, seen, active, again, granted, decision>>
  /\ UNCHANGED <<world, backend, events, project, attach, expected, overdue>>

\* What follows a publication: a tick logs an error and syncs when the poll is
\* due; a repair passes the error on, and otherwise always syncs.
AfterPublish(ok) ==
  IF (task = Tick /\ ~due) \/ (task # Tick /\ ~ok)
  THEN EndTask /\ IF task = Tick THEN UNCHANGED promise ELSE Settle(task, "failed")
  ELSE step' = "sync" /\ UNCHANGED <<task, seen, active, again, granted, decision, promise>>

\* Any git, database or backend call of the task throws; a backend call may
\* have had its effect ("attached", "synced").  A repair fails its search, so only
\* the tick's failures need a bound.
Fail ==
  /\ step # "idle"
  /\ IF task = Tick THEN Happens ELSE UNCHANGED events
  /\ IF step = "sync" \/ step \in {"checkBranch", "checkCommit"}
     THEN EndTask /\ IF task = Tick THEN UNCHANGED promise ELSE Settle(task, "failed")
     ELSE AfterPublish(FALSE)
  /\ due' = (due /\ ~(step = "sync" /\ task = Tick))
  /\ UNCHANGED <<world, backend, registered, local, attach, queue, expected, overdue>>

-----------------------------------------------------------------------------
(* repairLocalHead compares the head with the one the search saw.          *)

ChangesTo(head) == expected[task] # head

CheckBranch ==
  /\ step = "checkBranch"
  /\ IF tree.branch = None
     THEN Settle(task, "changed") /\ EndTask
     ELSE /\ seen' = [seen EXCEPT !.branch = tree.branch] /\ step' = "checkCommit"
          /\ UNCHANGED <<task, active, again, granted, decision, promise>>
  /\ UNCHANGED <<world, backend, events, project, attach, queue, expected, overdue>>

\* Bug: the head recorded by the last publication stands in for the current one.
CheckRecorded ==
  /\ step = "checkCommit"
  /\ IF attach # None /\ attach.observed # None /\ ChangesTo(attach.observed)
     THEN Settle(task, "changed") /\ EndTask
     ELSE /\ step' = "remote" /\ seen' = Nowhere
          /\ UNCHANGED <<task, active, again, granted, decision, promise>>
  /\ UNCHANGED <<world, backend, events, project, attach, queue, expected, overdue>>

CheckCommit ==
  /\ step = "checkCommit"
  /\ IF ChangesTo([branch |-> seen.branch, commit |-> tree.commit])
     THEN Settle(task, "changed") /\ EndTask
     ELSE /\ step' = "remote" /\ seen' = Nowhere
          /\ UNCHANGED <<task, active, again, granted, decision, promise>>
  /\ UNCHANGED <<world, backend, events, project, attach, queue, expected, overdue>>

-----------------------------------------------------------------------------
(* ensureAttachedAndSyncHead.                                              *)

ReadRemote ==
  /\ step = "remote"
  /\ seen' = [seen EXCEPT !.remote = tree.remote] /\ step' = "branch"
  /\ UNCHANGED <<world, backend, events, project, attach, queue, task, active, again,
                 granted, decision, repairs>>

\* clearObservedHead on a detached HEAD.
ReadBranch ==
  /\ step = "branch"
  /\ IF tree.branch = None
     THEN /\ attach' = IF attach = None THEN None ELSE [attach EXCEPT !.observed = None]
          /\ AfterPublish(TRUE)
     ELSE /\ seen' = [seen EXCEPT !.branch = tree.branch] /\ step' = "commit"
          /\ UNCHANGED <<attach, task, active, again, granted, decision, promise>>
  /\ UNCHANGED <<world, backend, events, project, queue, expected, overdue>>

SeenHead == [branch |-> seen.branch, commit |-> seen.commit]

\* Bug: any head materialized under the epoch is taken for the one read.
DeduplicatedByEpoch(state, head) == state.materialized # None

IsDeduplicated(state, head) ==
  state.materialized = [epoch |-> state.epoch, head |-> head]

\* ensureAttached, recordObservedHead and the deduplication.
ReadCommit ==
  LET head == [branch |-> seen.branch, commit |-> tree.commit]
      attached == attach # None /\ attach.remote = seen.remote
      state == [attach EXCEPT !.observed = head] IN
  /\ step = "commit"
  /\ IF ~attached
     THEN /\ seen' = [seen EXCEPT !.commit = tree.commit] /\ step' = "attaching"
          /\ UNCHANGED <<attach, task, active, again, granted, decision, promise>>
     ELSE /\ attach' = state
          /\ IF IsDeduplicated(state, head)
             THEN AfterPublish(TRUE)
             ELSE /\ seen' = [seen EXCEPT !.commit = tree.commit]
                  /\ active' = state /\ step' = "syncing"
                  /\ UNCHANGED <<task, again, granted, decision, promise>>
  /\ UNCHANGED <<world, backend, events, project, queue, expected, overdue>>

\* The backend attaches this device under a new epoch.
BackendAttaches ==
  /\ step = "attaching" /\ step' = "attached"
  /\ epoch' = epoch + 1 /\ granted' = epoch + 1
  /\ sources' = Append(sources, [mine |-> TRUE, remote |-> seen.remote])
  /\ UNCHANGED <<accepted, indexed, world, events, project, attach, queue, task, seen,
                 active, again, decision, repairs>>

\* attachSource returns: a fresh state, in which nothing is materialized yet.
FreshState(r) ==
  [epoch |-> granted, remote |-> r, observed |-> SeenHead, materialized |-> None]

Attached ==
  /\ step = "attached"
  /\ attach' = FreshState(sources[granted].remote) /\ active' = attach'
  /\ step' = "syncing"
  /\ UNCHANGED <<world, backend, events, project, queue, task, seen, again, granted,
                 decision, repairs>>

\* The backend takes a head under the current epoch only.
BackendSyncs ==
  /\ step = "syncing" /\ step' = "synced"
  /\ IF active.epoch # epoch
     THEN decision' = "stale_rejected" /\ UNCHANGED accepted
     ELSE /\ accepted' = accepted \union {[epoch |-> epoch, head |-> SeenHead]}
          /\ decision' = IF SeenHead \in indexed THEN "materialized" ELSE "queued"
  /\ UNCHANGED <<epoch, sources, indexed, world, events, project, attach, queue, task,
                 seen, active, again, granted, repairs>>

\* A rejected head is tried once more under a new attachment.
Reattach ==
  /\ step = "synced" /\ decision = "stale_rejected" /\ ~again
  /\ again' = TRUE /\ step' = "attaching" /\ decision' = "none"
  /\ UNCHANGED <<world, backend, events, project, attach, queue, task, seen, active,
                 granted, repairs>>

GiveUp ==
  /\ step = "synced" /\ decision = "stale_rejected" /\ again
  /\ AfterPublish(FALSE)
  /\ UNCHANGED <<world, backend, events, project, attach, queue, expected, overdue>>

\* Bug: a queued head is recorded as materialized.
RecordAccepted ==
  [active EXCEPT !.materialized = [epoch |-> active.epoch, head |-> SeenHead]]

RecordHead ==
  IF decision = "materialized"
  THEN [active EXCEPT !.materialized = [epoch |-> active.epoch, head |-> SeenHead]]
  ELSE active

\* updateSyncedState.
UpdateSyncedState ==
  /\ step = "synced" /\ decision \in {"materialized", "queued"}
  /\ attach' = RecordHead
  /\ AfterPublish(TRUE)
  /\ UNCHANGED <<world, backend, events, project, queue, expected, overdue>>

\* syncProject brings the revisions of all indexed heads.
SyncProject ==
  /\ step = "sync"
  /\ local' = indexed
  /\ due' = (due /\ task # Tick)
  /\ EndTask
  /\ IF task = Tick THEN UNCHANGED promise ELSE Settle(task, "synced")
  /\ UNCHANGED <<registered, world, backend, events, attach, queue, expected, overdue>>

Work ==
  \/ StartTick \/ StartRepair
  \/ CheckBranch \/ CheckCommit
  \/ ReadRemote \/ ReadBranch \/ ReadCommit
  \/ BackendAttaches \/ Attached \/ BackendSyncs
  \/ Reattach \/ GiveUp \/ UpdateSyncedState
  \/ SyncProject

HNext ==
  \/ Move \/ OtherAttach \/ Index \/ Unregister \/ PollElapses
  \/ QueueTick \/ Work \/ Fail
=============================================================================
