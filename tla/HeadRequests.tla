---------------------------- MODULE HeadRequests ----------------------------
(***************************************************************************)
(* What reads the local head beside the writer queue: searches             *)
(* (SearchHeadService), which resolve it to a revision and repair through  *)
(* the queue under a deadline, and the backend's source requests           *)
(* (AgentSourceRequestService), which are fenced by the attach state.      *)
(* Composed with HeadPublication, whose variables they share.              *)
(*                                                                         *)
(* A source request is its own identifier and is made once.  What a        *)
(* granted one then reads from git and sends is left out.                  *)
(***************************************************************************)
EXTENDS HeadPublication, FiniteSets

CONSTANTS
  Requests,     \* source requests: expected branch, or None, and repo branch
  Linked,       \* project_branches: the repo branch id of a local branch, or None
  MaxCallers    \* bound on the searches and requests of one behaviour, each of which
                \* takes the place of an event

ASSUME RequestAssumption ==
  /\ Requests \subseteq [branch : Branches \union {None}, repoBranch : Nat]
  /\ Linked \in [Branches -> Nat \union {None}]
  /\ MaxCallers \in 0..MaxEvents

VARIABLES
  callers,      \* who will call, any of them at any time
  sstep,        \* per search: the await it is at
  glimpse,      \* the branch it has read
  since,        \* history: moves of the working tree when it started
  xstep,        \* per source request: the await it is at, or its outcome
  asked,        \* the attach epoch it was made for
  copy,         \* the attach state it found
  origin        \* the remote it has read

searching == <<callers, sstep, glimpse, since>>
sourcing  == <<callers, xstep, asked, copy, origin>>
vars == <<hvars, searching, sourcing>>

TypeOK ==
  /\ HeadTypeOK
  /\ callers \subseteq Searches \union Requests
  /\ sstep \in [Searches -> {"off", "branch", "commit", "lookup", "delay", "await",
                             "semantic", "ended"}]
  /\ glimpse \in [Searches -> Branches \union {None}]
  /\ since \in [Searches -> 0..MaxEvents]
  /\ xstep \in [Requests -> {"off", "asked", "remote", "branch", "verify",
                             "granted", "refused"}]
  /\ asked \in [Requests -> Nat] /\ copy \in [Requests -> AttachStates \union {None}]
  /\ origin \in [Requests -> Remotes \union {None}]

Init ==
  /\ HInit
  /\ callers \in {C \in SUBSET (Searches \union Requests) : Cardinality(C) <= MaxCallers}
  /\ events = Cardinality(callers)
  /\ sstep = [s \in Searches |-> "off"] /\ glimpse = [s \in Searches |-> None]
  /\ since = [s \in Searches |-> 0]
  /\ xstep = [x \in Requests |-> "off"] /\ asked = [x \in Requests |-> 0]
  /\ copy = [x \in Requests |-> None] /\ origin = [x \in Requests |-> None]

-----------------------------------------------------------------------------
(* searchByLocalHead.                                                      *)

Searching(s, from, to) ==
  sstep[s] = from /\ sstep' = [sstep EXCEPT ![s] = to]

\* A search that ends, with results or with an error, leaves nothing behind.
EndSearch(s) ==
  /\ sstep' = [sstep EXCEPT ![s] = "ended"]
  /\ glimpse' = [glimpse EXCEPT ![s] = None] /\ since' = [since EXCEPT ![s] = 0]
  /\ promise' = [promise EXCEPT ![s] = "none"]
  /\ expected' = [expected EXCEPT ![s] = None] /\ overdue' = overdue \ {s}
  /\ UNCHANGED <<world, backend, events, project, attach, queue, worker, sourcing>>

\* resolveProject, and the start of readObservedHead.
StartSearch(s) ==
  /\ s \in callers /\ registered
  /\ Searching(s, "off", "branch")
  /\ since' = [since EXCEPT ![s] = moves]
  /\ UNCHANGED <<hvars, glimpse, sourcing>>

SearchBranch(s) ==
  /\ tree.branch # None /\ Searching(s, "branch", "commit")
  /\ glimpse' = [glimpse EXCEPT ![s] = tree.branch]
  /\ UNCHANGED <<hvars, since, sourcing>>

\* A detached HEAD can not be searched.
SearchDetached(s) == sstep[s] = "branch" /\ tree.branch = None /\ EndSearch(s)

SearchCommit(s) ==
  /\ Searching(s, "commit", "lookup")
  /\ expected' = [expected EXCEPT ![s] = [branch |-> glimpse[s], commit |-> tree.commit]]
  /\ glimpse' = [glimpse EXCEPT ![s] = None]
  /\ UNCHANGED <<world, backend, events, project, attach, queue, worker, promise, overdue,
                 since, sourcing>>

\* findRevisionForHead.
Lookup(s) == IF expected[s] \in local THEN "semantic" ELSE "delay"

FindRevisionForHead(s) ==
  /\ Searching(s, "lookup", Lookup(s))
  /\ UNCHANGED <<hvars, glimpse, since, sourcing>>

\* The repair deadline, which is counted from the first lookup, passes.
Overdue(s) ==
  /\ sstep[s] \in {"delay", "await"} /\ s \notin overdue
  /\ overdue' = overdue \union {s}
  /\ UNCHANGED <<world, backend, events, project, attach, queue, worker, promise, expected,
                 searching, sourcing>>

\* Whether to repair is asked before each repair.
AskRepair(s) ==
  /\ s \notin overdue
  /\ Searching(s, "delay", "await")
  /\ Settle(s, "queued") /\ queue' = Append(queue, s)
  /\ UNCHANGED <<world, backend, events, project, attach, worker, expected, overdue, glimpse,
                 since, sourcing>>

\* SEARCH_HEAD_QUEUED.
NotReady(s) == sstep[s] = "delay" /\ s \in overdue /\ EndSearch(s)

\* Bug: every repair is given a deadline of its own.
RepairedAfresh(s) ==
  /\ promise[s] = "synced"
  /\ Searching(s, "await", Lookup(s))
  /\ Settle(s, "none") /\ overdue' = overdue \ {s}
  /\ UNCHANGED <<world, backend, events, project, attach, queue, worker, expected,
                 glimpse, since, sourcing>>

\* The repair is done, and the head is looked up again.
Repaired(s) ==
  /\ promise[s] = "synced"
  /\ Searching(s, "await", Lookup(s))
  /\ Settle(s, "none")
  /\ UNCHANGED <<world, backend, events, project, attach, queue, worker, expected, overdue,
                 glimpse, since, sourcing>>

\* It expired in the queue, failed, or found another head (SEARCH_HEAD_CHANGED).
NotRepaired(s) ==
  sstep[s] = "await" /\ promise[s] \in {"expired", "changed", "failed"} /\ EndSearch(s)

\* The searches themselves (LocalSearch): results, an error of one, or a timeout.
SearchDone(s) == sstep[s] = "semantic" /\ EndSearch(s)

SearchStep(s) ==
  \/ SearchBranch(s) \/ SearchDetached(s) \/ SearchCommit(s) \/ FindRevisionForHead(s)
  \/ AskRepair(s) \/ NotReady(s) \/ Repaired(s) \/ NotRepaired(s)
  \/ SearchDone(s)

-----------------------------------------------------------------------------
(* exportSnapshot and queryCommitGraph.                                    *)

Go(x, from, to) == xstep[x] = from /\ xstep' = [xstep EXCEPT ![x] = to]

\* The end of a request: its answer or its error is all that is left.
Forget(x) ==
  /\ asked' = [asked EXCEPT ![x] = 0] /\ copy' = [copy EXCEPT ![x] = None]
  /\ origin' = [origin EXCEPT ![x] = None]

\* The backend asks the source it knows: the one of its current epoch.
Ask(x) ==
  /\ x \in callers /\ epoch > 0 /\ sources[epoch].mine
  /\ Go(x, "off", "asked")
  /\ asked' = [asked EXCEPT ![x] = epoch]
  /\ UNCHANGED <<hvars, searching, copy, origin>>

\* assertRepoBranchFence: the repo branch is the expected one, or not linked yet.
RepoBranchFence(x) ==
  LET byId == {b \in Branches : Linked[b] = x.repoBranch} IN
  IF byId # {} THEN x.branch \in byId \union {None}
  ELSE x.branch # None /\ Linked[x.branch] = None

\* prepareSourceRequest up to its first git read.  The fence is read from the
\* database after the attach state has been copied; nothing changes it here.
Fenced(x) ==
  /\ registered /\ attach # None /\ attach.epoch = asked[x]
  /\ RepoBranchFence(x)
  /\ (x.branch # None /\ attach.observed # None) => attach.observed.branch = x.branch

Prepare(x) ==
  /\ Go(x, "asked", "remote") /\ Fenced(x)
  /\ copy' = [copy EXCEPT ![x] = attach]
  /\ UNCHANGED <<hvars, searching, asked, origin>>

\* SNAPSHOT_SOURCE_STALE.
RefuseUnprepared(x) ==
  /\ Go(x, "asked", "refused") /\ Forget(x) /\ ~Fenced(x)
  /\ UNCHANGED <<hvars, searching>>

\* The remote, read first by readObservedHead and by readObservedSource.
ReadSource(x) ==
  /\ Go(x, "remote", "branch")
  /\ origin' = [origin EXCEPT ![x] = tree.remote]
  /\ UNCHANGED <<hvars, searching, asked, copy>>

\* Bug: the attach state of the moment is compared, not the one of the epoch.
SourceMatchesNow(x) == attach # None /\ origin[x] = attach.remote

\* assertObservedSourceMatches.
SourceMatches(x) == origin[x] = copy[x].remote

\* An expected branch is read as well; a detached HEAD is none.
MatchBranch(x) ==
  /\ Go(x, "branch", "verify")
  /\ SourceMatches(x) /\ x.branch \in {None, tree.branch}
  /\ UNCHANGED <<hvars, searching, asked, copy, origin>>

RefuseUnmatched(x) ==
  /\ Go(x, "branch", "refused") /\ Forget(x)
  /\ ~SourceMatches(x) \/ x.branch \notin {None, tree.branch}
  /\ UNCHANGED <<hvars, searching>>

\* The request goes on to its commits.
Grant(x) ==
  /\ Go(x, "verify", "granted") /\ Forget(x)
  /\ UNCHANGED <<hvars, searching>>

\* A database or git call fails; the backend is told.
SourceFails(x) ==
  /\ xstep[x] \in {"remote", "branch", "verify"}
  /\ xstep' = [xstep EXCEPT ![x] = "refused"] /\ Forget(x)
  /\ UNCHANGED <<hvars, searching>>

SourceStep(x) ==
  \/ Prepare(x) \/ RefuseUnprepared(x) \/ ReadSource(x)
  \/ MatchBranch(x) \/ RefuseUnmatched(x)
  \/ Grant(x)

-----------------------------------------------------------------------------
Publication == HNext /\ UNCHANGED <<searching, sourcing>>

Call ==
  \/ \E s \in Searches : StartSearch(s) \/ SearchStep(s) \/ Overdue(s)
  \/ \E x \in Requests : Ask(x) \/ SourceStep(x) \/ SourceFails(x)

Next == Publication \/ Call

Spec == Init /\ [][Next]_vars

\* Calls settle and timers fire.  Nobody has to move, search or ask, and the backend
\* may never end a job.  The poll timer is strong only because it is looked at
\* between tasks.
FairSpec ==
  /\ Spec
  /\ WF_vars(Work /\ UNCHANGED <<searching, sourcing>>)
  /\ WF_vars(QueueTick /\ UNCHANGED <<searching, sourcing>>)
  /\ SF_vars(PollElapses /\ UNCHANGED <<searching, sourcing>>)
  /\ \A s \in Searches :
       /\ WF_vars(SearchStep(s))
       /\ WF_vars(Overdue(s))
  /\ \A x \in Requests : WF_vars(SourceStep(x))

-----------------------------------------------------------------------------
(* Properties.                                                             *)

\* The attach state is one the backend gave: its epoch was given to this device
\* for its remote, and what it calls materialized, which is what a publication is
\* skipped for, was accepted under that epoch and has been indexed.  The state is
\* captured before the awaits of a publication and written back after them.
AttachStateIsTrue ==
  attach # None =>
    /\ attach.epoch \in 1..Len(sources)
    /\ sources[attach.epoch] = [mine |-> TRUE, remote |-> attach.remote]
    /\ attach.materialized # None =>
         /\ attach.materialized.epoch = attach.epoch
         /\ attach.materialized \in accepted
         /\ attach.materialized.head \in indexed

\* A search is told SEARCH_HEAD_CHANGED only if the working tree has moved since
\* it started: the repair, which runs when its turn comes, compares with a head
\* read then, not with what an earlier publication recorded.
ChangedMeansMoved ==
  \A s \in Searches : promise[s] = "changed" => moves > since[s]

\* What is exported or told for an attach epoch is of a working tree whose remote
\* is the one attached under that epoch, however the attach state is replaced
\* between the fence and the reads.
ServedUnderItsEpoch ==
  \A x \in Requests : xstep[x] = "verify" =>
    /\ sources[asked[x]] = [mine |-> TRUE, remote |-> origin[x]]
    /\ x.branch # None => Linked[x.branch] \in {x.repoBranch, None}

\* Once the working tree stays on a branch its head gets a local revision, over
\* rejected publications, lost answers and failures, if the backend ends its jobs.
HeadGetsSearchable ==
  <>[](\A a \in accepted : a.head \in indexed)
    => <>[](registered /\ tree.branch # None => HeadOf(tree) \in local)

\* A search that has started ends, even if the backend never indexes its head: all
\* its repairs share one deadline.
SearchesEnd ==
  \A s \in Searches : sstep[s] # "off" ~> sstep[s] = "ended"
=============================================================================
