----------------------------- MODULE SearchProofs -----------------------------
(***************************************************************************)
(* The safety properties of HeadRequests hold for any working trees,       *)
(* searches, requests and events.  They are proved together: the attach    *)
(* state is what the worker carried over its awaits, a search is answered  *)
(* by the one task that was queued for it, and a request keeps the copy of *)
(* the attach state it was fenced with.                                    *)
(*                                                                         *)
(* Those of ExactSearch hold for any output of `rg` and any semantic       *)
(* answer: the reader has parsed the first lines of what it was given, and *)
(* a merge ranks the items by keys that are a total order.                 *)
(***************************************************************************)
EXTENDS HeadRequests, ExactSearch, FiniteSetTheorems, WellFoundedInduction, TLAPS

\* What AttachStateIsTrue asks of a state.
Given(a) ==
  /\ a.epoch \in 1..Len(sources)
  /\ sources[a.epoch] = [mine |-> TRUE, remote |-> a.remote]
Truth(a) ==
  /\ Given(a)
  /\ a.materialized # None =>
       /\ a.materialized.epoch = a.epoch
       /\ a.materialized \in accepted /\ a.materialized.head \in indexed

\* Epochs are given out one by one, and what happened is counted.
Counted == epoch = Len(sources) /\ moves <= events

\* What the worker carries over the await it is at.
Reads == {"branch", "commit", "attaching", "attached", "syncing", "synced"}
Locals ==
  /\ step = "idle" <=> task = None
  /\ step \in {"checkBranch", "checkCommit"} => task \in Searches
  /\ step = "checkCommit" => seen.branch \in Branches
  /\ step \in Reads => seen.remote \in Remotes
  /\ step \in Reads \ {"branch"} => seen.branch \in Branches
  /\ step \in Reads \ {"branch", "commit"} => seen.commit \in Commits
  /\ step = "attached" => granted \in 1..Len(sources) /\ sources[granted].mine
  /\ step \in {"syncing", "synced"} => active \in AttachStates /\ Truth(active)
  /\ step = "synced" /\ decision = "materialized" =>
       [epoch |-> active.epoch, head |-> SeenHead] \in accepted /\ SeenHead \in indexed

\* A task is queued once, and its search waits for it until it is settled.
Waiting(s) == promise[s] = "queued"
Queued ==
  /\ \A i, j \in 1..Len(queue) : queue[i] = queue[j] => i = j
  /\ \A i \in 1..Len(queue) : queue[i] \in Searches => queue[i] # task /\ Waiting(queue[i])
  /\ task \in Searches => Waiting(task)
  /\ \A s \in Searches : promise[s] # "none" => sstep[s] = "await"
  /\ \A s \in Searches :
       sstep[s] \in {"lookup", "delay", "await", "semantic"} <=> expected[s] \in Heads

\* Until the working tree moves, whoever has read it has read what it is.
Unmoved(s) == moves = since[s]
Faithful ==
  /\ \A s \in Searches : since[s] <= moves
  /\ \A s \in Searches : sstep[s] = "commit" => glimpse[s] \in Branches
  /\ \A s \in Searches : Unmoved(s) /\ sstep[s] = "commit" => glimpse[s] = tree.branch
  /\ \A s \in Searches : Unmoved(s) /\ expected[s] \in Heads => expected[s] = HeadOf(tree)
  /\ step = "checkCommit" /\ Unmoved(task) => seen.branch = tree.branch

\* A request is served under the attach state it was fenced with.
Fences ==
  \A x \in Requests : xstep[x] \in {"remote", "branch", "verify"} =>
    /\ copy[x] \in AttachStates /\ copy[x].epoch = asked[x] /\ Given(copy[x])
    /\ x.branch # None => Linked[x.branch] \in {x.repoBranch, None}
    /\ xstep[x] = "verify" => origin[x] = copy[x].remote

IInv ==
  /\ TypeOK /\ Counted /\ Locals /\ Queued /\ Faithful /\ Fences
  /\ AttachStateIsTrue /\ ChangedMeansMoved

-----------------------------------------------------------------------------
(* What the steps of the worker have in common.                            *)

\* A task that ends: its search, if it has one, learns the result.
Ends(result) ==
  /\ EndTask
  /\ promise' = IF task \in Searches THEN [promise EXCEPT ![task] = result] ELSE promise

\* A task that goes on to its sync.
GoesOn ==
  step' = "sync" /\ UNCHANGED <<task, seen, active, again, granted, decision, promise>>

\* After a publication a task ends, in failure if it is a search's, or syncs.
LEMMA AfterPublishEffect ==
  ASSUME TypeOK, NEW ok \in BOOLEAN, AfterPublish(ok)
  PROVE  Ends("failed") \/ GoesOn
<1>1. task = Tick \/ task \in Searches \/ task = None
  BY DEF TypeOK, HeadTypeOK
<1>2. task = None => [promise EXCEPT ![task] = "failed"] = promise
  BY HeadAssumption DEF TypeOK, HeadTypeOK, HeadAssumption
<1>. QED
  BY <1>1, <1>2, HeadAssumption DEF AfterPublish, Ends, GoesOn, Settle, HeadAssumption

\* A failing call ends the task or lets it sync, and nothing else.
LEMMA FailEffect ==
  ASSUME TypeOK, Fail
  PROVE  /\ Ends("failed") \/ GoesOn
         /\ step # "idle" /\ events' \in {events, events + 1} /\ events' \in 0..MaxEvents
         /\ due' \in BOOLEAN
         /\ UNCHANGED <<world, backend, registered, local, attach, queue, expected, overdue>>
<1>1. Ends("failed") \/ GoesOn
  <2>1. CASE step = "sync" \/ step \in {"checkBranch", "checkCommit"}
    <3>1. EndTask /\ IF task = Tick THEN UNCHANGED promise ELSE Settle(task, "failed")
      BY <2>1 DEF Fail
    <3>2. task = Tick \/ task \in Searches \/ task = None
      BY DEF TypeOK, HeadTypeOK
    <3>3. task = None => [promise EXCEPT ![task] = "failed"] = promise
      BY HeadAssumption DEF TypeOK, HeadTypeOK, HeadAssumption
    <3>. QED
      BY <3>1, <3>2, <3>3, HeadAssumption DEF Ends, Settle, HeadAssumption
  <2>2. CASE ~(step = "sync" \/ step \in {"checkBranch", "checkCommit"})
    BY <2>2, AfterPublishEffect DEF Fail
  <2>. QED
    BY <2>1, <2>2
<1>2. events' \in {events, events + 1} /\ events' \in 0..MaxEvents
  BY HeadAssumption DEF Fail, Happens, TypeOK, HeadTypeOK, HeadAssumption
<1>3. due' \in BOOLEAN
  BY DEF Fail, TypeOK, HeadTypeOK
<1>. QED
  BY <1>1, <1>2, <1>3 DEF Fail

\* The head put together from the branch and the commit that were read.
LEMMA SeenHeads ==
  ASSUME seen.branch \in Branches, seen.commit \in Commits
  PROVE  SeenHead \in Heads
  BY DEF SeenHead, Heads

\* What a git read returns.
LEMMA TreeTypes ==
  ASSUME TypeOK
  PROVE  /\ tree.remote \in Remotes /\ tree.branch \in Branches \union {None}
         /\ tree.commit \in Commits
         /\ tree.branch # None => tree.branch \in Branches /\ HeadOf(tree) \in Heads
  BY HeadAssumption DEF TypeOK, HeadTypeOK, HeadAssumption, HeadOf, Heads

\* What is in a sequence has its type.
LEMMA Elements == ASSUME NEW S, NEW s \in Seq(S), NEW i \in 1..Len(s) PROVE s[i] \in S
  OBVIOUS

\* Appending keeps what is there.
LEMMA AppendKeeps ==
  ASSUME NEW S, NEW s \in Seq(S), NEW e \in S, NEW i \in 1..Len(s)
  PROVE  i \in 1..Len(Append(s, e)) /\ Append(s, e)[i] = s[i]
  OBVIOUS

\* A state whose observed head is replaced.
LEMMA ObservedTypes ==
  ASSUME NEW a \in AttachStates, NEW o \in Heads \union {None}
  PROVE  [a EXCEPT !.observed = o] \in AttachStates
  BY DEF AttachStates

-----------------------------------------------------------------------------
(* Types.                                                                  *)

SearchTypeOK ==
  /\ callers \subseteq Searches \union Requests
  /\ sstep \in [Searches -> {"off", "branch", "commit", "lookup", "delay", "await",
                             "semantic", "ended"}]
  /\ glimpse \in [Searches -> Branches \union {None}]
  /\ since \in [Searches -> 0..MaxEvents]
  /\ xstep \in [Requests -> {"off", "asked", "remote", "branch", "verify",
                             "granted", "refused"}]
  /\ asked \in [Requests -> Nat] /\ copy \in [Requests -> AttachStates \union {None}]
  /\ origin \in [Requests -> Remotes \union {None}]

\* The surroundings keep the types.
LEMMA WorldTypes ==
  ASSUME IInv, Move \/ OtherAttach \/ Index \/ Unregister \/ PollElapses \/ QueueTick
  PROVE  HeadTypeOK'
<1>. USE HeadAssumption DEF IInv, TypeOK, HeadTypeOK, HeadAssumption, hvars, world, backend,
       project, worker, repairs
<1>1. CASE Move
  <2>1. tree' \in Trees /\ moves' = moves + 1 /\ events' = events + 1 /\ events < MaxEvents
    BY <1>1 DEF Move, Happens
  <2>2. moves' \in 0..MaxEvents /\ events' \in 0..MaxEvents
    BY <2>1 DEF Counted
  <2>. QED
    BY <1>1, <2>1, <2>2 DEF Move
<1>2. CASE OtherAttach
  BY <1>2 DEF OtherAttach, Happens
<1>3. CASE Index
  BY <1>3 DEF Index
<1>4. CASE Unregister
  <2>1. events' \in 0..MaxEvents
    BY <1>4 DEF Unregister, Happens
  <2>2. registered' = FALSE /\ local' = {} /\ UNCHANGED <<world, backend, due, attach, queue, worker, repairs>>
    BY <1>4 DEF Unregister
  <2>3. local' \in SUBSET Heads /\ registered' \in BOOLEAN
    BY <2>2
  <2>. QED
    BY <2>1, <2>2, <2>3
<1>5. CASE PollElapses
  BY <1>5 DEF PollElapses
<1>6. CASE QueueTick
  BY <1>6 DEF QueueTick
<1>. QED
  BY <1>1, <1>2, <1>3, <1>4, <1>5, <1>6

\* Whether a task ends or goes on, what is its own keeps its type.
WorkerTypeOK ==
  /\ task \in Searches \union {Tick, None}
  /\ step \in {"idle", "checkBranch", "checkCommit", "remote", "branch", "commit",
               "attaching", "attached", "syncing", "synced", "sync"}
  /\ seen \in [remote : Remotes \union {None}, branch : Branches \union {None},
               commit : Commits \union {None}]
  /\ active \in AttachStates \union {None} /\ again \in BOOLEAN /\ granted \in Nat
  /\ decision \in {"none", "materialized", "queued", "stale_rejected"}
  /\ promise \in [Searches -> {"none", "queued", "synced", "expired", "changed", "failed"}]

\* A task that ends or goes on keeps them.
LEMMA EndTypes ==
  ASSUME TypeOK,
         GoesOn \/ Ends("failed") \/ Ends("changed") \/ Ends("synced")
  PROVE  WorkerTypeOK'
<1>1. CASE GoesOn
  BY <1>1 DEF GoesOn, WorkerTypeOK, TypeOK, HeadTypeOK
<1>2. CASE ~GoesOn
  <2>1. promise' \in [Searches -> {"none", "queued", "synced", "expired", "changed", "failed"}]
    <3>1. promise \in [Searches -> {"none", "queued", "synced", "expired", "changed", "failed"}]
      BY DEF TypeOK, HeadTypeOK
    <3>2. \A r \in {"failed", "changed", "synced"} :
            [promise EXCEPT ![task] = r]
              \in [Searches -> {"none", "queued", "synced", "expired", "changed", "failed"}]
      BY <3>1
    <3>. QED
      BY <1>2, <3>1, <3>2 DEF Ends
  <2>. QED
    <3>1. EndTask
      BY <1>2 DEF Ends
    <3>. QED
      BY <2>1, <3>1 DEF EndTask, Nowhere, WorkerTypeOK
<1>. QED
  BY <1>1, <1>2
-----------------------------------------------------------------------------
\* The worker keeps the types.
LEMMA WorkTypes ==
  ASSUME IInv, Work \/ Fail
  PROVE  HeadTypeOK'
<1>. USE HeadAssumption DEF HeadAssumption, hvars, world, backend, project, worker, repairs
<1>0. HeadTypeOK /\ TypeOK
  BY DEF IInv, TypeOK
<1>1. CASE StartTick
  BY <1>0, <1>1, TreeTypes DEF StartTick, HeadTypeOK
<1>2. CASE StartRepair
  BY <1>0, <1>2 DEF StartRepair, Settle, HeadTypeOK
<1>3. CASE CheckBranch
  <2>1. task \in Searches
    BY <1>3 DEF CheckBranch, IInv, Locals
  <2>2. UNCHANGED <<world, backend, events, project, attach, queue, expected, overdue>>
    BY <1>3 DEF CheckBranch
  <2>3. WorkerTypeOK'
    <3>1. CASE tree.branch = None
      BY <1>0, <1>3, <2>1, <3>1, EndTypes DEF CheckBranch, Settle, Ends
    <3>2. CASE tree.branch # None
      BY <1>0, <1>3, <3>2, TreeTypes DEF CheckBranch, HeadTypeOK, WorkerTypeOK
    <3>. QED
      BY <3>1, <3>2
  <2>. QED
    BY <1>0, <2>2, <2>3 DEF HeadTypeOK, WorkerTypeOK
<1>4. CASE CheckCommit
  BY <1>0, <1>4, TreeTypes, EndTypes DEF CheckCommit, HeadTypeOK, IInv, Locals, Ends,
     WorkerTypeOK, Settle, Nowhere
<1>5. CASE ReadRemote
  BY <1>0, <1>5, TreeTypes DEF ReadRemote, HeadTypeOK
<1>6. CASE ReadBranch
  <2>1. attach' \in AttachStates \union {None}
    <3>1. attach' = attach \/ (attach # None /\ attach' = [attach EXCEPT !.observed = None])
      BY <1>6 DEF ReadBranch
    <3>2. attach \in AttachStates \union {None}
      BY <1>0 DEF HeadTypeOK
    <3>. QED
      BY <3>1, <3>2, ObservedTypes
  <2>2. UNCHANGED <<world, backend, events, project, queue, expected, overdue>>
    BY <1>6 DEF ReadBranch
  <2>3. WorkerTypeOK'
    <3>1. CASE tree.branch = None
      BY <1>0, <1>6, <3>1, AfterPublishEffect, EndTypes DEF ReadBranch
    <3>2. CASE tree.branch # None
      BY <1>0, <1>6, <3>2, TreeTypes DEF ReadBranch, HeadTypeOK, WorkerTypeOK
    <3>. QED
      BY <3>1, <3>2
  <2>. QED
    BY <1>0, <2>1, <2>2, <2>3 DEF HeadTypeOK, WorkerTypeOK
<1>7. CASE ReadCommit
  <2>. DEFINE head == [branch |-> seen.branch, commit |-> tree.commit]
              state == [attach EXCEPT !.observed = head]
  <2>1. head \in Heads
    BY <1>0, <1>7, TreeTypes DEF ReadCommit, IInv, Locals, Reads, Heads
  <2>2. attach # None => state \in AttachStates
    BY <1>0, <2>1, ObservedTypes DEF HeadTypeOK
  <2>3. UNCHANGED <<world, backend, events, project, queue, expected, overdue>>
    BY <1>7 DEF ReadCommit
  <2>4. attach' = attach \/ (attach # None /\ attach' = state)
    BY <1>7 DEF ReadCommit
  <2>5. \/ AfterPublish(TRUE)
        \/ /\ seen' = [seen EXCEPT !.commit = tree.commit] /\ step' \in {"attaching", "syncing"}
           /\ active' = active \/ (attach # None /\ active' = state)
           /\ UNCHANGED <<task, again, granted, decision, promise>>
    BY <1>7 DEF ReadCommit
  <2>6. WorkerTypeOK'
    BY <1>0, <2>2, <2>5, TreeTypes, AfterPublishEffect, EndTypes DEF HeadTypeOK, WorkerTypeOK
  <2>7. attach' \in AttachStates \union {None}
    BY <1>0, <2>2, <2>4 DEF HeadTypeOK
  <2>. QED
    BY <1>0, <2>3, <2>6, <2>7 DEF HeadTypeOK, WorkerTypeOK
<1>8. CASE BackendAttaches
  BY <1>0, <1>8 DEF BackendAttaches, HeadTypeOK, IInv, Locals, Reads
<1>9. CASE Attached
  <2>1. granted \in 1..Len(sources) /\ seen.branch \in Branches /\ seen.commit \in Commits
    BY <1>9 DEF Attached, IInv, Locals, Reads
  <2>2. sources[granted] \in [mine : BOOLEAN, remote : Remotes] /\ granted \in Nat
    <3>1. sources \in Seq([mine : BOOLEAN, remote : Remotes])
      BY <1>0 DEF HeadTypeOK
    <3>2. sources[granted] \in [mine : BOOLEAN, remote : Remotes]
      BY <2>1, <3>1, Elements
    <3>. QED
      BY <2>1, <3>2
  <2>3. FreshState(sources[granted].remote) \in AttachStates
    BY <2>1, <2>2, SeenHeads DEF FreshState, AttachStates
  <2>. QED
    BY <1>0, <1>9, <2>3 DEF Attached, HeadTypeOK
<1>10. CASE BackendSyncs
  BY <1>0, <1>10, SeenHeads DEF BackendSyncs, HeadTypeOK, IInv, Locals, Reads
<1>11. CASE Reattach
  BY <1>0, <1>11 DEF Reattach, HeadTypeOK
<1>12. CASE GiveUp
  BY <1>0, <1>12, AfterPublishEffect, EndTypes DEF GiveUp, HeadTypeOK, WorkerTypeOK
<1>13. CASE UpdateSyncedState
  BY <1>0, <1>13, AfterPublishEffect, EndTypes, SeenHeads DEF UpdateSyncedState, RecordHead,
     HeadTypeOK, WorkerTypeOK, IInv, Locals, Reads, AttachStates, Materializations
<1>14. CASE SyncProject
  BY <1>0, <1>14, EndTypes DEF SyncProject, HeadTypeOK, WorkerTypeOK, Settle, Ends, IInv, Locals
<1>15. CASE Fail
  BY <1>0, <1>15, FailEffect, EndTypes DEF HeadTypeOK, WorkerTypeOK
<1>. QED
  BY <1>1, <1>2, <1>3, <1>4, <1>5, <1>6, <1>7, <1>8, <1>9, <1>10, <1>11, <1>12, <1>13, <1>14,
     <1>15 DEF Work
-----------------------------------------------------------------------------
\* The rest keeps the types.
LEMMA SearchStepTypes ==
  ASSUME IInv, NEW s \in Searches, StartSearch(s) \/ SearchStep(s) \/ Overdue(s)
  PROVE  TypeOK'
<1>. USE HeadAssumption DEF HeadAssumption, hvars, world, backend, project, worker, repairs,
         sourcing
<1>0. HeadTypeOK /\ SearchTypeOK /\ TypeOK
  BY DEF IInv, TypeOK, SearchTypeOK
<1>1. CASE StartSearch(s)
  BY <1>0, <1>1 DEF StartSearch, Searching, HeadTypeOK, TypeOK
<1>2. CASE SearchBranch(s)
  BY <1>0, <1>2, TreeTypes DEF SearchBranch, Searching, HeadTypeOK, TypeOK
<1>3. CASE SearchCommit(s)
  <2>1. expected' \in [Searches -> Heads \union {None}]
    BY <1>0, <1>3, TreeTypes DEF SearchCommit, Searching, IInv, Faithful, Heads, HeadTypeOK
  <2>2. sstep' = [sstep EXCEPT ![s] = "lookup"] /\ glimpse' = [glimpse EXCEPT ![s] = None]
    BY <1>3 DEF SearchCommit, Searching
  <2>. QED
    BY <1>0, <1>3, <2>1, <2>2 DEF SearchCommit, HeadTypeOK, TypeOK
<1>4. CASE FindRevisionForHead(s)
  BY <1>0, <1>4 DEF FindRevisionForHead, Searching, Lookup, HeadTypeOK, TypeOK
<1>5. CASE AskRepair(s)
  BY <1>0, <1>5 DEF AskRepair, Searching, Settle, HeadTypeOK, TypeOK
<1>6. CASE Repaired(s)
  BY <1>0, <1>6 DEF Repaired, Searching, Settle, Lookup, HeadTypeOK, TypeOK
<1>7. CASE EndSearch(s)
  BY <1>0, <1>7 DEF EndSearch, HeadTypeOK, TypeOK
<1>8. CASE Overdue(s)
  BY <1>0, <1>8 DEF Overdue, searching, HeadTypeOK, TypeOK
<1>. QED
  BY <1>1, <1>2, <1>3, <1>4, <1>5, <1>6, <1>7, <1>8
     DEF SearchStep, SearchDetached, NotReady, NotRepaired, SearchDone

\* Source requests keep the types (exportSnapshot, queryCommitGraph).
LEMMA RequestTypes ==
  ASSUME IInv, NEW x \in Requests, Ask(x) \/ SourceStep(x) \/ SourceFails(x)
  PROVE  TypeOK'
<1>. USE DEF hvars, world, backend, project, worker, repairs, searching
<1>0. HeadTypeOK /\ SearchTypeOK /\ TypeOK
  BY DEF IInv, TypeOK, SearchTypeOK
<1>1. UNCHANGED <<hvars, searching>>
  BY DEF Ask, SourceStep, SourceFails, Prepare, RefuseUnprepared, ReadSource, MatchBranch,
         RefuseUnmatched, Grant
<1>2. HeadTypeOK'
  BY <1>0, <1>1 DEF HeadTypeOK
<1>3. /\ xstep' \in [Requests -> {"off", "asked", "remote", "branch", "verify",
                                  "granted", "refused"}]
      /\ asked' \in [Requests -> Nat] /\ copy' \in [Requests -> AttachStates \union {None}]
      /\ origin' \in [Requests -> Remotes \union {None}]
  <2>1. CASE Ask(x)
    BY <1>0, <2>1 DEF Ask, Go, HeadTypeOK, SearchTypeOK
  <2>2. CASE Prepare(x)
    BY <1>0, <2>2 DEF Prepare, Go, HeadTypeOK, SearchTypeOK
  <2>3. CASE ReadSource(x)
    BY <1>0, <2>3, TreeTypes DEF ReadSource, Go, SearchTypeOK
  <2>4. CASE MatchBranch(x)
    BY <1>0, <2>4 DEF MatchBranch, Go, SearchTypeOK
  <2>5. CASE Forget(x) /\ xstep' \in {[xstep EXCEPT ![x] = "refused"], [xstep EXCEPT ![x] = "granted"]}
    BY <1>0, <2>5 DEF Forget, SearchTypeOK
  <2>. QED
    BY <2>1, <2>2, <2>3, <2>4, <2>5
       DEF SourceStep, SourceFails, RefuseUnprepared, RefuseUnmatched, Grant, Go
<1>. QED
  BY <1>0, <1>1, <1>2, <1>3 DEF TypeOK, SearchTypeOK

\* Every step keeps the types.
LEMMA TypeStep ==
  ASSUME IInv, Next
  PROVE  TypeOK'
<1>1. CASE Publication
  <2>1. HeadTypeOK'
    BY <1>1, WorldTypes, WorkTypes DEF Publication, HNext
  <2>. QED
    BY <1>1, <2>1 DEF Publication, searching, sourcing, IInv, TypeOK
<1>. QED
  BY <1>1, SearchStepTypes, RequestTypes DEF Next, Call
-----------------------------------------------------------------------------
(* What is true of the attach state.                                       *)

\* What was true of a state stays true as epochs, heads and indexes are added.
LEMMA TruthGrows ==
  ASSUME NEW a, Truth(a), sources \in Seq([mine : BOOLEAN, remote : Remotes]),
         \/ sources' = sources
         \/ \E r \in Remotes, m \in BOOLEAN : sources' = Append(sources, [mine |-> m, remote |-> r]),
         accepted \subseteq accepted', indexed \subseteq indexed'
  PROVE  /\ a.epoch \in 1..Len(sources')
         /\ sources'[a.epoch] = [mine |-> TRUE, remote |-> a.remote]
         /\ a.materialized # None =>
              /\ a.materialized.epoch = a.epoch
              /\ a.materialized \in accepted' /\ a.materialized.head \in indexed'
<1>1. a.epoch \in 1..Len(sources') /\ sources'[a.epoch] = sources[a.epoch]
  <2>1. a.epoch \in 1..Len(sources)
    BY DEF Truth, Given
  <2>2. ASSUME NEW r \in Remotes, NEW m \in BOOLEAN,
               sources' = Append(sources, [mine |-> m, remote |-> r])
        PROVE  a.epoch \in 1..Len(sources') /\ sources'[a.epoch] = sources[a.epoch]
    <3>1. [mine |-> m, remote |-> r] \in [mine : BOOLEAN, remote : Remotes]
      OBVIOUS
    <3>. QED
      BY <2>1, <2>2, <3>1, AppendKeeps
  <2>. QED
    BY <2>1, <2>2
<1>. QED
  BY <1>1 DEF Truth, Given

\* The backend only adds.
LEMMA BackendGrows ==
  ASSUME IInv, Next
  PROVE  /\ \/ sources' = sources
            \/ \E r \in Remotes, m \in BOOLEAN :
                 sources' = Append(sources, [mine |-> m, remote |-> r])
         /\ accepted \subseteq accepted' /\ indexed \subseteq indexed'
<1>. USE DEF hvars, world, backend, project, worker, repairs, searching, sourcing
<1>1. CASE Call
  <2>1. UNCHANGED backend
    BY <1>1 DEF Call, StartSearch, SearchStep, Overdue, SearchBranch, SearchDetached,
       SearchCommit, FindRevisionForHead, AskRepair, NotReady, Repaired, NotRepaired,
       SearchDone, EndSearch, Ask, SourceStep, SourceFails, Prepare, RefuseUnprepared,
       ReadSource, MatchBranch, RefuseUnmatched, Grant
  <2>. QED
    BY <2>1
<1>2. CASE OtherAttach
  BY <1>2 DEF OtherAttach
<1>3. CASE BackendAttaches
  BY <1>3 DEF BackendAttaches, IInv, Locals, Reads
<1>4. CASE Index
  BY <1>4 DEF Index
<1>5. CASE BackendSyncs
  BY <1>5 DEF BackendSyncs
<1>6. CASE Publication /\ ~OtherAttach /\ ~BackendAttaches /\ ~Index /\ ~BackendSyncs
  <2>1. UNCHANGED backend
    BY <1>6 DEF Publication, HNext, Work, Fail, Move, Unregister, PollElapses, QueueTick,
       StartTick, StartRepair, CheckBranch, CheckCommit, ReadRemote, ReadBranch, ReadCommit,
       Attached, Reattach, GiveUp, UpdateSyncedState, SyncProject
  <2>. QED
    BY <2>1
<1>. QED
  BY <1>1, <1>2, <1>3, <1>4, <1>5, <1>6 DEF Next

\* So what is true of any state stays so, whatever step is taken.
LEMMA TruthStays ==
  ASSUME IInv, Next, NEW a, Truth(a)
  PROVE  /\ a.epoch \in 1..Len(sources')
         /\ sources'[a.epoch] = [mine |-> TRUE, remote |-> a.remote]
         /\ a.materialized # None =>
              /\ a.materialized.epoch = a.epoch
              /\ a.materialized \in accepted' /\ a.materialized.head \in indexed'
  BY BackendGrows, TruthGrows DEF IInv, TypeOK, HeadTypeOK

\* Epochs are counted with the sources that got them, moves with the events.
LEMMA CountedStep ==
  ASSUME IInv, Next
  PROVE  Counted'
<1>. USE DEF hvars, world, backend, project, worker, repairs, searching, sourcing
<1>0. Counted /\ HeadTypeOK
  BY DEF IInv, TypeOK
<1>1. CASE Call
  <2>1. UNCHANGED <<backend, world, events>>
    BY <1>1 DEF Call, StartSearch, SearchStep, Overdue, SearchBranch, SearchDetached,
       SearchCommit, FindRevisionForHead, AskRepair, NotReady, Repaired, NotRepaired,
       SearchDone, EndSearch, Ask, SourceStep, SourceFails, Prepare, RefuseUnprepared,
       ReadSource, MatchBranch, RefuseUnmatched, Grant
  <2>. QED
    BY <1>0, <2>1 DEF Counted
<1>2. CASE OtherAttach
  BY <1>0, <1>2 DEF OtherAttach, Happens, Counted, HeadTypeOK
<1>3. CASE BackendAttaches
  BY <1>0, <1>3 DEF BackendAttaches, Counted, HeadTypeOK
<1>4. CASE Move
  BY <1>0, <1>4 DEF Move, Happens, Counted, HeadTypeOK
<1>5. CASE Fail
  BY <1>0, <1>5, FailEffect DEF IInv, Counted, HeadTypeOK
<1>6. CASE Publication /\ ~OtherAttach /\ ~BackendAttaches /\ ~Move /\ ~Fail
  <2>1. UNCHANGED <<epoch, sources, moves>> /\ events' \in {events, events + 1}
    BY <1>6 DEF Publication, HNext, Work, Index, Unregister, PollElapses, QueueTick, Happens,
       StartTick, StartRepair, CheckBranch, CheckCommit, ReadRemote, ReadBranch, ReadCommit,
       Attached, BackendSyncs, Reattach, GiveUp, UpdateSyncedState, SyncProject
  <2>. QED
    BY <1>0, <2>1 DEF Counted, HeadTypeOK
<1>. QED
  BY <1>1, <1>2, <1>3, <1>4, <1>5, <1>6 DEF Next

\* Calls from outside the queue leave the worker and the attach state alone.
LEMMA CallLeavesWorker ==
  ASSUME Call
  PROVE  /\ UNCHANGED <<tree, moves, epoch, sources, accepted, indexed, events>>
         /\ UNCHANGED <<registered, local, due, attach>>
         /\ UNCHANGED <<task, step, seen, active, again, granted, decision>>
  BY DEF Call, StartSearch, SearchStep, Overdue, SearchBranch, SearchDetached,
     SearchCommit, FindRevisionForHead, AskRepair, NotReady, Repaired, NotRepaired,
     SearchDone, EndSearch, Ask, SourceStep, SourceFails, Prepare, RefuseUnprepared,
     ReadSource, MatchBranch, RefuseUnmatched, Grant,
     hvars, world, backend, project, worker, repairs, searching, sourcing

\* So do the surroundings.
Outside == Move \/ OtherAttach \/ Index \/ Unregister \/ PollElapses \/ QueueTick
LEMMA OutsideLeavesWorker ==
  ASSUME Outside
  PROVE  UNCHANGED <<task, step, seen, active, again, granted, decision, attach, promise, expected>>
  BY DEF Outside, Move, OtherAttach, Index, Unregister, PollElapses, QueueTick,
     hvars, world, backend, project, worker, repairs

\* What the worker carries is right at every await.
LEMMA LocalsStep ==
  ASSUME IInv, Next
  PROVE  Locals'
<1>. USE HeadAssumption DEF HeadAssumption, world, backend, project, worker, repairs
<1>0. HeadTypeOK /\ TypeOK /\ Locals /\ Counted
  BY DEF IInv, TypeOK
<1>1. CASE UNCHANGED <<task, step, seen, active, granted, decision>>
  <2>1. step = "attached" => granted \in 1..Len(sources') /\ sources'[granted].mine
    <3>1. ASSUME NEW r \in Remotes, NEW m \in BOOLEAN, granted \in 1..Len(sources),
                 sources' = Append(sources, [mine |-> m, remote |-> r])
          PROVE  granted \in 1..Len(sources') /\ sources'[granted] = sources[granted]
      <4>1. [mine |-> m, remote |-> r] \in [mine : BOOLEAN, remote : Remotes]
        OBVIOUS
      <4>. QED
        BY <1>0, <3>1, <4>1, AppendKeeps DEF HeadTypeOK
    <3>. QED
      BY <1>0, <3>1, BackendGrows DEF Locals
  <2>2. step \in {"syncing", "synced"} => Truth(active)'
    BY <1>0, <1>1, TruthStays DEF Locals, Truth, Given
  <2>3. step = "synced" /\ decision = "materialized" =>
          [epoch |-> active.epoch, head |-> SeenHead] \in accepted' /\ SeenHead \in indexed'
    BY <1>0, BackendGrows DEF Locals
  <2>. QED
    BY <1>0, <1>1, <2>1, <2>2, <2>3 DEF Locals, SeenHead
<1>2. CASE Ends("failed") \/ Ends("changed") \/ Ends("synced")
  BY <1>2 DEF Ends, EndTask, Locals, Reads
<1>3. CASE GoesOn /\ step # "idle"
  BY <1>0, <1>3 DEF GoesOn, Locals, Reads
<1>4. CASE StartTick \/ StartRepair
  BY <1>0, <1>1, <1>4, TreeTypes DEF StartTick, StartRepair, Locals, Reads, HeadTypeOK
<1>5. CASE CheckBranch
  BY <1>0, <1>2, <1>5, TreeTypes DEF CheckBranch, Locals, Reads, Settle, Ends, HeadTypeOK
<1>6. CASE CheckCommit
  BY <1>0, <1>2, <1>6, TreeTypes DEF CheckCommit, Locals, Reads, Settle, Ends, HeadTypeOK
<1>7. CASE ReadRemote
  BY <1>0, <1>7, TreeTypes DEF ReadRemote, Locals, Reads, HeadTypeOK
<1>8. CASE ReadBranch
  BY <1>0, <1>2, <1>3, <1>8, TreeTypes, AfterPublishEffect DEF ReadBranch, Locals, Reads, HeadTypeOK
<1>9. CASE ReadCommit
  <2>. DEFINE head == [branch |-> seen.branch, commit |-> tree.commit]
              state == [attach EXCEPT !.observed = head]
  <2>0. /\ step = "commit" /\ UNCHANGED <<sources, accepted, indexed>>
        /\ task # None /\ seen.remote \in Remotes /\ seen.branch \in Branches
        /\ tree.commit \in Commits /\ head \in Heads
    BY <1>0, <1>9, TreeTypes DEF ReadCommit, Locals, Reads, Heads
  <2>1. CASE AfterPublish(TRUE)
    BY <1>0, <1>2, <1>3, <2>0, <2>1, AfterPublishEffect
  <2>2. CASE /\ seen' = [seen EXCEPT !.commit = tree.commit] /\ step' = "attaching"
             /\ UNCHANGED <<task, active, again, granted, decision, promise>>
    BY <1>0, <2>0, <2>2 DEF Locals, Reads, HeadTypeOK
  <2>3. CASE /\ attach # None /\ active' = state /\ step' = "syncing"
             /\ seen' = [seen EXCEPT !.commit = tree.commit]
             /\ UNCHANGED <<task, again, granted, decision, promise>>
    <3>1. attach \in AttachStates /\ Truth(attach)
      BY <1>0, <2>3 DEF HeadTypeOK, IInv, AttachStateIsTrue, Truth, Given
    <3>2. state \in AttachStates /\ Truth(state)
      BY <2>0, <3>1 DEF AttachStates, Truth, Given
    <3>3. Truth(active)'
      BY <2>0, <2>3, <3>2 DEF Truth, Given
    <3>4. seen'.remote = seen.remote /\ seen'.branch = seen.branch /\ seen'.commit \in Commits
      BY <1>0, <2>0, <2>3 DEF HeadTypeOK
    <3>. QED
      BY <1>0, <2>0, <2>3, <3>2, <3>3, <3>4 DEF Locals, Reads
  <2>. QED
    BY <1>9, <2>1, <2>2, <2>3 DEF ReadCommit
<1>10. CASE BackendAttaches
  BY <1>0, <1>10 DEF BackendAttaches, Locals, Reads, Counted, HeadTypeOK
<1>11. CASE Attached
  <2>1. /\ step = "attached" /\ step' = "syncing" /\ granted \in 1..Len(sources)
        /\ sources[granted].mine /\ task # None
        /\ seen.remote \in Remotes /\ seen.branch \in Branches /\ seen.commit \in Commits
        /\ active' = FreshState(sources[granted].remote)
        /\ UNCHANGED <<sources, accepted, indexed, task, seen>>
    BY <1>0, <1>11 DEF Attached, Locals, Reads
  <2>2. sources[granted] \in [mine : BOOLEAN, remote : Remotes] /\ granted \in Nat
    <3>1. sources \in Seq([mine : BOOLEAN, remote : Remotes]) /\ granted \in Nat
      BY <1>0 DEF HeadTypeOK
    <3>2. sources[granted] \in [mine : BOOLEAN, remote : Remotes]
      BY <2>1, <3>1, Elements
    <3>. QED
      BY <3>1, <3>2
  <2>3. active' \in AttachStates
    BY <2>1, <2>2, SeenHeads DEF FreshState, AttachStates
  <2>4. Truth(active)'
    BY <2>1, <2>2 DEF FreshState, Truth, Given
  <2>. QED
    BY <2>1, <2>3, <2>4 DEF Locals, Reads
<1>12. CASE BackendSyncs
  BY <1>0, <1>12 DEF BackendSyncs, Locals, Reads, HeadTypeOK, Truth, Given, SeenHead
<1>13. CASE Reattach
  BY <1>0, <1>13 DEF Reattach, Locals, Reads
<1>14. CASE GiveUp \/ UpdateSyncedState
  BY <1>0, <1>2, <1>3, <1>14, AfterPublishEffect DEF GiveUp, UpdateSyncedState
<1>15. CASE SyncProject
  <2>1. Ends("synced")
    BY <1>0, <1>15 DEF SyncProject, Ends, Settle, Locals, HeadTypeOK
  <2>. QED
    BY <1>2, <2>1
<1>16. CASE Fail
  BY <1>0, <1>2, <1>3, <1>16, FailEffect
<1>17. CASE Call
  BY <1>1, <1>17, CallLeavesWorker
<1>18. CASE Outside
  BY <1>1, <1>18, OutsideLeavesWorker
<1>. QED
  BY <1>4, <1>5, <1>6, <1>7, <1>8, <1>9, <1>10, <1>11, <1>12, <1>13, <1>14, <1>15, <1>16, <1>17,
     <1>18 DEF Next, Publication, HNext, Work, Outside

\* Once a search's task is settled it is neither queued nor running.
LEMMA SettledIsOut ==
  ASSUME IInv, NEW s \in Searches, promise[s] # "queued"
  PROVE  task # s /\ \A i \in 1..Len(queue) : queue[i] # s
  BY DEF IInv, Queued, Waiting

\* A search that ends had nothing queued.
LEMMA EndsSettled ==
  ASSUME IInv, NEW s \in Searches,
         SearchDetached(s) \/ NotReady(s) \/ NotRepaired(s) \/ SearchDone(s)
  PROVE  EndSearch(s) /\ promise[s] # "queued"
  BY DEF IInv, Queued, SearchDetached, NotReady, NotRepaired, SearchDone

\* The worker's steps other than the start of a task leave the queue, and of the
\* task either nothing changes for its search or it learns how it ended.
LEMMA WorkEffect ==
  ASSUME IInv, Work \/ Fail, ~StartTick, ~StartRepair
  PROVE  /\ UNCHANGED <<queue, tree, moves, expected>>
         /\ \/ UNCHANGED <<task, promise>>
            \/ Ends("failed") \/ Ends("changed") \/ Ends("synced")
<1>. USE HeadAssumption DEF HeadAssumption, world, backend, project, worker, repairs
<1>0. HeadTypeOK /\ TypeOK /\ Locals
  BY DEF IInv, TypeOK
<1>1. CASE CheckBranch \/ CheckCommit
  BY <1>0, <1>1 DEF CheckBranch, CheckCommit, Settle, Ends, Locals
<1>2. CASE ReadRemote \/ BackendAttaches \/ Attached \/ BackendSyncs \/ Reattach
  BY <1>2 DEF ReadRemote, BackendAttaches, Attached, BackendSyncs, Reattach
<1>3. CASE ReadBranch
  BY <1>0, <1>3, AfterPublishEffect DEF ReadBranch, GoesOn
<1>4. CASE ReadCommit
  BY <1>0, <1>4, AfterPublishEffect DEF ReadCommit, GoesOn
<1>5. CASE GiveUp \/ UpdateSyncedState
  BY <1>0, <1>5, AfterPublishEffect DEF GiveUp, UpdateSyncedState, GoesOn
<1>6. CASE SyncProject
  BY <1>0, <1>6 DEF SyncProject, Settle, Ends, Locals, HeadTypeOK
<1>7. CASE Fail
  BY <1>0, <1>7, FailEffect DEF GoesOn
<1>. QED
  BY <1>1, <1>2, <1>3, <1>4, <1>5, <1>6, <1>7 DEF Work

\* Each search's task is queued once at most and settled once.
LEMMA QueuedStep ==
  ASSUME IInv, Next
  PROVE  Queued'
<1>. USE HeadAssumption DEF HeadAssumption, hvars, world, backend, project, worker, repairs,
         searching, sourcing
<1>0. HeadTypeOK /\ SearchTypeOK /\ TypeOK /\ Queued
  BY DEF IInv, TypeOK, SearchTypeOK
<1>1. CASE UNCHANGED <<queue, task, promise, sstep, expected>>
  BY <1>0, <1>1 DEF Queued, Waiting
<1>2. ASSUME NEW r \in {"failed", "changed", "synced"}, Ends(r),
             UNCHANGED <<queue, sstep, expected>>
      PROVE  Queued'
  <2>1. /\ task' = None /\ \A s \in Searches \ {task} : promise'[s] = promise[s]
        /\ task \in Searches => promise'[task] = r
    BY <1>0, <1>2 DEF Ends, EndTask, HeadTypeOK
  <2>2. \A i \in 1..Len(queue) : queue[i] # None
    BY <1>0, Elements DEF HeadTypeOK
  <2>. QED
    BY <1>0, <1>2, <2>1, <2>2 DEF Queued, Waiting
<1>3. CASE (Work \/ Fail) /\ ~StartTick /\ ~StartRepair /\ UNCHANGED searching
  BY <1>1, <1>2, <1>3, WorkEffect
<1>4. CASE (StartTick \/ StartRepair) /\ UNCHANGED searching
  <2>1. queue # <<>> /\ queue' = Tail(queue) /\ task = None /\ UNCHANGED <<sstep, expected>>
    BY <1>4 DEF StartTick, StartRepair
  <2>2. /\ Len(queue) \in Nat \ {0} /\ Len(queue') = Len(queue) - 1
        /\ \A i \in 1..Len(queue') : queue'[i] = queue[i + 1] /\ i + 1 \in 1..Len(queue)
        /\ Head(queue) = queue[1] /\ 1 \in 1..Len(queue)
    BY <1>0, <2>1 DEF HeadTypeOK
  <2>3. \A i, j \in 1..Len(queue') : queue'[i] = queue'[j] => i = j
    BY <1>0, <2>2 DEF Queued
  <2>4. \A i \in 1..Len(queue') : queue'[i] # Head(queue)
    BY <1>0, <2>2 DEF Queued
  <2>5. CASE task' = None
    <3>1. \A i \in 1..Len(queue) : queue[i] # None
      BY <1>0, Elements DEF HeadTypeOK
    <3>2. \A s \in Searches \ {Head(queue)} : promise'[s] = promise[s]
      BY <1>0, <1>4 DEF StartTick, StartRepair, Settle, HeadTypeOK
    <3>3. Head(queue) \in Searches => promise[Head(queue)] # "none"
      BY <1>0, <2>2 DEF Queued, Waiting
    <3>. QED
      BY <1>0, <2>1, <2>2, <2>3, <2>4, <2>5, <3>1, <3>2, <3>3 DEF Queued, Waiting
  <2>6. CASE task' # None
    <3>1. task' = Head(queue) /\ promise' = promise
      BY <1>4, <2>1, <2>6 DEF StartTick, StartRepair
    <3>. QED
      BY <1>0, <2>1, <2>2, <2>3, <2>4, <3>1 DEF Queued, Waiting
  <2>. QED
    BY <2>5, <2>6
<1>5. CASE QueueTick /\ UNCHANGED searching
  <2>1. /\ queue' = Append(queue, Tick) /\ task # Tick /\ \A i \in 1..Len(queue) : queue[i] # Tick
        /\ UNCHANGED <<task, promise, sstep, expected>>
    BY <1>5 DEF QueueTick
  <2>2. /\ Len(queue') = Len(queue) + 1 /\ queue'[Len(queue')] = Tick
        /\ \A i \in 1..Len(queue') : (i \in 1..Len(queue) /\ queue'[i] = queue[i]) \/ i = Len(queue')
    BY <1>0, <2>1 DEF HeadTypeOK
  <2>. QED
    BY <1>0, <2>1, <2>2 DEF Queued, Waiting
<1>6. CASE (Move \/ OtherAttach \/ Index \/ Unregister \/ PollElapses) /\ UNCHANGED searching
  BY <1>1, <1>6 DEF Move, OtherAttach, Index, Unregister, PollElapses
<1>7. ASSUME NEW s \in Searches, StartSearch(s) \/ SearchStep(s) \/ Overdue(s)
      PROVE  Queued'
  <2>1. CASE AskRepair(s)
    <3>1. promise[s] = "none" /\ sstep[s] = "delay"
      BY <1>0, <2>1 DEF AskRepair, Searching, Queued, HeadTypeOK
    <3>2. task # s /\ \A i \in 1..Len(queue) : queue[i] # s
      BY <3>1, SettledIsOut
    <3>3. /\ Len(queue') = Len(queue) + 1 /\ queue'[Len(queue')] = s
          /\ \A i \in 1..Len(queue') : (i \in 1..Len(queue) /\ queue'[i] = queue[i]) \/ i = Len(queue')
      BY <1>0, <2>1 DEF AskRepair, HeadTypeOK
    <3>4. /\ promise' = [promise EXCEPT ![s] = "queued"] /\ sstep' = [sstep EXCEPT ![s] = "await"]
          /\ UNCHANGED <<task, expected>>
      BY <2>1 DEF AskRepair, Searching, Settle
    <3>5. /\ promise'[s] = "queued" /\ sstep'[s] = "await"
          /\ \A t \in Searches \ {s} : promise'[t] = promise[t] /\ sstep'[t] = sstep[t]
      BY <1>0, <3>4 DEF HeadTypeOK, SearchTypeOK
    <3>6. \A i, j \in 1..Len(queue') : queue'[i] = queue'[j] => i = j
      BY <1>0, <3>2, <3>3 DEF Queued
    <3>7. \A i \in 1..Len(queue') :
            queue'[i] \in Searches => queue'[i] # task /\ promise'[queue'[i]] = "queued"
      <4>. SUFFICES ASSUME NEW i \in 1..Len(queue'), queue'[i] \in Searches
                    PROVE  queue'[i] # task /\ promise'[queue'[i]] = "queued"
        OBVIOUS
      <4>1. CASE i = Len(queue')
        BY <3>2, <3>3, <3>5, <4>1
      <4>2. CASE i # Len(queue')
        BY <1>0, <3>2, <3>3, <3>5, <4>2 DEF Queued, Waiting
      <4>. QED
        BY <4>1, <4>2
    <3>. QED
      BY <1>0, <3>1, <3>2, <3>4, <3>5, <3>6, <3>7 DEF Queued, Waiting
  <2>2. CASE Repaired(s)
    <3>1. promise[s] = "synced" /\ task # s /\ \A i \in 1..Len(queue) : queue[i] # s
      BY <2>2, SettledIsOut DEF Repaired
    <3>2. /\ promise' = [promise EXCEPT ![s] = "none"] /\ sstep[s] = "await"
          /\ sstep' = [sstep EXCEPT ![s] = Lookup(s)] /\ Lookup(s) \in {"semantic", "delay"}
          /\ UNCHANGED <<task, queue, expected>>
      BY <2>2 DEF Repaired, Searching, Settle, Lookup
    <3>. QED
      BY <1>0, <3>1, <3>2 DEF Queued, Waiting, HeadTypeOK, SearchTypeOK
  <2>3. CASE EndSearch(s) /\ promise[s] # "queued"
    <3>1. task # s /\ \A i \in 1..Len(queue) : queue[i] # s
      BY <2>3, SettledIsOut
    <3>2. /\ promise' = [promise EXCEPT ![s] = "none"] /\ sstep' = [sstep EXCEPT ![s] = "ended"]
          /\ expected' = [expected EXCEPT ![s] = None] /\ UNCHANGED <<task, queue>>
      BY <2>3 DEF EndSearch
    <3>. QED
      BY <1>0, <3>1, <3>2 DEF Queued, Waiting, HeadTypeOK, SearchTypeOK
  <2>4. CASE SearchCommit(s)
    <3>1. /\ sstep[s] = "commit" /\ sstep' = [sstep EXCEPT ![s] = "lookup"]
          /\ expected' = [expected EXCEPT ![s] = [branch |-> glimpse[s], commit |-> tree.commit]]
          /\ UNCHANGED <<task, queue, promise>>
      BY <2>4 DEF SearchCommit, Searching
    <3>2. [branch |-> glimpse[s], commit |-> tree.commit] \in Heads
      BY <1>0, <3>1, TreeTypes DEF IInv, Faithful, Heads
    <3>. QED
      BY <1>0, <3>1, <3>2 DEF Queued, Waiting, HeadTypeOK, SearchTypeOK
  <2>5. CASE StartSearch(s) \/ SearchBranch(s)
    <3>1. /\ \/ sstep[s] = "off" /\ sstep' = [sstep EXCEPT ![s] = "branch"]
             \/ sstep[s] = "branch" /\ sstep' = [sstep EXCEPT ![s] = "commit"]
          /\ UNCHANGED <<task, queue, promise, expected>>
      BY <2>5 DEF StartSearch, SearchBranch, Searching, hvars, worker, repairs
    <3>2. /\ sstep[s] \in {"off", "branch"} /\ sstep'[s] \in {"branch", "commit"}
          /\ \A t \in Searches \ {s} : sstep'[t] = sstep[t]
      BY <1>0, <3>1 DEF SearchTypeOK
    <3>3. promise[s] = "none" /\ expected[s] \notin Heads
      BY <1>0, <3>2 DEF Queued
    <3>4. \A t \in Searches :
            /\ promise[t] # "none" => sstep'[t] = "await"
            /\ sstep'[t] \in {"lookup", "delay", "await", "semantic"} <=> expected[t] \in Heads
      BY <1>0, <3>2, <3>3 DEF Queued
    <3>. QED
      BY <1>0, <3>1, <3>4 DEF Queued, Waiting
  <2>6. CASE FindRevisionForHead(s)
    BY <1>0, <2>6 DEF FindRevisionForHead, Searching, Lookup, Queued, Waiting, HeadTypeOK,
       SearchTypeOK
  <2>7. CASE Overdue(s)
    BY <1>1, <2>7 DEF Overdue
  <2>. QED
    BY <1>7, <2>1, <2>2, <2>3, <2>4, <2>5, <2>6, <2>7, EndsSettled DEF SearchStep
<1>8. ASSUME NEW x \in Requests, Ask(x) \/ SourceStep(x) \/ SourceFails(x)
      PROVE  Queued'
  BY <1>1, <1>8 DEF Ask, SourceStep, SourceFails, Prepare, RefuseUnprepared, ReadSource,
     MatchBranch, RefuseUnmatched, Grant
<1>. QED
  BY <1>3, <1>4, <1>5, <1>6, <1>7, <1>8 DEF Next, Publication, HNext, Work, Call

\* A search is told of a change by the steps that compare.
LEMMA ChangeIsSeen ==
  ASSUME IInv, Next, NEW s \in Searches, promise'[s] = "changed", promise[s] # "changed"
  PROVE  task = s /\ (CheckBranch \/ CheckCommit) /\ EndTask
<1>. USE HeadAssumption DEF HeadAssumption, hvars, world, backend, project, worker, repairs
<1>0. HeadTypeOK /\ TypeOK /\ Locals
  BY DEF IInv, TypeOK
<1>1. CASE Outside \/ StartTick
  BY <1>1, OutsideLeavesWorker DEF StartTick
<1>2. CASE StartRepair
  BY <1>0, <1>2 DEF StartRepair, Settle, HeadTypeOK
<1>3. CASE CheckBranch \/ CheckCommit
  BY <1>0, <1>3 DEF CheckBranch, CheckCommit, Settle, HeadTypeOK
<1>4. CASE ReadRemote \/ BackendAttaches \/ Attached \/ BackendSyncs \/ Reattach
  BY <1>4 DEF ReadRemote, BackendAttaches, Attached, BackendSyncs, Reattach
<1>5. CASE Ends("failed") \/ Ends("synced") \/ GoesOn
  BY <1>0, <1>5 DEF Ends, GoesOn, HeadTypeOK
<1>6. CASE ReadBranch \/ ReadCommit
  BY <1>0, <1>5, <1>6, AfterPublishEffect DEF ReadBranch, ReadCommit
<1>7. CASE GiveUp \/ UpdateSyncedState \/ SyncProject \/ Fail
  <2>1. SyncProject => Ends("synced")
    BY <1>0 DEF SyncProject, Settle, Ends, Locals, HeadTypeOK
  <2>. QED
    BY <1>0, <1>5, <1>7, <2>1, AfterPublishEffect, FailEffect DEF GiveUp, UpdateSyncedState
<1>8. CASE Call
  BY <1>0, <1>8 DEF Call, StartSearch, SearchStep, Overdue, SearchBranch, SearchDetached,
     SearchCommit, FindRevisionForHead, AskRepair, NotReady, Repaired, NotRepaired,
     SearchDone, EndSearch, Ask, SourceStep, SourceFails, Prepare, RefuseUnprepared,
     ReadSource, MatchBranch, RefuseUnmatched, Grant, Settle, HeadTypeOK, searching, sourcing
<1>. QED
  BY <1>1, <1>2, <1>3, <1>4, <1>6, <1>7, <1>8 DEF Next, Publication, HNext, Work, Outside

\* And they see it only if the working tree has moved.
LEMMA SeenChangeIsMove ==
  ASSUME IInv, NEW s \in Searches, task = s, CheckBranch \/ CheckCommit,
         promise'[s] = "changed", promise[s] # "changed"
  PROVE  moves > since[s]
<1>0. HeadTypeOK /\ SearchTypeOK /\ TypeOK /\ Locals /\ Queued /\ Faithful
  BY DEF IInv, TypeOK, SearchTypeOK
<1>1. expected[s] \in Heads
  BY <1>0 DEF Queued, Waiting
<1>2. SUFFICES ASSUME Unmoved(s) PROVE FALSE
  BY <1>0 DEF Faithful, Unmoved, HeadTypeOK, SearchTypeOK
<1>3. expected[s] = HeadOf(tree)
  BY <1>0, <1>1, <1>2 DEF Faithful
<1>4. CASE CheckBranch
  <2>1. tree.branch = None
    BY <1>0, <1>4 DEF CheckBranch, repairs
  <2>2. tree.branch \in Branches
    BY <1>1, <1>3 DEF HeadOf, Heads
  <2>. QED
    BY <2>1, <2>2 DEF Branches
<1>5. CASE CheckCommit
  <2>1. seen.branch = tree.branch
    BY <1>0, <1>2, <1>5 DEF CheckCommit, Faithful
  <2>2. ~ChangesTo([branch |-> seen.branch, commit |-> tree.commit])
    BY <1>3, <2>1 DEF ChangesTo, HeadOf
  <2>. QED
    BY <1>5, <2>2 DEF CheckCommit, repairs
<1>. QED
  BY <1>4, <1>5

\* When a search starts and what it waits for.
LEMMA SinceStays ==
  ASSUME IInv, Next
  PROVE  /\ moves' \in {moves, moves + 1}
         /\ moves' = moves => tree' = tree
         /\ \A s \in Searches : \/ since'[s] = since[s]
                                \/ since'[s] \in {0, moves} /\ promise'[s] = "none"
<1>. USE DEF hvars, world, backend, project, worker, repairs, searching, sourcing
<1>0. HeadTypeOK /\ SearchTypeOK /\ TypeOK /\ Queued
  BY DEF IInv, TypeOK, SearchTypeOK
<1>1. CASE Publication
  <2>1. UNCHANGED since
    BY <1>1 DEF Publication
  <2>2. moves' \in {moves, moves + 1} /\ (moves' = moves => tree' = tree)
    <3>1. CASE Move
      BY <1>0, <3>1 DEF Move, HeadTypeOK
    <3>2. CASE ~Move
      <4>1. UNCHANGED <<tree, moves>>
        BY <1>1, <3>2 DEF Publication, HNext, Work, Fail, OtherAttach, Index, Unregister,
           PollElapses, QueueTick, StartTick, StartRepair, CheckBranch, CheckCommit, ReadRemote,
           ReadBranch, ReadCommit, BackendAttaches, BackendSyncs, Attached, Reattach, GiveUp,
           UpdateSyncedState, SyncProject
      <4>. QED
        BY <4>1
    <3>. QED
      BY <3>1, <3>2
  <2>. QED
    BY <2>1, <2>2
<1>2. CASE Call
  <2>1. UNCHANGED <<tree, moves>>
    BY <1>2, CallLeavesWorker
  <2>2. ASSUME NEW s \in Searches, StartSearch(s)
        PROVE  \A t \in Searches : \/ since'[t] = since[t]
                                   \/ since'[t] \in {0, moves} /\ promise'[t] = "none"
    BY <1>0, <2>2 DEF StartSearch, Searching, Queued, SearchTypeOK
  <2>3. ASSUME NEW s \in Searches, EndSearch(s)
        PROVE  \A t \in Searches : \/ since'[t] = since[t]
                                   \/ since'[t] \in {0, moves} /\ promise'[t] = "none"
    BY <1>0, <2>3 DEF EndSearch, SearchTypeOK, HeadTypeOK
  <2>4. CASE UNCHANGED since
    BY <2>1, <2>4
  <2>. QED
    BY <1>2, <2>1, <2>2, <2>3, <2>4 DEF Call, SearchStep, Overdue, SearchBranch, SearchDetached,
     SearchCommit, FindRevisionForHead, AskRepair, NotReady, Repaired, NotRepaired,
     SearchDone, Ask, SourceStep, SourceFails, Prepare, RefuseUnprepared,
     ReadSource, MatchBranch, RefuseUnmatched, Grant
<1>. QED
  BY <1>1, <1>2 DEF Next

\* So SEARCH_HEAD_CHANGED stays true of whom it was told (repairLocalHead).
LEMMA ChangedStep ==
  ASSUME IInv, Next
  PROVE  ChangedMeansMoved'
<1>. SUFFICES ASSUME NEW s \in Searches, promise'[s] = "changed" PROVE moves' > since'[s]
  BY DEF ChangedMeansMoved
<1>1. since'[s] = since[s] /\ since[s] \in Nat /\ moves \in Nat /\ moves' \in {moves, moves + 1}
  BY SinceStays DEF IInv, TypeOK, HeadTypeOK
<1>2. moves > since[s]
  BY ChangeIsSeen, SeenChangeIsMove DEF IInv, ChangedMeansMoved
<1>. QED
  BY <1>1, <1>2

\* Until the working tree moves, what was read of it stays what it is.
LEMMA FaithfulStep ==
  ASSUME IInv, Next
  PROVE  Faithful'
<1>. USE DEF hvars, world, backend, project, worker, repairs, searching, sourcing
<1>0. HeadTypeOK /\ SearchTypeOK /\ TypeOK /\ Locals /\ Queued /\ Faithful
  BY DEF IInv, TypeOK, SearchTypeOK
<1>1. \A s \in Searches : since[s] \in Nat /\ since[s] <= moves /\ moves \in Nat
  BY <1>0 DEF Faithful, HeadTypeOK, SearchTypeOK
<1>2. CASE Move /\ UNCHANGED <<searching, sourcing>>
  <2>1. moves' = moves + 1 /\ UNCHANGED <<task, step, expected, glimpse, since, sstep>>
    BY <1>2 DEF Move
  <2>2. \A s \in Searches : since'[s] <= moves' /\ since'[s] # moves'
    BY <1>1, <2>1
  <2>3. step = "checkCommit" => task \in Searches
    BY <1>0 DEF Locals
  <2>. QED
    BY <1>0, <2>1, <2>2, <2>3 DEF Faithful, Unmoved
<1>3. CASE UNCHANGED <<tree, moves, since, sstep, glimpse, expected>>
           /\ (step' = "checkCommit" => UNCHANGED <<task, step, seen>>)
  BY <1>0, <1>3 DEF Faithful, Unmoved, HeadOf
<1>4. CASE Publication /\ ~Move /\ ~CheckBranch
  <2>1. UNCHANGED <<tree, moves, since, sstep, glimpse, expected>>
    BY <1>4 DEF Publication, HNext, Work, Fail, OtherAttach, Index, Unregister, PollElapses,
       QueueTick, StartTick, StartRepair, CheckCommit, ReadRemote, ReadBranch, ReadCommit,
       BackendAttaches, BackendSyncs, Attached, Reattach, GiveUp, UpdateSyncedState, SyncProject
  <2>2. step' = "checkCommit" => UNCHANGED <<task, step, seen>>
    <3>1. CASE Outside
      BY <3>1, OutsideLeavesWorker
    <3>2. CASE StartTick \/ StartRepair
      BY <1>0, <3>2 DEF StartTick, StartRepair, Locals
    <3>3. CASE Ends("failed") \/ GoesOn
      BY <3>3 DEF Ends, EndTask, GoesOn
    <3>4. CASE CheckCommit \/ ReadRemote \/ BackendAttaches \/ Attached \/ BackendSyncs \/ Reattach
               \/ SyncProject
      BY <3>4 DEF CheckCommit, ReadRemote, BackendAttaches, Attached, BackendSyncs, Reattach,
         SyncProject, EndTask
    <3>5. CASE ReadBranch \/ ReadCommit \/ GiveUp \/ UpdateSyncedState \/ Fail
      BY <1>0, <3>3, <3>5, AfterPublishEffect, FailEffect
         DEF ReadBranch, ReadCommit, GiveUp, UpdateSyncedState
    <3>. QED
      BY <1>4, <3>1, <3>2, <3>4, <3>5 DEF Publication, HNext, Work, Outside
  <2>. QED
    BY <1>3, <2>1, <2>2
<1>5. CASE CheckBranch /\ UNCHANGED <<searching, sourcing>>
  <2>1. UNCHANGED <<tree, moves, since, sstep, glimpse, expected>>
    BY <1>5 DEF CheckBranch
  <2>2. step' = "checkCommit" => seen'.branch = tree.branch
    BY <1>0, <1>5 DEF CheckBranch, EndTask, HeadTypeOK
  <2>. QED
    BY <1>0, <2>1, <2>2 DEF Faithful, Unmoved, HeadOf
<1>6. ASSUME NEW s \in Searches, StartSearch(s) \/ SearchStep(s) \/ Overdue(s)
      PROVE  Faithful'
  <2>0. UNCHANGED <<tree, moves, task, step, seen>>
    BY <1>6, CallLeavesWorker DEF Call
  <2>1. CASE StartSearch(s)
    <3>1. /\ sstep[s] = "off" /\ sstep' = [sstep EXCEPT ![s] = "branch"]
          /\ since' = [since EXCEPT ![s] = moves] /\ UNCHANGED <<glimpse, expected>>
      BY <2>1 DEF StartSearch, Searching
    <3>2. expected[s] \notin Heads /\ (task \in Searches => task # s)
      BY <1>0, <3>1 DEF Queued, Waiting
    <3>3. step = "checkCommit" => task \in Searches
      BY <1>0 DEF Locals
    <3>4. /\ sstep'[s] = "branch" /\ since'[s] = moves
          /\ \A t \in Searches \ {s} : sstep'[t] = sstep[t] /\ since'[t] = since[t]
      BY <1>0, <3>1 DEF SearchTypeOK
    <3>. QED
      BY <1>0, <1>1, <2>0, <3>1, <3>2, <3>3, <3>4 DEF Faithful, Unmoved, HeadOf
  <2>2. CASE SearchBranch(s)
    <3>1. /\ sstep' = [sstep EXCEPT ![s] = "commit"] /\ glimpse' = [glimpse EXCEPT ![s] = tree.branch]
          /\ tree.branch # None /\ UNCHANGED <<since, expected>>
      BY <2>2 DEF SearchBranch, Searching
    <3>. QED
      BY <1>0, <2>0, <3>1, TreeTypes DEF Faithful, Unmoved, HeadOf, SearchTypeOK
  <2>3. CASE SearchCommit(s)
    <3>1. /\ sstep[s] = "commit" /\ sstep' = [sstep EXCEPT ![s] = "lookup"]
          /\ glimpse' = [glimpse EXCEPT ![s] = None] /\ UNCHANGED since
          /\ expected' = [expected EXCEPT ![s] = [branch |-> glimpse[s], commit |-> tree.commit]]
      BY <2>3 DEF SearchCommit, Searching
    <3>2. Unmoved(s) => [branch |-> glimpse[s], commit |-> tree.commit] = HeadOf(tree)
      BY <1>0, <3>1 DEF Faithful, HeadOf
    <3>3. /\ sstep'[s] = "lookup" /\ expected'[s] = [branch |-> glimpse[s], commit |-> tree.commit]
          /\ \A t \in Searches \ {s} : /\ sstep'[t] = sstep[t] /\ expected'[t] = expected[t]
                                       /\ glimpse'[t] = glimpse[t]
      BY <1>0, <3>1 DEF SearchTypeOK, HeadTypeOK
    <3>4. HeadOf(tree)' = HeadOf(tree)
      BY <2>0 DEF HeadOf
    <3>. QED
      BY <1>0, <2>0, <3>1, <3>2, <3>3, <3>4 DEF Faithful, Unmoved
  <2>4. CASE FindRevisionForHead(s) \/ AskRepair(s) \/ Repaired(s) \/ Overdue(s)
    <3>1. UNCHANGED <<since, glimpse, expected>>
      BY <2>4 DEF FindRevisionForHead, AskRepair, Repaired, Overdue
    <3>2. \A t \in Searches : sstep'[t] = "commit" => sstep[t] = "commit"
      BY <1>0, <2>4 DEF FindRevisionForHead, AskRepair, Repaired, Overdue, Searching, Lookup,
         SearchTypeOK
    <3>. QED
      BY <1>0, <2>0, <3>1, <3>2 DEF Faithful, Unmoved, HeadOf
  <2>5. CASE EndSearch(s) /\ promise[s] # "queued"
    <3>1. task # s
      BY <2>5, SettledIsOut
    <3>2. step = "checkCommit" => task \in Searches
      BY <1>0 DEF Locals
    <3>3. /\ sstep'[s] = "ended" /\ since'[s] = 0 /\ expected'[s] = None
          /\ \A t \in Searches \ {s} : /\ sstep'[t] = sstep[t] /\ expected'[t] = expected[t]
                                       /\ glimpse'[t] = glimpse[t] /\ since'[t] = since[t]
      BY <1>0, <2>5 DEF EndSearch, SearchTypeOK, HeadTypeOK
    <3>4. HeadOf(tree)' = HeadOf(tree) /\ None \notin Heads
      BY <2>0, HeadAssumption DEF HeadOf, HeadAssumption
    <3>. QED
      BY <1>0, <1>1, <2>0, <3>1, <3>2, <3>3, <3>4 DEF Faithful, Unmoved
  <2>. QED
    BY <1>6, <2>1, <2>2, <2>3, <2>4, <2>5, EndsSettled DEF SearchStep
<1>7. ASSUME NEW x \in Requests, Ask(x) \/ SourceStep(x) \/ SourceFails(x)
      PROVE  Faithful'
  BY <1>3, <1>7 DEF Ask, SourceStep, SourceFails, Prepare, RefuseUnprepared, ReadSource,
     MatchBranch, RefuseUnmatched, Grant
<1>. QED
  BY <1>2, <1>4, <1>5, <1>6, <1>7 DEF Next, Publication, Call

\* A request keeps what it was fenced with.
LEMMA FencesStep ==
  ASSUME IInv, Next
  PROVE  Fences'
<1>. USE DEF searching, sourcing
<1>0. HeadTypeOK /\ SearchTypeOK /\ TypeOK /\ Fences
  BY DEF IInv, TypeOK, SearchTypeOK
<1>1. ASSUME NEW a, Given(a)
      PROVE  a.epoch \in 1..Len(sources') /\ sources'[a.epoch] = [mine |-> TRUE, remote |-> a.remote]
  <2>. DEFINE b == [epoch |-> a.epoch, remote |-> a.remote, materialized |-> None]
  <2>1. Truth(b)
    BY <1>1 DEF Truth, Given
  <2>. HIDE DEF b
  <2>2. b.epoch = a.epoch /\ b.remote = a.remote
    BY DEF b
  <2>. QED
    BY <2>1, <2>2, TruthStays
<1>2. CASE UNCHANGED <<xstep, asked, copy, origin>>
  BY <1>0, <1>1, <1>2 DEF Fences, Given
<1>3. ASSUME NEW x \in Requests, Ask(x) \/ SourceStep(x) \/ SourceFails(x)
      PROVE  Fences'
  <2>0. UNCHANGED <<tree, sources, attach>>
    BY <1>3, CallLeavesWorker DEF Call
  <2>1. CASE Prepare(x)
    <3>1. /\ xstep' = [xstep EXCEPT ![x] = "remote"] /\ copy' = [copy EXCEPT ![x] = attach]
          /\ UNCHANGED <<asked, origin>> /\ Fenced(x)
      BY <2>1 DEF Prepare, Go
    <3>2. attach \in AttachStates /\ Given(attach) /\ attach.epoch = asked[x]
      BY <1>0, <3>1 DEF Fenced, IInv, AttachStateIsTrue, Given, HeadTypeOK
    <3>3. x.branch # None => Linked[x.branch] \in {x.repoBranch, None}
      BY <3>1 DEF Fenced, RepoBranchFence
    <3>4. /\ xstep'[x] = "remote" /\ copy'[x] = attach
          /\ \A y \in Requests \ {x} : xstep'[y] = xstep[y] /\ copy'[y] = copy[y]
      BY <1>0, <3>1 DEF SearchTypeOK
    <3>. QED
      <4>. SUFFICES ASSUME NEW y \in Requests, xstep'[y] \in {"remote", "branch", "verify"}
                    PROVE  /\ copy'[y] \in AttachStates /\ copy'[y].epoch = asked'[y]
                           /\ Given(copy[y])'
                           /\ y.branch # None => Linked[y.branch] \in {y.repoBranch, None}
                           /\ xstep'[y] = "verify" => origin'[y] = copy'[y].remote
        BY DEF Fences
      <4>1. CASE y = x
        BY <2>0, <3>1, <3>2, <3>3, <3>4, <4>1 DEF Given
      <4>2. CASE y # x
        <5>1. xstep'[y] = xstep[y] /\ copy'[y] = copy[y]
          BY <3>4, <4>2
        <5>. QED
          BY <1>0, <2>0, <3>1, <5>1 DEF Fences, Given
      <4>. QED
        BY <4>1, <4>2
  <2>2. CASE ReadSource(x)
    <3>1. /\ xstep[x] = "remote" /\ xstep' = [xstep EXCEPT ![x] = "branch"]
          /\ origin' = [origin EXCEPT ![x] = tree.remote] /\ UNCHANGED <<asked, copy>>
      BY <2>2 DEF ReadSource, Go
    <3>. QED
      BY <1>0, <2>0, <3>1 DEF Fences, Given, SearchTypeOK
  <2>3. CASE MatchBranch(x)
    <3>1. /\ xstep[x] = "branch" /\ xstep' = [xstep EXCEPT ![x] = "verify"]
          /\ origin[x] = copy[x].remote /\ UNCHANGED <<asked, copy, origin>>
      BY <2>3 DEF MatchBranch, Go, SourceMatches
    <3>. QED
      BY <1>0, <2>0, <3>1 DEF Fences, Given, SearchTypeOK
  <2>4. CASE Ask(x)
    <3>1. /\ xstep' = [xstep EXCEPT ![x] = "asked"] /\ asked' = [asked EXCEPT ![x] = epoch]
          /\ UNCHANGED <<copy, origin>>
      BY <2>4 DEF Ask, Go
    <3>. QED
      BY <1>0, <2>0, <3>1 DEF Fences, Given, SearchTypeOK
  <2>5. CASE Forget(x) /\ xstep' \in {[xstep EXCEPT ![x] = "refused"], [xstep EXCEPT ![x] = "granted"]}
    BY <1>0, <2>0, <2>5 DEF Forget, Fences, Given, SearchTypeOK
  <2>. QED
    BY <1>3, <2>1, <2>2, <2>3, <2>4, <2>5
       DEF SourceStep, SourceFails, RefuseUnprepared, RefuseUnmatched, Grant, Go
<1>4. CASE Publication
  BY <1>2, <1>4 DEF Publication
<1>5. ASSUME NEW s \in Searches, StartSearch(s) \/ SearchStep(s) \/ Overdue(s)
      PROVE  Fences'
  BY <1>2, <1>5 DEF StartSearch, SearchStep, Overdue, SearchBranch, SearchDetached,
     SearchCommit, FindRevisionForHead, AskRepair, NotReady, Repaired, NotRepaired,
     SearchDone, EndSearch
<1>. QED
  BY <1>3, <1>4, <1>5 DEF Next, Call

\* The attach state is written back as the worker carried it, which has stayed true.
LEMMA AttachStep ==
  ASSUME IInv, Next
  PROVE  AttachStateIsTrue'
<1>. USE DEF hvars, world, backend, project, worker, repairs
<1>0. HeadTypeOK /\ TypeOK /\ Locals /\ AttachStateIsTrue
  BY DEF IInv, TypeOK
<1>1. attach # None => Truth(attach)
  BY <1>0 DEF AttachStateIsTrue, Truth, Given
<1>2. ASSUME NEW a, Truth(a), attach' = a
      PROVE  AttachStateIsTrue'
  BY <1>2, TruthStays DEF AttachStateIsTrue
<1>3. CASE attach' = attach \/ attach' = None
  BY <1>1, <1>2, <1>3 DEF AttachStateIsTrue
<1>4. ASSUME NEW o, attach # None, attach' = [attach EXCEPT !.observed = o]
      PROVE  AttachStateIsTrue'
  <2>1. Truth(attach')
    BY <1>0, <1>1, <1>4 DEF Truth, Given, HeadTypeOK, AttachStates
  <2>. QED
    BY <1>2, <2>1
<1>5. CASE ReadBranch
  BY <1>3, <1>4, <1>5 DEF ReadBranch
<1>6. CASE ReadCommit
  BY <1>3, <1>4, <1>6 DEF ReadCommit
<1>7. CASE Attached
  <2>1. /\ attach' = FreshState(sources[granted].remote) /\ granted \in 1..Len(sources)
        /\ sources[granted].mine
    BY <1>0, <1>7 DEF Attached, Locals
  <2>2. sources[granted] \in [mine : BOOLEAN, remote : Remotes]
    BY <1>0, <2>1, Elements DEF HeadTypeOK
  <2>3. Truth(FreshState(sources[granted].remote))
    BY <2>1, <2>2 DEF Truth, Given, FreshState
  <2>. QED
    BY <1>2, <2>1, <2>3
<1>8. CASE UpdateSyncedState
  <2>1. Truth(active) /\ active \in AttachStates /\ attach' = RecordHead
    BY <1>0, <1>8 DEF UpdateSyncedState, Locals
  <2>2. decision = "materialized" =>
          [epoch |-> active.epoch, head |-> SeenHead] \in accepted /\ SeenHead \in indexed
    BY <1>0, <1>8 DEF UpdateSyncedState, Locals
  <2>3. Truth(RecordHead)
    BY <2>1, <2>2 DEF RecordHead, Truth, Given, AttachStates
  <2>. QED
    BY <1>2, <2>1, <2>3
<1>9. CASE Call \/ Outside
  BY <1>3, <1>9, CallLeavesWorker, OutsideLeavesWorker
<1>10. CASE StartTick \/ StartRepair \/ CheckBranch \/ CheckCommit \/ ReadRemote \/ BackendAttaches
            \/ BackendSyncs \/ Reattach \/ GiveUp \/ SyncProject \/ Fail
  BY <1>3, <1>10 DEF StartTick, StartRepair, CheckBranch, CheckCommit, ReadRemote,
     BackendAttaches, BackendSyncs, Reattach, GiveUp, SyncProject, Fail
<1>. QED
  BY <1>5, <1>6, <1>7, <1>8, <1>9, <1>10 DEF Next, Publication, HNext, Work, Outside

-----------------------------------------------------------------------------
\* Nothing is attached, queued or asked at first.
LEMMA InitIInv == ASSUME Init PROVE IInv
<1>1. TypeOK
  <2>1. HeadTypeOK
    <3>1. promise \in [Searches -> {"none", "queued", "synced", "expired", "changed", "failed"}]
          /\ expected \in [Searches -> Heads \union {None}]
      BY DEF Init, HInit
    <3>2. moves \in 0..MaxEvents /\ events \in 0..MaxEvents /\ tree \in Trees
      BY HeadAssumption DEF Init, HInit, HeadAssumption
    <3>3. seen \in [remote : Remotes \union {None}, branch : Branches \union {None},
                   commit : Commits \union {None}]
      BY DEF Init, HInit, Nowhere
    <3>4. /\ epoch \in Nat /\ sources \in Seq([mine : BOOLEAN, remote : Remotes])
          /\ queue \in Seq(Searches \union {Tick})
      BY DEF Init, HInit
    <3>. QED
      BY <3>1, <3>2, <3>3, <3>4 DEF Init, HInit, HeadTypeOK
  <2>. QED
    BY <2>1, HeadAssumption DEF Init, TypeOK, HeadAssumption
<1>2. Counted /\ Locals
  BY <1>1 DEF Init, HInit, Counted, Locals, Reads, TypeOK, HeadTypeOK
<1>3. Queued
  BY HeadAssumption DEF Init, HInit, Queued, Waiting, HeadAssumption
<1>4. Faithful /\ Fences
  BY HeadAssumption DEF Init, HInit, Faithful, Unmoved, Fences, HeadAssumption
<1>5. AttachStateIsTrue /\ ChangedMeansMoved
  BY DEF Init, HInit, AttachStateIsTrue, ChangedMeansMoved
<1>. QED
  BY <1>1, <1>2, <1>3, <1>4, <1>5 DEF IInv

\* Every step keeps the inductive invariant.
LEMMA NextIInv == ASSUME IInv, [Next]_vars PROVE IInv'
<1>1. CASE Next
  BY <1>1, TypeStep, CountedStep, LocalsStep, QueuedStep, FaithfulStep, FencesStep, AttachStep,
     ChangedStep DEF IInv
<1>2. CASE UNCHANGED vars
  BY <1>2 DEF vars, hvars, world, backend, project, worker, repairs, searching, sourcing,
     IInv, TypeOK, HeadTypeOK, Counted, Locals, Queued, Waiting, Faithful, Unmoved, Fences, Given,
     Truth, SeenHead, AttachStateIsTrue, ChangedMeansMoved
<1>. QED
  BY <1>1, <1>2

\* The inductive invariant holds in every reachable state of
\* RevisionPublicationService and its two readers.
THEOREM Invariance == Spec => []IInv
  BY InitIInv, NextIInv, PTL DEF Spec

\* Every variable keeps its type.
THEOREM TypeCorrect == Spec => []TypeOK
  BY Invariance, PTL DEF IInv

\* The attach state is one the backend gave, and what it calls materialized was
\* accepted and indexed (RevisionPublicationService.stateByBindingId).
THEOREM AttachedTruly == Spec => []AttachStateIsTrue
  BY Invariance, PTL DEF IInv

\* SEARCH_HEAD_CHANGED is told only of a working tree that has moved
\* (AgentRuntimeServer.repairLocalHead).
THEOREM ChangesAreMoves == Spec => []ChangedMeansMoved
  BY Invariance, PTL DEF IInv

\* A source request is served under the epoch it was fenced with
\* (AgentSourceRequestService.prepareSourceRequest).
THEOREM ServesItsEpoch == Spec => []ServedUnderItsEpoch
<1>1. IInv => ServedUnderItsEpoch
  BY DEF IInv, Fences, Given, ServedUnderItsEpoch
<1>. QED
  BY <1>1, Invariance, PTL

-------------------------------------------------------------------------------
(* ExactSearch: numbers, and the order of the keys.                        *)

\* A set of naturals that is not empty has a least element, which Min is.
LEMMA MinIsLeast ==
  ASSUME NEW S \in SUBSET Nat, S # {}
  PROVE  Min(S) \in S /\ \A b \in S : Min(S) <= b
<1> DEFINE Less == OpToRel(<, Nat)
<1>1. IsWellFoundedOn(Less, Nat)
  BY NatLessThanWellFounded
<1> HIDE DEF Less
<1>2. PICK a \in S : \A b \in S : ~(<<b, a>> \in Less)
  BY <1>1, WFMin
<1>3. \A b \in S : ~(b < a)
  BY <1>2 DEF Less, OpToRel
<1>4. \A b \in S : a <= b
  BY <1>3
<1>5. \E c \in S : \A b \in S : c <= b
  BY <1>4
<1> QED
  BY <1>5, Zenon DEF Min

\* Nor is Max of a set that has a bound anything but one of it.
LEMMA MaxIsOne ==
  ASSUME NEW n \in Nat, NEW S \in SUBSET (0..n), S # {}
  PROVE  Max(S) \in S
<1> DEFINE R == {n - x : x \in S}
<1>1. R \in SUBSET Nat /\ R # {}
  <2>1. \A x \in S : n - x \in Nat
    OBVIOUS
  <2>2. PICK x \in S : TRUE
    OBVIOUS
  <2>3. n - x \in R
    OBVIOUS
  <2> QED
    BY <2>1, <2>3
<1> HIDE DEF R
<1>2. Min(R) \in R /\ \A b \in R : Min(R) <= b
  BY <1>1, MinIsLeast
<1>3. PICK a \in S : Min(R) = n - a
  BY <1>2 DEF R
<1>4. \A b \in S : a >= b
  <2> SUFFICES ASSUME NEW b \in S PROVE a >= b
    OBVIOUS
  <2>1. n - b \in R
    BY DEF R
  <2>2. n - a <= n - b
    BY <1>2, <1>3, <2>1
  <2> QED
    BY <2>2
<1>5. \E c \in S : \A b \in S : c >= b
  BY <1>4
<1> QED
  BY <1>5, Zenon DEF Max

Triple == Nat \X Nat \X Nat

\* Before is a strict order of the triples of numbers, and a total one.
LEMMA BeforeOrders ==
  ASSUME NEW s \in Triple, NEW t \in Triple, NEW u \in Triple
  PROVE  /\ ~Before(s, s)
         /\ Before(s, t) /\ Before(t, u) => Before(s, u)
         /\ s = t \/ Before(s, t) \/ Before(t, s)
<1>1. /\ s[1] \in Nat /\ s[2] \in Nat /\ s[3] \in Nat
      /\ t[1] \in Nat /\ t[2] \in Nat /\ t[3] \in Nat
      /\ u[1] \in Nat /\ u[2] \in Nat /\ u[3] \in Nat
  BY DEF Triple
<1>2. s = <<s[1], s[2], s[3]>> /\ t = <<t[1], t[2], t[3]>>
  BY DEF Triple
<1>3. ~Before(s, s)
  BY <1>1 DEF Before
<1>4. Before(s, t) /\ Before(t, u) => Before(s, u)
  BY <1>1 DEF Before
<1>5. s = t \/ Before(s, t) \/ Before(t, s)
  BY <1>1, <1>2 DEF Before
<1> QED
  BY <1>3, <1>4, <1>5

-----------------------------------------------------------------------------
(* A finite set in the order of its keys.                                  *)

Pre(K, f, i) == {j \in K : Before(f[j], f[i])}
Sortable(K, f) ==
  /\ IsFiniteSet(K) /\ f \in [K -> Triple]
  /\ \A i, j \in K : f[i] = f[j] => i = j

\* What comes before an element can be counted.
LEMMA PreCounts ==
  ASSUME NEW K, NEW f, Sortable(K, f), NEW i \in K
  PROVE  /\ Pre(K, f, i) \subseteq K /\ IsFiniteSet(Pre(K, f, i))
         /\ Cardinality(Pre(K, f, i)) \in Nat
         /\ Cardinality(Pre(K, f, i)) <= Cardinality(K)
<1>1. Pre(K, f, i) \subseteq K /\ IsFiniteSet(K)
  BY DEF Pre, Sortable
<1>2. IsFiniteSet(Pre(K, f, i)) /\ Cardinality(Pre(K, f, i)) <= Cardinality(K)
  BY <1>1, FS_Subset
<1> QED
  BY <1>1, <1>2, FS_CardinalityType

\* The later of two elements has more of them before it.
LEMMA PreGrows ==
  ASSUME NEW K, NEW f, Sortable(K, f), NEW i \in K, NEW j \in K, Before(f[i], f[j])
  PROVE  Cardinality(Pre(K, f, i)) < Cardinality(Pre(K, f, j))
<1>1. f \in [K -> Triple]
  BY DEF Sortable
<1>2. Pre(K, f, i) \subseteq Pre(K, f, j)
  <2> SUFFICES ASSUME NEW x \in K, Before(f[x], f[i])
               PROVE  Before(f[x], f[j])
    BY DEF Pre
  <2>1. f[x] \in Triple /\ f[i] \in Triple /\ f[j] \in Triple
    BY <1>1
  <2> QED
    BY <2>1, BeforeOrders
<1>3. i \in Pre(K, f, j) /\ i \notin Pre(K, f, i)
  <2>1. f[i] \in Triple
    BY <1>1
  <2>2. ~Before(f[i], f[i])
    BY <2>1, BeforeOrders
  <2> QED
    BY <2>2 DEF Pre
<1>4. IsFiniteSet(Pre(K, f, j))
  BY PreCounts
<1>5. /\ Cardinality(Pre(K, f, i)) <= Cardinality(Pre(K, f, j))
      /\ Cardinality(Pre(K, f, i)) = Cardinality(Pre(K, f, j)) => Pre(K, f, i) = Pre(K, f, j)
  BY <1>2, <1>4, FS_Subset
<1>6. Cardinality(Pre(K, f, i)) \in Nat /\ Cardinality(Pre(K, f, j)) \in Nat
  BY PreCounts
<1> QED
  BY <1>3, <1>5, <1>6

\* The first n of them are n.
First(K, f, n) == {i \in K : Cardinality(Pre(K, f, i)) < n}

\* If the first n are n, the first n + 1 are n + 1: the least of the rest comes next.
LEMMA NextOne ==
  ASSUME NEW K, NEW f, Sortable(K, f), NEW n \in Nat, n < Cardinality(K),
         Cardinality(First(K, f, n)) = n
  PROVE  Cardinality(First(K, f, n + 1)) = n + 1
<1> DEFINE T == First(K, f, n)
           At(i) == Cardinality(Pre(K, f, i))
<1>0. IsFiniteSet(K) /\ T \subseteq K /\ IsFiniteSet(T) /\ \A i \in K : At(i) \in Nat
  <2>1. IsFiniteSet(K) /\ T \subseteq K
    BY DEF Sortable, First
  <2>2. IsFiniteSet(T)
    BY <2>1, FS_Subset
  <2> QED
    BY <2>1, <2>2, PreCounts
<1>1. PICK i \in K \ T : \A j \in K \ T : At(i) <= At(j)
  <2> DEFINE R == {At(j) : j \in K \ T}
  <2>1. K \ T # {}
    <3> SUFFICES ASSUME K \ T = {} PROVE FALSE
      OBVIOUS
    <3>1. K = T
      BY <1>0
    <3> QED
      BY <3>1
  <2>2. R \in SUBSET Nat /\ R # {}
    BY <1>0, <2>1
  <2>3. Min(R) \in R /\ \A b \in R : Min(R) <= b
    <3> HIDE DEF R
    <3> QED
      BY <2>2, MinIsLeast
  <2> QED
    BY <2>3
<1>2. \A j \in K : j = i \/ At(i) < At(j) \/ At(j) < At(i)
  <2> SUFFICES ASSUME NEW j \in K, j # i
               PROVE  At(i) < At(j) \/ At(j) < At(i)
    OBVIOUS
  <2>1. f[i] \in Triple /\ f[j] \in Triple /\ f[i] # f[j]
    BY DEF Sortable
  <2>2. Before(f[i], f[j]) \/ Before(f[j], f[i])
    BY <2>1, BeforeOrders
  <2> QED
    BY <2>2, PreGrows
<1>3. Pre(K, f, i) \subseteq T
  <2> SUFFICES ASSUME NEW j \in K, Before(f[j], f[i]) PROVE j \in T
    BY DEF Pre
  <2>1. At(j) < At(i)
    BY PreGrows
  <2> QED
    BY <1>0, <1>1, <2>1
<1>4. T \subseteq Pre(K, f, i)
  <2> SUFFICES ASSUME NEW j \in T PROVE j \in Pre(K, f, i)
    OBVIOUS
  <2>1. j \in K /\ At(j) < n /\ ~(At(i) < n)
    BY <1>1 DEF First
  <2>2. ~(At(i) < At(j)) /\ j # i
    BY <1>0, <2>1
  <2>3. f[i] \in Triple /\ f[j] \in Triple /\ f[i] # f[j]
    BY <2>1, <2>2 DEF Sortable
  <2>4. Before(f[i], f[j]) \/ Before(f[j], f[i])
    BY <2>3, BeforeOrders
  <2>5. ~Before(f[i], f[j])
    BY <2>1, <2>2, PreGrows
  <2> QED
    BY <2>1, <2>4, <2>5 DEF Pre
<1>5. At(i) = n
  BY <1>3, <1>4
<1>6. First(K, f, n + 1) = T \cup {i}
  <2>1. ASSUME NEW j \in K
        PROVE  At(j) < n + 1 <=> At(j) < n \/ j = i
    BY <1>0, <1>2, <1>5
  <2>2. T = {j \in K : At(j) < n} /\ First(K, f, n + 1) = {j \in K : At(j) < n + 1}
    BY DEF First
  <2> QED
    BY <1>1, <2>1, <2>2
<1>7. Cardinality(T \cup {i}) = Cardinality(T) + 1
  BY <1>0, <1>1, FS_AddElement
<1> QED
  BY <1>6, <1>7

\* The first n are n, as far as there are that many: the least n for which they were
\* not would have one before it for which they are.
LEMMA FirstAreAsMany ==
  ASSUME NEW K, NEW f, Sortable(K, f), NEW n \in Nat, n <= Cardinality(K)
  PROVE  Cardinality(First(K, f, n)) = n
<1> DEFINE Bad == {k \in Nat : k <= Cardinality(K) /\ Cardinality(First(K, f, k)) # k}
<1>0. Cardinality(K) \in Nat
  BY FS_CardinalityType DEF Sortable
<1>1. ASSUME Bad # {}
      PROVE  FALSE
  <2>1. PICK k \in Bad : \A b \in Bad : k <= b
    <3>1. Bad \in SUBSET Nat
      OBVIOUS
    <3> HIDE DEF Bad
    <3> QED
      BY <1>1, <3>1, MinIsLeast
  <2>2. k # 0
    <3> SUFFICES ASSUME k = 0 PROVE FALSE
      OBVIOUS
    <3>1. First(K, f, 0) = {}
      <4>1. \A i \in K : ~(Cardinality(Pre(K, f, i)) < 0)
        BY PreCounts
      <4> QED
        BY <4>1 DEF First
    <3> QED
      BY <2>1, <3>1, FS_EmptySet
  <2>3. k - 1 \in Nat /\ k - 1 < Cardinality(K) /\ (k - 1) + 1 = k /\ ~(k <= k - 1)
    BY <1>0, <2>1, <2>2
  <2>4. k - 1 \notin Bad
    BY <2>1, <2>3
  <2>5. Cardinality(First(K, f, k - 1)) = k - 1
    BY <1>0, <2>3, <2>4
  <2>6. Cardinality(First(K, f, (k - 1) + 1)) = (k - 1) + 1
    BY <2>3, <2>5, NextOne
  <2> QED
    BY <2>1, <2>3, <2>6
<1> QED
  BY <1>1

-----------------------------------------------------------------------------
(* The merge.                                                              *)

EvidenceKey(x, items, i) == <<Priority(x, items[i]), Distance(x, items[i]), i>>
OfFile(x, items) == {i \in DOMAIN items : items[i].file = x.file}

\* The items of a match's file can be compared.
LEMMA EvidenceSorts ==
  ASSUME NEW x \in Line, NEW items \in Seq(Item)
  PROVE  /\ Sortable(OfFile(x, items), [i \in OfFile(x, items) |-> EvidenceKey(x, items, i)])
         /\ \A i \in OfFile(x, items) : EvidenceKey(x, items, i) \in Triple
<1> DEFINE K == OfFile(x, items)
           f == [i \in K |-> EvidenceKey(x, items, i)]
<1>1. K \subseteq 1..Len(items) /\ Len(items) \in Nat
  BY DEF OfFile
<1>2. IsFiniteSet(K)
  <2>1. IsFiniteSet(1..Len(items))
    BY <1>1, FS_Interval
  <2> HIDE DEF K
  <2> QED
    BY <1>1, <2>1, FS_Subset
<1>3. ASSUME NEW i \in K
      PROVE  EvidenceKey(x, items, i) \in Triple
  <2>1. items[i] \in Item /\ i \in Nat
    BY <1>1
  <2>2. items[i].first \in Nat /\ items[i].last \in Nat /\ x.line \in Nat
    BY <2>1 DEF Item, Line
  <2>3. Distance(x, items[i]) \in Nat
    BY <2>2 DEF Distance, Inside
  <2>4. Priority(x, items[i]) \in Nat
    BY DEF Priority
  <2> QED
    BY <2>1, <2>3, <2>4 DEF EvidenceKey, Triple
<1>4. \A i, j \in K : f[i] = f[j] => i = j
  BY DEF EvidenceKey
<1> HIDE DEF K
<1>5. f \in [K -> Triple]
  BY <1>3
<1> QED
  BY <1>2, <1>3, <1>4, <1>5 DEF Sortable, K

\* A match is evidence for one item of its file at most.
LEMMA BestIsOne ==
  ASSUME NEW x \in Line, NEW items \in Seq(Item),
         NEW i \in BestItem(x, items), NEW j \in BestItem(x, items)
  PROVE  i = j
<1>1. /\ i \in OfFile(x, items) /\ j \in OfFile(x, items)
      /\ i # j => /\ Before(EvidenceKey(x, items, i), EvidenceKey(x, items, j))
                  /\ Before(EvidenceKey(x, items, j), EvidenceKey(x, items, i))
  BY DEF BestItem, OfFile, EvidenceKey
<1>2. EvidenceKey(x, items, i) \in Triple /\ EvidenceKey(x, items, j) \in Triple
  BY <1>1, EvidenceSorts
<1> QED
  BY <1>1, <1>2, BeforeOrders

\* If there are items of its file, for one.
LEMMA BestExists ==
  ASSUME NEW x \in Line, NEW items \in Seq(Item), OfFile(x, items) # {}
  PROVE  \E i \in OfFile(x, items) : i \in BestItem(x, items)
<1> DEFINE K == OfFile(x, items)
           f == [i \in K |-> EvidenceKey(x, items, i)]
<1>1. Sortable(K, f) /\ \A i \in K : f[i] \in Triple
  BY EvidenceSorts
<1>2. IsFiniteSet(K) /\ Cardinality(K) \in Nat /\ Cardinality(K) # 0
  BY <1>1, FS_CardinalityType, FS_EmptySet DEF Sortable
<1> HIDE DEF f
<1>3. Cardinality(First(K, f, 1)) = 1
  BY <1>1, <1>2, FirstAreAsMany
<1>4. First(K, f, 1) # {}
  <2> HIDE DEF K
  <2>1. Cardinality({}) = 0
    BY FS_EmptySet
  <2> QED
    BY <1>3, <2>1
<1>5. PICK i \in K : Cardinality(Pre(K, f, i)) < 1
  BY <1>4 DEF First
<1>6. Pre(K, f, i) = {}
  <2>1. IsFiniteSet(Pre(K, f, i)) /\ Cardinality(Pre(K, f, i)) \in Nat
    BY <1>1, PreCounts
  <2> QED
    BY <1>5, <2>1, FS_EmptySet
<1>7. ASSUME NEW j \in K \ {i}
      PROVE  Before(EvidenceKey(x, items, i), EvidenceKey(x, items, j))
  <2>1. f[i] \in Triple /\ f[j] \in Triple /\ f[i] # f[j] /\ ~Before(f[j], f[i])
    BY <1>1, <1>6 DEF Sortable, Pre
  <2>2. Before(f[i], f[j])
    BY <2>1, BeforeOrders
  <2> QED
    BY <2>2 DEF f
<1>8. i \in BestItem(x, items)
  BY <1>5, <1>7 DEF BestItem, OfFile, EvidenceKey
<1> QED
  BY <1>5, <1>8

\* If it lies in one, for one it lies in, the first of them.
LEMMA BestIsInside ==
  ASSUME NEW x \in Line, NEW items \in Seq(Item), NEW i \in BestItem(x, items),
         NEW k \in OfFile(x, items), Inside(x, items[k])
  PROVE  i \in OfFile(x, items) /\ Inside(x, items[i]) /\ i <= k
<1>1. /\ i \in OfFile(x, items)
      /\ i # k => Before(EvidenceKey(x, items, i), EvidenceKey(x, items, k))
  BY DEF BestItem, OfFile, EvidenceKey
<1>2. EvidenceKey(x, items, k) = <<0, 0, k>>
  BY DEF EvidenceKey, Priority, Distance
<1>3. EvidenceKey(x, items, i) \in Triple
  BY <1>1, EvidenceSorts
<1>4. i \in Nat /\ k \in Nat /\ Priority(x, items[i]) \in Nat /\ Distance(x, items[i]) \in Nat
  BY <1>1, <1>3 DEF OfFile, EvidenceKey, Triple
<1>5. Priority(x, items[i]) = 0 /\ i <= k
  BY <1>1, <1>2, <1>4 DEF Before, EvidenceKey, Priority
<1> QED
  BY <1>1, <1>5 DEF Priority

Row == [item : Item, evidence : SUBSET Nat, score : 0..100, bucket : {0, 2, 4}]

\* A raised score is a score.
LEMMA CappedScore ==
  ASSUME NEW score \in 0..100, NEW boost \in 0..12
  PROVE  Min({100, score + boost}) \in 0..100
<1> DEFINE S == {100, score + boost}
<1>1. S \in SUBSET Nat /\ S # {} /\ 100 \in S
  OBVIOUS
<1> HIDE DEF S
<1>2. Min(S) \in S /\ \A b \in S : Min(S) <= b
  BY <1>1, MinIsLeast
<1>3. PICK n \in S : n = Min(S) /\ n <= 100
  BY <1>1, <1>2
<1>4. n \in 0..100
  BY <1>1, <1>3
<1> QED
  BY <1>3, <1>4 DEF S

\* Merged items have a score and a bucket, which is 0 with evidence.
LEMMA MergedRows ==
  ASSUME NEW items \in Seq(Item), NEW matches \in SUBSET Nat
  PROVE  /\ Merged(items, matches) \in [DOMAIN items -> Row]
         /\ \A i \in DOMAIN items :
              /\ Merged(items, matches)[i].item = items[i]
              /\ Merged(items, matches)[i].evidence =
                   {k \in matches : i \in BestItem(output[k], items)}
              /\ Merged(items, matches)[i].bucket = 0 <=>
                   Merged(items, matches)[i].evidence # {}
<1> DEFINE mine(i) == {k \in matches : i \in BestItem(output[k], items)}
           boosts(i) == {0} \union {Boost(output[k], items[i]) : k \in mine(i)}
           row(i) ==
             [item |-> items[i], evidence |-> mine(i),
              score |-> Min({100, items[i].score + Max(boosts(i))}),
              bucket |-> IF mine(i) # {} THEN 0 ELSE IF items[i].score >= 75 THEN 2 ELSE 4]
<1>1. Merged(items, matches) = [i \in DOMAIN items |-> row(i)]
  BY DEF Merged
<1>2. ASSUME NEW i \in DOMAIN items
      PROVE  row(i) \in Row
  <2>1. items[i] \in Item /\ items[i].score \in 0..100
    <3>1. items[i] \in Item
      OBVIOUS
    <3> QED
      BY <3>1 DEF Item
  <2>2. Max(boosts(i)) \in 0..12
    <3>1. \A x : Boost(x, items[i]) \in 0..12
      BY DEF Boost
    <3>2. boosts(i) \in SUBSET (0..12) /\ boosts(i) # {}
      BY <3>1
    <3> HIDE DEF boosts
    <3>3. Max(boosts(i)) \in boosts(i)
      BY <3>2, MaxIsOne
    <3> QED
      BY <3>2, <3>3
  <2> HIDE DEF boosts
  <2>3. Min({100, items[i].score + Max(boosts(i))}) \in 0..100
    <3>1. PICK boost \in 0..12 : boost = Max(boosts(i))
      BY <2>2
    <3>2. PICK score \in 0..100 : score = items[i].score
      BY <2>1
    <3>3. Min({100, score + boost}) \in 0..100
      BY CappedScore
    <3> QED
      BY <3>1, <3>2, <3>3
  <2>4. mine(i) \in SUBSET Nat
    OBVIOUS
  <2> HIDE DEF mine
  <2> QED
    BY <2>1, <2>3, <2>4 DEF Row
<1>3. \A i \in DOMAIN items :
        row(i).item = items[i] /\ row(i).evidence = mine(i)
        /\ (row(i).bucket = 0 <=> mine(i) # {})
  OBVIOUS
<1> HIDE DEF row
<1> QED
  BY <1>1, <1>2, <1>3

SortKeys(m, matches) == [i \in Kept(m, matches) |-> SortKey(m, matches, i)]

\* The place of an item is that of one with its key.
LEMMA PlaceIsOne ==
  ASSUME NEW items \in Seq(Item), NEW m \in [DOMAIN items -> Row], NEW i \in DOMAIN m
  PROVE  Place(m, i) \in DOMAIN m /\ Place(m, i) \in Nat /\ SameKey(m, i, Place(m, i))
<1> DEFINE S == {j \in DOMAIN m : SameKey(m, i, j)}
<1>1. DOMAIN m = 1..Len(items) /\ Len(items) \in Nat
  OBVIOUS
<1>2. i \in S
  BY DEF SameKey
<1>3. S \in SUBSET Nat /\ S # {}
  BY <1>1, <1>2
<1>4. Min(S) \in S
  <2> HIDE DEF S
  <2> QED
    BY <1>3, MinIsLeast
<1> QED
  BY <1>1, <1>4 DEF Place

\* What is kept can be sorted: of items with one key one is kept.
LEMMA KeptSorts ==
  ASSUME NEW items \in Seq(Item), NEW m \in [DOMAIN items -> Row], NEW matches
  PROVE  Sortable(Kept(m, matches), SortKeys(m, matches))
<1> DEFINE K == Kept(m, matches)
           f == SortKeys(m, matches)
<1>1. DOMAIN m = 1..Len(items) /\ Len(items) \in Nat
  OBVIOUS
<1>2. K \subseteq 1..Len(items)
  BY <1>1 DEF Kept, Deduped
<1>3. IsFiniteSet(K)
  <2>1. IsFiniteSet(1..Len(items))
    BY <1>1, FS_Interval
  <2> HIDE DEF K
  <2> QED
    BY <1>2, <2>1, FS_Subset
<1>4. ASSUME NEW i \in K
      PROVE  f[i] = SortKey(m, matches, i)
  BY DEF SortKeys
<1>5. ASSUME NEW i \in DOMAIN m, NEW p \in Nat
      PROVE  Rank(m, i, p) \in Triple
  <2>1. m[i] \in Row
    OBVIOUS
  <2>2. m[i].bucket \in Nat /\ m[i].score \in 0..100
    BY <2>1 DEF Row
  <2>3. 100 - m[i].score \in Nat
    <3>1. PICK score \in 0..100 : score = m[i].score
      BY <2>2
    <3>2. 100 - score \in Nat
      OBVIOUS
    <3> QED
      BY <3>1, <3>2
  <2> QED
    BY <2>2, <2>3 DEF Rank, Triple
<1>6. ASSUME NEW i \in K
      PROVE  f[i] \in Triple
  <2>1. i \in DOMAIN m /\ i \in Nat
    BY <1>1, <1>2
  <2>2. Place(m, i) \in Nat
    BY <2>1, PlaceIsOne
  <2>3. Rank(m, i, Place(m, i)) \in Triple
    BY <1>5, <2>1, <2>2
  <2>4. <<0, 0, i>> \in Triple
    BY <2>1 DEF Triple
  <2> QED
    BY <1>4, <2>3, <2>4 DEF SortKey
<1>7. ASSUME NEW i \in K, NEW j \in K, f[i] = f[j]
      PROVE  i = j
  <2>1. i \in DOMAIN m /\ j \in DOMAIN m /\ i \in Nat /\ j \in Nat
    BY <1>1, <1>2
  <2>2. CASE matches = {}
    BY <1>4, <1>7, <2>2 DEF SortKey
  <2>3. CASE matches # {}
    <3>1. Place(m, i) = Place(m, j)
      <4>1. SortKey(m, matches, i) = SortKey(m, matches, j)
        BY <1>4, <1>7
      <4>2. \A p \in DOMAIN m : SortKey(m, matches, p)[3] = Place(m, p)
        BY <2>3 DEF SortKey, Rank
      <4> QED
        BY <2>1, <4>1, <4>2
    <3>2. SameKey(m, i, Place(m, i)) /\ SameKey(m, j, Place(m, j))
      BY <2>1, PlaceIsOne
    <3>3. SameKey(m, i, j) /\ SameKey(m, j, i)
      BY <3>1, <3>2 DEF SameKey
    <3>4. i # j => /\ Before(Rank(m, i, i), Rank(m, j, j))
                   /\ Before(Rank(m, j, j), Rank(m, i, i))
      BY <2>3, <3>3 DEF Kept, Deduped
    <3>5. Rank(m, i, i) \in Triple /\ Rank(m, j, j) \in Triple
      BY <1>5, <2>1
    <3> QED
      BY <3>4, <3>5, BeforeOrders
  <2> QED
    BY <2>2, <2>3
<1>8. f \in [K -> Triple]
  BY <1>6 DEF SortKeys
<1> HIDE DEF f, K
<1>9. Sortable(K, f)
  BY <1>3, <1>7, <1>8 DEF Sortable
<1> QED
  BY <1>9 DEF K, f

\* What is ahead of an item is what its key comes after.
LEMMA AheadIsPre ==
  ASSUME NEW m, NEW matches, NEW i \in Kept(m, matches)
  PROVE  Ahead(m, matches, i) = Pre(Kept(m, matches), SortKeys(m, matches), i)
BY DEF Ahead, Pre, SortKeys

\* An item with the evidence of a match that lies in it is kept: an equal one
\* has no evidence.
LEMMA EvidenceIsKept ==
  ASSUME NEW items \in Seq(Item), output \in Seq(Line), NEW matches \in SUBSET DOMAIN output,
         NEW k \in matches, NEW i \in BestItem(output[k], items),
         i \in OfFile(output[k], items), Inside(output[k], items[i])
  PROVE  i \in Deduped(Merged(items, matches))
<1> DEFINE m == Merged(items, matches)
<1>1. matches \in SUBSET Nat /\ \A q \in matches : output[q] \in Line
  OBVIOUS
<1>2. /\ m \in [DOMAIN items -> Row]
      /\ \A j \in DOMAIN items :
           /\ m[j].item = items[j]
           /\ m[j].evidence = {q \in matches : j \in BestItem(output[q], items)}
           /\ m[j].bucket = 0 <=> m[j].evidence # {}
  BY <1>1, MergedRows
<1> HIDE DEF m
<1>3. i \in DOMAIN items /\ DOMAIN m = DOMAIN items /\ DOMAIN items \subseteq Nat
  BY <1>2 DEF OfFile
<1>4. m[i].bucket = 0
  <2>1. k \in m[i].evidence
    BY <1>2, <1>3
  <2> QED
    BY <1>2, <1>3, <2>1
<1>5. ASSUME NEW j \in DOMAIN m \ {i}, SameKey(m, i, j)
      PROVE  Before(Rank(m, i, i), Rank(m, j, j))
  <2>1. /\ j \in DOMAIN items /\ items[i].file = items[j].file
        /\ items[i].first = items[j].first /\ items[i].last = items[j].last
    BY <1>2, <1>3, <1>5 DEF SameKey
  <2>2. j \in OfFile(output[k], items) /\ Inside(output[k], items[j])
    BY <2>1 DEF OfFile, Inside
  <2>3. i <= j
    BY <1>1, <2>2, BestIsInside
  <2>4. ASSUME NEW q \in m[j].evidence
        PROVE  FALSE
    <3>1. q \in matches /\ output[q] \in Line /\ j \in BestItem(output[q], items)
      BY <1>1, <1>2, <2>1, <2>4
    <3>2. j \in OfFile(output[q], items) /\ i \in OfFile(output[q], items)
      BY <1>3, <2>1, <3>1 DEF BestItem, OfFile
    <3>3. Before(EvidenceKey(output[q], items, j), EvidenceKey(output[q], items, i))
      BY <1>5, <3>1, <3>2 DEF BestItem, OfFile, EvidenceKey
    <3>4. /\ Priority(output[q], items[i]) = Priority(output[q], items[j])
          /\ Distance(output[q], items[i]) = Distance(output[q], items[j])
      BY <2>1 DEF Priority, Distance, Inside, Near
    <3>5. EvidenceKey(output[q], items, j) \in Triple
      BY <3>1, <3>2, EvidenceSorts
    <3>6. /\ Priority(output[q], items[j]) \in Nat /\ Distance(output[q], items[j]) \in Nat
          /\ i \in Nat /\ j \in Nat
      BY <1>3, <2>1, <3>5 DEF EvidenceKey, Triple
    <3>7. j < i
      BY <3>3, <3>4, <3>6 DEF Before, EvidenceKey
    <3> QED
      BY <1>3, <2>1, <2>3, <3>7
  <2>5. m[j].bucket \in {2, 4}
    <3>1. m[j] \in Row /\ m[j].evidence = {}
      BY <1>2, <2>1, <2>4
    <3>2. m[j].bucket # 0
      BY <1>2, <2>1, <3>1
    <3> QED
      BY <3>1, <3>2 DEF Row
  <2> QED
    BY <1>4, <2>5 DEF Before, Rank
<1> QED
  BY <1>3, <1>5 DEF Deduped, m

\* The property of one match.
Shown(rows, items, k) ==
  LET bare == {i \in DOMAIN rows : rows[i].evidence = {}}
  IN \/ \E i \in DOMAIN rows :
          /\ k \in rows[i].evidence /\ Inside(output[k], rows[i].item)
          /\ \A j \in bare : rows[i].at < rows[j].at
     \/ Cardinality(DOMAIN rows) = Limit /\ bare = {}

\* A match in an item is shown with an item it lies in, ahead of the items without
\* evidence, or the limit is used up by items with evidence.
LEMMA MatchIsShown ==
  ASSUME NEW items \in Seq(Item), output \in Seq(Line), NEW matches \in SUBSET DOMAIN output,
         NEW k \in matches, NEW i0 \in OfFile(output[k], items), Inside(output[k], items[i0])
  PROVE  Shown(MergeSearchResults(items, matches), items, k)
<1> DEFINE m == Merged(items, matches)
           K == Kept(m, matches)
           f == SortKeys(m, matches)
           At(i) == Cardinality(Pre(K, f, i))
           rows == MergeSearchResults(items, matches)
<1>1. /\ matches \in SUBSET Nat /\ output[k] \in Line /\ matches # {}
      /\ Limit \in Nat \ {0}
  BY SearchAssumption DEF SearchAssumption
<1>2. /\ m \in [DOMAIN items -> Row]
      /\ \A j \in DOMAIN items :
           /\ m[j].item = items[j]
           /\ m[j].evidence = {q \in matches : j \in BestItem(output[q], items)}
           /\ m[j].bucket = 0 <=> m[j].evidence # {}
  BY <1>1, MergedRows
<1>3. PICK b \in OfFile(output[k], items) : b \in BestItem(output[k], items)
  BY <1>1, BestExists
<1>4. Inside(output[k], items[b])
  BY <1>1, <1>3, BestIsInside
<1>5. b \in Deduped(m)
  BY <1>3, <1>4, EvidenceIsKept
<1> HIDE DEF m
<1>6. b \in K /\ K = Deduped(m) /\ K \subseteq DOMAIN items /\ b \in DOMAIN items
  BY <1>1, <1>2, <1>5 DEF Kept, Deduped
<1>7. k \in m[b].evidence /\ m[b].bucket = 0 /\ m[b].item = items[b]
  <2>1. k \in m[b].evidence
    BY <1>2, <1>3, <1>6
  <2> QED
    BY <1>2, <1>6, <2>1
<1>8. Sortable(K, f)
  BY <1>2, KeptSorts
<1>9. /\ DOMAIN rows = {i \in K : At(i) < Limit}
      /\ \A i \in DOMAIN rows : /\ rows[i].item = m[i].item
                                /\ rows[i].evidence = m[i].evidence
                                /\ rows[i].at = At(i)
  <2>1. \A i \in K : Ahead(m, matches, i) = Pre(K, f, i)
    BY AheadIsPre
  <2>2. rows = [i \in {i \in K : Cardinality(Ahead(m, matches, i)) < Limit} |->
                  [item |-> m[i].item, evidence |-> m[i].evidence,
                   at |-> Cardinality(Ahead(m, matches, i))]]
    BY DEF MergeSearchResults, m
  <2> HIDE DEF rows, K, f
  <2> QED
    BY <2>1, <2>2
<1>10. ASSUME NEW j \in K, m[j].evidence = {}
       PROVE  At(b) < At(j)
  <2>1. m[j].bucket \in {2, 4}
    <3>1. m[j] \in Row /\ m[j].bucket # 0
      BY <1>2, <1>6, <1>10
    <3> QED
      BY <3>1 DEF Row
  <2>2. Before(SortKey(m, matches, b), SortKey(m, matches, j))
    BY <1>1, <1>7, <2>1 DEF SortKey, Rank, Before
  <2>3. Before(f[b], f[j])
    BY <1>6, <2>2 DEF SortKeys
  <2> HIDE DEF f, K
  <2> QED
    BY <1>6, <1>8, <2>3, PreGrows
<1> HIDE DEF rows, f, K
<1>11. CASE At(b) < Limit
  <2>1. b \in DOMAIN rows /\ k \in rows[b].evidence /\ Inside(output[k], rows[b].item)
    BY <1>4, <1>6, <1>7, <1>9, <1>11
  <2>2. ASSUME NEW j \in DOMAIN rows, rows[j].evidence = {}
        PROVE  rows[b].at < rows[j].at
    <3>1. j \in K /\ m[j].evidence = {} /\ rows[b].at = At(b) /\ rows[j].at = At(j)
      BY <1>9, <2>1, <2>2
    <3> QED
      BY <1>10, <3>1
  <2>3. Shown(rows, items, k)
    BY <2>1, <2>2 DEF Shown
  <2> QED
    BY <2>3 DEF rows
<1>12. CASE ~(At(b) < Limit)
  <2>1. At(b) \in Nat /\ At(b) <= Cardinality(K) /\ Cardinality(K) \in Nat
    BY <1>6, <1>8, PreCounts, FS_CardinalityType DEF Sortable
  <2>2. Limit \in Nat /\ Limit <= Cardinality(K)
    BY <1>1, <1>12, <2>1
  <2>3. Cardinality(First(K, f, Limit)) = Limit
    BY <1>8, <2>2, FirstAreAsMany
  <2>4. Cardinality(DOMAIN rows) = Limit
    BY <1>9, <2>3 DEF First
  <2>5. ASSUME NEW j \in DOMAIN rows, rows[j].evidence = {}
        PROVE  FALSE
    <3>1. j \in K /\ m[j].evidence = {} /\ At(j) < Limit
      BY <1>9, <2>5
    <3>2. At(b) < At(j) /\ At(j) \in Nat
      BY <1>8, <1>10, <3>1, PreCounts
    <3> QED
      BY <1>1, <1>12, <2>1, <3>1, <3>2
  <2>6. Shown(rows, items, k)
    BY <2>4, <2>5 DEF Shown
  <2> QED
    BY <2>6 DEF rows
<1> QED
  BY <1>11, <1>12

-----------------------------------------------------------------------------
(* The reader.                                                             *)

\* What it has read of what is printed, and made of what it has read.
Printing ==
  /\ reader.received <= printed /\ reader.buffered <= reader.received
  /\ ~reader.outputLimit => reader.buffered = reader.received
  /\ 2 * reader.parsed <= reader.buffered
  /\ ~reader.matchLimit => reader.parsed = reader.buffered \div 2
  /\ reader.items = Matches(1, reader.parsed)
  /\ rg.code \in {"0", "1", "2"} => printed = 2 * Len(output)
  /\ rg.code # "none" => rg.state \in {"exited", "closed"}

\* What has happened by each phase.
Phases ==
  /\ phase = "semantic" => /\ output = <<>> /\ printed = 0 /\ reader = Reading
                           /\ rg.state = "none" /\ rg.code = "none"
  /\ phase = "exact" => rg.state \in {"running", "exited"}
  /\ phase # "answered" => answer = NoAnswer

ExactInv == ExactTypeOK /\ Printing /\ Phases /\ PartialIsSaid

\* A half is rounded down.
LEMMA HalfOf ==
  ASSUME NEW n \in Nat
  PROVE  n \div 2 \in Nat /\ 2 * (n \div 2) <= n /\ n <= 2 * (n \div 2) + 1
OBVIOUS

\* The first half of a line is one half more than the lines before it.
LEMMA OddHalf ==
  ASSUME NEW n \in Nat, n % 2 = 1
  PROVE  n = 2 * (n \div 2) + 1
OBVIOUS

\* The matches of two runs of lines are those of the whole.
LEMMA MatchesJoin ==
  ASSUME NEW p \in Nat, NEW q \in Nat, p <= q
  PROVE  Matches(1, p) \union Matches(p + 1, q) = Matches(1, q)
<1>1. (1..p) \union ((p + 1)..q) = 1..q
  OBVIOUS
<1> QED
  BY <1>1 DEF Matches

\* The matches of the first lines are the first matches.
IsFirst(matches) == /\ matches \subseteq Matches(1, Len(output))
                    /\ \A k \in matches, j \in Matches(1, Len(output)) : j < k => j \in matches

LEMMA MatchesAreFirst ==
  ASSUME output \in Seq(Line), NEW n \in 0..Len(output)
  PROVE  Matches(1, n) \in SUBSET DOMAIN output /\ IsFirst(Matches(1, n))
<1>1. Len(output) \in Nat /\ DOMAIN output = 1..Len(output)
  OBVIOUS
<1>2. Matches(1, n) \subseteq 1..n /\ 1..n \subseteq 1..Len(output)
  BY <1>1 DEF Matches
<1>3. Matches(1, n) \subseteq Matches(1, Len(output))
  BY <1>2 DEF Matches
<1>4. ASSUME NEW k \in Matches(1, n), NEW j \in Matches(1, Len(output)), j < k
      PROVE  j \in Matches(1, n)
  <2>1. j \in 1..Len(output) /\ output[j].kind = "match" /\ k \in 1..n
    BY DEF Matches
  <2>2. j \in 1..n
    BY <1>1, <1>4, <2>1
  <2> QED
    BY <2>1, <2>2 DEF Matches
<1> QED
  BY <1>1, <1>2, <1>3, <1>4 DEF IsFirst

\* What is parsed of more output, up to an end or to the match that is enough.
LEMMA ConsumeKeeps ==
  ASSUME NEW r, r \in [received : Nat, buffered : Nat, parsed : Nat, items : SUBSET Nat,
                       matchLimit : BOOLEAN, outputLimit : BOOLEAN, timedOut : BOOLEAN],
         NEW n \in Nat, r.parsed <= n, r.items = Matches(1, r.parsed)
  PROVE  \E last \in Nat, limit \in BOOLEAN :
           /\ r.parsed <= last /\ last <= n
           /\ ~limit => last = n
           /\ ConsumeLines(r, n) = [r EXCEPT !.parsed = last, !.items = Matches(1, last),
                                             !.matchLimit = limit]
           /\ r.matchLimit => limit
<1> DEFINE Upto(k) == r.items \union Matches(r.parsed + 1, k)
           enough == {k \in (r.parsed + 1)..n : Cardinality(Upto(k)) >= MaxMatches}
           S == {n} \union enough
           last == Min(S)
           limit == r.matchLimit \/ enough # {}
<1>1. r.parsed \in Nat /\ r.matchLimit \in BOOLEAN
  OBVIOUS
<1>2. S \in SUBSET Nat /\ S # {} /\ \A k \in S : r.parsed <= k /\ k <= n
  <2>1. /\ (r.parsed + 1)..n \in SUBSET Nat
        /\ \A k \in (r.parsed + 1)..n : r.parsed <= k /\ k <= n
    BY <1>1
  <2>2. enough \subseteq (r.parsed + 1)..n
    OBVIOUS
  <2> HIDE DEF enough
  <2> QED
    BY <2>1, <2>2
<1>3. last \in S
  <2> HIDE DEF S
  <2> QED
    BY <1>2, MinIsLeast
<1>4. last \in Nat /\ r.parsed <= last /\ last <= n
  <2> HIDE DEF S
  <2> QED
    BY <1>2, <1>3
<1>5. limit \in BOOLEAN /\ (~limit => last = n) /\ (r.matchLimit => limit)
  <2>1. ~limit => S = {n}
    OBVIOUS
  <2> HIDE DEF enough, S
  <2>2. ~limit => last = n
    <3> HIDE DEF last, limit
    <3>1. last \in S
      BY <1>3
    <3> QED
      BY <2>1, <3>1
  <2> QED
    BY <1>1, <2>2
<1>6. Upto(last) = Matches(1, last)
  <2> HIDE DEF last
  <2> QED
    BY <1>1, <1>4, MatchesJoin
<1>7. ConsumeLines(r, n) = [r EXCEPT !.parsed = last, !.items = Matches(1, last),
                                     !.matchLimit = limit]
  <2>1. ConsumeLines(r, n) = [r EXCEPT !.parsed = last, !.items = Upto(last),
                                       !.matchLimit = limit]
    BY DEF ConsumeLines
  <2> HIDE DEF last, limit, Upto
  <2> QED
    BY <1>6, <2>1
<1> HIDE DEF last, limit, Upto, enough, S
<1> QED
  BY <1>4, <1>5, <1>7

\* What is left of the reader's buffer adds the next line or nothing.
LEMMA RestIsFirst ==
  ASSUME ExactInv
  PROVE  \E n \in 0..Len(output) :
           /\ Rest(reader) = Matches(1, n)
           /\ ~reader.outputLimit /\ ~reader.matchLimit /\ reader.received = 2 * Len(output)
                => n = Len(output)
<1>1. /\ printed \in Nat /\ printed <= 2 * Len(output) /\ Len(output) \in Nat
      /\ reader.received \in Nat /\ reader.buffered \in Nat /\ reader.parsed \in Nat
  BY DEF ExactInv, ExactTypeOK
<1>2. /\ reader.received <= printed /\ reader.buffered <= reader.received
      /\ ~reader.outputLimit => reader.buffered = reader.received
      /\ 2 * reader.parsed <= reader.buffered
      /\ ~reader.matchLimit => reader.parsed = reader.buffered \div 2
      /\ reader.items = Matches(1, reader.parsed)
  BY DEF ExactInv, Printing
<1>3. CASE reader.buffered = 2 * (reader.parsed + 1)
  <2>1. reader.parsed + 1 \in 0..Len(output)
    BY <1>1, <1>2, <1>3
  <2>2. Rest(reader) = Matches(1, reader.parsed + 1)
    <3>1. Rest(reader) = Matches(1, reader.parsed)
                           \union Matches(reader.parsed + 1, reader.parsed + 1)
      BY <1>2, <1>3 DEF Rest
    <3>2. reader.parsed + 1 \in Nat /\ reader.parsed <= reader.parsed + 1
      BY <1>1
    <3> QED
      BY <1>1, <3>1, <3>2, MatchesJoin
  <2>3. reader.matchLimit
    <3> SUFFICES ASSUME ~reader.matchLimit PROVE FALSE
      OBVIOUS
    <3>1. reader.buffered <= 2 * reader.parsed + 1
      BY <1>1, <1>2, HalfOf
    <3> QED
      BY <1>1, <1>3, <3>1
  <2> QED
    BY <2>1, <2>2, <2>3
<1>4. CASE reader.buffered # 2 * (reader.parsed + 1)
  <2>1. reader.parsed \in 0..Len(output)
    BY <1>1, <1>2
  <2>2. Rest(reader) = Matches(1, reader.parsed)
    BY <1>2, <1>4 DEF Rest
  <2>3. ASSUME ~reader.outputLimit, ~reader.matchLimit, reader.received = 2 * Len(output)
        PROVE  reader.parsed = Len(output)
    <3>1. reader.buffered = 2 * Len(output) /\ reader.buffered <= 2 * reader.parsed + 1
      BY <1>1, <1>2, <2>3, HalfOf
    <3> QED
      BY <1>1, <1>2, <3>1
  <2> QED
    BY <2>1, <2>2, <2>3
<1> QED
  BY <1>3, <1>4

-----------------------------------------------------------------------------
(* Init and the steps.                                                     *)

\* The invariant holds before the search.
LEMMA ExactInitInv == ExactInit => ExactInv
<1> SUFFICES ASSUME ExactInit PROVE ExactInv
  OBVIOUS
<1>1. /\ phase = "semantic" /\ output = <<>> /\ printed = 0 /\ reader = Reading
      /\ answer = NoAnswer /\ found = <<>> /\ request \in ExactRequests
      /\ rg \in [state : {"none"}, sent : {"none"}, code : {"none"}, stubborn : BOOLEAN]
  BY DEF ExactInit
<1>2. Len(output) = 0 /\ output \in Seq(Line) /\ found \in Seq(Item)
  BY <1>1
<1>3. ExactTypeOK
  BY <1>1, <1>2 DEF ExactTypeOK, Reading, NoAnswer
<1>4. Matches(1, 0) = {} /\ 0 \div 2 = 0
  BY HalfOf DEF Matches
<1>5. Printing
  BY <1>1, <1>4 DEF Printing, Reading
<1>6. Phases /\ PartialIsSaid
  BY <1>1 DEF Phases, PartialIsSaid
<1> QED
  BY <1>3, <1>5, <1>6 DEF ExactInv

\* A step of the child, or of a timer, that does not touch the output.
LEMMA RunningKeeps ==
  ASSUME ExactInv, phase = "exact",
         UNCHANGED <<request, phase, found, output, reader, answer>>,
         printed' \in printed..(2 * Len(output)),
         rg' \in [state : {"running", "exited"}, sent : {"none", "term", "kill"},
                  code : {"none", "0", "1", "2", "signal"}, stubborn : BOOLEAN],
         rg'.code \in {"0", "1", "2"} => printed' = 2 * Len(output),
         rg'.code # "none" => rg'.state = "exited"
  PROVE  ExactInv'
<1>1. printed \in Nat /\ Len(output) \in Nat /\ reader.received \in Nat
  BY DEF ExactInv, ExactTypeOK
<1>2. printed' \in 0..(2 * Len(output)) /\ printed <= printed'
  BY <1>1
<1>3. ExactTypeOK'
  BY <1>2 DEF ExactInv, ExactTypeOK
<1>4. Matches(1, reader.parsed)' = Matches(1, reader.parsed)
  BY DEF Matches
<1>5. Printing'
  BY <1>1, <1>2, <1>4 DEF ExactInv, Printing
<1>6. Phases' /\ PartialIsSaid'
  BY DEF ExactInv, Phases, PartialIsSaid
<1> QED
  BY <1>3, <1>5, <1>6 DEF ExactInv

\* The reader goes on.
LEMMA ReadingKeeps ==
  ASSUME ExactInv, phase = "exact",
         UNCHANGED <<request, phase, found, printed, answer>>,
         output' \in Seq(Line), Len(output') = Len(output),
         \A k \in 1..reader'.parsed : output'[k] = output[k],
         reader' \in [received : Nat, buffered : Nat, parsed : Nat, items : SUBSET Nat,
                      matchLimit : BOOLEAN, outputLimit : BOOLEAN, timedOut : BOOLEAN],
         reader'.received <= printed, reader'.buffered <= reader'.received,
         ~reader'.outputLimit => reader'.buffered = reader'.received,
         2 * reader'.parsed <= reader'.buffered,
         ~reader'.matchLimit => reader'.parsed = reader'.buffered \div 2,
         reader'.items = Matches(1, reader'.parsed),
         rg' \in {rg, Terminate(rg)}
  PROVE  ExactInv'
<1>1. /\ rg' \in [state : {"none", "running", "exited", "closed"},
                  sent : {"none", "term", "kill"},
                  code : {"none", "0", "1", "2", "signal"}, stubborn : BOOLEAN]
      /\ rg'.code = rg.code /\ rg'.state = rg.state
  BY DEF ExactInv, ExactTypeOK, Terminate
<1>2. ExactTypeOK'
  <2>1. DOMAIN output' = DOMAIN output
    BY DEF ExactInv, ExactTypeOK
  <2> QED
    BY <1>1, <2>1 DEF ExactInv, ExactTypeOK
<1>3. Matches(1, reader'.parsed) = Matches(1, reader.parsed)'
  BY DEF Matches
<1>4. Printing'
  BY <1>1, <1>3 DEF ExactInv, Printing
<1>5. Phases' /\ PartialIsSaid'
  BY <1>1 DEF ExactInv, Phases, PartialIsSaid
<1> QED
  BY <1>2, <1>4, <1>5 DEF ExactInv

\* The search is answered or fails.
LEMMA EndKeeps ==
  ASSUME ExactInv, UNCHANGED <<request, output, printed, reader>>,
         phase' \in {"answered", "failed"}, phase' = "failed" => answer' = NoAnswer,
         found' \in Seq(Item),
         answer' \in [matches : SUBSET DOMAIN output, truncated : BOOLEAN, warning : BOOLEAN],
         \/ rg' = rg /\ rg.state # "closed"
         \/ /\ rg' = [rg EXCEPT !.state = "closed"]
            /\ IsFirst(answer'.matches)
            /\ ~answer'.truncated /\ ~answer'.warning =>
                 answer'.matches = Matches(1, Len(output))
  PROVE  ExactInv'
<1>1. /\ rg' \in [state : {"none", "running", "exited", "closed"},
                  sent : {"none", "term", "kill"},
                  code : {"none", "0", "1", "2", "signal"}, stubborn : BOOLEAN]
      /\ rg'.code = rg.code /\ rg'.state \in {rg.state, "closed"}
  BY DEF ExactInv, ExactTypeOK
<1>2. ExactTypeOK'
  BY <1>1 DEF ExactInv, ExactTypeOK
<1>3. \A n : Matches(1, n)' = Matches(1, n)
  BY DEF Matches
<1>4. Matches(1, reader.parsed)' = Matches(1, reader.parsed)
  BY DEF Matches
<1>5. Printing'
  BY <1>1, <1>4 DEF ExactInv, Printing
<1>6. Phases'
  BY DEF Phases
<1>7. Matches(1, Len(output))' = Matches(1, Len(output))
  BY DEF Matches
<1>8. PartialIsSaid'
  BY <1>7 DEF PartialIsSaid, IsFirst
<1> QED
  BY <1>2, <1>5, <1>6, <1>8 DEF ExactInv

\* The semantic answer starts `rg`, or ends the search.
LEMMA SemanticAnswersKeeps ==
  ASSUME ExactInv, SemanticAnswers
  PROVE  ExactInv'
<1>1. /\ phase = "semantic" /\ output = <<>> /\ printed = 0 /\ reader = Reading
      /\ rg.state = "none" /\ rg.code = "none" /\ answer = NoAnswer
      /\ UNCHANGED <<request, printed, reader>>
  BY DEF SemanticAnswers, ExactInv, Phases
<1>2. found' \in Seq(Item)
  BY SearchAssumption DEF SearchAssumption, SemanticAnswers
<1>3. \/ /\ \E warning \in BOOLEAN : Answer({}, FALSE, warning)
         /\ UNCHANGED <<rg, output>>
      \/ phase' = "failed" /\ UNCHANGED <<answer, rg, output>>
      \/ /\ phase' = "exact" /\ rg' = [rg EXCEPT !.state = "running"] /\ UNCHANGED answer
         /\ \E paths \in SUBSET Files, gone \in SUBSET Files, lines \in Outputs :
              output' = lines[paths \ gone]
  <2>1. PICK items \in Responses, late \in BOOLEAN, gone \in SUBSET Files, lines \in Outputs :
          LET paths == SearchPaths(items)
              skipped == request.tags \/ (paths # {} /\ late)
          IN IF skipped \/ paths = {}
             THEN Answer({}, FALSE, skipped) /\ UNCHANGED <<rg, output>>
             ELSE SearchLocally(paths, gone, lines)
    BY DEF SemanticAnswers
  <2>2. request.tags \in BOOLEAN /\ request.files \in SUBSET Files
    BY DEF ExactInv, ExactTypeOK, ExactRequests
  <2> DEFINE paths == SearchPaths(items)
             skipped == request.tags \/ (paths # {} /\ late)
  <2>3. paths \in SUBSET Files
    BY <2>2 DEF SearchPaths
  <2>4. skipped \in BOOLEAN /\ (~Searchable) \in BOOLEAN
    BY <2>2 DEF Searchable
  <2>5. \/ Answer({}, FALSE, skipped) /\ UNCHANGED <<rg, output>>
        \/ SearchLocally(paths, gone, lines)
    BY <2>1
  <2> HIDE DEF paths, skipped
  <2>6. CASE Answer({}, FALSE, skipped) /\ UNCHANGED <<rg, output>>
    BY <2>4, <2>6
  <2>7. CASE SearchLocally(paths, gone, lines)
    <3>1. \/ phase' = "failed" /\ UNCHANGED <<answer, rg, output>>
          \/ Answer({}, FALSE, ~Searchable) /\ UNCHANGED <<rg, output>>
          \/ /\ phase' = "exact" /\ rg' = [rg EXCEPT !.state = "running"]
             /\ output' = lines[paths \ gone] /\ UNCHANGED answer
      BY <2>7 DEF SearchLocally
    <3> QED
      BY <2>3, <2>4, <3>1
  <2> QED
    BY <2>5, <2>6, <2>7
<1>4. NoAnswer \in [matches : SUBSET DOMAIN output, truncated : BOOLEAN, warning : BOOLEAN]
  BY DEF NoAnswer
<1>5. ASSUME NEW warning \in BOOLEAN, Answer({}, FALSE, warning), UNCHANGED <<rg, output>>
      PROVE  ExactInv'
  <2>1. /\ phase' = "answered"
        /\ answer' = [matches |-> {}, truncated |-> FALSE, warning |-> warning]
    BY <1>5 DEF Answer
  <2>2. answer' \in [matches : SUBSET DOMAIN output, truncated : BOOLEAN, warning : BOOLEAN]
    BY <2>1
  <2> QED
    BY <1>1, <1>2, <1>5, <2>1, <2>2, EndKeeps
<1>6. CASE phase' = "failed" /\ UNCHANGED <<answer, rg, output>>
  BY <1>1, <1>2, <1>4, <1>6, EndKeeps
<1>7. CASE /\ phase' = "exact" /\ rg' = [rg EXCEPT !.state = "running"] /\ UNCHANGED answer
           /\ \E paths \in SUBSET Files, gone \in SUBSET Files, lines \in Outputs :
                output' = lines[paths \ gone]
  <2>1. output' \in Seq(Line)
    <3>1. PICK paths \in SUBSET Files, gone \in SUBSET Files, lines \in Outputs :
            output' = lines[paths \ gone]
      BY <1>7
    <3>2. lines \in [SUBSET Files -> Seq(Line)] /\ paths \ gone \in SUBSET Files
      BY SearchAssumption DEF SearchAssumption
    <3> QED
      BY <3>1, <3>2
  <2>2. Len(output)' \in Nat /\ 0 \in 0..(2 * Len(output)')
    <3>1. Len(output') \in Nat
      BY <2>1
    <3> QED
      BY <3>1
  <2>3. /\ rg' \in [state : {"none", "running", "exited", "closed"},
                    sent : {"none", "term", "kill"},
                    code : {"none", "0", "1", "2", "signal"}, stubborn : BOOLEAN]
        /\ rg'.state = "running" /\ rg'.code = "none"
    BY <1>1, <1>7 DEF ExactInv, ExactTypeOK
  <2>4. ExactTypeOK'
    BY <1>1, <1>2, <1>7, <2>1, <2>2, <2>3 DEF ExactInv, ExactTypeOK, NoAnswer
  <2>5. Matches(1, 0)' = {} /\ 0 \div 2 = 0
    BY HalfOf DEF Matches
  <2>6. Printing'
    BY <1>1, <2>3, <2>5 DEF Printing, Reading
  <2>7. Phases' /\ PartialIsSaid'
    BY <1>1, <1>7, <2>3 DEF Phases, PartialIsSaid
  <2> QED
    BY <2>4, <2>6, <2>7 DEF ExactInv
<1> QED
  BY <1>3, <1>5, <1>6, <1>7

\* What a chunk's end spoils is the line after those it completes.
LEMMA DecodedKeeps ==
  ASSUME output \in Seq(Line), printed \in 0..(2 * Len(output)), NEW lines \in Decoded
  PROVE  /\ lines \in Seq(Line) /\ Len(lines) = Len(output)
         /\ \A k \in 1..(printed \div 2) : lines[k] = output[k]
<1> DEFINE n == printed \div 2 + 1
<1>1. Len(output) \in Nat /\ printed \in Nat /\ printed \div 2 \in Nat
  <2>1. Len(output) \in Nat
    OBVIOUS
  <2>2. printed \in Nat
    BY <2>1
  <2> QED
    BY <2>1, <2>2, HalfOf
<1>2. CASE lines = output
  BY <1>2
<1>3. CASE lines # output
  <2>1. /\ printed % 2 = 1 /\ output[n].file \in WideFiles
        /\ \/ lines = [output EXCEPT ![n].file = Garbled]
           \/ lines = [output EXCEPT ![n].kind = "bytes"]
    BY <1>3 DEF Decoded
  <2>2. n \in 1..Len(output)
    <3>1. printed = 2 * (printed \div 2) + 1
      BY <1>1, <2>1, OddHalf
    <3>2. printed <= 2 * Len(output)
      BY <1>1
    <3> QED
      BY <1>1, <3>1, <3>2
  <2> HIDE DEF n
  <2>3. output[n] \in Line
    BY <2>2
  <2>4. PICK line \in Line : lines = [output EXCEPT ![n] = line]
    <3>1. [output[n] EXCEPT !.file = Garbled] \in Line
      BY <2>3 DEF Line
    <3>2. [output[n] EXCEPT !.kind = "bytes"] \in Line
      BY <2>3 DEF Line
    <3> QED
      BY <2>1, <3>1, <3>2
  <2>5. lines \in Seq(Line) /\ Len(lines) = Len(output)
    BY <2>2, <2>4
  <2>6. n \notin 1..(printed \div 2)
    BY <1>1 DEF n
  <2> QED
    BY <2>2, <2>4, <2>5, <2>6, <1>1
<1> QED
  BY <1>2, <1>3

\* A chunk leaves the reader at a line it has parsed up to.
LEMMA ConsumeStdoutChunkKeeps ==
  ASSUME ExactInv, ConsumeStdoutChunk
  PROVE  ExactInv'
<1> DEFINE over == printed > OutputLimit
           start == [reader EXCEPT !.buffered = printed]
           next == ConsumeLines(start, printed \div 2)
<1>1. /\ phase = "exact" /\ reader.received < printed
      /\ reader' = IF over THEN [reader EXCEPT !.received = printed, !.outputLimit = TRUE]
                   ELSE [next EXCEPT !.received = printed]
      /\ rg' \in {rg, Terminate(rg)}
      /\ output' \in IF over THEN {output} ELSE Decoded
      /\ UNCHANGED <<request, phase, found, printed, answer>>
  BY DEF ConsumeStdoutChunk
<1>2. /\ printed \in Nat /\ Len(output) \in Nat /\ output \in Seq(Line)
      /\ printed \in 0..(2 * Len(output))
      /\ reader \in [received : Nat, buffered : Nat, parsed : Nat, items : SUBSET Nat,
                     matchLimit : BOOLEAN, outputLimit : BOOLEAN, timedOut : BOOLEAN]
  BY DEF ExactInv, ExactTypeOK
<1>3. /\ reader.received <= printed /\ reader.buffered <= reader.received
      /\ ~reader.outputLimit => reader.buffered = reader.received
      /\ 2 * reader.parsed <= reader.buffered
      /\ ~reader.matchLimit => reader.parsed = reader.buffered \div 2
      /\ reader.items = Matches(1, reader.parsed)
  BY DEF ExactInv, Printing
<1>4. CASE over
  <2>1. reader' = [reader EXCEPT !.received = printed, !.outputLimit = TRUE]
    BY <1>1, <1>4
  <2>2. /\ reader' \in [received : Nat, buffered : Nat, parsed : Nat, items : SUBSET Nat,
                        matchLimit : BOOLEAN, outputLimit : BOOLEAN, timedOut : BOOLEAN]
        /\ reader'.received = printed /\ reader'.buffered = reader.buffered
        /\ reader'.parsed = reader.parsed /\ reader'.items = reader.items
        /\ reader'.matchLimit = reader.matchLimit /\ reader'.outputLimit
    BY <1>2, <2>1
  <2>3. reader.buffered <= printed /\ UNCHANGED output
    BY <1>1, <1>2, <1>3, <1>4
  <2> HIDE DEF over, next, start
  <2> QED
    BY <1>1, <1>2, <1>3, <2>2, <2>3, ReadingKeeps
<1>5. CASE ~over
  <2>1. reader' = [next EXCEPT !.received = printed]
    BY <1>1, <1>5
  <2>2. /\ start \in [received : Nat, buffered : Nat, parsed : Nat, items : SUBSET Nat,
                      matchLimit : BOOLEAN, outputLimit : BOOLEAN, timedOut : BOOLEAN]
        /\ start.parsed = reader.parsed /\ start.items = Matches(1, start.parsed)
    BY <1>2, <1>3
  <2>3. /\ printed \div 2 \in Nat /\ 2 * (printed \div 2) <= printed
        /\ reader.parsed <= printed \div 2
    <3>1. /\ printed \div 2 \in Nat /\ 2 * (printed \div 2) <= printed
          /\ printed <= 2 * (printed \div 2) + 1
      BY <1>2, HalfOf
    <3>2. 2 * reader.parsed <= printed /\ reader.parsed \in Nat
      BY <1>2, <1>3
    <3> QED
      BY <1>2, <3>1, <3>2
  <2> HIDE DEF over, next
  <2>4. PICK last \in Nat, limit \in BOOLEAN :
          /\ start.parsed <= last /\ last <= printed \div 2
          /\ ~limit => last = printed \div 2
          /\ next = [start EXCEPT !.parsed = last, !.items = Matches(1, last),
                                  !.matchLimit = limit]
          /\ start.matchLimit => limit
    <3> HIDE DEF start
    <3> QED
      BY <2>2, <2>3, ConsumeKeeps DEF next
  <2>5. Matches(1, last) \in SUBSET Nat
    BY DEF Matches
  <2>6. reader' = [reader EXCEPT !.received = printed, !.buffered = printed, !.parsed = last,
                                 !.items = Matches(1, last), !.matchLimit = limit]
    BY <1>2, <2>1, <2>4
  <2>7. 2 * last <= printed
    BY <1>2, <2>3, <2>4
  <2>8. /\ reader' \in [received : Nat, buffered : Nat, parsed : Nat, items : SUBSET Nat,
                        matchLimit : BOOLEAN, outputLimit : BOOLEAN, timedOut : BOOLEAN]
        /\ reader'.received = printed /\ reader'.buffered = printed /\ reader'.parsed = last
        /\ reader'.items = Matches(1, last) /\ reader'.matchLimit = limit
    BY <1>2, <2>5, <2>6
  <2>9. /\ output' \in Seq(Line) /\ Len(output') = Len(output)
        /\ \A k \in 1..reader'.parsed : output'[k] = output[k]
    <3>1. /\ output' \in Seq(Line) /\ Len(output') = Len(output)
          /\ \A k \in 1..(printed \div 2) : output'[k] = output[k]
      <4>1. output' \in Decoded
        BY <1>1, <1>5
      <4> QED
        BY <1>2, <4>1, DecodedKeeps
    <3>2. \A k \in 1..last : k \in 1..(printed \div 2)
      BY <2>3, <2>4
    <3> QED
      BY <2>8, <3>1, <3>2
  <2> HIDE DEF start
  <2> QED
    BY <1>1, <1>2, <2>4, <2>7, <2>8, <2>9, ReadingKeeps
<1> QED
  BY <1>4, <1>5

\* What is answered at the end is what the lines printed so far hold.
LEMMA CloseKeeps ==
  ASSUME ExactInv, Close
  PROVE  ExactInv'
<1>1. /\ phase = "exact" /\ rg.state = "exited" /\ reader.received = printed
      /\ rg' = [rg EXCEPT !.state = "closed"]
      /\ UNCHANGED <<request, found, output, printed, reader>>
  BY DEF Close
<1>2. PICK n \in 0..Len(output) :
        /\ Rest(reader) = Matches(1, n)
        /\ ~reader.outputLimit /\ ~reader.matchLimit /\ reader.received = 2 * Len(output)
             => n = Len(output)
  BY RestIsFirst
<1>3. Matches(1, n) \in SUBSET DOMAIN output /\ IsFirst(Matches(1, n))
  BY MatchesAreFirst DEF ExactInv, ExactTypeOK
<1>4. {} \in SUBSET DOMAIN output /\ IsFirst({})
  BY DEF IsFirst
<1>5. found \in Seq(Item) /\ reader.timedOut \in BOOLEAN /\ reader.outputLimit \in BOOLEAN
      /\ reader.matchLimit \in BOOLEAN /\ rg.code \in {"none", "0", "1", "2", "signal"}
  BY DEF ExactInv, ExactTypeOK
<1> DEFINE cut == reader.timedOut \/ reader.outputLimit \/ reader.matchLimit
           truncated == cut \/ rg.code = "signal"
<1>6. cut \in BOOLEAN /\ truncated \in BOOLEAN
  BY <1>5
<1>7. \/ Answer({}, FALSE, TRUE)
      \/ /\ Answer(Matches(1, n), truncated, cut)
         /\ rg.code \in {"0", "1"} \/ reader.matchLimit \/ truncated
  BY <1>2 DEF Close
<1>8. CASE Answer({}, FALSE, TRUE)
  <2>1. /\ phase' = "answered"
        /\ answer' = [matches |-> {}, truncated |-> FALSE, warning |-> TRUE]
    BY <1>8 DEF Answer
  <2> HIDE DEF cut, truncated
  <2> QED
    BY <1>1, <1>4, <1>5, <2>1, EndKeeps
<1>9. CASE /\ Answer(Matches(1, n), truncated, cut)
           /\ rg.code \in {"0", "1"} \/ reader.matchLimit \/ truncated
  <2>1. /\ phase' = "answered"
        /\ answer' = [matches |-> Matches(1, n), truncated |-> truncated, warning |-> cut]
    BY <1>9 DEF Answer
  <2>2. ~truncated => Matches(1, n) = Matches(1, Len(output))
    <3> SUFFICES ASSUME ~truncated PROVE n = Len(output)
      OBVIOUS
    <3>1. rg.code \in {"0", "1"} /\ ~reader.outputLimit /\ ~reader.matchLimit
      BY <1>9
    <3>2. printed = 2 * Len(output)
      BY <3>1 DEF ExactInv, Printing
    <3> QED
      BY <1>1, <1>2, <3>1, <3>2
  <2>3. /\ answer' \in [matches : SUBSET DOMAIN output, truncated : BOOLEAN, warning : BOOLEAN]
        /\ answer'.matches = Matches(1, n) /\ answer'.truncated = truncated
    BY <1>3, <1>6, <2>1
  <2> HIDE DEF cut, truncated
  <2> QED
    BY <1>1, <1>3, <1>5, <2>1, <2>2, <2>3, EndKeeps
<1> HIDE DEF cut, truncated
<1> QED
  BY <1>7, <1>8, <1>9

\* Every step keeps the invariant.
LEMMA ExactStep ==
  ASSUME ExactInv, [ExactNext]_exactVars
  PROVE  ExactInv'
<1>1. /\ printed \in Nat /\ Len(output) \in Nat /\ printed <= 2 * Len(output)
      /\ found \in Seq(Item)
      /\ rg \in [state : {"none", "running", "exited", "closed"},
                 sent : {"none", "term", "kill"},
                 code : {"none", "0", "1", "2", "signal"}, stubborn : BOOLEAN]
      /\ reader \in [received : Nat, buffered : Nat, parsed : Nat, items : SUBSET Nat,
                     matchLimit : BOOLEAN, outputLimit : BOOLEAN, timedOut : BOOLEAN]
  BY DEF ExactInv, ExactTypeOK
<1>2. printed \in printed..(2 * Len(output))
  BY <1>1
<1>3. /\ rg.code \in {"0", "1", "2"} => printed = 2 * Len(output)
      /\ rg.code # "none" => rg.state \in {"exited", "closed"}
      /\ phase = "exact" => rg.state \in {"running", "exited"}
  BY DEF ExactInv, Printing, Phases
<1>4. CASE SemanticFails
  <2>1. /\ phase = "semantic" /\ phase' = "failed" /\ rg.state # "closed"
        /\ UNCHANGED <<request, found, output, rg, printed, reader, answer>>
        /\ answer = NoAnswer
        /\ answer \in [matches : SUBSET DOMAIN output, truncated : BOOLEAN, warning : BOOLEAN]
    BY <1>4 DEF SemanticFails, ExactInv, Phases, ExactTypeOK
  <2> QED
    BY <1>1, <2>1, EndKeeps
<1>5. CASE StartFails
  <2>1. /\ phase' = "answered" /\ rg' = [rg EXCEPT !.state = "closed"]
        /\ answer' = [matches |-> {}, truncated |-> FALSE, warning |-> TRUE]
        /\ UNCHANGED <<request, found, output, printed, reader>>
    BY <1>5 DEF StartFails, Answer
  <2>2. {} \in SUBSET DOMAIN output /\ IsFirst({})
    BY DEF IsFirst
  <2> QED
    BY <1>1, <2>1, <2>2, EndKeeps
<1>6. CASE WriteOutput
  <2>1. /\ phase = "exact" /\ rg.state = "running" /\ printed' = printed + 1
        /\ printed < 2 * Len(output)
        /\ UNCHANGED <<request, phase, found, output, rg, reader, answer>>
    BY <1>6 DEF WriteOutput, Running
  <2>2. printed' \in printed..(2 * Len(output))
    BY <1>1, <2>1
  <2>3. rg.code = "none"
    BY <1>3, <2>1
  <2> QED
    BY <1>1, <2>1, <2>2, <2>3, RunningKeeps
<1>7. CASE Finish
  <2>1. /\ phase = "exact" /\ printed = 2 * Len(output)
        /\ UNCHANGED <<request, phase, found, output, printed, reader, answer>>
    BY <1>7 DEF Finish, Running
  <2>2. PICK code \in {"0", "1", "2"} : rg' = [rg EXCEPT !.state = "exited", !.code = code]
    BY <1>7 DEF Finish
  <2>3. rg' \in [state : {"running", "exited"}, sent : {"none", "term", "kill"},
                 code : {"none", "0", "1", "2", "signal"}, stubborn : BOOLEAN]
        /\ rg'.state = "exited"
    BY <1>1, <2>2
  <2> QED
    BY <1>1, <1>2, <2>1, <2>3, RunningKeeps
<1>8. ASSUME NEW signal, DieOf(signal)
      PROVE  ExactInv'
  <2>1. /\ phase = "exact" /\ rg' = [rg EXCEPT !.state = "exited", !.code = "signal"]
        /\ UNCHANGED <<request, phase, found, output, printed, reader, answer>>
    BY <1>8 DEF DieOf, Running
  <2>2. /\ rg' \in [state : {"running", "exited"}, sent : {"none", "term", "kill"},
                    code : {"none", "0", "1", "2", "signal"}, stubborn : BOOLEAN]
        /\ rg'.state = "exited" /\ rg'.code = "signal"
    BY <1>1, <2>1
  <2> QED
    BY <1>1, <1>2, <2>1, <2>2, RunningKeeps
<1>9. CASE Escalate
  <2>1. /\ phase = "exact" /\ rg.state = "running" /\ rg' = [rg EXCEPT !.sent = "kill"]
        /\ UNCHANGED <<request, phase, found, output, printed, reader, answer>>
    BY <1>9 DEF Escalate, Running
  <2>2. /\ rg' \in [state : {"running", "exited"}, sent : {"none", "term", "kill"},
                    code : {"none", "0", "1", "2", "signal"}, stubborn : BOOLEAN]
        /\ rg'.state = "running" /\ rg'.code = "none"
    BY <1>1, <1>3, <2>1
  <2> QED
    BY <1>1, <1>2, <2>1, <2>2, RunningKeeps
<1>10. CASE RgTimeout
  <2>1. /\ phase = "exact" /\ reader' = [reader EXCEPT !.timedOut = TRUE]
        /\ rg' = Terminate(rg)
        /\ UNCHANGED <<request, phase, found, output, printed, answer>>
    BY <1>10 DEF RgTimeout
  <2>2. /\ reader.received <= printed /\ reader.buffered <= reader.received
        /\ ~reader.outputLimit => reader.buffered = reader.received
        /\ 2 * reader.parsed <= reader.buffered
        /\ ~reader.matchLimit => reader.parsed = reader.buffered \div 2
        /\ reader.items = Matches(1, reader.parsed)
        /\ output \in Seq(Line)
    BY DEF ExactInv, ExactTypeOK, Printing
  <2>3. /\ reader' \in [received : Nat, buffered : Nat, parsed : Nat, items : SUBSET Nat,
                         matchLimit : BOOLEAN, outputLimit : BOOLEAN, timedOut : BOOLEAN]
        /\ reader'.received = reader.received /\ reader'.buffered = reader.buffered
        /\ reader'.parsed = reader.parsed /\ reader'.items = reader.items
        /\ reader'.matchLimit = reader.matchLimit
        /\ reader'.outputLimit = reader.outputLimit
    BY <1>1, <2>1
  <2>4. /\ output' \in Seq(Line) /\ Len(output') = Len(output)
        /\ \A k \in 1..reader'.parsed : output'[k] = output[k]
        /\ rg' \in {rg, Terminate(rg)}
    BY <2>1, <2>2
  <2>5. UNCHANGED <<request, phase, found, printed, answer>>
    BY <2>1
  <2> QED
    BY <2>1, <2>2, <2>3, <2>4, <2>5, ReadingKeeps
<1>11. CASE UNCHANGED exactVars
  <2>1. UNCHANGED <<request, phase, found, output, rg, printed, reader, answer>>
    BY <1>11 DEF exactVars
  <2>2. ExactTypeOK' /\ Phases'
    BY <2>1 DEF ExactInv, ExactTypeOK, Phases
  <2>3. Matches(1, reader.parsed)' = Matches(1, reader.parsed)
        /\ Matches(1, Len(output))' = Matches(1, Len(output))
    BY <2>1 DEF Matches
  <2>4. Printing' /\ PartialIsSaid'
    BY <2>1, <2>3 DEF ExactInv, Printing, PartialIsSaid
  <2> QED
    BY <2>2, <2>4 DEF ExactInv
<1> QED
  BY <1>4, <1>5, <1>6, <1>7, <1>8, <1>9, <1>10, <1>11, SemanticAnswersKeeps,
     ConsumeStdoutChunkKeeps, CloseKeeps
  DEF ExactNext, Service, Killed

\* So it always holds.
LEMMA ExactInductive == ExactSpec => []ExactInv
BY ExactInitInv, ExactStep, PTL DEF ExactSpec

\* Variables keep their types.
THEOREM ExactTypeCorrect == ExactSpec => []ExactTypeOK
<1>1. ExactInv => ExactTypeOK
  BY DEF ExactInv
<1> QED
  BY <1>1, ExactInductive, PTL

\* An answer with only some of the readable matches says so, and has the first ones:
\* what is given as bytes, or spoiled between two chunks, is left out without a word.
THEOREM PartialAnswersSaySo == ExactSpec => []PartialIsSaid
<1>1. ExactInv => PartialIsSaid
  BY DEF ExactInv
<1> QED
  BY <1>1, ExactInductive, PTL

\* A match in a semantic item is shown with it, ahead of the items without.
THEOREM MatchesAreShown == ExactSpec => []EvidenceIsShown
<1>1. ExactInv => EvidenceIsShown
  <2> SUFFICES ASSUME ExactInv, NEW k \in answer.matches, NEW i \in DOMAIN found,
                      found[i].file = output[k].file, Inside(output[k], found[i])
               PROVE  Shown(AnswerItems, found, k)
    BY DEF EvidenceIsShown, Shown
  <2>1. /\ found \in Seq(Item) /\ output \in Seq(Line)
        /\ answer.matches \in SUBSET DOMAIN output /\ i \in OfFile(output[k], found)
    BY DEF ExactInv, ExactTypeOK, OfFile
  <2> QED
    BY <2>1, MatchIsShown DEF AnswerItems
<1> QED
  BY <1>1, ExactInductive, PTL
===============================================================================
