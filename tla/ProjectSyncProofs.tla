--------------------------- MODULE ProjectSyncProofs ---------------------------
(***************************************************************************)
(* What ProjectSync promises, for every number of attachments, revisions,  *)
(* branches, files and failures.  The inductive invariant IInv has three   *)
(* parts: TypeOK; Books, which holds across deaths of the process and says *)
(* how the rows and the locals of a call agree; and Promises, which holds  *)
(* until the first death.  Two more promises follow on top of it: what     *)
(* deaths of the process cost (LossIsBounded), and what a materialisation  *)
(* row is worth (ReadyIsBacked).                                           *)
(***************************************************************************)
EXTENDS ProjectSync, WellFoundedInduction, FiniteSetTheorems, TLAPS

\* A set of naturals that is not empty has a least element.
LEMMA LeastExists ==
  ASSUME NEW S \in SUBSET Nat, S # {}
  PROVE  \E a \in S : \A b \in S : a <= b
<1>1. PICK a \in S : \A b \in S : <<b, a>> \notin OpToRel(<, Nat)
  <2>. HIDE DEF OpToRel
  <2>. QED
    BY NatLessThanWellFounded, WFMin
<1>2. \A b \in S : ~(b < a)
  BY <1>1 DEF OpToRel
<1>. QED
  BY <1>2

\* The next attachment of a page (processRevisionDelta takes them in order) is one
\* of the page.
LEMMA SmallestIn ==
  ASSUME NEW n \in Nat, NEW S \in SUBSET (1..n), S # {}
  PROVE  Smallest(S) \in S
<1>1. PICK a \in S : \A b \in S : a <= b
  <2>1. S \subseteq Nat
    OBVIOUS
  <2>. QED
    BY <2>1, LeastExists
<1>. QED
  BY <1>1 DEF Smallest

\* The newest attachment is an attachment, and none is above it.
LEMMA LargestIn ==
  ASSUME NEW n \in Nat, NEW S \in SUBSET (1..n), S # {}
  PROVE  Largest(S) \in S /\ \A b \in S : b <= Largest(S)
<1>. DEFINE T == {n - a : a \in S}
<1>1. T \in SUBSET Nat /\ T # {}
  <2>1. \A a \in S : n - a \in Nat
    OBVIOUS
  <2>2. PICK a \in S : TRUE
    OBVIOUS
  <2>3. n - a \in T
    OBVIOUS
  <2>. QED
    BY <2>1, <2>3
<1>2. PICK t \in T : \A u \in T : t <= u
  <2>. HIDE DEF T
  <2>. QED
    BY <1>1, LeastExists
<1>3. PICK a \in S : t = n - a
  OBVIOUS
<1>4. \A b \in S : a >= b
  <2>. SUFFICES ASSUME NEW b \in S PROVE a >= b
    OBVIOUS
  <2>1. n - a <= n - b
    BY <1>2, <1>3
  <2>. QED
    BY <2>1
<1>. QED
  BY <1>4 DEF Largest

\* What each disturbed part of the replica keeps: the shapes of the values the
\* steps write.
LEMMA NoSnapshotType == NoSnapshot \in Snapshot
<1>1. 0 \in Versions /\ 0 \in Nat
  BY SyncAssumption DEF SyncAssumption, Versions
<1>2. [r \in Revisions |-> NoRows] \in [Revisions -> [Targets -> Versions]]
  BY <1>1 DEF NoRows
<1>3. [b \in Branches |-> 0] \in [Branches -> Nat]
  OBVIOUS
<1>. QED
  BY <1>2, <1>3 DEF NoSnapshot, Snapshot

\* Attachment ids are numbers, as the branch cursors are.
LEMMA AttachmentsAreNatural == Attachments \subseteq Nat
BY DEF Attachments

\* clearMaterialization and clearTarget leave rows and chunks of the right kind.
LEMMA ClearingTypes ==
  ASSUME ReplicaTypes, NEW d
  PROVE  /\ WithoutChunks(d) \in [Revisions -> [Files -> Versions]]
         /\ WithoutRows(d) \in [Revisions -> [Targets -> Versions]]
<1>1. 0 \in Versions
  BY SyncAssumption DEF SyncAssumption, Versions
<1>. QED
  BY <1>1 DEF ReplicaTypes, WithoutChunks, WithoutRows

\* deleteLocalProject does too.
LEMMA EraseTypes ==
  ASSUME EraseReplica
  PROVE  /\ inventory' \subseteq Attachments /\ pending' \subseteq Attachments
         /\ revisions' \in [Revisions -> PayloadStates]
         /\ files' \in [Revisions -> SUBSET Files]
         /\ chunks' \in [Revisions -> [Files -> Versions]]
         /\ ready' \in [Revisions -> [Targets -> Versions]]
<1>1. 0 \in Versions
  BY SyncAssumption DEF SyncAssumption, Versions
<1>. QED
  BY <1>1 DEF EraseReplica, NoChunks, NoRows, PayloadStates

\* The locals of a call that is over have their initial shapes.
LEMMA EndCallTypes ==
  ASSUME EndCall
  PROVE  DeltaTypes' /\ PlanTypes' /\ PhaseTypes'
<1>1. DeltaTypes'
  BY NoSnapshotType DEF EndCall, DeltaTypes, PayloadStates
<1>2. PlanTypes'
  BY DEF EndCall, PlanTypes
<1>3. PhaseTypes'
  BY DEF EndCall, PhaseTypes, Phases
<1>. QED
  BY <1>1, <1>2, <1>3

\* The cursor sent for a branch is a number: 0, or the newest known attachment.
LEMMA CursorType ==
  ASSUME ReplicaTypes, NEW b \in Branches
  PROVE  BranchCursor(b) \in Nat
<1>. DEFINE known == {a \in inventory : BranchOf[a] = b}
<1>1. CASE known # {}
  <2>1. known \in SUBSET (1..LastAttachment)
    BY DEF ReplicaTypes, Attachments
  <2>2. Largest(known) \in known
    BY <1>1, <2>1, LargestIn, SyncAssumption DEF SyncAssumption
  <2>. QED
    BY <1>1, <2>1, <2>2 DEF BranchCursor
<1>2. CASE known = {}
  BY <1>2 DEF BranchCursor
<1>. QED
  BY <1>1, <1>2

\* The newest live attachment names a revision.
LEMMA NewestType ==
  ASSUME BackendTypes, Live # {}
  PROVE  RevisionOf[Largest(Live)] \in Revisions
<1>1. Live \in SUBSET (1..LastAttachment)
  BY DEF Live, BackendTypes, Attachments
<1>2. Largest(Live) \in Attachments
  BY <1>1, LargestIn, SyncAssumption DEF SyncAssumption, Attachments
<1>. QED
  BY <1>2, SyncAssumption DEF SyncAssumption

\* What a page invalidates is a set of invalidation hints.
LEMMA InvalidationsType ==
  ASSUME BackendTypes
  PROVE  Invalidations \subseteq Drop
BY DEF Invalidations, Drop

\* What a page plans is a set of materialization plans.
LEMMA PlanSetsType ==
  ASSUME BackendTypes, NEW ps \in PlanSets
  PROVE  ps \subseteq Plan
<1>1. PICK choice \in [Targets -> Revisions \union {None}] :
        ps = {PlanFor(t, choice[t]) : t \in {u \in Targets : NeedsPlan(u)}}
  BY DEF PlanSets
<1>2. ASSUME NEW t \in Targets, NeedsPlan(t) PROVE PlanFor(t, choice[t]) \in Plan
  <2>1. RevisionOf[Largest(Live)] \in Revisions
    BY <1>2, NewestType DEF NeedsPlan
  <2>2. version[t] \in Versions
    BY DEF BackendTypes
  <2>. QED
    BY <2>1, <2>2 DEF PlanFor, Plan
<1>. QED
  BY <1>1, <1>2

\* No step leaves the types, whichever query or backend event it is.
LEMMA StepTypeOK == TypeOK /\ [Next]_vars => TypeOK'
<1>. SUFFICES ASSUME TypeOK, [Next]_vars PROVE TypeOK'
  OBVIOUS
<1>. USE SyncAssumption, NoneAssumption DEF SyncAssumption, NoneAssumption
<1>. USE DEF TypeOK, BackendTypes, ReplicaTypes, DeltaTypes, PlanTypes, PhaseTypes, BoundTypes,
         backend, registry, replica, delta, cleanup, bounds, Versions, PayloadStates, Phases
<1>1. ASSUME NEW a \in Attachments, Publish(a) PROVE TypeOK'
  BY <1>1 DEF Publish
<1>2. ASSUME NEW a \in Attachments, Tombstone(a) PROVE TypeOK'
  BY <1>2 DEF Tombstone
<1>3. ASSUME NEW t \in Targets, Upgrade(t) PROVE TypeOK'
  BY <1>3 DEF Upgrade
<1>4. ASSUME NEW b \in Branches, Register(b) PROVE TypeOK'
  BY <1>4 DEF Register
<1>5. ASSUME NEW b \in Branches, Observe(b) PROVE TypeOK'
  BY <1>5 DEF Observe
<1>6. CASE Clean
  <2>1. profile' \in [Targets -> Versions]
    BY <1>6 DEF Clean
  <2>2. ReplicaTypes'
    BY <1>6, <2>1, EraseTypes DEF Clean
  <2>3. BackendTypes' /\ DeltaTypes' /\ PlanTypes' /\ PhaseTypes' /\ BoundTypes'
    BY <1>6 DEF Clean
  <2>. QED
    BY <2>2, <2>3
<1>7. CASE Start
  <2>1. snap' \in Snapshot
    BY <1>7, CursorType DEF Start, Snapshot
  <2>. QED
    BY <1>7, <2>1 DEF Start
<1>8. CASE FetchPage
  <2>1. PICK last \in {a \in Owed : a > pageCursor} \union {pageCursor} :
          /\ page' = {a \in Owed : a > pageCursor /\ a <= last}
          /\ more' \in BOOLEAN /\ pageCursor' = last
          /\ stale' = stale \union Tombstones(last)
          /\ UNCHANGED <<drops, plans>> \/ (drops' = Invalidations /\ plans' \in PlanSets)
          /\ profile' = version /\ pc' = "revision"
          /\ UNCHANGED <<backend, registered, tracked, status, replica, snap, current,
                         unfetched, completed, payload, drop, plan, refs, bounds>>
    BY <1>8 DEF FetchPage
  <2>2. Owed \subseteq Attachments /\ Attachments \subseteq Nat
    BY AttachmentsAreNatural DEF Owed, Live
  <2>3. BackendTypes' /\ ReplicaTypes' /\ PhaseTypes' /\ BoundTypes'
    BY <2>1, <1>8 DEF FetchPage
  <2>4. DeltaTypes'
    BY <2>1, <2>2 DEF Tombstones
  <2>5. PlanTypes'
    BY <2>1, InvalidationsType, PlanSetsType
  <2>. QED
    BY <2>3, <2>4, <2>5
<1>9. CASE InventoryAttachment
  <2>1. Smallest(page) \in page
    BY <1>9, SmallestIn DEF InventoryAttachment, Attachments
  <2>. QED
    BY <1>9, <2>1 DEF InventoryAttachment
<1>10. CASE NextPage
  BY <1>10 DEF NextPage
<1>11. CASE UpsertRevision
  <2>1. RevisionOf[current] \in Revisions
    BY <1>11 DEF UpsertRevision
  <2>2. revisions' \in [Revisions -> PayloadStates] /\ payload' \in [Revisions -> PayloadStates]
    BY <1>11, <2>1 DEF UpsertRevision
  <2>3. completed' \subseteq Attachments /\ pc' \in {"revision", "persist"}
    BY <1>11 DEF UpsertRevision
  <2>. QED
    BY <1>11, <2>2, <2>3 DEF UpsertRevision
<1>12. CASE PersistPending
  BY <1>12 DEF PersistPending
<1>13. CASE FetchFiles
  BY <1>13 DEF FetchFiles
<1>14. CASE FinishFiles
  BY <1>14 DEF FinishFiles
<1>15. CASE InvalidateChunks
  <2>1. PICK d \in drops : drop' = d /\ drops' = drops \ {d} /\ chunks' = WithoutChunks(d)
    BY <1>15 DEF InvalidateChunks
  <2>2. d \in Drop /\ d # None
    BY <2>1
  <2>. QED
    BY <1>15, <2>1, <2>2, ClearingTypes DEF InvalidateChunks
<1>16. CASE InvalidateRow
  BY <1>16, ClearingTypes DEF InvalidateRow
<1>17. CASE InvalidationsDone
  BY <1>17 DEF InvalidationsDone
<1>18. CASE UnpendStale
  BY <1>18 DEF UnpendStale
<1>19. CASE UnlinkStale
  BY <1>19 DEF UnlinkStale
<1>20. CASE DropFiles
  BY <1>20 DEF DropFiles
<1>21. CASE DropChunks
  <2>1. NoChunks \in [Files -> Versions]
    BY DEF NoChunks
  <2>. QED
    BY <1>21, <2>1 DEF DropChunks
<1>22. CASE DropRevision
  BY <1>22 DEF DropRevision
<1>23. CASE ClearCompleted
  BY <1>23 DEF ClearCompleted
<1>24. CASE BeginPlan
  <2>1. PICK p \in plans :
          /\ plan' = p /\ plans' = plans \ {p}
          /\ \/ pc' = "import" /\ refs' = ArtifactFiles(files[p.revision], p.target)
             \/ p.replace # None /\ pc' = "replace" /\ refs' = {}
    BY <1>24 DEF BeginPlan
  <2>2. p \in Plan /\ p # None /\ p.revision \in Revisions
    BY <2>1 DEF Plan
  <2>3. refs' \subseteq Files
    BY <2>1, <2>2 DEF ArtifactFiles
  <2>4. PlanTypes' /\ PhaseTypes'
    BY <1>24, <2>1, <2>2, <2>3 DEF BeginPlan
  <2>. QED
    BY <1>24, <2>4 DEF BeginPlan
<1>25. CASE ReplaceChunks
  BY <1>25, ClearingTypes DEF ReplaceChunks
<1>26. CASE ReplaceRow
  <2>1. plan.revision \in Revisions
    BY <1>26 DEF ReplaceRow, Plan
  <2>2. refs' \subseteq Files
    BY <1>26, <2>1 DEF ReplaceRow, ArtifactFiles
  <2>. QED
    BY <1>26, <2>2, ClearingTypes DEF ReplaceRow
<1>27. CASE ImportBatch
  <2>1. plan.revision \in Revisions /\ version[plan.target] \in Versions
    BY <1>27 DEF ImportBatch, Plan
  <2>2. chunks' \in [Revisions -> [Files -> Versions]] /\ refs' \subseteq Files
    BY <1>27, <2>1 DEF ImportBatch
  <2>. QED
    BY <1>27, <2>2 DEF ImportBatch
<1>28. CASE UpsertMaterialization
  <2>1. plan.revision \in Revisions /\ profile[plan.target] \in Versions
    BY <1>28 DEF UpsertMaterialization, Plan
  <2>2. ready' \in [Revisions -> [Targets -> Versions]]
    BY <1>28, <2>1 DEF UpsertMaterialization
  <2>. QED
    BY <1>28, <2>2 DEF UpsertMaterialization
<1>29. CASE Complete
  BY <1>29, EndCallTypes DEF Complete
<1>30. CASE BackendFails
  BY <1>30, EndCallTypes DEF BackendFails
<1>31. CASE RejectArtifact
  BY <1>31, EndCallTypes DEF RejectArtifact
<1>32. CASE Crash
  BY <1>32, EndCallTypes DEF Crash
<1>33. CASE UNCHANGED vars
  BY <1>33 DEF vars
<1>. HIDE DEF TypeOK
<1>. QED
  BY <1>1, <1>2, <1>3, <1>4, <1>5, <1>6, <1>7, <1>8, <1>9, <1>10, <1>11, <1>12, <1>13, <1>14,
     <1>15, <1>16, <1>17, <1>18, <1>19, <1>20, <1>21, <1>22, <1>23, <1>24, <1>25, <1>26, <1>27,
     <1>28, <1>29, <1>30, <1>31, <1>32, <1>33 DEF Next, Work, Environment

-----------------------------------------------------------------------------
(* What a call in progress knows, wherever the process may have died before. *)

EarlyPhases == {"page", "revision", "upsert", "persist", "files", "filesDone"}
LatePhases  == {"invalidate", "dropRow", "stale", "plan", "replace", "replaceRow", "import"}

\* The attachment being processed has its inventory row; the one being
\* forgotten has lost its pending row.
CurrentIsLinked ==
  /\ pc \in {"upsert", "persist", "files", "filesDone"} => current \in inventory
  /\ pc = "unlink" => current \notin pending

StaleIsTombstoned ==
  /\ stale \subseteq tombstoned
  /\ pc = "unlink" => current \in tombstoned

\* The call's payload states are those of the database, but for the row that
\* UpsertRevision has just written.
PayloadAgrees ==
  /\ pc \in EarlyPhases \ {"persist"} => payload = revisions
  /\ pc = "persist" => revisions = [payload EXCEPT ![RevisionOf[current]] = "unsynced"]

\* What clearCompletedAttachmentState will unpend has its files, or is gone.
CompletedIsSynced ==
  /\ pc = "idle" => completed = {}
  /\ \A a \in completed : \/ revisions[RevisionOf[a]] = "synced"
                          \/ a \notin inventory /\ pc \notin EarlyPhases

UnsyncedHasFiles == \A r \in Revisions : revisions[r] = "unsynced" => FilesOf[r] # {}
AbsentHasNoFiles == \A r \in Revisions : revisions[r] = "absent" => files[r] = {}

\* The files fetched and those still to fetch make up the revision.
FilesUnderWay ==
  /\ pc \in {"files", "filesDone"} => revisions[RevisionOf[current]] = "unsynced"
  /\ pc = "files" => \/ unfetched = FilesOf[RevisionOf[current]]
                     \/ files[RevisionOf[current]] \union unfetched = FilesOf[RevisionOf[current]]
  /\ pc = "filesDone" => files[RevisionOf[current]] = FilesOf[RevisionOf[current]]

\* A pending row is written after its attachment and deleted before it.
PendingIsInventoried == pending \subseteq inventory

\* A payload is erased only when no attachment is left to need it.
DroppedIsUnused ==
  /\ pc \in {"dropFiles", "dropChunks", "dropRevision"} =>
       \A a \in inventory : RevisionOf[a] # RevisionOf[current]
  /\ pc \in {"dropChunks", "dropRevision"} => files[RevisionOf[current]] = {}

Books ==
  /\ PendingIsInventoried /\ CurrentIsLinked /\ StaleIsTombstoned
  /\ PayloadAgrees /\ CompletedIsSynced /\ UnsyncedHasFiles /\ AbsentHasNoFiles
  /\ FilesUnderWay /\ DroppedIsUnused

\* What only a death in the middle of a step's queries can break.
Promises == NothingLost /\ SyncedPayloadIsWhole

IInv == TypeOK /\ Books /\ (crashes = 0 => Promises)

\* An empty database satisfies the inductive invariant.
LEMMA InitIInv == Init => IInv
<1>. SUFFICES ASSUME Init PROVE IInv
  OBVIOUS
<1>1. TypeOK
  <2>1. BackendTypes
    BY SyncAssumption DEF Init, BackendTypes, SyncAssumption, Versions
  <2>2. ReplicaTypes
    <3>1. 0 \in Versions
      BY SyncAssumption DEF SyncAssumption, Versions
    <3>. QED
      BY <3>1 DEF Init, EmptyReplica, ReplicaTypes, NoChunks, NoRows, PayloadStates
  <2>3. DeltaTypes
    BY NoSnapshotType DEF Init, NoCall, DeltaTypes, PayloadStates
  <2>4. PlanTypes /\ PhaseTypes
    BY DEF Init, NoCall, PlanTypes, PhaseTypes, Phases
  <2>5. BoundTypes
    BY SyncAssumption DEF Init, BoundTypes, SyncAssumption
  <2>. QED
    BY <2>1, <2>2, <2>3, <2>4, <2>5 DEF TypeOK
<1>2. Books
  BY DEF Init, EmptyReplica, NoCall, Books, PendingIsInventoried, CurrentIsLinked,
     StaleIsTombstoned, PayloadAgrees, CompletedIsSynced, UnsyncedHasFiles,
     AbsentHasNoFiles, FilesUnderWay, DroppedIsUnused, EarlyPhases
<1>3. Promises
  BY DEF Init, EmptyReplica, Promises, NothingLost, SyncedPayloadIsWhole
<1>. QED
  BY <1>1, <1>2, <1>3 DEF IInv

\* A step that leaves attachments, payloads and files alone, and moves between
\* phases without any of them in hand.
Quiet ==
  /\ UNCHANGED <<inventory, pending, revisions, files, payload, current, unfetched,
                 completed, stale, crashes>>
  /\ tombstoned \subseteq tombstoned'
  /\ \/ pc' = pc
     \/ pc = "revision" /\ pc' = "page"
     \/ pc \in LatePhases \union {"revision"} /\ pc' \in LatePhases

\* A step that touches neither rows of revisions nor the locals they are compared
\* with keeps it.
LEMMA QuietKeeps ==
  ASSUME TypeOK, Books, crashes = 0 => Promises, Quiet
  PROVE  Books' /\ (crashes' = 0 => Promises')
<1>1. PendingIsInventoried' /\ CurrentIsLinked' /\ StaleIsTombstoned'
  BY DEF Books, Quiet, PendingIsInventoried, CurrentIsLinked, StaleIsTombstoned, LatePhases
<1>2. PayloadAgrees' /\ CompletedIsSynced'
  BY DEF Books, Quiet, PayloadAgrees, CompletedIsSynced, LatePhases, EarlyPhases
<1>3. UnsyncedHasFiles' /\ AbsentHasNoFiles' /\ FilesUnderWay' /\ DroppedIsUnused'
  BY DEF Books, Quiet, UnsyncedHasFiles, AbsentHasNoFiles, FilesUnderWay, DroppedIsUnused,
     LatePhases
<1>4. ASSUME crashes' = 0 PROVE Promises'
  BY <1>4 DEF Promises, Quiet, NothingLost, SyncedPayloadIsWhole, LatePhases
<1>. QED
  BY <1>1, <1>2, <1>3, <1>4 DEF Books

\* The call ends, by itself or by a death.
LEMMA EndKeeps ==
  ASSUME TypeOK, Books, crashes = 0 => Promises, EndCall,
         UNCHANGED <<inventory, pending, revisions, files, tombstoned>>,
         \/ crashes' # 0
         \/ /\ crashes = 0
            /\ pc \notin {"upsert", "persist", "unlink", "dropChunks", "dropRevision"}
  PROVE  Books' /\ (crashes' = 0 => Promises')
<1>1. Books'
  BY DEF Books, EndCall, PendingIsInventoried, CurrentIsLinked, StaleIsTombstoned,
     PayloadAgrees, CompletedIsSynced, UnsyncedHasFiles, AbsentHasNoFiles, FilesUnderWay,
     DroppedIsUnused, EarlyPhases
<1>2. ASSUME crashes' = 0 PROVE Promises'
  BY <1>2 DEF Promises, EndCall, NothingLost, SyncedPayloadIsWhole
<1>. QED
  BY <1>1, <1>2

\* Every step keeps it.
LEMMA StepIInv == IInv /\ [Next]_vars => IInv'
<1>. SUFFICES ASSUME IInv, [Next]_vars PROVE Books' /\ (crashes' = 0 => Promises')
  BY StepTypeOK DEF IInv
<1>. USE DEF backend, registry, replica, delta, cleanup, bounds
<1>i. TypeOK /\ Books /\ (crashes = 0 => Promises)
  BY DEF IInv
<1>c. /\ current \in Attachments \union {None}
      /\ current # None => RevisionOf[current] \in Revisions
      /\ revisions \in [Revisions -> PayloadStates] /\ payload \in [Revisions -> PayloadStates]
      /\ files \in [Revisions -> SUBSET Files]
      /\ crashes \in Nat
  BY <1>i, SyncAssumption
  DEF TypeOK, PhaseTypes, ReplicaTypes, DeltaTypes, BoundTypes, SyncAssumption
<1>r. pc \in {"upsert", "persist", "files", "filesDone", "unlink", "dropFiles", "dropChunks",
              "dropRevision"} => RevisionOf[current] \in Revisions
  BY <1>c, <1>i DEF TypeOK, PhaseTypes
<1>1. ASSUME NEW a \in Attachments, Publish(a) \/ Tombstone(a) PROVE Quiet
  BY <1>1 DEF Publish, Tombstone, Quiet
<1>2. ASSUME NEW t \in Targets, Upgrade(t) PROVE Quiet
  BY <1>2 DEF Upgrade, Quiet
<1>3. ASSUME NEW b \in Branches, Register(b) \/ Observe(b) PROVE Quiet
  BY <1>3 DEF Register, Observe, Quiet
<1>4. CASE Clean
  <2>1. /\ inventory' = {} /\ pending' = {} /\ stale' = stale /\ tombstoned' = tombstoned
        /\ revisions' = [r \in Revisions |-> "absent"] /\ files' = [r \in Revisions |-> {}]
        /\ pc = "idle" /\ pc' = "idle" /\ completed' = completed
    BY <1>4 DEF Clean, EraseReplica
  <2>2. Books'
    BY <2>1, <1>i DEF Books, PendingIsInventoried, CurrentIsLinked, StaleIsTombstoned,
       PayloadAgrees, CompletedIsSynced, UnsyncedHasFiles, AbsentHasNoFiles, FilesUnderWay,
       DroppedIsUnused, EarlyPhases
  <2>3. Promises'
    BY <2>1 DEF Promises, NothingLost, SyncedPayloadIsWhole
  <2>. QED
    BY <2>2, <2>3
<1>5. CASE Start
  <2>1. /\ pc' = "page" /\ payload' = revisions /\ pc = "idle"
        /\ UNCHANGED <<inventory, pending, revisions, files, current, completed, stale,
                       unfetched, tombstoned, crashes>>
    BY <1>5 DEF Start
  <2>2. completed = {}
    BY <2>1, <1>i DEF Books, CompletedIsSynced
  <2>3. Books'
    BY <2>1, <2>2, <1>i DEF Books, PendingIsInventoried, CurrentIsLinked, StaleIsTombstoned,
       PayloadAgrees, CompletedIsSynced, UnsyncedHasFiles, AbsentHasNoFiles, FilesUnderWay,
       DroppedIsUnused, EarlyPhases
  <2>4. ASSUME crashes' = 0 PROVE Promises'
    BY <2>1, <2>4, <1>i DEF Promises, NothingLost, SyncedPayloadIsWhole
  <2>. QED
    BY <2>3, <2>4
<1>6. CASE FetchPage
  <2>1. PICK last : stale' = stale \union Tombstones(last)
    BY <1>6 DEF FetchPage
  <2>2. stale' \subseteq tombstoned
    BY <2>1, <1>i DEF Tombstones, Books, StaleIsTombstoned
  <2>3. /\ pc = "page" /\ pc' = "revision"
        /\ UNCHANGED <<inventory, pending, revisions, files, payload, current, completed,
                       tombstoned, crashes>>
    BY <1>6 DEF FetchPage
  <2>4. Books'
    BY <2>2, <2>3, <1>i DEF Books, PendingIsInventoried, CurrentIsLinked, StaleIsTombstoned,
       PayloadAgrees, CompletedIsSynced, UnsyncedHasFiles, AbsentHasNoFiles, FilesUnderWay,
       DroppedIsUnused, EarlyPhases
  <2>5. ASSUME crashes' = 0 PROVE Promises'
    BY <2>3, <2>5, <1>i DEF Promises, NothingLost, SyncedPayloadIsWhole
  <2>. QED
    BY <2>4, <2>5
<1>7. CASE InventoryAttachment
  <2>1. /\ pc = "revision" /\ pc' = "upsert" /\ inventory' = inventory \union {current'}
        /\ UNCHANGED <<pending, revisions, files, payload, completed, stale, tombstoned,
                       crashes>>
    BY <1>7 DEF InventoryAttachment
  <2>2. Books'
    BY <2>1, <1>i DEF Books, PendingIsInventoried, CurrentIsLinked, StaleIsTombstoned,
       PayloadAgrees, CompletedIsSynced, UnsyncedHasFiles, AbsentHasNoFiles, FilesUnderWay,
       DroppedIsUnused, EarlyPhases
  <2>3. ASSUME crashes' = 0 PROVE Promises'
    BY <2>1, <2>3, <1>i DEF Promises, NothingLost, SyncedPayloadIsWhole
  <2>. QED
    BY <2>2, <2>3
<1>8. CASE NextPage
  <2>1. Quiet
    BY <1>8 DEF NextPage, Quiet, LatePhases
  <2>. QED
    BY <2>1, <1>i, QuietKeeps
<1>9. CASE UpsertRevision
  <2>. DEFINE r == RevisionOf[current]
  <2>1. /\ pc = "upsert" /\ payload = revisions /\ r \in Revisions /\ current \in inventory
        /\ UNCHANGED <<inventory, pending, files, current, unfetched, stale, tombstoned,
                       crashes>>
    BY <1>9, <1>i, <1>r DEF UpsertRevision, Books, PayloadAgrees, CurrentIsLinked, EarlyPhases
  <2>2. CASE FilesSynced(r)
    <3>1. /\ revisions' = [revisions EXCEPT ![r] = "synced"]
          /\ payload' = [payload EXCEPT ![r] = "synced"]
          /\ completed' = completed \union {current} /\ pc' = "revision"
      BY <1>9, <2>2 DEF UpsertRevision, NeedsFilesSync
    <3>2. revisions[r] = "synced" \/ (revisions[r] = "absent" /\ FilesOf[r] = {})
      BY <2>1, <2>2 DEF FilesSynced, BackendNeedsFiles
    <3>3. /\ PendingIsInventoried' /\ CurrentIsLinked' /\ StaleIsTombstoned'
          /\ FilesUnderWay' /\ DroppedIsUnused'
      BY <2>1, <3>1, <1>i DEF Books, PendingIsInventoried, CurrentIsLinked, StaleIsTombstoned,
         FilesUnderWay, DroppedIsUnused
    <3>4. PayloadAgrees' /\ UnsyncedHasFiles' /\ AbsentHasNoFiles'
      BY <2>1, <3>1, <1>i, <1>c DEF Books, PayloadAgrees, UnsyncedHasFiles, AbsentHasNoFiles
    <3>5. CompletedIsSynced'
      BY <2>1, <3>1, <1>i, <1>c DEF Books, CompletedIsSynced, EarlyPhases
    <3>6. ASSUME crashes' = 0 PROVE Promises'
      <4>1. NothingLost'
        BY <2>1, <3>1, <3>6, <1>i, <1>c DEF Promises, NothingLost
      <4>2. SyncedPayloadIsWhole'
        BY <2>1, <3>1, <3>2, <3>6, <1>i, <1>c
        DEF Promises, SyncedPayloadIsWhole, Books, AbsentHasNoFiles
      <4>. QED
        BY <4>1, <4>2 DEF Promises
    <3>. QED
      BY <3>3, <3>4, <3>5, <3>6 DEF Books
  <2>3. CASE ~FilesSynced(r)
    <3>1. FilesOf[r] # {} /\ revisions[r] # "synced"
      BY <2>1, <2>3, <1>i, <1>c
      DEF FilesSynced, BackendNeedsFiles, Books, UnsyncedHasFiles, PayloadStates
    <3>2. /\ revisions' = [revisions EXCEPT ![r] = "unsynced"]
          /\ payload' = payload /\ completed' = completed /\ pc' = "persist"
      BY <1>9, <2>3, <3>1 DEF UpsertRevision, NeedsFilesSync, BackendNeedsFiles
    <3>3. /\ PendingIsInventoried' /\ CurrentIsLinked' /\ StaleIsTombstoned'
          /\ FilesUnderWay' /\ DroppedIsUnused' /\ PayloadAgrees'
      BY <2>1, <3>2, <1>i DEF Books, PendingIsInventoried, CurrentIsLinked, StaleIsTombstoned,
         FilesUnderWay, DroppedIsUnused, PayloadAgrees, EarlyPhases
    <3>4. UnsyncedHasFiles' /\ AbsentHasNoFiles' /\ CompletedIsSynced'
      BY <2>1, <3>1, <3>2, <1>i, <1>c
      DEF Books, UnsyncedHasFiles, AbsentHasNoFiles, CompletedIsSynced, EarlyPhases
    <3>5. ASSUME crashes' = 0 PROVE Promises'
      BY <2>1, <3>1, <3>2, <3>5, <1>i, <1>c DEF Promises, NothingLost, SyncedPayloadIsWhole
    <3>. QED
      BY <3>3, <3>4, <3>5 DEF Books
  <2>. QED
    BY <2>2, <2>3
<1>10. CASE PersistPending
  <2>. DEFINE r == RevisionOf[current]
  <2>1. /\ pc = "persist" /\ r \in Revisions /\ current \in inventory
        /\ revisions = [payload EXCEPT ![r] = "unsynced"]
        /\ pending' = pending \union {current} /\ payload' = revisions
        /\ unfetched' = FilesOf[r] /\ pc' \in {"files", "revision"}
        /\ UNCHANGED <<inventory, revisions, files, current, completed, stale, tombstoned,
                       crashes>>
    BY <1>10, <1>i, <1>r DEF PersistPending, Books, PayloadAgrees, CurrentIsLinked
  <2>2. revisions[r] = "unsynced"
    BY <2>1, <1>c
  <2>3. /\ PendingIsInventoried' /\ CurrentIsLinked' /\ StaleIsTombstoned'
        /\ PayloadAgrees' /\ CompletedIsSynced'
    BY <2>1, <1>i DEF Books, PendingIsInventoried, CurrentIsLinked, StaleIsTombstoned,
       PayloadAgrees, CompletedIsSynced, EarlyPhases
  <2>4. UnsyncedHasFiles' /\ AbsentHasNoFiles' /\ FilesUnderWay' /\ DroppedIsUnused'
    BY <2>1, <2>2, <1>i DEF Books, UnsyncedHasFiles, AbsentHasNoFiles, FilesUnderWay,
       DroppedIsUnused
  <2>5. ASSUME crashes' = 0 PROVE Promises'
    BY <2>1, <2>5, <1>i DEF Promises, NothingLost, SyncedPayloadIsWhole
  <2>. QED
    BY <2>3, <2>4, <2>5 DEF Books
<1>11. CASE FetchFiles
  <2>. DEFINE r == RevisionOf[current]
  <2>1. PICK got \in SUBSET unfetched \ {{}} :
          /\ files' = [files EXCEPT ![r] = IF unfetched = FilesOf[r] THEN got ELSE @ \union got]
          /\ unfetched' = unfetched \ got
          /\ pc' = IF unfetched' = {} THEN "filesDone" ELSE "files"
    BY <1>11 DEF FetchFiles
  <2>2. /\ pc = "files" /\ r \in Revisions /\ revisions[r] = "unsynced"
        /\ UNCHANGED <<inventory, pending, revisions, payload, current, completed, stale,
                       tombstoned, crashes>>
    BY <1>11, <1>i, <1>r DEF FetchFiles, Books, FilesUnderWay
  <2>3. files'[r] \union unfetched' = FilesOf[r]
    BY <2>1, <2>2, <1>i, <1>c DEF Books, FilesUnderWay
  <2>4. \A q \in Revisions \ {r} : files'[q] = files[q]
    BY <2>1, <1>c
  <2>5. /\ PendingIsInventoried' /\ CurrentIsLinked' /\ StaleIsTombstoned'
        /\ PayloadAgrees' /\ CompletedIsSynced' /\ UnsyncedHasFiles'
    BY <2>1, <2>2, <1>i DEF Books, PendingIsInventoried, CurrentIsLinked, StaleIsTombstoned,
       PayloadAgrees, CompletedIsSynced, UnsyncedHasFiles, EarlyPhases
  <2>6. AbsentHasNoFiles' /\ FilesUnderWay' /\ DroppedIsUnused'
    BY <2>1, <2>2, <2>3, <2>4, <1>i
    DEF Books, AbsentHasNoFiles, FilesUnderWay, DroppedIsUnused
  <2>7. ASSUME crashes' = 0 PROVE Promises'
    <3>1. NothingLost'
      BY <2>1, <2>2, <2>7, <1>i DEF Promises, NothingLost
    <3>2. SyncedPayloadIsWhole'
      BY <2>1, <2>2, <2>4, <2>7, <1>i DEF Promises, SyncedPayloadIsWhole
    <3>. QED
      BY <3>1, <3>2 DEF Promises
  <2>. QED
    BY <2>5, <2>6, <2>7 DEF Books
<1>12. CASE FinishFiles
  <2>. DEFINE r == RevisionOf[current]
  <2>1. /\ pc = "filesDone" /\ pc' = "revision" /\ r \in Revisions /\ payload = revisions
        /\ files[r] = FilesOf[r]
        /\ revisions' = [revisions EXCEPT ![r] = "synced"]
        /\ payload' = [payload EXCEPT ![r] = "synced"]
        /\ completed' = completed \union {current}
        /\ UNCHANGED <<inventory, pending, files, current, stale, tombstoned, crashes>>
    BY <1>12, <1>i, <1>r DEF FinishFiles, Books, PayloadAgrees, FilesUnderWay, EarlyPhases
  <2>2. /\ PendingIsInventoried' /\ CurrentIsLinked' /\ StaleIsTombstoned'
        /\ FilesUnderWay' /\ DroppedIsUnused' /\ PayloadAgrees'
    BY <2>1, <1>i DEF Books, PendingIsInventoried, CurrentIsLinked, StaleIsTombstoned,
       FilesUnderWay, DroppedIsUnused, PayloadAgrees
  <2>3. CompletedIsSynced' /\ UnsyncedHasFiles' /\ AbsentHasNoFiles'
    BY <2>1, <1>i, <1>c DEF Books, CompletedIsSynced, UnsyncedHasFiles, AbsentHasNoFiles,
       EarlyPhases
  <2>4. ASSUME crashes' = 0 PROVE Promises'
    BY <2>1, <2>4, <1>i, <1>c DEF Promises, NothingLost, SyncedPayloadIsWhole
  <2>. QED
    BY <2>2, <2>3, <2>4 DEF Books
<1>13. CASE InvalidateChunks \/ InvalidateRow \/ InvalidationsDone
  <2>1. Quiet
    BY <1>13 DEF InvalidateChunks, InvalidateRow, InvalidationsDone, Quiet, LatePhases
  <2>. QED
    BY <2>1, <1>i, QuietKeeps
<1>14. CASE UnpendStale
  <2>1. /\ pc = "stale" /\ pc' = "unlink" /\ pending' = pending \ {current'}
        /\ current' \in stale /\ stale' = stale \ {current'}
        /\ UNCHANGED <<inventory, revisions, files, payload, completed, tombstoned, crashes>>
    BY <1>14 DEF UnpendStale
  <2>2. Books'
    BY <2>1, <1>i DEF Books, PendingIsInventoried, CurrentIsLinked, StaleIsTombstoned,
       PayloadAgrees, CompletedIsSynced, UnsyncedHasFiles, AbsentHasNoFiles, FilesUnderWay,
       DroppedIsUnused, EarlyPhases
  <2>3. ASSUME crashes' = 0 PROVE Promises'
    BY <2>1, <2>3, <1>i DEF Promises, NothingLost, SyncedPayloadIsWhole
  <2>. QED
    BY <2>2, <2>3
<1>15. CASE UnlinkStale
  <2>1. /\ pc = "unlink" /\ pc' \in {"stale", "dropFiles"}
        /\ inventory' = inventory \ {current}
        /\ pc' = "dropFiles" => ~PayloadUsed(RevisionOf[current])
        /\ UNCHANGED <<pending, revisions, files, payload, current, completed, stale,
                       tombstoned, crashes>>
    BY <1>15 DEF UnlinkStale
  <2>2. DroppedIsUnused'
    BY <2>1 DEF DroppedIsUnused, PayloadUsed
  <2>3. Books'
    BY <2>1, <2>2, <1>i DEF Books, PendingIsInventoried, CurrentIsLinked, StaleIsTombstoned,
       PayloadAgrees, CompletedIsSynced, UnsyncedHasFiles, AbsentHasNoFiles, FilesUnderWay,
       EarlyPhases
  <2>4. ASSUME crashes' = 0 PROVE Promises'
    BY <2>1, <2>4, <1>i DEF Promises, NothingLost, SyncedPayloadIsWhole
  <2>. QED
    BY <2>3, <2>4
<1>16. CASE DropFiles
  <2>. DEFINE r == RevisionOf[current]
  <2>1. /\ pc = "dropFiles" /\ pc' = "dropChunks" /\ r \in Revisions
        /\ files' = [files EXCEPT ![r] = {}]
        /\ UNCHANGED <<inventory, pending, revisions, payload, current, completed, stale,
                       tombstoned, crashes>>
    BY <1>16, <1>r DEF DropFiles
  <2>2. files'[r] = {} /\ \A q \in Revisions \ {r} : files'[q] = files[q]
    BY <2>1, <1>c
  <2>3. Books'
    BY <2>1, <2>2, <1>i DEF Books, PendingIsInventoried, CurrentIsLinked, StaleIsTombstoned,
       PayloadAgrees, CompletedIsSynced, UnsyncedHasFiles, AbsentHasNoFiles, FilesUnderWay,
       DroppedIsUnused, EarlyPhases
  <2>4. ASSUME crashes' = 0 PROVE Promises'
    BY <2>1, <2>2, <2>4, <1>i DEF Promises, NothingLost, SyncedPayloadIsWhole
  <2>. QED
    BY <2>3, <2>4
<1>17. CASE DropChunks
  <2>1. /\ pc = "dropChunks" /\ pc' = "dropRevision"
        /\ UNCHANGED <<inventory, pending, revisions, files, payload, current, completed,
                       stale, tombstoned, crashes>>
    BY <1>17 DEF DropChunks
  <2>2. Books'
    BY <2>1, <1>i DEF Books, PendingIsInventoried, CurrentIsLinked, StaleIsTombstoned,
       PayloadAgrees, CompletedIsSynced, UnsyncedHasFiles, AbsentHasNoFiles, FilesUnderWay,
       DroppedIsUnused, EarlyPhases
  <2>3. ASSUME crashes' = 0 PROVE Promises'
    BY <2>1, <2>3, <1>i DEF Promises, NothingLost, SyncedPayloadIsWhole
  <2>. QED
    BY <2>2, <2>3
<1>18. CASE DropRevision
  <2>. DEFINE r == RevisionOf[current]
  <2>1. /\ pc = "dropRevision" /\ pc' = "stale" /\ r \in Revisions /\ files[r] = {}
        /\ \A a \in inventory : RevisionOf[a] # r
        /\ revisions' = [revisions EXCEPT ![r] = "absent"]
        /\ UNCHANGED <<inventory, pending, files, payload, current, completed, stale,
                       tombstoned, crashes>>
    BY <1>18, <1>i, <1>r DEF DropRevision, Books, DroppedIsUnused
  <2>2. revisions'[r] = "absent" /\ \A q \in Revisions \ {r} : revisions'[q] = revisions[q]
    BY <2>1, <1>c
  <2>3. \A a \in Attachments : RevisionOf[a] \in Revisions
    BY SyncAssumption DEF SyncAssumption
  <2>4. inventory \subseteq Attachments /\ completed \subseteq Attachments
    BY <1>i DEF TypeOK, ReplicaTypes, DeltaTypes
  <2>5. CompletedIsSynced'
    BY <2>1, <2>2, <2>3, <2>4, <1>i DEF Books, CompletedIsSynced, EarlyPhases
  <2>6. Books'
    BY <2>1, <2>2, <2>5, <1>i DEF Books, PendingIsInventoried, CurrentIsLinked,
       StaleIsTombstoned, PayloadAgrees, UnsyncedHasFiles, AbsentHasNoFiles, FilesUnderWay,
       DroppedIsUnused, EarlyPhases
  <2>7. ASSUME crashes' = 0 PROVE Promises'
    <3>1. NothingLost'
      BY <2>1, <2>2, <2>3, <2>4, <2>7, <1>i DEF Promises, NothingLost
    <3>2. SyncedPayloadIsWhole'
      BY <2>1, <2>2, <2>7, <1>i DEF Promises, SyncedPayloadIsWhole
    <3>. QED
      BY <3>1, <3>2 DEF Promises
  <2>. QED
    BY <2>6, <2>7
<1>19. CASE ClearCompleted
  <2>1. /\ pc = "stale" /\ pc' = "plan" /\ pending' = pending \ completed
        /\ UNCHANGED <<inventory, revisions, files, payload, current, completed, stale,
                       tombstoned, crashes>>
    BY <1>19 DEF ClearCompleted
  <2>2. Books'
    BY <2>1, <1>i DEF Books, PendingIsInventoried, CurrentIsLinked, StaleIsTombstoned,
       PayloadAgrees, CompletedIsSynced, UnsyncedHasFiles, AbsentHasNoFiles, FilesUnderWay,
       DroppedIsUnused, EarlyPhases
  <2>3. ASSUME crashes' = 0 PROVE Promises'
    BY <2>1, <2>3, <1>i DEF Promises, NothingLost, SyncedPayloadIsWhole, Books,
       CompletedIsSynced
  <2>. QED
    BY <2>2, <2>3
<1>20. CASE BeginPlan \/ ReplaceChunks \/ ReplaceRow
  <2>1. Quiet
    BY <1>20 DEF BeginPlan, ReplaceChunks, ReplaceRow, Quiet, LatePhases
  <2>. QED
    BY <2>1, <1>i, QuietKeeps
<1>21. CASE ImportBatch \/ UpsertMaterialization
  <2>1. Quiet
    BY <1>21 DEF ImportBatch, UpsertMaterialization, Quiet, LatePhases
  <2>. QED
    BY <2>1, <1>i, QuietKeeps
<1>22. CASE Complete \/ BackendFails \/ RejectArtifact
  <2>1. /\ pc \in {"plan", "page", "files", "import"} /\ EndCall
        /\ UNCHANGED <<inventory, pending, revisions, files, tombstoned, crashes>>
    BY <1>22 DEF Complete, BackendFails, RejectArtifact
  <2>. QED
    BY <2>1, <1>i, EndKeeps
<1>23. CASE Crash
  <2>1. /\ EndCall /\ crashes' # 0
        /\ UNCHANGED <<inventory, pending, revisions, files, tombstoned>>
    BY <1>23, <1>c DEF Crash
  <2>. QED
    BY <2>1, <1>i, EndKeeps
<1>24. CASE UNCHANGED vars
  <2>1. Quiet
    BY <1>24 DEF vars, Quiet
  <2>. QED
    BY <2>1, <1>i, QuietKeeps
<1>. QED
  BY <1>1, <1>2, <1>3, <1>4, <1>5, <1>6, <1>7, <1>8, <1>9, <1>10, <1>11, <1>12, <1>13, <1>14,
     <1>15, <1>16, <1>17, <1>18, <1>19, <1>20, <1>21, <1>22, <1>23, <1>24, <1>i, QuietKeeps
  DEF Next, Work, Environment

-----------------------------------------------------------------------------
\* The inductive invariant holds in every reachable state.
THEOREM Invariance == Spec => []IInv
<1>. QED
  BY InitIInv, StepIInv, PTL DEF Spec

\* Every variable keeps its type, and each phase has the locals it works with.
THEOREM TypeCorrect == Spec => []TypeOK
<1>1. IInv => TypeOK
  BY DEF IInv
<1>. QED
  BY <1>1, Invariance, PTL

\* While the process has not died, an inventoried attachment has its files or a
\* pending row, however many backend calls have failed in whatever place.
THEOREM NothingIsLost == Spec => []NothingLost
<1>1. IInv => NothingLost
  BY DEF IInv, Promises, NothingLost
<1>. QED
  BY <1>1, Invariance, PTL

\* While the process has not died, needs_files_sync = FALSE means a whole file
\* list.
THEOREM SyncedIsWhole == Spec => []SyncedPayloadIsWhole
<1>1. IInv => SyncedPayloadIsWhole
  BY DEF IInv, Promises, SyncedPayloadIsWhole
<1>. QED
  BY <1>1, Invariance, PTL

\* Whatever deaths there are, a pending row has its attachment.
THEOREM PendingHasAttachment == Spec => []PendingIsInventoried
<1>1. IInv => PendingIsInventoried
  BY DEF IInv, Books
<1>. QED
  BY <1>1, Invariance, PTL

\* A step forgets only attachments the backend withdrew, or the whole project.
THEOREM OnlyStaleForgotten == Spec => ForgetsOnlyStale
<1>. DEFINE Keeps == \A a \in inventory \ inventory' : a \in tombstoned \/ ~registered'
<1>1. ASSUME IInv, Next PROVE Keeps
  <2>. USE DEF replica, delta
  <2>1. CASE UnlinkStale
    BY <1>1, <2>1 DEF UnlinkStale, IInv, Books, StaleIsTombstoned
  <2>2. CASE Clean
    BY <2>2 DEF Clean
  <2>3. CASE InventoryAttachment
    BY <2>3 DEF InventoryAttachment
  <2>4. CASE ~(UnlinkStale \/ Clean \/ InventoryAttachment)
    <3>1. inventory' = inventory
      BY <1>1, <2>4 DEF Next, Work, Environment, Publish, Tombstone, Upgrade, Register,
         Observe, Start, FetchPage, NextPage, UpsertRevision, PersistPending, FetchFiles,
         FinishFiles, InvalidateChunks, InvalidateRow, InvalidationsDone, UnpendStale,
         DropFiles, DropChunks, DropRevision, ClearCompleted, BeginPlan, ReplaceChunks,
         ReplaceRow, ImportBatch, UpsertMaterialization, Complete, BackendFails,
         RejectArtifact, Crash
    <3>. QED
      BY <3>1
  <2>. QED
    BY <2>1, <2>2, <2>3, <2>4
<1>2. IInv /\ [Next]_vars => [Keeps]_vars
  BY <1>1
<1>. QED
  BY <1>2, Invariance, PTL DEF Spec, ForgetsOnlyStale

-----------------------------------------------------------------------------
(* What deaths cost, and what a materialisation row is worth.              *)

\* The attachments lost so far, without the one that is being written.
Outstanding == {a \in Lost : ~(a = current /\ pc \in {"upsert", "persist"})}

\* The payloads emptied so far, without the one that is being erased.
Erasing(r) == pc \in {"dropChunks", "dropRevision"} /\ RevisionOf[current] = r
Hollow == {r \in Emptied : ~Erasing(r)}

LossInv == /\ IsFiniteSet(Hollow)
           /\ Cardinality(Outstanding) + Cardinality(Hollow) <= crashes

\* Only a death loses an attachment: the one between its inventory row and its
\* pending row (processRevisionDelta).
LEMMA OutstandingStep ==
  ASSUME IInv, [Next]_vars
  PROVE  \/ Outstanding' \subseteq Outstanding /\ crashes' = crashes
         \/ /\ Outstanding' \subseteq Outstanding \union {current} /\ Crash
            /\ pc \in {"upsert", "persist"}
         \/ Outstanding' \subseteq Outstanding /\ Crash
<1>. USE DEF backend, registry, replica, delta, cleanup, bounds, Outstanding, Lost
<1>i. TypeOK /\ Books
  BY DEF IInv
<1>c. /\ inventory \subseteq Attachments
      /\ \A a \in Attachments : RevisionOf[a] \in Revisions
      /\ revisions \in [Revisions -> PayloadStates]
  BY <1>i, SyncAssumption DEF TypeOK, ReplicaTypes, SyncAssumption
<1>r. pc \in {"upsert", "persist", "files", "filesDone", "unlink", "dropFiles", "dropChunks",
              "dropRevision"} => RevisionOf[current] \in Revisions
  BY <1>c, <1>i DEF TypeOK, PhaseTypes
<1>1. ASSUME NEW a \in Attachments, Publish(a) \/ Tombstone(a)
      PROVE  Outstanding' \subseteq Outstanding /\ crashes' = crashes
  BY <1>1 DEF Publish, Tombstone
<1>2. ASSUME NEW t \in Targets, Upgrade(t)
      PROVE  Outstanding' \subseteq Outstanding /\ crashes' = crashes
  BY <1>2 DEF Upgrade
<1>3. ASSUME NEW b \in Branches, Register(b) \/ Observe(b)
      PROVE  Outstanding' \subseteq Outstanding /\ crashes' = crashes
  BY <1>3 DEF Register, Observe
<1>4. CASE Clean
  BY <1>4 DEF Clean, EraseReplica
<1>5. CASE Start
  BY <1>5 DEF Start
<1>6. CASE FetchPage
  BY <1>6 DEF FetchPage
<1>7. CASE InventoryAttachment
  BY <1>7 DEF InventoryAttachment
<1>8. CASE NextPage \/ InvalidateChunks \/ InvalidateRow \/ InvalidationsDone
  BY <1>8 DEF NextPage, InvalidateChunks, InvalidateRow, InvalidationsDone
<1>9. CASE UpsertRevision
  <2>. DEFINE r == RevisionOf[current]
  <2>1. /\ pc = "upsert" /\ payload = revisions /\ r \in Revisions
        /\ UNCHANGED <<inventory, pending, current, tombstoned, crashes>>
    BY <1>9, <1>i, <1>r DEF UpsertRevision, Books, PayloadAgrees, EarlyPhases
  <2>2. CASE FilesSynced(r)
    <3>1. revisions' = [revisions EXCEPT ![r] = "synced"] /\ pc' = "revision"
      BY <1>9, <2>2 DEF UpsertRevision, NeedsFilesSync
    <3>. QED
      BY <2>1, <3>1, <1>c
  <2>3. CASE ~FilesSynced(r)
    <3>1. revisions[r] # "synced" /\ pc' = "persist"
      BY <1>9, <2>1, <2>3, <1>i
      DEF UpsertRevision, FilesSynced, BackendNeedsFiles, Books, UnsyncedHasFiles
    <3>2. PICK s \in {"unsynced", "synced"} : revisions' = [revisions EXCEPT ![r] = s]
      BY <1>9 DEF UpsertRevision
    <3>. QED
      BY <2>1, <3>1, <3>2, <1>c
  <2>. QED
    BY <2>2, <2>3
<1>10. CASE PersistPending
  BY <1>10 DEF PersistPending
<1>11. CASE FetchFiles
  BY <1>11 DEF FetchFiles
<1>12. CASE FinishFiles
  BY <1>12, <1>c, <1>r DEF FinishFiles
<1>13. CASE UnpendStale
  BY <1>13, <1>i DEF UnpendStale, Books, StaleIsTombstoned
<1>14. CASE UnlinkStale
  BY <1>14, <1>i DEF UnlinkStale
<1>15. CASE DropFiles \/ DropChunks
  BY <1>15 DEF DropFiles, DropChunks
<1>16. CASE DropRevision
  BY <1>16, <1>i, <1>c, <1>r DEF DropRevision, Books, DroppedIsUnused
<1>17. CASE ClearCompleted
  BY <1>17, <1>i DEF ClearCompleted, Books, CompletedIsSynced
<1>18. CASE BeginPlan \/ ReplaceChunks \/ ReplaceRow
  BY <1>18 DEF BeginPlan, ReplaceChunks, ReplaceRow
<1>19. CASE ImportBatch \/ UpsertMaterialization
  BY <1>19 DEF ImportBatch, UpsertMaterialization
<1>20. CASE Complete \/ BackendFails \/ RejectArtifact
  BY <1>20 DEF Complete, BackendFails, RejectArtifact, EndCall
<1>21. CASE Crash
  BY <1>21 DEF Crash, EndCall
<1>22. CASE UNCHANGED vars
  BY <1>22 DEF vars
<1>. QED
  BY <1>1, <1>2, <1>3, <1>4, <1>5, <1>6, <1>7, <1>8, <1>9, <1>10, <1>11, <1>12, <1>13, <1>14,
     <1>15, <1>16, <1>17, <1>18, <1>19, <1>20, <1>21, <1>22 DEF Next, Work, Environment

\* Only a death leaves a promise unkept: that of the payload it interrupts between
\* its deletes (deletePayloadIfUnused).
LEMMA HollowStep ==
  ASSUME IInv, [Next]_vars
  PROVE  \/ Hollow' \subseteq Hollow
         \/ /\ Hollow' \subseteq Hollow \union {RevisionOf[current]} /\ Crash
            /\ pc \in {"dropChunks", "dropRevision"}
<1>. USE DEF backend, registry, replica, delta, cleanup, bounds, Hollow, Emptied, Erasing
<1>i. TypeOK /\ Books
  BY DEF IInv
<1>c. /\ revisions \in [Revisions -> PayloadStates] /\ files \in [Revisions -> SUBSET Files]
      /\ \A a \in Attachments : RevisionOf[a] \in Revisions
  BY <1>i, SyncAssumption DEF TypeOK, ReplicaTypes, SyncAssumption
<1>r. pc \in {"upsert", "persist", "files", "filesDone", "unlink", "dropFiles", "dropChunks",
              "dropRevision"} => RevisionOf[current] \in Revisions
  BY <1>c, <1>i DEF TypeOK, PhaseTypes
<1>1. CASE UpsertRevision
  <2>. DEFINE r == RevisionOf[current]
  <2>1. /\ pc = "upsert" /\ payload = revisions /\ r \in Revisions /\ UNCHANGED files
        /\ pc' \in {"revision", "persist"}
    BY <1>1, <1>i, <1>r DEF UpsertRevision, Books, PayloadAgrees, EarlyPhases
  <2>2. CASE FilesSynced(r)
    <3>1. revisions' = [revisions EXCEPT ![r] = "synced"]
      BY <1>1, <2>2 DEF UpsertRevision, NeedsFilesSync
    <3>2. revisions[r] = "synced" \/ files[r] = FilesOf[r]
      BY <2>1, <2>2, <1>i DEF FilesSynced, BackendNeedsFiles, Books, AbsentHasNoFiles
    <3>. QED
      BY <2>1, <3>1, <3>2, <1>c
  <2>3. CASE ~FilesSynced(r)
    <3>1. revisions[r] \in PayloadStates /\ (revisions[r] = "unsynced" => FilesOf[r] # {})
      BY <1>c, <1>i, <2>1 DEF Books, UnsyncedHasFiles
    <3>2. NeedsFilesSync(r)
      BY <2>1, <2>3, <3>1 DEF FilesSynced, NeedsFilesSync, BackendNeedsFiles, PayloadStates
    <3>3. revisions' = [revisions EXCEPT ![r] = "unsynced"]
      BY <1>1, <3>2 DEF UpsertRevision
    <3>. QED
      BY <2>1, <3>3, <1>c
  <2>. QED
    BY <2>2, <2>3
<1>2. CASE FetchFiles
  <2>1. /\ pc = "files" /\ revisions[RevisionOf[current]] = "unsynced" /\ UNCHANGED revisions
        /\ \A r \in Revisions \ {RevisionOf[current]} : files'[r] = files[r]
    BY <1>2, <1>i, <1>c DEF FetchFiles, Books, FilesUnderWay
  <2>. QED
    BY <2>1
<1>3. CASE FinishFiles
  <2>1. /\ pc = "filesDone" /\ files[RevisionOf[current]] = FilesOf[RevisionOf[current]]
        /\ UNCHANGED files
        /\ \A r \in Revisions \ {RevisionOf[current]} : revisions'[r] = revisions[r]
    BY <1>3, <1>i, <1>c DEF FinishFiles, Books, FilesUnderWay
  <2>. QED
    BY <2>1
<1>4. CASE DropFiles
  <2>1. /\ pc = "dropFiles" /\ pc' = "dropChunks" /\ UNCHANGED <<revisions, current>>
        /\ \A r \in Revisions \ {RevisionOf[current]} : files'[r] = files[r]
    BY <1>4, <1>c DEF DropFiles
  <2>. QED
    BY <2>1
<1>5. CASE DropChunks
  BY <1>5 DEF DropChunks
<1>6. CASE DropRevision
  <2>1. /\ UNCHANGED files /\ revisions'[RevisionOf[current]] = "absent"
        /\ \A r \in Revisions \ {RevisionOf[current]} : revisions'[r] = revisions[r]
    BY <1>6, <1>c, <1>r DEF DropRevision
  <2>. QED
    BY <2>1
<1>7. CASE Crash
  <2>1. /\ UNCHANGED <<revisions, files>> /\ pc' = "idle"
    BY <1>7 DEF Crash, EndCall
  <2>. QED
    BY <1>7, <2>1
<1>8. CASE Clean
  BY <1>8 DEF Clean, EraseReplica
<1>9. CASE ~(UpsertRevision \/ FetchFiles \/ FinishFiles \/ DropFiles \/ DropChunks
            \/ DropRevision \/ Crash \/ Clean)
  <2>1. /\ UNCHANGED <<revisions, files>>
        /\ pc \notin {"dropChunks", "dropRevision"} \/ UNCHANGED <<pc, current>>
    <3>1. CASE UNCHANGED vars
      BY <3>1 DEF vars
    <3>2. CASE Next
      BY <1>9, <3>2 DEF Next, Work, Environment, Publish, Tombstone, Upgrade, Register,
         Observe, Start, FetchPage, InventoryAttachment, NextPage, PersistPending,
         InvalidateChunks, InvalidateRow, InvalidationsDone, UnpendStale, UnlinkStale,
         ClearCompleted, BeginPlan, ReplaceChunks, ReplaceRow, ImportBatch,
         UpsertMaterialization, Complete, BackendFails, RejectArtifact
    <3>. QED
      BY <3>1, <3>2
  <2>. QED
    BY <2>1
<1>. QED
  BY <1>1, <1>2, <1>3, <1>4, <1>5, <1>6, <1>7, <1>8, <1>9

\* Adding one element at most adds one at most to the size.
LEMMA OneMore ==
  ASSUME NEW S, NEW T, NEW x, IsFiniteSet(S), T \subseteq S \union {x}
  PROVE  /\ IsFiniteSet(T) /\ Cardinality(T) \in Nat /\ Cardinality(S) \in Nat
         /\ Cardinality(T) <= Cardinality(S) + 1
         /\ T \subseteq S => Cardinality(T) <= Cardinality(S)
<1>1. /\ IsFiniteSet(S \union {x})
      /\ Cardinality(S \union {x}) \in {Cardinality(S), Cardinality(S) + 1}
  BY FS_AddElement
<1>2. IsFiniteSet(T) /\ Cardinality(T) <= Cardinality(S \union {x})
  BY <1>1, FS_Subset
<1>3. /\ Cardinality(T) \in Nat /\ Cardinality(S) \in Nat
      /\ T \subseteq S => Cardinality(T) <= Cardinality(S)
  BY <1>2, FS_Subset, FS_CardinalityType
<1>. QED
  BY <1>1, <1>2, <1>3

\* So the count of deaths bounds the losses: none costs an attachment and a payload.
LEMMA LossStep == IInv /\ LossInv /\ [Next]_vars => LossInv'
<1>. SUFFICES ASSUME IInv, LossInv, [Next]_vars PROVE LossInv'
  OBVIOUS
<1>1. IsFiniteSet(Outstanding) /\ IsFiniteSet(Hollow) /\ crashes \in Nat
  <2>1. Outstanding \subseteq 1..LastAttachment
    BY DEF IInv, TypeOK, ReplicaTypes, Outstanding, Lost, Attachments
  <2>2. IsFiniteSet(1..LastAttachment)
    BY FS_Interval, SyncAssumption DEF SyncAssumption
  <2>3. crashes \in Nat
    BY SyncAssumption DEF IInv, TypeOK, BoundTypes, SyncAssumption
  <2>. QED
    BY <2>1, <2>2, <2>3, FS_Subset DEF LossInv
<1>2. \/ /\ Outstanding' \subseteq Outstanding /\ Hollow' \subseteq Hollow
         /\ crashes' \in {crashes, crashes + 1}
      \/ /\ Outstanding' \subseteq Outstanding \union {current} /\ Hollow' \subseteq Hollow
         /\ crashes' = crashes + 1
      \/ /\ Outstanding' \subseteq Outstanding /\ crashes' = crashes + 1
         /\ Hollow' \subseteq Hollow \union {RevisionOf[current]}
  <2>1. Crash => crashes' = crashes + 1
    BY DEF Crash
  <2>. QED
    BY <2>1, OutstandingStep, HollowStep
<1>3. PICK m \in Nat, n \in Nat : m = Cardinality(Outstanding) /\ n = Cardinality(Hollow)
  BY <1>1, FS_CardinalityType
<1>4. m + n <= crashes
  BY <1>3 DEF LossInv
<1>5. CASE /\ Outstanding' \subseteq Outstanding /\ Hollow' \subseteq Hollow
           /\ crashes' \in {crashes, crashes + 1}
  <2>1. /\ IsFiniteSet(Hollow') /\ Cardinality(Hollow') \in Nat /\ Cardinality(Hollow') <= n
        /\ Cardinality(Outstanding') \in Nat /\ Cardinality(Outstanding') <= m
    BY <1>1, <1>3, <1>5, FS_Subset, FS_CardinalityType
  <2>. QED
    BY <1>1, <1>4, <1>5, <2>1 DEF LossInv
<1>6. CASE /\ Outstanding' \subseteq Outstanding \union {current} /\ Hollow' \subseteq Hollow
           /\ crashes' = crashes + 1
  <2>1. IsFiniteSet(Hollow') /\ Cardinality(Hollow') \in Nat /\ Cardinality(Hollow') <= n
    BY <1>1, <1>3, <1>6, FS_Subset, FS_CardinalityType
  <2>2. Cardinality(Outstanding') \in Nat /\ Cardinality(Outstanding') <= m + 1
    BY <1>1, <1>3, <1>6, OneMore
  <2>. QED
    BY <1>1, <1>4, <1>6, <2>1, <2>2 DEF LossInv
<1>7. CASE /\ Outstanding' \subseteq Outstanding /\ crashes' = crashes + 1
           /\ Hollow' \subseteq Hollow \union {RevisionOf[current]}
  <2>1. Cardinality(Outstanding') \in Nat /\ Cardinality(Outstanding') <= m
    BY <1>1, <1>3, <1>7, FS_Subset, FS_CardinalityType
  <2>2. IsFiniteSet(Hollow') /\ Cardinality(Hollow') \in Nat /\ Cardinality(Hollow') <= n + 1
    BY <1>1, <1>3, <1>7, OneMore
  <2>. QED
    BY <1>1, <1>4, <1>7, <2>1, <2>2 DEF LossInv
<1>. QED
  BY <1>2, <1>5, <1>6, <1>7

\* When no call runs, the attachments that are lost, and the revisions whose row
\* promises files that are not there, are together at most as many as the process
\* has died.
THEOREM LossBounded == Spec => []LossIsBounded
<1>1. Init => LossInv
  <2>. SUFFICES ASSUME Init PROVE LossInv
    OBVIOUS
  <2>1. Outstanding = {} /\ Hollow = {} /\ crashes = 0
    BY DEF Init, EmptyReplica, Outstanding, Lost, Hollow, Emptied
  <2>. QED
    BY <2>1, FS_EmptySet DEF LossInv
<1>2. IInv /\ LossInv => LossIsBounded
  <2>. SUFFICES ASSUME IInv, LossInv, pc = "idle"
                PROVE  Cardinality(Lost) + Cardinality(Emptied) <= crashes
    BY DEF LossIsBounded
  <2>1. Outstanding = Lost /\ Hollow = Emptied
    BY DEF Outstanding, Hollow, Erasing
  <2>. QED
    BY <2>1 DEF LossInv
<1>. QED
  BY <1>1, <1>2, LossStep, Invariance, PTL DEF Spec

-----------------------------------------------------------------------------
(* What a ready row rests on, until the first death.                       *)

Processing == {"upsert", "persist", "files", "filesDone"}
Dropping == {"dropFiles", "dropChunks", "dropRevision"}
Planned == plans \union ({plan} \ {None})
Hinted == drops \union ({drop} \ {None})

\* The backend hands out ids in order, and what the agent knows was published.
Ordered ==
  /\ \A a \in published, b \in Attachments : b < a => b \in published
  /\ \A b \in Branches : snap.cursor[b] \in published \union {0}
  /\ pageCursor \in published \union {0}
  /\ inventory \union page \subseteq published
  /\ \A a \in page : a <= pageCursor

\* Only tracked branches are synced.
OnTrackedBranches ==
  /\ ~registered => tracked = {}
  /\ \A a \in inventory \union page : BranchOf[a] \in tracked

\* A call has used up a page, its hints and its plans before it goes on.
LocalsAreUsed ==
  /\ pc \notin Processing \union {"revision"} => page = {}
  /\ pc = "idle" => pageCursor = 0
  /\ pc \in {"idle", "page"} \/ (pc \in EarlyPhases /\ more) => plans = {} /\ drops = {}
  /\ pc \notin {"replace", "replaceRow", "import"} => plan = None
  /\ pc # "dropRow" => drop = None
  /\ pc \notin EarlyPhases \union {"invalidate", "dropRow"} => drops = {}

\* What a branch cursor covers has been inventoried or withdrawn.
CursorCovers ==
  \A a \in inventory, b \in Live : BranchOf[a] = BranchOf[b] /\ b < a => b \in inventory

\* Every live attachment has its files, or the call still has it before it.
Handled(a) == \/ a \in page
              \/ a = current /\ pc \in Processing
              \/ a \in inventory /\ revisions[RevisionOf[a]] = "synced"
LiveIsHandled ==
  /\ pc \in EarlyPhases => \A a \in Live : Handled(a) \/ (a \in Owed /\ a > pageCursor)
  /\ pc = "persist" => NeedsFilesSync(RevisionOf[current])

\* A planned revision has an attachment no step of the call forgets.
Founded(p) ==
  \E a \in Attachments : /\ RevisionOf[a] = p.revision /\ Handled(a)
                         /\ a \notin stale /\ (pc = "unlink" => a # current)
Foundations == \A p \in Planned : Founded(p)

\* What is planned is not materialised, or will not be once the hints are applied.
Unmaterialised(p) == \/ ready[p.revision][p.target] = 0
                     \/ \E d \in Hinted : d.target = p.target /\ p.revision \in d.revisions
Fresh ==
  /\ pc \in EarlyPhases => ready = snap.ready
  /\ \A p \in Planned : Unmaterialised(p)
  /\ pc \in Dropping => \A t \in Targets : ready[RevisionOf[current]][t] = 0

OnePerTarget == plan \notin plans /\ \A p, q \in Planned : p.target = q.target => p = q

\* What an import has left, and what it has done.
Wanted == ArtifactFiles(FilesOf[plan.revision], plan.target)
Imported ==
  pc = "import" => /\ refs \subseteq Wanted
                   /\ \A f \in Wanted \ refs : chunks[plan.revision][f] = plan.version

Backing ==
  /\ Ordered /\ OnTrackedBranches /\ LocalsAreUsed /\ CursorCovers /\ LiveIsHandled
  /\ Foundations /\ Fresh /\ OnePerTarget /\ Imported /\ ReadyIsBacked

BInv == IInv /\ (crashes = 0 => Backing)

\* A step of a process that has not died.
Alive == /\ crashes = 0 /\ crashes' = 0 /\ TypeOK /\ TypeOK' /\ Books /\ Books'
         /\ Promises /\ Backing
Living == [Next]_vars /\ ~Crash

\* Cursors and pages hold ids the backend has handed out (loadLocalSyncSnapshot).
LEMMA OrderedStep == ASSUME Alive, Living PROVE Ordered'
<1>. USE DEF backend, registry, replica, delta, cleanup, bounds
<1>i. Ordered /\ TypeOK
  BY DEF Alive, Backing
<1>1. ASSUME NEW a \in Attachments, Publish(a) PROVE Ordered'
  <2>1. \A b \in Attachments : b < a => b \in published
    BY <1>1 DEF Publish
  <2>2. published' = published \union {a} /\ UNCHANGED <<snap, pageCursor, inventory, page>>
    BY <1>1 DEF Publish
  <2>. QED
    BY <2>1, <2>2, <1>i DEF Ordered
<1>2. ASSUME NEW a \in Attachments, Tombstone(a) PROVE Ordered'
  BY <1>2, <1>i DEF Tombstone, Ordered
<1>3. ASSUME NEW t \in Targets, Upgrade(t) PROVE Ordered'
  BY <1>3, <1>i DEF Upgrade, Ordered
<1>4. ASSUME NEW b \in Branches, Register(b) \/ Observe(b) PROVE Ordered'
  BY <1>4, <1>i DEF Register, Observe, Ordered
<1>5. CASE Clean
  BY <1>5, <1>i DEF Clean, EraseReplica, Ordered
<1>6. CASE Start
  <2>1. \A b \in Branches : BranchCursor(b) \in published \union {0}
    <3>. SUFFICES ASSUME NEW b \in Branches PROVE BranchCursor(b) \in published \union {0}
      OBVIOUS
    <3>. DEFINE known == {a \in inventory : BranchOf[a] = b}
    <3>1. CASE known # {}
      <4>1. known \in SUBSET (1..LastAttachment)
        BY <1>i DEF TypeOK, ReplicaTypes, Attachments
      <4>2. Largest(known) \in known
        BY <3>1, <4>1, LargestIn, SyncAssumption DEF SyncAssumption
      <4>. QED
        BY <4>2, <1>i DEF BranchCursor, Ordered
    <3>2. CASE known = {}
      BY <3>2 DEF BranchCursor
    <3>. QED
      BY <3>1, <3>2
  <2>2. snap'.cursor = [b \in Branches |-> BranchCursor(b)]
    BY <1>6 DEF Start
  <2>3. UNCHANGED <<published, pageCursor, inventory, page>>
    BY <1>6 DEF Start
  <2>. QED
    BY <2>1, <2>2, <2>3, <1>i DEF Ordered
<1>7. CASE FetchPage
  <2>1. PICK last \in {a \in Owed : a > pageCursor} \union {pageCursor} :
          page' = {a \in Owed : a > pageCursor /\ a <= last} /\ pageCursor' = last
    BY <1>7 DEF FetchPage
  <2>2. Owed \subseteq published
    BY DEF Owed, Live
  <2>3. UNCHANGED <<published, snap, inventory>>
    BY <1>7 DEF FetchPage
  <2>. QED
    BY <2>1, <2>2, <2>3, <1>i DEF Ordered
<1>8. CASE InventoryAttachment
  <2>1. Smallest(page) \in page
    BY <1>8, <1>i, SmallestIn, SyncAssumption
    DEF InventoryAttachment, Attachments, TypeOK, DeltaTypes, SyncAssumption
  <2>. QED
    BY <1>8, <2>1, <1>i DEF InventoryAttachment, Ordered
<1>9. CASE NextPage \/ UpsertRevision \/ PersistPending \/ FetchFiles \/ FinishFiles
  BY <1>9, <1>i DEF NextPage, UpsertRevision, PersistPending, FetchFiles, FinishFiles, Ordered
<1>10. CASE InvalidateChunks \/ InvalidateRow \/ InvalidationsDone \/ UnpendStale
  BY <1>10, <1>i DEF InvalidateChunks, InvalidateRow, InvalidationsDone, UnpendStale, Ordered
<1>11. CASE UnlinkStale \/ DropFiles \/ DropChunks \/ DropRevision \/ ClearCompleted
  BY <1>11, <1>i DEF UnlinkStale, DropFiles, DropChunks, DropRevision, ClearCompleted, Ordered
<1>12. CASE BeginPlan \/ ReplaceChunks \/ ReplaceRow \/ ImportBatch \/ UpsertMaterialization
  BY <1>12, <1>i DEF BeginPlan, ReplaceChunks, ReplaceRow, ImportBatch, UpsertMaterialization,
     Ordered
<1>13. CASE Complete \/ BackendFails \/ RejectArtifact
  BY <1>13, <1>i DEF Complete, BackendFails, RejectArtifact, EndCall, NoSnapshot, Ordered
<1>14. CASE UNCHANGED vars
  BY <1>14, <1>i DEF vars, Ordered
<1>. QED
  BY <1>1, <1>2, <1>3, <1>4, <1>5, <1>6, <1>7, <1>8, <1>9, <1>10, <1>11, <1>12, <1>13, <1>14
  DEF Living, Next, Work, Environment

\* syncProject uses its pages, hints and plans up, one phase after the other.
LEMMA LocalsStep == ASSUME Alive, Living PROVE LocalsAreUsed' /\ OnTrackedBranches'
<1>. USE DEF backend, registry, replica, delta, cleanup, bounds, Processing, EarlyPhases
<1>i. LocalsAreUsed /\ OnTrackedBranches /\ TypeOK
  BY DEF Alive, Backing
<1>1. ASSUME NEW a \in Attachments, Publish(a) \/ Tombstone(a) PROVE LocalsAreUsed' /\ OnTrackedBranches'
  BY <1>1, <1>i DEF Publish, Tombstone, LocalsAreUsed, OnTrackedBranches
<1>2. ASSUME NEW t \in Targets, Upgrade(t) PROVE LocalsAreUsed' /\ OnTrackedBranches'
  BY <1>2, <1>i DEF Upgrade, LocalsAreUsed, OnTrackedBranches
<1>3. ASSUME NEW b \in Branches, Register(b) \/ Observe(b) PROVE LocalsAreUsed' /\ OnTrackedBranches'
  BY <1>3, <1>i DEF Register, Observe, LocalsAreUsed, OnTrackedBranches
<1>4. CASE Clean
  BY <1>4, <1>i DEF Clean, EraseReplica, LocalsAreUsed, OnTrackedBranches
<1>5. CASE Start
  BY <1>5, <1>i DEF Start, LocalsAreUsed, OnTrackedBranches
<1>6. CASE FetchPage
  <2>1. \A a \in Owed : BranchOf[a] \in tracked
    BY DEF Owed, Live
  <2>2. /\ page' \subseteq Owed /\ pc = "page" /\ pc' = "revision"
        /\ more' => UNCHANGED <<plans, drops>>
        /\ UNCHANGED <<registered, tracked, inventory, plan, drop>>
    BY <1>6 DEF FetchPage
  <2>. QED
    BY <2>1, <2>2, <1>i DEF LocalsAreUsed, OnTrackedBranches
<1>7. CASE InventoryAttachment
  <2>1. Smallest(page) \in page
    BY <1>7, <1>i, SmallestIn, SyncAssumption
    DEF InventoryAttachment, Attachments, TypeOK, DeltaTypes, SyncAssumption
  <2>. QED
    BY <1>7, <2>1, <1>i DEF InventoryAttachment, LocalsAreUsed, OnTrackedBranches
<1>8. CASE NextPage \/ UpsertRevision \/ PersistPending \/ FetchFiles \/ FinishFiles
  <2>1. UNCHANGED <<registered, tracked, inventory, page, pageCursor, more, plans, drops, plan, drop>>
    BY <1>8 DEF NextPage, UpsertRevision, PersistPending, FetchFiles, FinishFiles
  <2>2. \/ pc = "revision" /\ page = {} /\ pc' = IF more THEN "page" ELSE "invalidate"
        \/ pc \in Processing /\ pc' \in Processing \union {"revision"}
    BY <1>8 DEF NextPage, UpsertRevision, PersistPending, FetchFiles, FinishFiles
  <2>. QED
    BY <2>1, <2>2, <1>i DEF LocalsAreUsed, OnTrackedBranches
<1>9. CASE InvalidateChunks \/ InvalidateRow \/ InvalidationsDone \/ UnpendStale
  BY <1>9, <1>i DEF InvalidateChunks, InvalidateRow, InvalidationsDone, UnpendStale,
     LocalsAreUsed, OnTrackedBranches
<1>10. CASE UnlinkStale \/ DropFiles \/ DropChunks \/ DropRevision \/ ClearCompleted
  BY <1>10, <1>i DEF UnlinkStale, DropFiles, DropChunks, DropRevision, ClearCompleted,
     LocalsAreUsed, OnTrackedBranches
<1>11. CASE BeginPlan \/ ReplaceChunks \/ ReplaceRow \/ ImportBatch \/ UpsertMaterialization
  BY <1>11, <1>i DEF BeginPlan, ReplaceChunks, ReplaceRow, ImportBatch,
     UpsertMaterialization, LocalsAreUsed, OnTrackedBranches
<1>12. CASE Complete \/ BackendFails \/ RejectArtifact
  BY <1>12, <1>i DEF Complete, BackendFails, RejectArtifact, EndCall, LocalsAreUsed,
     OnTrackedBranches
<1>13. CASE UNCHANGED vars
  BY <1>13, <1>i DEF vars, LocalsAreUsed, OnTrackedBranches
<1>. QED
  BY <1>1, <1>2, <1>3, <1>4, <1>5, <1>6, <1>7, <1>8, <1>9, <1>10, <1>11, <1>12, <1>13
  DEF Living, Next, Work, Environment

\* The next attachment of a page is its lowest (processRevisionDelta).
LEMMA SmallestLeast ==
  ASSUME NEW n \in Nat, NEW S \in SUBSET (1..n), S # {}
  PROVE  Smallest(S) \in S /\ \A b \in S : Smallest(S) <= b
<1>1. PICK a \in S : \A b \in S : a <= b
  <2>1. S \subseteq Nat
    OBVIOUS
  <2>. QED
    BY <2>1, LeastExists
<1>. QED
  BY <1>1 DEF Smallest

\* What the call has, or has brought the files of, it keeps (processRevisionDelta,
\* applyStaleRevisions), except the attachment it is forgetting.
LEMMA HandledStep ==
  ASSUME Alive, Living, pc' # "idle", NEW a \in Attachments, Handled(a),
         ~(pc = "unlink" /\ a = current)
  PROVE  Handled(a)'
<1>. USE DEF backend, registry, replica, delta, cleanup, bounds, Handled
<1>i. LiveIsHandled /\ LocalsAreUsed /\ TypeOK /\ Books
  BY DEF Alive, Backing
<1>n. /\ inventory \subseteq Attachments /\ \A b \in Attachments : RevisionOf[b] \in Revisions
      /\ revisions \in [Revisions -> PayloadStates]
  BY <1>i, SyncAssumption DEF TypeOK, ReplicaTypes, SyncAssumption
<1>r. pc \in {"upsert", "filesDone", "dropRevision"} => RevisionOf[current] \in Revisions
  BY <1>n, <1>i DEF TypeOK, PhaseTypes
<1>1. ASSUME NEW b \in Attachments, Publish(b) \/ Tombstone(b) PROVE Handled(a)'
  BY <1>1 DEF Publish, Tombstone
<1>2. ASSUME NEW t \in Targets, Upgrade(t) PROVE Handled(a)'
  BY <1>2 DEF Upgrade
<1>3. ASSUME NEW b \in Branches, Register(b) \/ Observe(b) PROVE Handled(a)'
  BY <1>3 DEF Register, Observe
<1>4. CASE Clean
  BY <1>4 DEF Clean
<1>5. CASE Start
  BY <1>5 DEF Start, Processing
<1>6. CASE FetchPage
  BY <1>6, <1>i DEF FetchPage, LocalsAreUsed, Processing
<1>7. CASE InventoryAttachment
  BY <1>7 DEF InventoryAttachment, Processing
<1>8. CASE NextPage
  BY <1>8 DEF NextPage, Processing
<1>9. CASE UpsertRevision
  <2>1. /\ pc = "upsert" /\ current \in inventory /\ UNCHANGED <<inventory, page, current>>
        /\ \/ pc' = "persist" /\ revisions[RevisionOf[current]] # "synced"
           \/ pc' = "revision"
    BY <1>9, <1>i
    DEF UpsertRevision, FilesSynced, Books, CurrentIsLinked, PayloadAgrees, EarlyPhases,
        UnsyncedHasFiles, BackendNeedsFiles
  <2>2. revisions' = [revisions EXCEPT ![RevisionOf[current]] =
                        IF pc' = "persist" THEN revisions'[RevisionOf[current]] ELSE "synced"]
    BY <1>9, <1>n, <1>r, <2>1 DEF UpsertRevision, NeedsFilesSync
  <2>. QED
    BY <2>1, <2>2, <1>n, <1>r DEF Processing
<1>10. CASE PersistPending \/ FetchFiles
  <2>1. /\ pc \in {"persist", "files"} /\ pc' \in {"files", "filesDone"}
        /\ UNCHANGED <<inventory, revisions, page, current>>
    BY <1>10, <1>i DEF PersistPending, FetchFiles, LiveIsHandled
  <2>. QED
    BY <2>1 DEF Processing
<1>11. CASE FinishFiles
  BY <1>11, <1>i, <1>n, <1>r DEF FinishFiles, Processing, Books, CurrentIsLinked
<1>12. CASE InvalidateChunks \/ InvalidateRow \/ InvalidationsDone \/ UnpendStale
  BY <1>12 DEF InvalidateChunks, InvalidateRow, InvalidationsDone, UnpendStale, Processing
<1>13. CASE UnlinkStale
  BY <1>13 DEF UnlinkStale, Processing
<1>14. CASE DropFiles \/ DropChunks \/ ClearCompleted
  BY <1>14 DEF DropFiles, DropChunks, ClearCompleted, Processing
<1>15. CASE DropRevision
  BY <1>15, <1>i, <1>n, <1>r DEF DropRevision, Processing, Books, DroppedIsUnused
<1>16. CASE BeginPlan \/ ReplaceChunks \/ ReplaceRow \/ ImportBatch \/ UpsertMaterialization
  BY <1>16 DEF BeginPlan, ReplaceChunks, ReplaceRow, ImportBatch, UpsertMaterialization,
     Processing
<1>17. CASE Complete \/ BackendFails \/ RejectArtifact
  BY <1>17 DEF Complete, BackendFails, RejectArtifact, EndCall
<1>18. CASE UNCHANGED vars
  BY <1>18 DEF vars
<1>. QED
  BY <1>1, <1>2, <1>3, <1>4, <1>5, <1>6, <1>7, <1>8, <1>9, <1>10, <1>11, <1>12, <1>13, <1>14,
     <1>15, <1>16, <1>17, <1>18 DEF Living, Next, Work, Environment

\* Ascending ids, branch cursors and the pages sent so far leave no live attachment
\* out, whatever is published or withdrawn meanwhile (loadLocalSyncSnapshot,
\* syncProject).
LEMMA CoverStep == ASSUME Alive, Living PROVE CursorCovers' /\ LiveIsHandled'
<1>. USE DEF backend, registry, replica, delta, cleanup, bounds
<1>i. /\ CursorCovers /\ LiveIsHandled /\ Ordered /\ OnTrackedBranches /\ LocalsAreUsed
      /\ TypeOK /\ Books /\ Promises /\ crashes = 0
  BY DEF Alive, Backing
<1>n. /\ \A a \in Attachments : a \in Int /\ a > 0 /\ RevisionOf[a] \in Revisions /\ BranchOf[a] \in Branches
      /\ inventory \subseteq Attachments /\ published \subseteq Attachments
      /\ page \subseteq Attachments /\ Live \subseteq published
      /\ revisions \in [Revisions -> PayloadStates] /\ payload \in [Revisions -> PayloadStates]
      /\ 0 \notin Attachments /\ pageCursor \in Nat
  BY <1>i, SyncAssumption
  DEF TypeOK, ReplicaTypes, DeltaTypes, BackendTypes, SyncAssumption, Attachments, Live
<1>r. pc \in {"upsert", "persist", "files", "filesDone", "unlink", "dropFiles", "dropChunks",
              "dropRevision"} => RevisionOf[current] \in Revisions
  BY <1>n, <1>i DEF TypeOK, PhaseTypes
<1>h. \A a \in Live : Handled(a) => \/ Handled(a)' \/ pc' = "idle" \/ pc = "unlink"
  BY <1>n, HandledStep
<1>1. ASSUME NEW a \in Attachments, Publish(a) PROVE CursorCovers' /\ LiveIsHandled'
  <2>1. /\ published' = published \union {a} /\ a \notin published
        /\ UNCHANGED <<tombstoned, tracked, inventory, revisions, page, pageCursor, pc,
                       current, snap, payload>>
    BY <1>1 DEF Publish
  <2>2. \A x \in published : x < a
    BY <2>1, <1>i, <1>n DEF Ordered
  <2>3. Live \subseteq Live' /\ Live' \subseteq Live \union {a}
    BY <2>1 DEF Live
  <2>4. CursorCovers'
    BY <2>1, <2>2, <2>3, <1>i, <1>n DEF CursorCovers, Ordered
  <2>5. ASSUME NEW b \in Live' PROVE Handled(b)' \/ (b \in Owed' /\ b > pageCursor') \/ pc \notin EarlyPhases
    <3>1. CASE b \in Live
      <4>1. b \in Owed => b \in Owed'
        BY <2>1, <2>3 DEF Owed
      <4>2. Handled(b) => Handled(b)' \/ pc' \notin EarlyPhases
        BY <3>1, <2>1, <1>h DEF EarlyPhases
      <4>. QED
        BY <3>1, <4>1, <4>2, <2>1, <1>i DEF LiveIsHandled, EarlyPhases
    <3>2. CASE b = a
      <4>1. a > pageCursor
        BY <2>2, <1>i, <1>n DEF Ordered
      <4>2. a > snap.cursor[BranchOf[a]]
        BY <2>2, <1>i, <1>n DEF Ordered
      <4>. QED
        BY <3>2, <4>1, <4>2, <2>1, <2>5 DEF Owed
    <3>. QED
      BY <3>1, <3>2, <2>3
  <2>6. LiveIsHandled'
    BY <2>1, <2>5, <1>i DEF LiveIsHandled, NeedsFilesSync, FilesSynced, BackendNeedsFiles
  <2>. QED
    BY <2>4, <2>6
<1>2. ASSUME NEW a \in Attachments, Tombstone(a) PROVE CursorCovers' /\ LiveIsHandled'
  <2>1. /\ tombstoned' = tombstoned \union {a}
        /\ UNCHANGED <<published, tracked, inventory, revisions, page, pageCursor, pc,
                       current, snap, payload>>
    BY <1>2 DEF Tombstone
  <2>2. Live' \subseteq Live /\ \A b \in Live' : b \in Owed => b \in Owed'
    BY <2>1 DEF Live, Owed
  <2>. QED
    BY <2>1, <2>2, <1>i, <1>h
    DEF CursorCovers, LiveIsHandled, NeedsFilesSync, FilesSynced, BackendNeedsFiles, EarlyPhases
<1>3. ASSUME NEW t \in Targets, Upgrade(t) PROVE CursorCovers' /\ LiveIsHandled'
  <2>1. UNCHANGED <<published, tombstoned, tracked, inventory, revisions, page, pageCursor,
                    pc, current, snap, payload>>
    BY <1>3 DEF Upgrade
  <2>. QED
    BY <2>1, <1>i DEF CursorCovers, LiveIsHandled, Live, Owed, Handled, NeedsFilesSync,
       FilesSynced, BackendNeedsFiles
<1>4. ASSUME NEW b \in Branches, Register(b) PROVE CursorCovers' /\ LiveIsHandled'
  <2>1. inventory' = {} /\ pc' = "idle"
    BY <1>4, <1>i DEF Register, OnTrackedBranches
  <2>. QED
    BY <2>1 DEF CursorCovers, LiveIsHandled, EarlyPhases
<1>5. ASSUME NEW b \in Branches, Observe(b) PROVE CursorCovers' /\ LiveIsHandled'
  <2>1. /\ inventory' = inventory /\ pc' = "idle" /\ tracked' = tracked \union {b}
        /\ published' = published /\ tombstoned' = tombstoned
    BY <1>5 DEF Observe
  <2>. QED
    BY <2>1, <1>i DEF CursorCovers, LiveIsHandled, EarlyPhases, Live, OnTrackedBranches
<1>6. CASE Clean
  BY <1>6 DEF Clean, EraseReplica, CursorCovers, LiveIsHandled, EarlyPhases
<1>7. CASE Start
  <2>1. /\ pc = "idle" /\ pc' = "page" /\ snap'.pending = pending
        /\ snap'.cursor = [b \in Branches |-> BranchCursor(b)]
        /\ UNCHANGED <<published, tombstoned, tracked, inventory, revisions, page, pageCursor>>
    BY <1>7 DEF Start
  <2>2. CursorCovers' /\ Live' = Live
    BY <2>1, <1>i DEF CursorCovers, Live
  <2>3. ASSUME NEW a \in Live, a \notin Owed' PROVE a \in inventory /\ revisions[RevisionOf[a]] = "synced"
    <3>. DEFINE known == {b \in inventory : BranchOf[b] = BranchOf[a]}
    <3>1. a \notin pending /\ ~(a > BranchCursor(BranchOf[a]))
      BY <2>1, <2>2, <2>3, <1>n DEF Owed
    <3>2. known # {} /\ BranchCursor(BranchOf[a]) = Largest(known)
      BY <3>1, <1>n DEF BranchCursor
    <3>3. Largest(known) \in known
      <4>1. known \in SUBSET (1..LastAttachment)
        BY <1>n DEF Attachments
      <4>. QED
        BY <3>2, <4>1, LargestIn, SyncAssumption DEF SyncAssumption
    <3>4. a \in inventory
      <4>1. a <= Largest(known)
        BY <3>1, <3>2, <3>3, <1>n
      <4>. QED
        BY <4>1, <3>3, <1>i, <1>n DEF CursorCovers
    <3>. QED
      BY <3>1, <3>4, <2>1, <1>i DEF Promises, NothingLost
  <2>4. \A a \in Live : a > pageCursor
    BY <2>1, <1>i, <1>n DEF LocalsAreUsed
  <2>. QED
    BY <2>1, <2>2, <2>3, <2>4 DEF LiveIsHandled, Handled
<1>8. CASE FetchPage
  <2>1. PICK last \in {a \in Owed : a > pageCursor} \union {pageCursor} :
          page' = {a \in Owed : a > pageCursor /\ a <= last} /\ pageCursor' = last
    BY <1>8 DEF FetchPage
  <2>2. /\ pc = "page" /\ pc' = "revision"
        /\ UNCHANGED <<published, tombstoned, tracked, inventory, revisions, snap>>
    BY <1>8 DEF FetchPage
  <2>3. Live' = Live /\ Owed' = Owed /\ CursorCovers' /\ Owed \subseteq Attachments
    BY <2>2, <1>i, <1>n DEF Live, Owed, CursorCovers
  <2>4. page = {} /\ last \in Int
    BY <2>1, <2>2, <2>3, <1>i, <1>n DEF LocalsAreUsed, Processing
  <2>5. ASSUME NEW a \in Live PROVE Handled(a)' \/ (a \in Owed' /\ a > pageCursor')
    <3>1. CASE Handled(a)
      BY <3>1, <2>2, <1>h
    <3>2. CASE a \in Owed /\ a > pageCursor
      <4>1. a <= last \/ a > last
        BY <2>4, <1>n
      <4>. QED
        BY <3>2, <4>1, <2>1, <2>3 DEF Handled
    <3>. QED
      BY <3>1, <3>2, <2>2, <1>i DEF LiveIsHandled, EarlyPhases
  <2>. QED
    BY <2>2, <2>3, <2>5 DEF LiveIsHandled
<1>9. CASE InventoryAttachment
  <2>1. /\ pc = "revision" /\ pc' = "upsert" /\ current' = Smallest(page) /\ page # {}
        /\ page' = page \ {current'} /\ inventory' = inventory \union {current'}
        /\ UNCHANGED <<published, tombstoned, tracked, revisions, snap, pageCursor>>
    BY <1>9 DEF InventoryAttachment
  <2>2. current' \in page /\ \A b \in page : current' <= b
    <3>1. page \in SUBSET (1..LastAttachment)
      BY <1>n DEF Attachments
    <3>. QED
      BY <2>1, <3>1, SmallestLeast, SyncAssumption DEF SyncAssumption
  <2>3. Live' = Live /\ Owed' = Owed
    BY <2>1 DEF Live, Owed
  <2>4. ASSUME NEW b \in Live, b < current' PROVE b \in inventory
    <3>1. b \notin page
      BY <2>2, <2>4, <1>n
    <3>2. ~(b > pageCursor)
      BY <2>2, <2>4, <1>i, <1>n DEF Ordered
    <3>. QED
      BY <3>1, <3>2, <2>1, <1>i DEF LiveIsHandled, Handled, EarlyPhases, Processing
  <2>5. CursorCovers'
    BY <2>1, <2>3, <2>4, <1>i DEF CursorCovers
  <2>. QED
    BY <2>1, <2>3, <2>5, <1>i, <1>h DEF LiveIsHandled, EarlyPhases
<1>10. CASE NextPage
  <2>1. /\ pc = "revision" /\ page = {} /\ pc' \in {"page", "invalidate"}
        /\ UNCHANGED <<published, tombstoned, tracked, inventory, revisions, page, snap,
                       pageCursor, current>>
    BY <1>10 DEF NextPage
  <2>2. Live' = Live /\ Owed' = Owed
    BY <2>1 DEF Live, Owed
  <2>. QED
    BY <2>1, <2>2, <1>i, <1>h DEF CursorCovers, LiveIsHandled, EarlyPhases
<1>11. CASE UpsertRevision
  <2>. DEFINE r == RevisionOf[current]
  <2>1. /\ pc = "upsert" /\ payload = revisions /\ r \in Revisions /\ current \in inventory
        /\ UNCHANGED <<published, tombstoned, tracked, inventory, page, snap, pageCursor,
                       current>>
    BY <1>11, <1>i, <1>r DEF UpsertRevision, Books, PayloadAgrees, CurrentIsLinked, EarlyPhases
  <2>2. Live' = Live /\ Owed' = Owed /\ CursorCovers'
    BY <2>1, <1>i DEF Live, Owed, CursorCovers
  <2>3. CASE FilesSynced(r)
    <3>1. revisions' = [revisions EXCEPT ![r] = "synced"] /\ pc' = "revision"
      BY <1>11, <2>3 DEF UpsertRevision, NeedsFilesSync
    <3>. QED
      BY <2>1, <2>2, <3>1, <1>i, <1>h DEF LiveIsHandled, EarlyPhases
  <2>4. CASE ~FilesSynced(r)
    <3>1. FilesOf[r] # {} /\ revisions[r] # "synced"
      BY <2>1, <2>4, <1>i, <1>n
      DEF FilesSynced, BackendNeedsFiles, Books, UnsyncedHasFiles, PayloadStates
    <3>2. revisions' = [revisions EXCEPT ![r] = "unsynced"] /\ payload' = payload /\ pc' = "persist"
      BY <1>11, <2>4, <3>1 DEF UpsertRevision, NeedsFilesSync, BackendNeedsFiles
    <3>3. NeedsFilesSync(r)'
      BY <2>1, <2>4, <3>1, <3>2 DEF NeedsFilesSync, FilesSynced, BackendNeedsFiles
    <3>. QED
      BY <2>1, <2>2, <3>2, <3>3, <1>i, <1>h DEF LiveIsHandled, EarlyPhases
  <2>. QED
    BY <2>3, <2>4
<1>12. CASE PersistPending \/ FetchFiles
  <2>1. /\ pc \in {"persist", "files"} /\ pc' \in {"files", "filesDone"}
        /\ UNCHANGED <<published, tombstoned, tracked, inventory, revisions, page, snap,
                       pageCursor, current>>
    BY <1>12, <1>i DEF PersistPending, FetchFiles, LiveIsHandled
  <2>2. Live' = Live /\ Owed' = Owed
    BY <2>1 DEF Live, Owed
  <2>. QED
    BY <2>1, <2>2, <1>i, <1>h DEF CursorCovers, LiveIsHandled, EarlyPhases
<1>13. CASE FinishFiles
  <2>1. /\ pc = "filesDone" /\ pc' = "revision" /\ current \in inventory
        /\ revisions' = [revisions EXCEPT ![RevisionOf[current]] = "synced"]
        /\ UNCHANGED <<published, tombstoned, tracked, inventory, page, snap, pageCursor,
                       current>>
    BY <1>13, <1>i DEF FinishFiles, Books, CurrentIsLinked
  <2>2. Live' = Live /\ Owed' = Owed
    BY <2>1 DEF Live, Owed
  <2>. QED
    BY <2>1, <2>2, <1>i, <1>h DEF CursorCovers, LiveIsHandled, EarlyPhases
<1>14. CASE UnlinkStale
  <2>1. /\ inventory' = inventory \ {current} /\ current \in tombstoned
        /\ pc' \in {"stale", "dropFiles"} /\ UNCHANGED <<published, tombstoned, tracked>>
    BY <1>14, <1>i DEF UnlinkStale, Books, StaleIsTombstoned
  <2>. QED
    BY <2>1, <1>i DEF CursorCovers, LiveIsHandled, EarlyPhases, Live
<1>15. CASE \/ InvalidateChunks \/ InvalidateRow \/ InvalidationsDone \/ UnpendStale
            \/ DropFiles \/ DropChunks \/ DropRevision \/ ClearCompleted
  <2>1. /\ pc' \notin EarlyPhases
        /\ UNCHANGED <<published, tombstoned, tracked, inventory>>
    BY <1>15 DEF InvalidateChunks, InvalidateRow, InvalidationsDone, UnpendStale, DropFiles,
       DropChunks, DropRevision, ClearCompleted, EarlyPhases
  <2>. QED
    BY <2>1, <1>i DEF CursorCovers, LiveIsHandled, Live, EarlyPhases
<1>16. CASE \/ BeginPlan \/ ReplaceChunks \/ ReplaceRow \/ ImportBatch
            \/ UpsertMaterialization \/ Complete \/ BackendFails \/ RejectArtifact
  <2>1. /\ pc' \notin EarlyPhases
        /\ UNCHANGED <<published, tombstoned, tracked, inventory>>
    BY <1>16 DEF BeginPlan, ReplaceChunks, ReplaceRow, ImportBatch, UpsertMaterialization,
       Complete, BackendFails, RejectArtifact, EndCall, EarlyPhases
  <2>. QED
    BY <2>1, <1>i DEF CursorCovers, LiveIsHandled, Live, EarlyPhases
<1>17. CASE UNCHANGED vars
  BY <1>17, <1>i DEF vars, CursorCovers, LiveIsHandled, Live, Owed, Handled, NeedsFilesSync,
     FilesSynced, BackendNeedsFiles
<1>. QED
  BY <1>1, <1>2, <1>3, <1>4, <1>5, <1>6, <1>7, <1>8, <1>9, <1>10, <1>11, <1>12, <1>13, <1>14,
     <1>15, <1>16, <1>17 DEF Living, Next, Work, Environment

\* Hints and plans name revisions and targets.
LEMMA PlannedTypes ==
  ASSUME TypeOK
  PROVE  /\ Planned \subseteq Plan /\ plans \subseteq Plan /\ None \notin plans
         /\ Hinted \subseteq Drop /\ drops \subseteq Drop /\ None \notin drops
         /\ \A p \in Plan : p.revision \in Revisions /\ p.target \in Targets
  BY NoneAssumption DEF Planned, Hinted, TypeOK, PlanTypes, PhaseTypes, Plan, NoneAssumption

\* The last page plans the newest live revision, once for each target that needs it.
LEMMA PlanFetched ==
  ASSUME Alive, FetchPage, ~more', NEW p \in plans'
  PROVE  /\ Live # {} /\ p.revision = RevisionOf[Largest(Live)] /\ p.target \in Targets
         /\ NeedsPlan(p.target) /\ drops' = Invalidations
         /\ \A q \in plans' : p.target = q.target => p = q
<1>1. plans' \in PlanSets /\ drops' = Invalidations
  BY DEF FetchPage
<1>2. PICK choice \in [Targets -> Revisions \union {None}] :
        plans' = {PlanFor(t, choice[t]) : t \in {u \in Targets : NeedsPlan(u)}}
  BY <1>1 DEF PlanSets
<1>. QED
  BY <1>1, <1>2 DEF PlanFor, NeedsPlan

\* Only a page brings plans.
LEMMA PlannedStep ==
  ASSUME Alive, Living, ~FetchPage
  PROVE  Planned' \subseteq Planned
<1>. USE DEF backend, registry, replica, delta, cleanup, bounds, Planned
<1>1. CASE BeginPlan \/ UpsertMaterialization
  BY <1>1 DEF BeginPlan, UpsertMaterialization
<1>2. CASE Complete \/ BackendFails \/ RejectArtifact
  BY <1>2 DEF Complete, BackendFails, RejectArtifact, EndCall
<1>3. CASE ~(\/ BeginPlan \/ UpsertMaterialization \/ Complete \/ BackendFails \/ RejectArtifact)
  <2>1. UNCHANGED <<plans, plan>>
    BY <1>3 DEF Living, vars, Next, Work, Environment, Publish, Tombstone, Upgrade, Register,
       Observe, Clean, Start, InventoryAttachment, NextPage, UpsertRevision, PersistPending,
       FetchFiles, FinishFiles, InvalidateChunks, InvalidateRow, InvalidationsDone,
       UnpendStale, UnlinkStale, DropFiles, DropChunks, DropRevision, ClearCompleted,
       ReplaceChunks, ReplaceRow, ImportBatch
  <2>. QED
    BY <2>1
<1>. QED
  BY <1>1, <1>2, <1>3

\* The attachment a plan was made for stays until the plan is carried out: it is not
\* among the stale ones (applyStaleRevisions).
LEMMA FoundStep == ASSUME Alive, Living PROVE Foundations'
<1>. USE DEF backend, registry, replica, delta, cleanup, bounds
<1>i. Foundations /\ LocalsAreUsed /\ TypeOK /\ TypeOK' /\ Books /\ Books'
  BY DEF Alive, Backing
<1>. SUFFICES ASSUME NEW p \in Planned' PROVE Founded(p)'
  BY DEF Foundations
<1>1. CASE FetchPage
  <2>1. p \in plans' /\ ~more'
    BY <1>1, <1>i DEF FetchPage, LocalsAreUsed, Planned
  <2>2. Live # {} /\ p.revision = RevisionOf[Largest(Live)]
    BY <1>1, <2>1, PlanFetched
  <2>3. Largest(Live) \in Live /\ Live \subseteq Attachments
    <3>1. Live \in SUBSET (1..LastAttachment)
      BY <1>i DEF Live, TypeOK, BackendTypes, Attachments
    <3>. QED
      BY <2>2, <3>1, LargestIn, SyncAssumption DEF SyncAssumption, Attachments
  <2>4. Live' = Live /\ Owed' = Owed /\ tombstoned' = tombstoned /\ pc' = "revision"
    BY <1>1 DEF FetchPage, Live, Owed
  <2>5. ~(Largest(Live) \in Owed /\ Largest(Live) > pageCursor')
    <3>1. PICK last \in {a \in Owed : a > pageCursor} \union {pageCursor} :
            pageCursor' = last /\ ~\E a \in {b \in Owed : b > pageCursor} : a > last
      BY <1>1, <2>1 DEF FetchPage
    <3>2. Attachments \subseteq Int /\ pageCursor \in Int
      BY <1>i, SyncAssumption DEF Attachments, TypeOK, DeltaTypes, SyncAssumption
    <3>3. Owed \subseteq Int
      BY <2>3, <3>2 DEF Owed
    <3>4. last \in Int /\ last >= pageCursor
      BY <3>1, <3>2, <3>3
    <3>. SUFFICES ASSUME Largest(Live) \in Owed, Largest(Live) > last PROVE FALSE
      BY <3>1
    <3>5. Largest(Live) \in Int
      BY <3>3
    <3>6. Largest(Live) > pageCursor
      <4>. DEFINE n == Largest(Live)
      <4>1. n \in Int /\ n > last /\ last \in Int /\ pageCursor \in Int /\ last >= pageCursor
        BY <3>2, <3>4, <3>5
      <4>2. n > pageCursor
        <5>. HIDE DEF n
        <5>. QED
          BY <4>1
      <4>. QED
        BY <4>2
    <3>. QED
      BY <3>1, <3>6
  <2>6. Handled(Largest(Live))'
    BY <2>3, <2>4, <2>5, CoverStep DEF LiveIsHandled, EarlyPhases, Handled, Processing
  <2>7. Largest(Live) \notin stale'
    BY <1>i, <2>3, <2>4 DEF Live, Books, StaleIsTombstoned
  <2>. QED
    BY <2>2, <2>3, <2>4, <2>6, <2>7 DEF Founded
<1>2. CASE ~FetchPage
  <2>1. p \in Planned
    BY <1>2, PlannedStep
  <2>2. PICK a \in Attachments : /\ RevisionOf[a] = p.revision /\ Handled(a)
                                 /\ a \notin stale /\ (pc = "unlink" => a # current)
    BY <2>1, <1>i DEF Foundations, Founded
  <2>3. pc' # "idle"
    <3>1. Planned # {} /\ Planned' # {}
      BY <2>1
    <3>2. plan' = None => plans' # {}
      BY DEF Planned
    <3>3. LocalsAreUsed'
      BY LocalsStep
    <3>. QED
      BY <3>2, <3>3 DEF LocalsAreUsed
  <2>4. Handled(a)'
    BY <2>2, <2>3, HandledStep
  <2>5. a \notin stale' /\ (pc' = "unlink" => a # current')
    <3>1. CASE UnpendStale
      BY <3>1, <2>2 DEF UnpendStale
    <3>2. CASE ~UnpendStale
      <4>1. stale' \subseteq stale
        BY <3>2, <1>2 DEF Living, vars, Next, Work, Environment, Publish, Tombstone, Upgrade,
           Register, Observe, Clean, Start, InventoryAttachment, NextPage, UpsertRevision,
           PersistPending, FetchFiles, FinishFiles, InvalidateChunks, InvalidateRow,
           InvalidationsDone, UnlinkStale, DropFiles, DropChunks, DropRevision,
           ClearCompleted, BeginPlan, ReplaceChunks, ReplaceRow, ImportBatch,
           UpsertMaterialization, Complete, BackendFails, RejectArtifact, EndCall
      <4>2. pc' = "unlink" => pc = "unlink" /\ current' = current
        BY <3>2, <1>2 DEF Living, vars, Next, Work, Environment, Publish, Tombstone, Upgrade,
           Register, Observe, Clean, Start, InventoryAttachment, NextPage, UpsertRevision,
           PersistPending, FetchFiles, FinishFiles, InvalidateChunks, InvalidateRow,
           InvalidationsDone, UnlinkStale, DropFiles, DropChunks, DropRevision,
           ClearCompleted, BeginPlan, ReplaceChunks, ReplaceRow, ImportBatch,
           UpsertMaterialization, Complete, BackendFails, RejectArtifact, EndCall
      <4>. QED
        BY <4>1, <4>2, <2>2
    <3>. QED
      BY <3>1, <3>2
  <2>. QED
    BY <2>2, <2>4, <2>5 DEF Founded
<1>. QED
  BY <1>1, <1>2

\* A target of an older profile is hinted at in the page that plans it, so its row is
\* gone before it is imported (applyInvalidations, materializePlans).
LEMMA FreshStep == ASSUME Alive, Living PROVE Fresh' /\ OnePerTarget'
<1>. USE DEF backend, registry, replica, delta, cleanup, bounds
<1>i. Fresh /\ OnePerTarget /\ LocalsAreUsed /\ TypeOK /\ TypeOK'
  BY DEF Alive, Backing
<1>t. /\ Planned \subseteq Plan /\ plans \subseteq Plan /\ None \notin plans
      /\ Hinted \subseteq Drop /\ drops \subseteq Drop /\ None \notin drops
      /\ \A p \in Plan : p.revision \in Revisions /\ p.target \in Targets
      /\ ready \in [Revisions -> [Targets -> Versions]]
  BY <1>i, PlannedTypes DEF TypeOK, ReplicaTypes
<1>0. \/ FetchPage \/ Start \/ InvalidateChunks \/ InvalidateRow \/ UnlinkStale \/ BeginPlan
      \/ ReplaceRow \/ UpsertMaterialization \/ Complete \/ BackendFails \/ RejectArtifact
      \/ Clean
      \/ /\ UNCHANGED <<snap, ready, plans, plan, drops, drop>>
         /\ pc' \in EarlyPhases => pc \in EarlyPhases
         /\ pc' \in Dropping => pc \in Dropping /\ current' = current
  BY DEF Living, vars, Next, Work, Environment, Publish, Tombstone, Upgrade, Register, Observe,
     InventoryAttachment, NextPage, UpsertRevision, PersistPending, FetchFiles, FinishFiles,
     InvalidationsDone, UnpendStale, DropFiles, DropChunks, DropRevision, ClearCompleted,
     ReplaceChunks, ImportBatch, EarlyPhases, Dropping
<1>1. CASE FetchPage
  <2>1. /\ pc = "page" /\ pc' = "revision" /\ plan' = None /\ drop' = None
        /\ plans' = plans \/ ~more'
        /\ UNCHANGED <<snap, ready, version, published, tombstoned, tracked>>
    BY <1>1, <1>i DEF FetchPage, LocalsAreUsed
  <2>2. Planned' = plans' /\ Hinted' = drops'
    <3>1. None \notin plans' /\ None \notin drops'
      BY <1>i, PlannedTypes, NoneAssumption DEF TypeOK, PlanTypes, NoneAssumption
    <3>. QED
      BY <2>1 DEF Planned, Hinted
  <2>3. ASSUME NEW p \in plans' PROVE Unmaterialised(p)'
    <3>1. plans = {}
      BY <2>1, <1>i DEF LocalsAreUsed
    <3>2. /\ Live # {} /\ p.revision = RevisionOf[Largest(Live)] /\ p.target \in Targets
          /\ NeedsPlan(p.target) /\ drops' = Invalidations
      BY <2>1, <3>1, <1>1, PlanFetched
    <3>3. ready' = snap.ready
      BY <2>1, <1>i DEF Fresh, EarlyPhases
    <3>4. p.revision \in Revisions /\ snap.ready[p.revision][p.target] # version[p.target]
      BY <3>2, <1>i, NewestType DEF NeedsPlan, TypeOK
    <3>5. CASE snap.ready[p.revision][p.target] # 0
      <4>. DEFINE d == [target |-> p.target, revisions |-> Revisions]
      <4>1. \E r \in Revisions : snap.ready[r][p.target] \notin {0, version[p.target]}
        BY <3>4, <3>5
      <4>2. d \in Hinted'
        BY <3>2, <4>1, <2>2 DEF Invalidations
      <4>. QED
        BY <3>4, <4>2 DEF Unmaterialised
    <3>6. CASE snap.ready[p.revision][p.target] = 0
      BY <3>3, <3>6 DEF Unmaterialised
    <3>. QED
      BY <3>5, <3>6
  <2>4. Fresh'
    BY <2>1, <2>2, <2>3, <1>i DEF Fresh, EarlyPhases, Dropping
  <2>5. plan' \notin plans'
    BY <2>1, <1>i, PlannedTypes, NoneAssumption DEF TypeOK, PlanTypes, NoneAssumption
  <2>6. \A p, q \in plans' : p.target = q.target => p = q
    <3>1. CASE ~more'
      BY <3>1, <1>1, PlanFetched
    <3>2. CASE plans' = plans
      BY <3>2, <2>1, <1>i DEF LocalsAreUsed
    <3>. QED
      BY <3>1, <3>2, <2>1
  <2>. QED
    BY <2>2, <2>4, <2>5, <2>6 DEF OnePerTarget
<1>2. CASE Start
  <2>1. /\ pc = "idle" /\ pc' = "page" /\ snap'.ready = ready
        /\ UNCHANGED <<ready, plans, plan, drops, drop>>
    BY <1>2 DEF Start
  <2>. QED
    BY <2>1, <1>i DEF Fresh, OnePerTarget, Planned, Hinted, Unmaterialised, Dropping
<1>3. CASE InvalidateChunks
  <2>1. PICK d \in drops : drop' = d /\ drops' = drops \ {d}
    BY <1>3 DEF InvalidateChunks
  <2>2. /\ pc = "invalidate" /\ pc' = "dropRow" /\ drop = None
        /\ UNCHANGED <<ready, plans, plan>>
    BY <1>3, <1>i DEF InvalidateChunks, LocalsAreUsed
  <2>3. Hinted' = Hinted /\ Planned' = Planned
    BY <2>1, <2>2, <1>t DEF Hinted, Planned
  <2>. QED
    BY <2>2, <2>3, <1>i DEF Fresh, OnePerTarget, Unmaterialised, EarlyPhases, Dropping
<1>4. CASE InvalidateRow
  <2>1. /\ pc' = "invalidate" /\ ready' = WithoutRows(drop) /\ drop' = None
        /\ UNCHANGED <<plans, plan, drops>>
    BY <1>4 DEF InvalidateRow
  <2>2. Planned' = Planned /\ Hinted' = drops
    BY <2>1, <1>t DEF Planned, Hinted
  <2>3. ASSUME NEW p \in Planned PROVE Unmaterialised(p)'
    <3>1. p.revision \in Revisions /\ p.target \in Targets /\ Unmaterialised(p)
      BY <1>i, <1>t DEF Fresh
    <3>2. ready'[p.revision][p.target] =
            IF p.revision \in drop.revisions /\ p.target = drop.target THEN 0
            ELSE ready[p.revision][p.target]
      BY <2>1, <3>1 DEF WithoutRows
    <3>. QED
      BY <2>2, <3>1, <3>2 DEF Unmaterialised, Hinted
  <2>. QED
    BY <2>1, <2>2, <2>3, <1>i DEF Fresh, OnePerTarget, EarlyPhases, Dropping
<1>5. CASE UnlinkStale
  <2>1. /\ pc' \in {"stale", "dropFiles"} /\ current' = current
        /\ pc' = "dropFiles" => ~PayloadUsed(RevisionOf[current])
        /\ UNCHANGED <<ready, plans, plan, drops, drop>>
    BY <1>5 DEF UnlinkStale
  <2>. QED
    BY <2>1, <1>i
    DEF Fresh, OnePerTarget, Planned, Hinted, Unmaterialised, EarlyPhases, Dropping, PayloadUsed
<1>6. CASE BeginPlan
  <2>1. PICK p \in plans : plan' = p /\ plans' = plans \ {p}
    BY <1>6 DEF BeginPlan
  <2>2. /\ pc = "plan" /\ pc' \in {"import", "replace"} /\ plan = None
        /\ UNCHANGED <<ready, drops, drop>>
    BY <1>6, <1>i DEF BeginPlan, LocalsAreUsed
  <2>3. Hinted' = Hinted /\ Planned' = Planned /\ plan' \notin plans'
    BY <2>1, <2>2, <1>t DEF Hinted, Planned
  <2>. QED
    BY <2>2, <2>3, <1>i DEF Fresh, OnePerTarget, Unmaterialised, EarlyPhases, Dropping
<1>7. CASE ReplaceRow
  <2>1. /\ pc' = "import" /\ ready' = WithoutRows(Replaced)
        /\ UNCHANGED <<plans, plan, drops, drop>>
    BY <1>7 DEF ReplaceRow
  <2>2. ASSUME NEW p \in Planned PROVE Unmaterialised(p)'
    <3>1. p.revision \in Revisions /\ p.target \in Targets /\ Unmaterialised(p)
      BY <1>i, <1>t DEF Fresh
    <3>2. ready[p.revision][p.target] = 0 => ready'[p.revision][p.target] = 0
      BY <2>1, <3>1 DEF WithoutRows
    <3>. QED
      BY <2>1, <3>1, <3>2 DEF Unmaterialised, Hinted
  <2>. QED
    BY <2>1, <2>2, <1>i DEF Fresh, OnePerTarget, Planned, EarlyPhases, Dropping
<1>8. CASE UpsertMaterialization
  <2>1. /\ pc = "import" /\ pc' = "plan" /\ plan' = None /\ plan # None
        /\ ready' = [ready EXCEPT ![plan.revision][plan.target] = profile[plan.target]]
        /\ UNCHANGED <<plans, drops, drop>>
    BY <1>8, <1>i DEF UpsertMaterialization, TypeOK, PhaseTypes
  <2>2. Planned' = plans /\ plan \in Planned /\ plans \subseteq Planned
    BY <2>1, <1>t DEF Planned
  <2>3. ASSUME NEW p \in plans PROVE Unmaterialised(p)'
    <3>1. p.target # plan.target
      BY <2>2, <1>i DEF OnePerTarget
    <3>2. p.revision \in Revisions /\ p.target \in Targets /\ Unmaterialised(p)
      BY <2>2, <1>i, <1>t DEF Fresh
    <3>3. ready'[p.revision][p.target] = ready[p.revision][p.target]
      BY <2>1, <3>1, <3>2, <1>t
    <3>. QED
      BY <2>1, <3>2, <3>3 DEF Unmaterialised, Hinted
  <2>. QED
    BY <2>1, <2>2, <2>3, <1>i, <1>t DEF Fresh, OnePerTarget, EarlyPhases, Dropping
<1>9. CASE Complete \/ BackendFails \/ RejectArtifact
  <2>1. pc' = "idle" /\ plans' = {} /\ plan' = None
    BY <1>9 DEF Complete, BackendFails, RejectArtifact, EndCall
  <2>. QED
    BY <2>1 DEF Fresh, OnePerTarget, Planned, EarlyPhases, Dropping
<1>10. CASE Clean
  <2>1. pc' = "idle" /\ plans' = {} /\ plan' = None
    BY <1>10, <1>i DEF Clean, LocalsAreUsed
  <2>. QED
    BY <2>1 DEF Fresh, OnePerTarget, Planned, EarlyPhases, Dropping
<1>11. CASE /\ UNCHANGED <<snap, ready, plans, plan, drops, drop>>
            /\ pc' \in EarlyPhases => pc \in EarlyPhases
            /\ pc' \in Dropping => pc \in Dropping /\ current' = current
  BY <1>11, <1>i DEF Fresh, OnePerTarget, Planned, Hinted, Unmaterialised
<1>. QED
  BY <1>0, <1>1, <1>2, <1>3, <1>4, <1>5, <1>6, <1>7, <1>8, <1>9, <1>10, <1>11

\* What is planned has its file list and no row when it is imported (listArtifactRefs
\* reads the list).
LEMMA PlannedIsWhole ==
  ASSUME Alive, NEW p \in Planned, pc \in {"plan", "replace", "replaceRow", "import"}
  PROVE  /\ p.revision \in Revisions /\ p.target \in Targets
         /\ files[p.revision] = FilesOf[p.revision] /\ ready[p.revision][p.target] = 0
<1>i. Foundations /\ Fresh /\ LocalsAreUsed /\ TypeOK /\ Promises /\ crashes = 0
  BY DEF Alive, Backing
<1>1. PICK a \in Attachments : RevisionOf[a] = p.revision /\ Handled(a)
  BY <1>i DEF Foundations, Founded
<1>2. revisions[p.revision] = "synced"
  BY <1>1, <1>i DEF Handled, LocalsAreUsed, Processing
<1>3. p.revision \in Revisions /\ p.target \in Targets
  BY <1>i, PlannedTypes
<1>4. files[p.revision] = FilesOf[p.revision]
  BY <1>2, <1>3, <1>i DEF Promises, SyncedPayloadIsWhole
<1>5. Hinted = {}
  BY <1>i DEF Hinted, LocalsAreUsed, EarlyPhases
<1>. QED
  BY <1>3, <1>4, <1>5, <1>i DEF Fresh, Unmaterialised

\* Chunks go before rows when a materialisation is cleared, and come before them
\* when it is imported (clearMaterialization, importItem).
LEMMA BackedStep == ASSUME Alive, Living PROVE Imported' /\ ReadyIsBacked'
<1>. USE DEF backend, registry, replica, delta, cleanup, bounds
<1>i. /\ Imported /\ ReadyIsBacked /\ Fresh /\ LocalsAreUsed /\ TypeOK /\ Books
      /\ crashes = 0 /\ crashes' = 0
  BY DEF Alive, Backing
<1>t. /\ chunks \in [Revisions -> [Files -> Versions]]
      /\ ready \in [Revisions -> [Targets -> Versions]]
      /\ \A r \in Revisions : FilesOf[r] \subseteq Files
  BY <1>i, SyncAssumption DEF TypeOK, ReplicaTypes, SyncAssumption
<1>p. pc \in {"replace", "replaceRow", "import"} => plan \in Planned
  BY <1>i DEF Planned, TypeOK, PhaseTypes
<1>. DEFINE Backed(r, t) == \A f \in ArtifactFiles(FilesOf[r], t) : chunks[r][f] = ready[r][t]
<1>b. \A r \in Revisions, t \in Targets : ready[r][t] # 0 /\ ~BeingCleared(r, t) => Backed(r, t)
  BY <1>i DEF ReadyIsBacked
<1>s. SUFFICES /\ Imported'
               /\ \A r \in Revisions, t \in Targets :
                    ready'[r][t] # 0 /\ ~BeingCleared(r, t)' => Backed(r, t)'
  BY DEF ReadyIsBacked
<1>0. \/ InvalidateChunks \/ InvalidateRow \/ DropChunks \/ BeginPlan \/ ReplaceChunks
      \/ ReplaceRow \/ ImportBatch \/ UpsertMaterialization \/ Clean
      \/ /\ UNCHANGED <<chunks, ready>> /\ pc \notin {"dropRow", "replaceRow"}
         /\ pc' \notin {"import", "dropRow", "replaceRow"}
      \/ UNCHANGED <<chunks, ready, pc, drop, plan, refs>>
  BY DEF Living, vars, Next, Work, Environment, Publish, Tombstone, Upgrade, Register, Observe,
     Start, FetchPage, InventoryAttachment, NextPage, UpsertRevision, PersistPending, FetchFiles,
     FinishFiles, InvalidationsDone, UnpendStale, UnlinkStale, DropFiles, DropRevision,
     ClearCompleted, Complete, BackendFails, RejectArtifact, EndCall
<1>1. CASE InvalidateChunks
  <2>1. PICK d \in drops : drop' = d /\ chunks' = WithoutChunks(d)
    BY <1>1 DEF InvalidateChunks
  <2>2. pc = "invalidate" /\ pc' = "dropRow" /\ ready' = ready
    BY <1>1 DEF InvalidateChunks
  <2>3. ASSUME NEW r \in Revisions, NEW t \in Targets, ready[r][t] # 0, ~BeingCleared(r, t)'
        PROVE  Backed(r, t)'
    <3>1. Backed(r, t) /\ ~(r \in d.revisions /\ t = d.target)
      BY <2>1, <2>2, <2>3, <1>b DEF BeingCleared
    <3>2. \A f \in ArtifactFiles(FilesOf[r], t) : chunks'[r][f] = chunks[r][f]
      BY <2>1, <3>1, <1>t DEF WithoutChunks, ArtifactFiles
    <3>. QED
      BY <2>2, <3>1, <3>2
  <2>. QED
    BY <2>2, <2>3 DEF Imported
<1>2. CASE InvalidateRow
  <2>1. /\ pc = "dropRow" /\ pc' = "invalidate" /\ ready' = WithoutRows(drop)
        /\ chunks' = chunks
    BY <1>2 DEF InvalidateRow
  <2>2. ASSUME NEW r \in Revisions, NEW t \in Targets, ready'[r][t] # 0
        PROVE  Backed(r, t)'
    <3>1. ready'[r][t] = ready[r][t] /\ ~(r \in drop.revisions /\ t = drop.target)
      BY <2>1, <2>2 DEF WithoutRows
    <3>. QED
      BY <2>1, <2>2, <3>1, <1>b DEF BeingCleared
  <2>. QED
    BY <2>1, <2>2 DEF Imported
<1>3. CASE DropChunks
  <2>1. /\ pc = "dropChunks" /\ pc' = "dropRevision" /\ ready' = ready
        /\ chunks' = [chunks EXCEPT ![RevisionOf[current]] = NoChunks]
    BY <1>3 DEF DropChunks
  <2>2. ASSUME NEW r \in Revisions, NEW t \in Targets, ready[r][t] # 0
        PROVE  Backed(r, t)'
    <3>1. r # RevisionOf[current]
      BY <2>1, <2>2, <1>i DEF Fresh, Dropping
    <3>2. chunks'[r] = chunks[r] /\ Backed(r, t)
      BY <2>1, <2>2, <3>1, <1>b, <1>t DEF BeingCleared
    <3>. QED
      BY <2>1, <3>2
  <2>. QED
    BY <2>1, <2>2 DEF Imported
<1>4. CASE BeginPlan
  <2>1. PICK p \in plans :
          /\ plan' = p
          /\ \/ pc' = "import" /\ refs' = ArtifactFiles(files[p.revision], p.target)
             \/ pc' = "replace"
    BY <1>4 DEF BeginPlan
  <2>2. pc = "plan" /\ UNCHANGED <<chunks, ready>>
    BY <1>4 DEF BeginPlan
  <2>3. p \in Planned
    BY <1>i, PlannedTypes DEF Planned
  <2>4. files[p.revision] = FilesOf[p.revision]
    BY <2>2, <2>3, PlannedIsWhole
  <2>5. Imported'
    BY <2>1, <2>4 DEF Imported, Wanted
  <2>. QED
    BY <2>1, <2>2, <2>5, <1>b DEF BeingCleared
<1>5. CASE ReplaceChunks
  <2>1. /\ pc = "replace" /\ pc' = "replaceRow" /\ UNCHANGED <<ready, plan>>
        /\ chunks' = WithoutChunks(Replaced)
    BY <1>5 DEF ReplaceChunks
  <2>2. ASSUME NEW r \in Revisions, NEW t \in Targets, ready[r][t] # 0, ~BeingCleared(r, t)'
        PROVE  Backed(r, t)'
    <3>1. Backed(r, t) /\ ~(r = plan.replace /\ t = plan.target)
      BY <2>1, <2>2, <1>b DEF BeingCleared
    <3>2. \A f \in ArtifactFiles(FilesOf[r], t) : chunks'[r][f] = chunks[r][f]
      BY <2>1, <3>1, <1>t DEF WithoutChunks, ArtifactFiles, Replaced
    <3>. QED
      BY <2>1, <3>1, <3>2
  <2>. QED
    BY <2>1, <2>2 DEF Imported
<1>6. CASE ReplaceRow
  <2>1. /\ pc = "replaceRow" /\ pc' = "import" /\ UNCHANGED <<chunks, plan>>
        /\ ready' = WithoutRows(Replaced)
        /\ refs' = ArtifactFiles(files[plan.revision], plan.target)
    BY <1>6 DEF ReplaceRow
  <2>2. Imported'
    BY <2>1, <1>p, PlannedIsWhole DEF Imported, Wanted
  <2>3. ASSUME NEW r \in Revisions, NEW t \in Targets, ready'[r][t] # 0
        PROVE  Backed(r, t)'
    <3>1. ready'[r][t] = ready[r][t] /\ ~(r = plan.replace /\ t = plan.target)
      BY <2>1, <2>3 DEF WithoutRows, Replaced
    <3>. QED
      BY <2>1, <2>3, <3>1, <1>b DEF BeingCleared
  <2>. QED
    BY <2>2, <2>3
<1>7. CASE ImportBatch
  <2>1. PICK batch \in SUBSET refs :
          /\ chunks' = [chunks EXCEPT ![plan.revision] =
               [f \in Files |-> IF f \in batch THEN version[plan.target] ELSE @[f]]]
          /\ refs' = refs \ batch
    BY <1>7 DEF ImportBatch
  <2>2. /\ pc = "import" /\ pc' = "import" /\ UNCHANGED <<ready, plan>>
        /\ version[plan.target] = plan.version
    BY <1>7 DEF ImportBatch, ProfileAgrees, ArtifactsAgree
  <2>3. /\ plan.revision \in Revisions /\ plan.target \in Targets
        /\ ready[plan.revision][plan.target] = 0
    BY <2>2, <1>p, PlannedIsWhole
  <2>4. \A f \in Files : chunks'[plan.revision][f] =
          IF f \in batch THEN plan.version ELSE chunks[plan.revision][f]
    BY <2>1, <2>2, <2>3, <1>t
  <2>5. refs \subseteq Wanted /\ Wanted \subseteq Files /\ Wanted' = Wanted
        /\ \A f \in Wanted : TargetOf[f] = plan.target
    BY <2>2, <2>3, <1>i, <1>t DEF Imported, Wanted, ArtifactFiles
  <2>6. Imported'
    BY <2>1, <2>2, <2>4, <2>5, <1>i DEF Imported
  <2>7. ASSUME NEW r \in Revisions, NEW t \in Targets, ready[r][t] # 0
        PROVE  Backed(r, t)'
    <3>1. Backed(r, t)
      BY <2>2, <2>7, <1>b DEF BeingCleared
    <3>2. CASE r # plan.revision
      BY <3>1, <3>2, <2>1, <2>2, <1>t
    <3>3. CASE r = plan.revision
      <4>1. t # plan.target
        BY <3>3, <2>3, <2>7
      <4>2. \A f \in ArtifactFiles(FilesOf[r], t) : f \in Files /\ f \notin batch
        BY <4>1, <2>1, <2>5, <1>t DEF ArtifactFiles
      <4>. QED
        BY <3>1, <3>3, <4>2, <2>2, <2>4
    <3>. QED
      BY <3>2, <3>3
  <2>. QED
    BY <2>2, <2>6, <2>7
<1>8. CASE UpsertMaterialization
  <2>1. /\ pc = "import" /\ pc' = "plan" /\ refs = {} /\ chunks' = chunks
        /\ ready' = [ready EXCEPT ![plan.revision][plan.target] = plan.version]
    BY <1>8 DEF UpsertMaterialization, ProfileAgrees
  <2>2. plan.revision \in Revisions /\ plan.target \in Targets
    BY <2>1, <1>p, PlannedIsWhole
  <2>3. \A f \in Wanted : chunks[plan.revision][f] = plan.version
    BY <2>1, <1>i DEF Imported
  <2>4. ASSUME NEW r \in Revisions, NEW t \in Targets, ready'[r][t] # 0
        PROVE  Backed(r, t)'
    <3>1. CASE r = plan.revision /\ t = plan.target
      <4>1. ready'[r][t] = plan.version
        BY <3>1, <2>1, <2>2, <1>t
      <4>. QED
        BY <3>1, <4>1, <2>1, <2>3 DEF Wanted
    <3>2. CASE ~(r = plan.revision /\ t = plan.target)
      <4>1. ready'[r][t] = ready[r][t]
        BY <3>2, <2>1, <2>2, <1>t
      <4>. QED
        BY <4>1, <2>1, <2>4, <1>b DEF BeingCleared
    <3>. QED
      BY <3>1, <3>2
  <2>. QED
    BY <2>1, <2>4 DEF Imported
<1>9. CASE Clean
  <2>1. pc' = "idle" /\ ready' = [r \in Revisions |-> NoRows]
    BY <1>9 DEF Clean, EraseReplica
  <2>. QED
    BY <2>1 DEF Imported, NoRows
<1>10. CASE /\ UNCHANGED <<chunks, ready>> /\ pc \notin {"dropRow", "replaceRow"}
            /\ pc' \notin {"import", "dropRow", "replaceRow"}
  BY <1>10, <1>b DEF Imported, BeingCleared
<1>11. CASE UNCHANGED <<chunks, ready, pc, drop, plan, refs>>
  BY <1>11, <1>b, <1>i DEF Imported, Wanted, BeingCleared
<1>. QED
  BY <1>0, <1>1, <1>2, <1>3, <1>4, <1>5, <1>6, <1>7, <1>8, <1>9, <1>10, <1>11

\* An empty database satisfies it.
LEMMA InitBacking == Init => Backing
<1>. SUFFICES ASSUME Init PROVE Backing
  OBVIOUS
<1>1. Ordered /\ OnTrackedBranches /\ LocalsAreUsed /\ CursorCovers /\ LiveIsHandled
  BY DEF Init, NoCall, NoSnapshot, EmptyReplica, Ordered, OnTrackedBranches, LocalsAreUsed,
     CursorCovers, LiveIsHandled, EarlyPhases, Processing
<1>2. Foundations /\ Fresh /\ OnePerTarget
  BY DEF Init, NoCall, Foundations, Fresh, OnePerTarget, Planned, EarlyPhases, Dropping
<1>3. Imported /\ ReadyIsBacked
  BY DEF Init, NoCall, EmptyReplica, NoRows, Imported, ReadyIsBacked
<1>. QED
  BY <1>1, <1>2, <1>3 DEF Backing

\* Every step of a process that has not died keeps it.
LEMMA StepBInv == BInv /\ [Next]_vars => BInv'
<1>. SUFFICES ASSUME BInv, [Next]_vars, crashes' = 0 PROVE Backing'
  BY StepIInv DEF BInv
<1>1. crashes = 0 /\ ~Crash
  <2>1. crashes \in Nat
    BY SyncAssumption DEF BInv, IInv, TypeOK, BoundTypes, SyncAssumption
  <2>2. crashes' = crashes \/ crashes' = crashes + 1
    BY OutstandingStep DEF BInv, Crash
  <2>3. ~Crash
    BY <2>1 DEF Crash
  <2>. QED
    BY <2>1, <2>2, <2>3
<1>2. IInv'
  BY StepIInv DEF BInv
<1>3. Alive /\ Living
  BY <1>1, <1>2 DEF Alive, Living, BInv, IInv
<1>. QED
  BY <1>3, OrderedStep, LocalsStep, CoverStep, FoundStep, FreshStep, BackedStep DEF Backing

\* Until the process first dies, a materialisation row has every chunk of its
\* revision and target, all of the row's profile version, but while it is being
\* cleared.
THEOREM ReadyMeansBacked == Spec => []ReadyIsBacked
<1>1. Init => BInv
  BY InitIInv, InitBacking DEF BInv
<1>2. BInv => ReadyIsBacked
  BY DEF BInv, Backing, ReadyIsBacked
<1>. QED
  BY <1>1, <1>2, StepBInv, PTL DEF Spec

==============================================================================
