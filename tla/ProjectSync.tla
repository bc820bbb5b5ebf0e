----------------------------- MODULE ProjectSync -----------------------------
(***************************************************************************)
(* One binding's synchronisation with the Grepmind backend: the delta      *)
(* protocol of ProjectSyncService.syncProject, the artifact import it ends *)
(* with, and the registry operations that create and erase the binding's   *)
(* rows.  Every query commits on its own, so each one that another step    *)
(* could be observed after is an action; backend calls may fail, and the   *)
(* process may die between any two actions.                                *)
(*                                                                         *)
(* The single-writer queue runs a sync, a registration and a clean one     *)
(* after the other: the registry actions need the worker to be idle.       *)
(***************************************************************************)
EXTENDS Integers, FiniteSets

CONSTANTS
  LastAttachment, \* bound on attachment ids; the backend hands them out in order
  Revisions, Files, Targets, Branches,
  RevisionOf,   \* the revision an attachment points to
  BranchOf,     \* the branch it is attached on
  FilesOf,      \* the files of a revision
  TargetOf,     \* the target of a file's artifact_ref, or None
  MaxVersion,   \* bound on embedding profile versions
  MaxFailures,  \* bound on failed backend calls
  MaxCrashes,   \* bound on process deaths
  MaxCleans,    \* bound on local clean-ups
  MaxMishaps,   \* bound on failures, deaths and clean-ups together
  None

Attachments == 1..LastAttachment

ASSUME SyncAssumption ==
  /\ LastAttachment \in Nat
  /\ RevisionOf \in [Attachments -> Revisions]
  /\ BranchOf \in [Attachments -> Branches]
  /\ FilesOf \in [Revisions -> SUBSET Files]
  /\ TargetOf \in [Files -> Targets \union {None}]
  /\ MaxVersion \in Nat \ {0}
  /\ MaxFailures \in Nat /\ MaxCrashes \in Nat /\ MaxCleans \in Nat
  /\ MaxMishaps \in Nat
  /\ None \notin Attachments /\ None \notin Targets /\ None \notin Revisions

VARIABLES
  \* the backend
  published, tombstoned, version,
  \* the local database
  registered, tracked, profile, status,
  inventory,    \* project_revision_attachments
  pending,      \* project_attachment_sync_state rows with files_synced = FALSE
  revisions,    \* project_revisions and its needs_files_sync column
  files,        \* project_revision_files
  chunks,       \* code_chunks and docs_chunks: the profile version of a chunk, 0 if absent
  ready,        \* project_materializations: profile_version of the row, 0 if absent
  \* the running syncProject call
  pc, snap, payload, pageCursor, page, more, current, unfetched,
  completed, stale, drops, drop, plans, plan, refs,
  \* bounds
  failures, crashes, cleans

backend  == <<published, tombstoned, version>>
registry == <<registered, tracked, profile>>
replica  == <<inventory, pending, revisions, files, chunks, ready>>
delta    == <<pageCursor, page, more, current, unfetched, completed, payload>>
cleanup  == <<stale, drops, drop, plans, plan, refs>>
bounds   == <<failures, crashes, cleans>>
vars == <<backend, registry, status, replica, pc, snap, delta, cleanup, bounds>>

-----------------------------------------------------------------------------
MishapsLeft == failures + crashes + cleans < MaxMishaps

PayloadStates == {"absent", "unsynced", "synced"}
Versions == 0..MaxVersion
Phases == {"idle", "page", "revision", "upsert", "persist", "files", "filesDone",
           "invalidate", "dropRow", "stale", "unlink", "dropFiles", "dropChunks",
           "dropRevision", "plan", "replace", "replaceRow", "import"}
Drop == [target : Targets, revisions : SUBSET Revisions]
Plan == [revision : Revisions, target : Targets, version : Versions,
         replace : Revisions \union {None}]
Snapshot == [cursor : [Branches -> Nat], pending : SUBSET Attachments,
             ready : [Revisions -> [Targets -> Versions]]]

ASSUME NoneAssumption == None \notin Drop \union Plan

Smallest(S) == CHOOSE a \in S : \A b \in S : a <= b
Largest(S)  == CHOOSE a \in S : \A b \in S : a >= b

NoChunks == [f \in Files |-> 0]
NoRows   == [t \in Targets |-> 0]
ArtifactFiles(fs, t) == {f \in fs : TargetOf[f] = t}

\* Bug: one cursor for the binding, on whatever branch its attachments are.
BindingCursor(b) == IF b \in tracked /\ inventory # {} THEN Largest(inventory) ELSE 0

\* The highest attachment id known per branch (0: no cursor row for the branch).
BranchCursor(b) ==
  LET known == {a \in inventory : BranchOf[a] = b} IN
  IF b \in tracked /\ known # {} THEN Largest(known) ELSE 0

NoSnapshot == [cursor |-> [b \in Branches |-> 0], pending |-> {},
               ready |-> [r \in Revisions |-> NoRows]]

BackendTypes ==
  /\ published \subseteq Attachments /\ tombstoned \subseteq published
  /\ version \in [Targets -> Versions \ {0}]

ReplicaTypes ==
  /\ registered \in BOOLEAN /\ tracked \subseteq Branches
  /\ profile \in [Targets -> Versions]
  /\ status \in {"none", "idle", "syncing", "ready", "error"}
  /\ inventory \subseteq Attachments /\ pending \subseteq Attachments
  /\ revisions \in [Revisions -> PayloadStates]
  /\ files \in [Revisions -> SUBSET Files]
  /\ chunks \in [Revisions -> [Files -> Versions]]
  /\ ready \in [Revisions -> [Targets -> Versions]]

DeltaTypes ==
  /\ snap \in Snapshot
  /\ payload \in [Revisions -> PayloadStates]
  /\ pageCursor \in Nat /\ page \subseteq Attachments /\ more \in BOOLEAN
  /\ unfetched \subseteq Files /\ completed \subseteq Attachments
  /\ stale \subseteq Attachments

PlanTypes == drops \subseteq Drop /\ plans \subseteq Plan /\ refs \subseteq Files

\* Each phase has the locals it works with.
PhaseTypes ==
  /\ pc \in Phases
  /\ current \in Attachments \union {None}
  /\ drop \in Drop \union {None}
  /\ plan \in Plan \union {None}
  /\ pc \in {"upsert", "persist", "files", "filesDone", "unlink", "dropFiles",
            "dropChunks", "dropRevision"} => current # None
  /\ pc = "dropRow" => drop # None
  /\ pc \in {"replace", "replaceRow", "import"} => plan # None
  /\ pc \in {"replace", "replaceRow"} => plan.replace # None

BoundTypes ==
  /\ failures \in 0..MaxFailures /\ crashes \in 0..MaxCrashes
  /\ cleans \in 0..MaxCleans

TypeOK ==
  /\ BackendTypes /\ ReplicaTypes /\ DeltaTypes /\ PlanTypes /\ PhaseTypes /\ BoundTypes

EmptyReplica ==
  /\ inventory = {} /\ pending = {}
  /\ revisions = [r \in Revisions |-> "absent"]
  /\ files = [r \in Revisions |-> {}]
  /\ chunks = [r \in Revisions |-> NoChunks]
  /\ ready = [r \in Revisions |-> NoRows]

\* No syncProject call on the stack: its local variables are gone.
NoCall ==
  /\ pc = "idle" /\ snap = NoSnapshot
  /\ payload = [r \in Revisions |-> "absent"]
  /\ pageCursor = 0 /\ page = {} /\ more = FALSE /\ current = None
  /\ unfetched = {} /\ completed = {} /\ stale = {}
  /\ drops = {} /\ drop = None /\ plans = {} /\ plan = None /\ refs = {}

Init ==
  /\ published = {} /\ tombstoned = {}
  /\ version = [t \in Targets |-> 1]
  /\ registered = FALSE /\ tracked = {} /\ status = "none"
  /\ profile = [t \in Targets |-> 0]
  /\ EmptyReplica
  /\ NoCall
  /\ failures = 0 /\ crashes = 0 /\ cleans = 0

-----------------------------------------------------------------------------
(* The backend: attachments appear in id order, may go out of scope, and a *)
(* target's embedding profile may be upgraded.                             *)

Publish(a) ==
  /\ a \notin published
  /\ \A b \in Attachments : b < a => b \in published
  /\ published' = published \union {a}
  /\ UNCHANGED <<tombstoned, version, registry, status, replica, pc, snap, delta,
                 cleanup, bounds>>

Tombstone(a) ==
  /\ a \in published \ tombstoned
  /\ tombstoned' = tombstoned \union {a}
  /\ UNCHANGED <<published, version, registry, status, replica, pc, snap, delta,
                 cleanup, bounds>>

Upgrade(t) ==
  /\ version[t] < MaxVersion
  /\ version' = [version EXCEPT ![t] = @ + 1]
  /\ UNCHANGED <<published, tombstoned, registry, status, replica, pc, snap, delta,
                 cleanup, bounds>>

\* The attachments the binding should see.
Live == {a \in published \ tombstoned : BranchOf[a] \in tracked}

\* What the reported local state lacks: above its branch's cursor, or pending.
Owed == {a \in Live : a > snap.cursor[BranchOf[a]] \/ a \in snap.pending}

\* Attachments out of scope that the reported cursors, or the pages already
\* sent, may have made known to the agent.
Tombstones(sent) ==
  {a \in tombstoned : a <= sent \/ a <= snap.cursor[BranchOf[a]]}

LiveRevisions == {RevisionOf[a] : a \in Live}

\* RECREATE_INDEX for a target with rows of an older profile, and
\* DROP_MATERIALIZATION for a row whose revision is out of scope.
Invalidations ==
  {[target |-> t, revisions |-> Revisions] :
     t \in {u \in Targets :
              \E r \in Revisions : snap.ready[r][u] \notin {0, version[u]}}}
  \union
  {[target |-> t, revisions |-> {r}] : t \in Targets, r \in
     {q \in Revisions \ LiveRevisions : \E u \in Targets : snap.ready[q][u] # 0}}

\* The revision to materialise is that of the newest attachment; another
\* materialised revision of the target, if there is one, is replaced by it.
PlanFor(t, replaced) ==
  [revision |-> RevisionOf[Largest(Live)], target |-> t, version |-> version[t],
   replace |-> replaced]

Replaceable(t) ==
  {r \in LiveRevisions \ {RevisionOf[Largest(Live)]} : snap.ready[r][t] # 0}

NeedsPlan(t) == /\ Live # {}
                /\ snap.ready[RevisionOf[Largest(Live)]][t] # version[t]

\* One plan for each target that needs one.
PlanSets ==
  {{PlanFor(t, choice[t]) : t \in {u \in Targets : NeedsPlan(u)}} :
     choice \in {c \in [Targets -> Revisions \union {None}] :
       \A t \in Targets :
         IF NeedsPlan(t) /\ Replaceable(t) # {} THEN c[t] \in Replaceable(t)
                                                ELSE c[t] = None}}

\* The same, as the effect of a step: DELETE of the binding's rows, and a
\* syncProject call that returns, throws or dies.
EraseReplica ==
  /\ inventory' = {} /\ pending' = {}
  /\ revisions' = [r \in Revisions |-> "absent"]
  /\ files' = [r \in Revisions |-> {}]
  /\ chunks' = [r \in Revisions |-> NoChunks]
  /\ ready' = [r \in Revisions |-> NoRows]

EndCall ==
  /\ pc' = "idle" /\ snap' = NoSnapshot
  /\ payload' = [r \in Revisions |-> "absent"]
  /\ pageCursor' = 0 /\ page' = {} /\ more' = FALSE /\ current' = None
  /\ unfetched' = {} /\ completed' = {} /\ stale' = {}
  /\ drops' = {} /\ drop' = None /\ plans' = {} /\ plan' = None /\ refs' = {}

-----------------------------------------------------------------------------
(* The registry.                                                           *)

\* registerProject: the backend's answer is projected in one transaction.
Register(b) ==
  /\ pc = "idle" /\ ~registered
  /\ registered' = TRUE
  /\ tracked' = {b}
  /\ profile' = version
  /\ status' = IF status = "none" THEN "idle" ELSE status
  /\ UNCHANGED <<backend, replica, pc, snap, delta, cleanup, bounds>>

\* observeBranch: every branch ever observed stays tracked.
Observe(b) ==
  /\ pc = "idle" /\ registered /\ b \notin tracked
  /\ tracked' = tracked \union {b}
  /\ UNCHANGED <<backend, registered, profile, status, replica, pc, snap, delta,
                 cleanup, bounds>>

\* cleanProject: deleteLocalProject erases every row of the binding.
Clean ==
  /\ pc = "idle" /\ registered /\ cleans < MaxCleans /\ MishapsLeft
  /\ cleans' = cleans + 1
  /\ registered' = FALSE /\ tracked' = {} /\ status' = "none"
  /\ profile' = [t \in Targets |-> 0]
  /\ EraseReplica
  /\ UNCHANGED <<backend, pc, snap, delta, cleanup, failures, crashes>>

-----------------------------------------------------------------------------
(* syncProject.                                                            *)

\* loadLocalSyncSnapshot, then markSyncStarted.
Start ==
  /\ pc = "idle" /\ registered
  /\ snap' = [cursor |-> [b \in Branches |-> BranchCursor(b)],
              pending |-> pending, ready |-> ready]
  /\ payload' = revisions
  /\ status' = "syncing"
  /\ pc' = "page"
  /\ UNCHANGED <<backend, registry, replica, pageCursor, page, more, current,
                 unfetched, completed, cleanup, bounds>>

\* One page of the delta: ascending attachments, and with the last one the
\* invalidations and plans.  The page's projection replaces the local profiles.
FetchPage ==
  /\ pc = "page"
  /\ LET remaining == {a \in Owed : a > pageCursor} IN
     \E last \in IF remaining = {} THEN {pageCursor} ELSE remaining :
       /\ page' = {a \in remaining : a <= last}
       /\ more' = (\E a \in remaining : a > last)
       /\ pageCursor' = last
       /\ stale' = stale \union Tombstones(last)
       /\ IF more' THEN UNCHANGED <<drops, plans>>
                   ELSE drops' = Invalidations /\ plans' \in PlanSets
  /\ profile' = version
  /\ pc' = "revision"
  /\ UNCHANGED <<backend, registered, tracked, status, replica, snap, current,
                 unfetched, completed, payload, drop, plan, refs, bounds>>

\* Bug: the whole page is inventoried before its first attachment is processed.
InventoryPage ==
  /\ pc = "revision" /\ page # {}
  /\ current' = Smallest(page)
  /\ page' = page \ {current'}
  /\ inventory' = inventory \union page
  /\ pc' = "upsert"
  /\ UNCHANGED <<backend, registry, status, pending, revisions, files, chunks, ready,
                 snap, pageCursor, more, unfetched, completed, payload, cleanup, bounds>>

\* upsertAttachmentInventory of the next attachment of the page.
InventoryAttachment ==
  /\ pc = "revision" /\ page # {}
  /\ current' = Smallest(page)
  /\ page' = page \ {current'}
  /\ inventory' = inventory \union {current'}
  /\ pc' = "upsert"
  /\ UNCHANGED <<backend, registry, status, pending, revisions, files, chunks, ready,
                 snap, pageCursor, more, unfetched, completed, payload, cleanup, bounds>>

NextPage ==
  /\ pc = "revision" /\ page = {}
  /\ pc' = IF more THEN "page" ELSE "invalidate"
  /\ UNCHANGED <<backend, registry, status, replica, snap, delta, cleanup, bounds>>

\* resolveRevisionProcessingState: the payload state of the snapshot, as this
\* call has updated it, wins over what the backend says of the revision.
BackendNeedsFiles(r) == FilesOf[r] # {}
\* Bug: a revision with a row is taken to have its files.
FilesSyncedIfKnown(r) == payload[r] # "absent" \/ ~BackendNeedsFiles(r)
FilesSynced(r) == IF payload[r] = "absent" THEN ~BackendNeedsFiles(r)
                                           ELSE payload[r] = "synced"
NeedsFilesSync(r) == BackendNeedsFiles(r) /\ ~FilesSynced(r)

\* upsertRevision writes progress.needsFilesSync over the row's own value.
UpsertRevision ==
  /\ pc = "upsert"
  /\ LET r == RevisionOf[current] IN
     /\ revisions' = [revisions EXCEPT ![r] =
                        IF NeedsFilesSync(r) THEN "unsynced" ELSE "synced"]
     /\ IF FilesSynced(r)
        THEN /\ completed' = completed \union {current}
             /\ payload' = [payload EXCEPT ![r] = "synced"]
             /\ pc' = "revision"
        ELSE pc' = "persist" /\ UNCHANGED <<completed, payload>>
  /\ UNCHANGED <<backend, registry, status, inventory, pending, files, chunks, ready,
                 snap, pageCursor, page, more, current, unfetched, cleanup, bounds>>

\* Bug: the pending row is left to be written once the files are there.
MarkPendingOnly ==
  /\ pc = "persist"
  /\ LET r == RevisionOf[current] IN
     /\ payload' = [payload EXCEPT ![r] = "unsynced"]
     /\ unfetched' = FilesOf[r]
     /\ pc' = IF NeedsFilesSync(r) THEN "files" ELSE "revision"
  /\ UNCHANGED <<backend, registry, status, inventory, pending, revisions, files, chunks,
                 ready, snap, pageCursor, page, more, current, completed, cleanup, bounds>>

\* persistAttachmentState and markRevisionPending.
PersistPending ==
  /\ pc = "persist"
  /\ LET r == RevisionOf[current] IN
     /\ pending' = pending \union {current}
     /\ payload' = [payload EXCEPT ![r] = "unsynced"]
     /\ unfetched' = FilesOf[r]
     /\ pc' = IF NeedsFilesSync(r) THEN "files" ELSE "revision"
  /\ UNCHANGED <<backend, registry, status, inventory, revisions, files, chunks, ready,
                 snap, pageCursor, page, more, current, completed, cleanup, bounds>>

\* One page of listRevisionFilesPage; the first replaces what was stored.
FetchFiles ==
  /\ pc = "files"
  /\ LET r == RevisionOf[current] IN
     \E got \in SUBSET unfetched \ {{}} :
       /\ files' = [files EXCEPT ![r] =
                      IF unfetched = FilesOf[r] THEN got ELSE @ \union got]
       /\ unfetched' = unfetched \ got
       /\ pc' = IF unfetched' = {} THEN "filesDone" ELSE "files"
  /\ UNCHANGED <<backend, registry, status, inventory, pending, revisions, chunks, ready,
                 snap, pageCursor, page, more, current, completed, payload, cleanup, bounds>>

\* needs_files_sync = FALSE, then markRevisionComplete.
FinishFiles ==
  /\ pc = "filesDone"
  /\ revisions' = [revisions EXCEPT ![RevisionOf[current]] = "synced"]
  /\ payload' = [payload EXCEPT ![RevisionOf[current]] = "synced"]
  /\ completed' = completed \union {current}
  /\ pc' = "revision"
  /\ UNCHANGED <<backend, registry, status, inventory, pending, files, chunks, ready,
                 snap, pageCursor, page, more, current, unfetched, cleanup, bounds>>

-----------------------------------------------------------------------------
(* applyInvalidations, applyStaleRevisions, clearCompletedAttachmentState. *)

\* DELETE FROM <target>_chunks, over the revisions d names.
WithoutChunks(d) ==
  [r \in Revisions |-> [f \in Files |->
     IF r \in d.revisions /\ TargetOf[f] = d.target THEN 0 ELSE chunks[r][f]]]
\* DELETE FROM project_materializations, over the same revisions.
WithoutRows(d) ==
  [r \in Revisions |-> [t \in Targets |->
     IF r \in d.revisions /\ t = d.target THEN 0 ELSE ready[r][t]]]

InvalidateChunks ==
  /\ pc = "invalidate"
  /\ \E d \in drops :
       /\ drop' = d
       /\ drops' = drops \ {d}
       /\ chunks' = WithoutChunks(d)
  /\ pc' = "dropRow"
  /\ UNCHANGED <<backend, registry, status, inventory, pending, revisions, files, ready,
                 snap, delta, stale, plans, plan, refs, bounds>>

InvalidateRow ==
  /\ pc = "dropRow"
  /\ ready' = WithoutRows(drop)
  /\ drop' = None
  /\ pc' = "invalidate"
  /\ UNCHANGED <<backend, registry, status, inventory, pending, revisions, files, chunks,
                 snap, delta, stale, drops, plans, plan, refs, bounds>>

InvalidationsDone ==
  /\ pc = "invalidate" /\ drops = {}
  /\ pc' = "stale"
  /\ UNCHANGED <<backend, registry, status, replica, snap, delta, cleanup, bounds>>

UnpendStale ==
  /\ pc = "stale"
  /\ \E a \in stale :
       /\ pending' = pending \ {a}
       /\ current' = a
       /\ stale' = stale \ {a}
  /\ pc' = "unlink"
  /\ UNCHANGED <<backend, registry, status, inventory, revisions, files, chunks, ready,
                 snap, pageCursor, page, more, unfetched, completed, payload, drops, drop,
                 plans, plan, refs, bounds>>

\* Another attachment, or a materialisation, keeps the payload of r.
PayloadUsed(r) ==
  \/ \E a \in inventory \ {current} : RevisionOf[a] = r
  \/ \E t \in Targets : ready[r][t] # 0

\* Bug: the inventory is deleted by revision instead of by attachment.
UnlinkRevision ==
  /\ pc = "unlink"
  /\ inventory' = {a \in inventory : RevisionOf[a] # RevisionOf[current]}
  /\ pc' = "stale"
  /\ UNCHANGED <<backend, registry, status, pending, revisions, files, chunks, ready,
                 snap, delta, cleanup, bounds>>

UnlinkStale ==
  /\ pc = "unlink"
  /\ inventory' = inventory \ {current}
  /\ pc' = IF PayloadUsed(RevisionOf[current]) THEN "stale" ELSE "dropFiles"
  /\ UNCHANGED <<backend, registry, status, pending, revisions, files, chunks, ready,
                 snap, delta, cleanup, bounds>>

DropFiles ==
  /\ pc = "dropFiles"
  /\ files' = [files EXCEPT ![RevisionOf[current]] = {}]
  /\ pc' = "dropChunks"
  /\ UNCHANGED <<backend, registry, status, inventory, pending, revisions, chunks, ready,
                 snap, delta, cleanup, bounds>>

DropChunks ==
  /\ pc = "dropChunks"
  /\ chunks' = [chunks EXCEPT ![RevisionOf[current]] = NoChunks]
  /\ pc' = "dropRevision"
  /\ UNCHANGED <<backend, registry, status, inventory, pending, revisions, files, ready,
                 snap, delta, cleanup, bounds>>

DropRevision ==
  /\ pc = "dropRevision"
  /\ revisions' = [revisions EXCEPT ![RevisionOf[current]] = "absent"]
  /\ pc' = "stale"
  /\ UNCHANGED <<backend, registry, status, inventory, pending, files, chunks, ready,
                 snap, delta, cleanup, bounds>>

ClearCompleted ==
  /\ pc = "stale" /\ stale = {}
  /\ pending' = pending \ completed
  /\ pc' = "plan"
  /\ UNCHANGED <<backend, registry, status, inventory, revisions, files, chunks, ready,
                 snap, delta, cleanup, bounds>>

-----------------------------------------------------------------------------
(* materializePlans.                                                       *)

BeginPlan ==
  /\ pc = "plan"
  /\ \E p \in plans :
       /\ plan' = p
       /\ plans' = plans \ {p}
       /\ IF p.replace = None
          THEN /\ pc' = "import"
               /\ refs' = ArtifactFiles(files[p.revision], p.target)
          ELSE pc' = "replace" /\ refs' = {}
  /\ UNCHANGED <<backend, registry, status, replica, snap, delta, stale, drops, drop,
                 bounds>>

\* clearMaterialization of the revision the plan replaces.
Replaced == [target |-> plan.target, revisions |-> {plan.replace}]

ReplaceChunks ==
  /\ pc = "replace"
  /\ chunks' = WithoutChunks(Replaced)
  /\ pc' = "replaceRow"
  /\ UNCHANGED <<backend, registry, status, inventory, pending, revisions, files, ready,
                 snap, delta, cleanup, bounds>>

ReplaceRow ==
  /\ pc = "replaceRow"
  /\ ready' = WithoutRows(Replaced)
  /\ refs' = ArtifactFiles(files[plan.revision], plan.target)
  /\ pc' = "import"
  /\ UNCHANGED <<backend, registry, status, inventory, pending, revisions, files, chunks,
                 snap, delta, stale, drops, drop, plans, plan, bounds>>

\* requireProfile wants the plan's version to be the local one; the backend
\* serves artifacts of its own current version, which validateImportItem wants
\* to be the local one too.
ProfileAgrees == profile[plan.target] = plan.version
ArtifactsAgree == version[plan.target] = profile[plan.target]

\* Bug: a batch the backend cuts short is taken for the whole.
ImportOneBatch ==
  /\ pc = "import" /\ refs # {} /\ ProfileAgrees /\ ArtifactsAgree
  /\ \E batch \in SUBSET refs \ {{}} :
       chunks' = [chunks EXCEPT ![plan.revision] =
                    [f \in Files |-> IF f \in batch THEN version[plan.target] ELSE @[f]]]
  /\ refs' = {}
  /\ UNCHANGED <<backend, registry, status, inventory, pending, revisions, files, ready,
                 pc, snap, delta, stale, drops, drop, plans, plan, bounds>>

\* getArtifactsBatch of some of the references (adaptive splitting may make a
\* batch of any size), then importItem of each.
ImportBatch ==
  /\ pc = "import" /\ refs # {} /\ ProfileAgrees /\ ArtifactsAgree
  /\ \E batch \in SUBSET refs \ {{}} :
       /\ chunks' = [chunks EXCEPT ![plan.revision] =
                       [f \in Files |-> IF f \in batch THEN version[plan.target] ELSE @[f]]]
       /\ refs' = refs \ batch
  /\ UNCHANGED <<backend, registry, status, inventory, pending, revisions, files, ready,
                 pc, snap, delta, stale, drops, drop, plans, plan, bounds>>

UpsertMaterialization ==
  /\ pc = "import" /\ refs = {} /\ ProfileAgrees
  /\ ready' = [ready EXCEPT ![plan.revision][plan.target] = profile[plan.target]]
  /\ plan' = None
  /\ pc' = "plan"
  /\ UNCHANGED <<backend, registry, status, inventory, pending, revisions, files, chunks,
                 snap, delta, stale, drops, drop, plans, refs, bounds>>

\* markSyncCompleted.
Complete ==
  /\ pc = "plan" /\ plans = {}
  /\ status' = "ready"
  /\ EndCall
  /\ UNCHANGED <<backend, registry, replica, bounds>>

-----------------------------------------------------------------------------
(* The ways a call ends early.                                             *)

\* A backend call fails: markSyncErrored, and the error is rethrown.
BackendFails ==
  /\ \/ pc \in {"page", "files"}
     \/ pc = "import" /\ refs # {}
  /\ failures < MaxFailures /\ MishapsLeft
  /\ failures' = failures + 1
  /\ status' = "error"
  /\ EndCall
  /\ UNCHANGED <<backend, registry, replica, crashes, cleans>>

\* The local profile is not the plan's, or an artifact is not of that profile:
\* requireProfile's check or validateImportItem throws.
RejectArtifact ==
  /\ pc = "import"
  /\ ~ProfileAgrees \/ (refs # {} /\ ~ArtifactsAgree)
  /\ status' = "error"
  /\ EndCall
  /\ UNCHANGED <<backend, registry, replica, bounds>>

\* The process dies; the rows written so far are what the next one finds.
Crash ==
  /\ pc # "idle" /\ crashes < MaxCrashes /\ MishapsLeft
  /\ crashes' = crashes + 1
  /\ EndCall
  /\ UNCHANGED <<backend, registry, status, replica, failures, cleans>>

Work ==
  \/ FetchPage \/ InventoryAttachment \/ NextPage \/ UpsertRevision
  \/ PersistPending \/ FetchFiles \/ FinishFiles
  \/ InvalidateChunks \/ InvalidateRow \/ InvalidationsDone
  \/ UnpendStale \/ UnlinkStale \/ DropFiles \/ DropChunks \/ DropRevision
  \/ ClearCompleted
  \/ BeginPlan \/ ReplaceChunks \/ ReplaceRow \/ ImportBatch
  \/ UpsertMaterialization \/ Complete \/ RejectArtifact

Environment ==
  \/ \E a \in Attachments : Publish(a) \/ Tombstone(a)
  \/ \E t \in Targets : Upgrade(t)
  \/ \E b \in Branches : Register(b) \/ Observe(b)
  \/ Clean \/ BackendFails \/ Crash

Next == Start \/ Work \/ Environment

\* The tick polls for ever, and a call that has started runs to its end.
Fairness == WF_vars(Start) /\ WF_vars(Work)

Spec == Init /\ [][Next]_vars
FairSpec == Spec /\ Fairness

-----------------------------------------------------------------------------
(* Properties.                                                             *)

\* A branch cursor tells the backend never to send an attachment again, so an
\* attachment it covers has its files or a pending row that asks for them: no
\* sequence of failed syncs makes a revision unreachable. (What a death of the
\* process between two queries costs is LossIsBounded.)
NothingLost ==
  crashes = 0 =>
    \A a \in inventory :
      \/ revisions[RevisionOf[a]] = "synced"
      \/ a \in pending
      \/ a = current /\ pc \in {"upsert", "persist", "unlink"}

\* needs_files_sync = FALSE is the promise that the file list is whole; only a
\* payload being erased breaks it, between its three deletes.
SyncedPayloadIsWhole ==
  crashes = 0 =>
    \A r \in Revisions :
      revisions[r] = "synced" =>
        \/ files[r] = FilesOf[r]
        \/ pc \in {"dropChunks", "dropRevision"} /\ RevisionOf[current] = r

\* A 'ready' materialisation has every chunk of its revision and target, all
\* of the row's profile version; a search meets fewer only while the row is
\* itself being cleared.
BeingCleared(r, t) ==
  \/ pc = "dropRow" /\ r \in drop.revisions /\ t = drop.target
  \/ pc = "replaceRow" /\ r = plan.replace /\ t = plan.target
ReadyIsBacked ==
  crashes = 0 =>
    \A r \in Revisions, t \in Targets :
      (ready[r][t] # 0 /\ ~BeingCleared(r, t)) =>
        \A f \in ArtifactFiles(FilesOf[r], t) : chunks[r][f] = ready[r][t]

\* A step forgets an attachment only if the backend withdrew it or the project
\* was cleaned.
ForgetsOnlyStale ==
  [][\A a \in inventory \ inventory' : a \in tombstoned \/ ~registered']_vars

\* An attachment above which the cursor stands has its files, or a pending row that
\* asks for them, or it is lost, or its revision's row promises files that are
\* not there.  A death costs one of the two: the attachment it interrupts between its
\* inventory row and its pending row, or the payload it interrupts between the
\* deletes of its files and of its row (deletePayloadIfUnused), and with that every
\* attachment that finds the row later and trusts it (resolveRevisionProcessingState).
Lost == {a \in inventory \ (pending \union tombstoned) : revisions[RevisionOf[a]] # "synced"}
Emptied == {r \in Revisions : revisions[r] = "synced" /\ files[r] # FilesOf[r]}
LossIsBounded ==
  pc = "idle" => Cardinality(Lost) + Cardinality(Emptied) <= crashes

\* Once the backend is quiet and its failures are over, and if no death lost an
\* attachment, the replica catches up: every live attachment with its files,
\* nothing withdrawn, and the newest revision materialised in the current
\* profile.
CaughtUp ==
  registered =>
    /\ Live \subseteq inventory /\ inventory \intersect tombstoned = {}
    /\ \A a \in Live : revisions[RevisionOf[a]] = "synced"
    /\ Live # {} => \A t \in Targets : ready[RevisionOf[Largest(Live)]][t] = version[t]
EventuallyCaughtUp == <>[](crashes = 0 => CaughtUp)
=============================================================================
