--------------------------- MODULE RuntimeLifecycle ---------------------------
(***************************************************************************)
(* The processes that start an agent runtime on one data directory: the    *)
(* lock file, the pid, meta and socket files and their stale checks        *)
(* (control.ts), and AgentRuntimeServer's start() and stop() as two        *)
(* concurrent threads of control of one process.  A step is what happens   *)
(* between two awaits.                                                     *)
(*                                                                         *)
(* A process is one incarnation: it is launched once, its pid is not used  *)
(* again, and it ends by exiting or by dying at any step.                  *)
(***************************************************************************)
EXTENDS Naturals, FiniteSets

CONSTANTS
  Procs,
  MaxFailures, \* bound on failing database openings and bootstraps
  MaxStops,    \* bound on stop signals and stop commands
  MaxDeaths,   \* bound on process deaths
  MaxMishaps,  \* bound on all of these together
  None

ASSUME LifecycleAssumption ==
  /\ None \notin Procs
  /\ MaxFailures \in Nat /\ MaxStops \in Nat /\ MaxDeaths \in Nat
  /\ MaxMishaps \in Nat

VARIABLES
  \* the files: which process wrote or bound each, or None
  lockFile,   \* agent.lock
  lockPid,    \* whether the pid has been written into agent.lock
  pidFile, metaFile, socket,
  \* per process: where its start() and its stop() are
  pc,
  \* per process: the server object's fields
  lock,       \* this.lock # null
  listening,  \* this.server listens
  ownsSocket, ownsPidFile,
  meta,       \* this.meta # null
  database,   \* the runner's runtime: the database is open
  stopping,
  \* what happened so far
  overlapped, \* some start() ran beside another one
  early,      \* the processes told to stop before their start() returned
  failures, stops, deaths

files   == <<lockFile, lockPid, pidFile, metaFile, socket>>
server  == <<lock, listening, ownsSocket, ownsPidFile, meta, database, stopping>>
history == <<overlapped, early, failures, stops, deaths>>
vars == <<files, pc, server, history>>

Threads == {"start", "stop"}
StartSteps == {"off", "lock", "write", "readPid", "readLock", "unlink", "stalePid",
               "dropPid", "dropMeta", "stat", "probe", "dropSocket", "database",
               "bootstrap", "listen", "chmod", "writePid", "writeMeta", "up"}
StopSteps == {"none", "stopRunner", "eraseSocket", "erasePid", "eraseMeta", "release",
              "done", "gone"}
Steps == StartSteps \union StopSteps

Alive(p) == pc[p]["start"] \notin {"off", "gone"}
Starting(p) == Alive(p) /\ pc[p]["start"] \notin {"up", "done"}

\* The fields of a server object are those of a running process.
TypeOK ==
  /\ {lockFile, pidFile, metaFile, socket} \subseteq Procs \union {None}
  /\ lockPid \in BOOLEAN
  /\ pc \in [Procs -> [Threads -> Steps]]
  /\ \A p \in Procs : pc[p]["start"] # "none" /\ pc[p]["stop"] \in StopSteps
  /\ {lock, listening, ownsSocket, ownsPidFile, meta, database, stopping}
       \subseteq [Procs -> BOOLEAN]
  /\ \A p \in Procs : lock[p] \/ listening[p] \/ database[p] => Alive(p)
  /\ overlapped \in BOOLEAN /\ early \subseteq Procs
  /\ failures \in 0..MaxFailures /\ stops \in 0..MaxStops /\ deaths \in 0..MaxDeaths

Nobody == [p \in Procs |-> FALSE]

Init ==
  /\ lockFile = None /\ lockPid = FALSE
  /\ pidFile = None /\ metaFile = None /\ socket = None
  /\ pc = [p \in Procs |-> [t \in Threads |-> IF t = "start" THEN "off" ELSE "none"]]
  /\ lock = Nobody /\ listening = Nobody /\ ownsSocket = Nobody
  /\ ownsPidFile = Nobody /\ meta = Nobody /\ database = Nobody /\ stopping = Nobody
  /\ overlapped = FALSE /\ early = {}
  /\ failures = 0 /\ stops = 0 /\ deaths = 0

Mishaps == failures + stops + deaths

At(p, t, s) == pc[p][t] = s
Go(p, t, s) == pc' = [pc EXCEPT ![p][t] = s]

-----------------------------------------------------------------------------
(* acquireAgentRuntimeLock.                                                *)

Launch(p) ==
  /\ At(p, "start", "off")
  /\ Go(p, "start", "lock")
  /\ overlapped' = (overlapped \/ \E q \in Procs : Starting(q))
  /\ UNCHANGED <<files, server, early, failures, stops, deaths>>

\* open(lockPath, 'wx'): the file is there, empty, before its pid is.
CreateLock(p) ==
  /\ At(p, "start", "lock") /\ lockFile = None
  /\ lockFile' = p /\ lockPid' = FALSE
  /\ Go(p, "start", "write")
  /\ UNCHANGED <<pidFile, metaFile, socket, server, history>>

LockExists(p) ==
  /\ At(p, "start", "lock") /\ lockFile # None
  /\ Go(p, "start", "readPid")
  /\ UNCHANGED <<files, server, history>>

\* Bug: the check for a lock that exists follows the creation of this one.
WriteThenCheck(p) ==
  /\ At(p, "start", "write")
  /\ lockPid' = (lockPid \/ lockFile = p)
  /\ lock' = [lock EXCEPT ![p] = TRUE]
  /\ Go(p, "start", "readPid")
  /\ UNCHANGED <<lockFile, pidFile, metaFile, socket, listening, ownsSocket, ownsPidFile,
                 meta, database, stopping, history>>

\* The pid goes to the file that was opened, even if that has been unlinked.
WriteLock(p) ==
  /\ At(p, "start", "write")
  /\ lockPid' = (lockPid \/ lockFile = p)
  /\ lock' = [lock EXCEPT ![p] = TRUE]
  /\ Go(p, "start", "stalePid")
  /\ UNCHANGED <<lockFile, pidFile, metaFile, socket, listening, ownsSocket, ownsPidFile,
                 meta, database, stopping, history>>

\* start() throws: cleanupAfterFailedStart closes the server, which unlinks
\* the path it is bound to, and goes on to the runner.
CloseServer(p) ==
  /\ socket' = IF listening[p] THEN None ELSE socket
  /\ listening' = [listening EXCEPT ![p] = FALSE]
  /\ stopping' = [stopping EXCEPT ![p] = TRUE]

Fail(p) ==
  /\ CloseServer(p)
  /\ Go(p, "start", "stopRunner")
  /\ UNCHANGED <<lockFile, lockPid, pidFile, metaFile, lock, ownsSocket, ownsPidFile, meta,
                 database>>

\* isExistingLockStale: agent.pid is asked first, agent.lock only without it.
ReadPid(p) ==
  /\ At(p, "start", "readPid")
  /\ \/ /\ pidFile # None /\ Alive(pidFile)
        /\ Fail(p)
     \/ /\ pidFile # None /\ ~Alive(pidFile)
        /\ Go(p, "start", "unlink")
        /\ UNCHANGED <<files, server>>
     \/ /\ pidFile = None
        /\ Go(p, "start", "readLock")
        /\ UNCHANGED <<files, server>>
  /\ UNCHANGED history

ReadLock(p) ==
  /\ At(p, "start", "readLock")
  /\ LET stale == lockFile = None \/ ~lockPid \/ ~Alive(lockFile) IN
     IF stale THEN Go(p, "start", "unlink") /\ UNCHANGED <<files, server>> ELSE Fail(p)
  /\ UNCHANGED history

UnlinkStaleLock(p) ==
  /\ At(p, "start", "unlink")
  /\ lockFile' = None /\ lockPid' = FALSE
  /\ Go(p, "start", "lock")
  /\ UNCHANGED <<pidFile, metaFile, socket, server, history>>

-----------------------------------------------------------------------------
(* cleanupStaleRuntimeArtifacts.                                           *)

ReadStalePid(p) ==
  /\ At(p, "start", "stalePid")
  /\ Go(p, "start", IF pidFile # None /\ ~Alive(pidFile) THEN "dropPid" ELSE "stat")
  /\ UNCHANGED <<files, server, history>>

DropPid(p) ==
  /\ At(p, "start", "dropPid")
  /\ pidFile' = None
  /\ Go(p, "start", "dropMeta")
  /\ UNCHANGED <<lockFile, lockPid, metaFile, socket, server, history>>

DropMeta(p) ==
  /\ At(p, "start", "dropMeta")
  /\ metaFile' = None
  /\ Go(p, "start", "stat")
  /\ UNCHANGED <<lockFile, lockPid, pidFile, socket, server, history>>

StatSocket(p) ==
  /\ At(p, "start", "stat")
  /\ Go(p, "start", IF socket = None THEN "database" ELSE "probe")
  /\ UNCHANGED <<files, server, history>>

\* Bug: a socket file is taken for a listening socket.
ProbeTrustsFile(p) ==
  /\ At(p, "start", "probe")
  /\ IF socket # None
     THEN Fail(p)
     ELSE Go(p, "start", "dropSocket") /\ UNCHANGED <<files, server>>
  /\ UNCHANGED history

\* A connection succeeds if the process that bound the path still listens.
ProbeSocket(p) ==
  /\ At(p, "start", "probe")
  /\ IF socket # None /\ listening[socket]
     THEN Fail(p)
     ELSE Go(p, "start", "dropSocket") /\ UNCHANGED <<files, server>>
  /\ UNCHANGED history

DropSocket(p) ==
  /\ At(p, "start", "dropSocket")
  /\ socket' = None
  /\ Go(p, "start", "database")
  /\ UNCHANGED <<lockFile, lockPid, pidFile, metaFile, server, history>>

-----------------------------------------------------------------------------
(* The rest of start().                                                    *)

\* AgentRunner.start: createAgentRuntime opens the database.
OpenDatabase(p) ==
  /\ At(p, "start", "database")
  /\ database' = [database EXCEPT ![p] = TRUE]
  /\ Go(p, "start", "bootstrap")
  /\ UNCHANGED <<files, lock, listening, ownsSocket, ownsPidFile, meta, stopping, history>>

\* The backend answers bootstrap; a runner that stop() has closed meanwhile has
\* no runtime to go on with.
Bootstrap(p) ==
  /\ At(p, "start", "bootstrap")
  /\ IF database[p]
     THEN Go(p, "start", "listen") /\ UNCHANGED <<files, server>>
     ELSE Fail(p)
  /\ UNCHANGED history

BootFails(p) ==
  /\ At(p, "start", "database") \/ At(p, "start", "bootstrap")
  /\ failures < MaxFailures /\ Mishaps < MaxMishaps
  /\ failures' = failures + 1
  /\ Fail(p)
  /\ UNCHANGED <<overlapped, early, stops, deaths>>

\* Bug: what is at the path is removed before the server binds it.
ListenAnyway(p) ==
  /\ At(p, "start", "listen")
  /\ database' = [database EXCEPT ![p] = TRUE]
  /\ meta' = [meta EXCEPT ![p] = TRUE]
  /\ socket' = p
  /\ listening' = [listening EXCEPT ![p] = TRUE]
  /\ ownsSocket' = [ownsSocket EXCEPT ![p] = TRUE]
  /\ Go(p, "start", "chmod")
  /\ UNCHANGED <<lockFile, lockPid, pidFile, metaFile, lock, ownsPidFile, stopping, history>>

\* getRuntime starts a closed runner again; this.meta is set and the server
\* binds the path.
Listen(p) ==
  /\ At(p, "start", "listen") /\ socket = None
  /\ database' = [database EXCEPT ![p] = TRUE]
  /\ meta' = [meta EXCEPT ![p] = TRUE]
  /\ socket' = p
  /\ listening' = [listening EXCEPT ![p] = TRUE]
  /\ ownsSocket' = [ownsSocket EXCEPT ![p] = TRUE]
  /\ Go(p, "start", "chmod")
  /\ UNCHANGED <<lockFile, lockPid, pidFile, metaFile, lock, ownsPidFile, stopping, history>>

\* EADDRINUSE reaches the server's error handler, which calls stop(), and
\* start(), which throws.
AddressInUse(p) ==
  /\ At(p, "start", "listen") /\ socket # None
  /\ database' = [database EXCEPT ![p] = TRUE]
  /\ meta' = [meta EXCEPT ![p] = TRUE]
  /\ stopping' = [stopping EXCEPT ![p] = TRUE]
  /\ pc' = [pc EXCEPT ![p] = [t \in Threads |->
              IF t = "stop" /\ (stopping[p] \/ @["stop"] # "none") THEN @["stop"]
              ELSE "stopRunner"]]
  /\ UNCHANGED <<files, lock, listening, ownsSocket, ownsPidFile, history>>

\* The mode is set on whatever is at the path; this.meta.pid is read next.
ChmodSocket(p) ==
  /\ At(p, "start", "chmod")
  /\ IF socket # None /\ meta[p]
     THEN Go(p, "start", "writePid") /\ UNCHANGED <<files, server>>
     ELSE Fail(p)
  /\ UNCHANGED history

WritePid(p) ==
  /\ At(p, "start", "writePid")
  /\ pidFile' = p
  /\ ownsPidFile' = [ownsPidFile EXCEPT ![p] = TRUE]
  /\ Go(p, "start", "writeMeta")
  /\ UNCHANGED <<lockFile, lockPid, metaFile, socket, lock, listening, ownsSocket, meta,
                 database, stopping, history>>

\* JSON "null" of a meta that stop() has cleared reads as no meta file; the
\* next line then throws.
WriteMeta(p) ==
  /\ At(p, "start", "writeMeta")
  /\ IF meta[p]
     THEN /\ metaFile' = p
          /\ Go(p, "start", "up")
          /\ UNCHANGED <<lockFile, lockPid, pidFile, socket, server>>
     ELSE /\ metaFile' = None
          /\ CloseServer(p)
          /\ Go(p, "start", "stopRunner")
          /\ UNCHANGED <<lockFile, lockPid, pidFile, lock, ownsSocket, ownsPidFile, meta,
                         database>>
  /\ UNCHANGED history

-----------------------------------------------------------------------------
(* stop(), and the part of cleanupAfterFailedStart that is the same.       *)

\* Bug: the server is not closed.
StopLeavesServer(p) ==
  /\ Alive(p) /\ At(p, "stop", "none")
  /\ stops < MaxStops /\ Mishaps < MaxMishaps
  /\ stops' = stops + 1
  /\ early' = IF Starting(p) THEN early \union {p} ELSE early
  /\ stopping' = [stopping EXCEPT ![p] = TRUE]
  /\ Go(p, "stop", "stopRunner")
  /\ UNCHANGED <<files, lock, listening, ownsSocket, ownsPidFile, meta, database,
                 overlapped, failures, deaths>>

\* SIGTERM, SIGINT, the backend's stop command or the shutdown RPC.
RequestStop(p) ==
  /\ Alive(p) /\ At(p, "stop", "none")
  /\ stops < MaxStops /\ Mishaps < MaxMishaps
  /\ stops' = stops + 1
  /\ early' = IF Starting(p) THEN early \union {p} ELSE early
  /\ CloseServer(p)
  /\ Go(p, "stop", "stopRunner")
  /\ UNCHANGED <<lockFile, lockPid, pidFile, metaFile, lock, ownsSocket, ownsPidFile, meta,
                 database, overlapped, failures, deaths>>

\* runCommand's finally.
StopAfterFailure(p) ==
  /\ At(p, "start", "done") /\ At(p, "stop", "none")
  /\ Go(p, "stop", "stopRunner")
  /\ UNCHANGED <<files, server, history>>

\* Bug: the runner's database is left to the end of the process.
StopWithoutClosing(p, t) ==
  /\ At(p, t, "stopRunner")
  /\ UNCHANGED database
  /\ Go(p, t, IF ownsSocket[p] \/ ownsPidFile[p] THEN "eraseSocket" ELSE "release")
  /\ UNCHANGED <<files, lock, listening, ownsSocket, ownsPidFile, meta, stopping, history>>

\* Bug: the runtime's files are removed whoever wrote them.
EraseAlways(p, t) ==
  /\ At(p, t, "stopRunner")
  /\ database' = [database EXCEPT ![p] = FALSE]
  /\ Go(p, t, "eraseSocket")
  /\ UNCHANGED <<files, lock, listening, ownsSocket, ownsPidFile, meta, stopping, history>>

StopRunner(p, t) ==
  /\ At(p, t, "stopRunner")
  /\ database' = [database EXCEPT ![p] = FALSE]
  /\ Go(p, t, IF ownsSocket[p] \/ ownsPidFile[p] THEN "eraseSocket" ELSE "release")
  /\ UNCHANGED <<files, lock, listening, ownsSocket, ownsPidFile, meta, stopping, history>>

\* cleanupRuntimeArtifactFiles.
EraseSocket(p, t) ==
  /\ At(p, t, "eraseSocket")
  /\ socket' = None
  /\ Go(p, t, "erasePid")
  /\ UNCHANGED <<lockFile, lockPid, pidFile, metaFile, server, history>>

ErasePid(p, t) ==
  /\ At(p, t, "erasePid")
  /\ pidFile' = None
  /\ Go(p, t, "eraseMeta")
  /\ UNCHANGED <<lockFile, lockPid, metaFile, socket, server, history>>

EraseMeta(p, t) ==
  /\ At(p, t, "eraseMeta")
  /\ metaFile' = None
  /\ ownsSocket' = [ownsSocket EXCEPT ![p] = FALSE]
  /\ ownsPidFile' = [ownsPidFile EXCEPT ![p] = FALSE]
  /\ Go(p, t, "release")
  /\ UNCHANGED <<lockFile, lockPid, pidFile, socket, lock, listening, meta, database,
                 stopping, history>>

\* Bug: this.lock is not cleared.
ReleaseKeepsLock(p, t) ==
  /\ At(p, t, "release")
  /\ lockFile' = IF lock[p] THEN None ELSE lockFile
  /\ lockPid' = IF lock[p] THEN FALSE ELSE lockPid
  /\ UNCHANGED lock
  /\ meta' = [meta EXCEPT ![p] = FALSE]
  /\ Go(p, t, "done")
  /\ UNCHANGED <<pidFile, metaFile, socket, listening, ownsSocket, ownsPidFile, database,
                 stopping, history>>

\* release() unlinks whatever agent.lock is by now.
Release(p, t) ==
  /\ At(p, t, "release")
  /\ lockFile' = IF lock[p] THEN None ELSE lockFile
  /\ lockPid' = IF lock[p] THEN FALSE ELSE lockPid
  /\ lock' = [lock EXCEPT ![p] = FALSE]
  /\ meta' = [meta EXCEPT ![p] = FALSE]
  /\ Go(p, t, "done")
  /\ UNCHANGED <<pidFile, metaFile, socket, listening, ownsSocket, ownsPidFile, database,
                 stopping, history>>

\* The process ends when nothing is left to keep its event loop alive.
Exit(p) ==
  /\ At(p, "stop", "done") /\ pc[p]["start"] \in {"up", "done"} /\ ~listening[p]
  /\ pc' = [pc EXCEPT ![p] = [t \in Threads |-> "gone"]]
  /\ UNCHANGED <<files, server, history>>

Die(p) ==
  /\ Alive(p) /\ deaths < MaxDeaths /\ Mishaps < MaxMishaps
  /\ deaths' = deaths + 1
  /\ pc' = [pc EXCEPT ![p] = [t \in Threads |-> "gone"]]
  /\ lock' = [lock EXCEPT ![p] = FALSE]
  /\ listening' = [listening EXCEPT ![p] = FALSE]
  /\ ownsSocket' = [ownsSocket EXCEPT ![p] = FALSE]
  /\ ownsPidFile' = [ownsPidFile EXCEPT ![p] = FALSE]
  /\ meta' = [meta EXCEPT ![p] = FALSE]
  /\ database' = [database EXCEPT ![p] = FALSE]
  /\ UNCHANGED <<files, stopping, overlapped, early, failures, stops>>

StartStep(p) ==
  \/ CreateLock(p) \/ LockExists(p) \/ WriteLock(p)
  \/ ReadPid(p) \/ ReadLock(p) \/ UnlinkStaleLock(p)
  \/ ReadStalePid(p) \/ DropPid(p) \/ DropMeta(p)
  \/ StatSocket(p) \/ ProbeSocket(p) \/ DropSocket(p)
  \/ OpenDatabase(p) \/ Bootstrap(p) \/ Listen(p) \/ AddressInUse(p)
  \/ ChmodSocket(p) \/ WritePid(p) \/ WriteMeta(p)

StopStep(p, t) ==
  \/ StopRunner(p, t) \/ EraseSocket(p, t) \/ ErasePid(p, t) \/ EraseMeta(p, t)
  \/ Release(p, t)

Environment(p) == Launch(p) \/ BootFails(p) \/ RequestStop(p) \/ Die(p)

Next ==
  \E p \in Procs :
    \/ StartStep(p) \/ StopAfterFailure(p) \/ Exit(p) \/ Environment(p)
    \/ \E t \in Threads : StopStep(p, t)

\* Every await settles: file operations, the backend's answer or its timeout,
\* the queue's last task.
Fairness ==
  \A p \in Procs :
    /\ WF_vars(StartStep(p)) /\ WF_vars(StopAfterFailure(p)) /\ WF_vars(Exit(p))
    /\ \A t \in Threads : WF_vars(StopStep(p, t))

Spec == Init /\ [][Next]_vars
FairSpec == Spec /\ Fairness

-----------------------------------------------------------------------------
(* Properties.                                                             *)

\* Starts have not overlapped, nor has a start with a stop of its own process.
Undisturbed == ~overlapped /\ early = {}

\* Starts that neither overlap nor are stopped half-way never have the database
\* open twice, whatever died, failed, stopped or was left behind before.
OneDatabase ==
  Undisturbed => \A p, q \in Procs : database[p] /\ database[q] => p = q

\* Up and not stopping.
Serving(p) == At(p, "start", "up") /\ ~stopping[p]

\* Files left by dead processes stop nobody: the start of a process that has
\* always been alone fails only when its database or the backend does, or
\* after a stop.
AloneFailsOnlyAtBoot ==
  [][\A p \in Procs :
       (/\ Undisturbed /\ \A q \in Procs \ {p} : ~Alive(q)
        /\ Starting(p) /\ ~stopping[p] /\ stopping'[p])
       => stops' # stops \/ failures' # failures]_vars

\* Starts that race on clean ground elect one: without a death, a stop or a
\* failed boot two of them are never both up.
RaceElectsOne ==
  (deaths = 0 /\ stops = 0 /\ failures = 0) =>
    \A p, q \in Procs : At(p, "start", "up") /\ At(q, "start", "up") => p = q

\* Nor do they all give up: of those launched one comes up.
RaceIsWon ==
  (\E p \in Procs : Starting(p)) ~> (Mishaps > 0 \/ \E q \in Procs : At(q, "start", "up"))

\* A runtime that is told to stop after its start ends.
StopEnds ==
  \A p \in Procs : stopping[p] ~> (pc[p]["start"] = "gone" \/ p \in early)

\* What "Agent runtime is already running" is thrown for: the lock keeps a
\* second process out, however their starts interleave.
LockExcludes == \A p, q \in Procs : database[p] /\ database[q] => p = q

\* A runtime that answers "Agent runtime is shutting down" does shut down,
\* whenever the stop arrived.
ShuttingDownEnds == \A p \in Procs : stopping[p] ~> pc[p]["start"] = "gone"
=============================================================================
