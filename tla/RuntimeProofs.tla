---------------------------- MODULE RuntimeProofs ----------------------------
(***************************************************************************)
(* Proofs about RuntimeLifecycle and AgentStartup, for any number of       *)
(* processes and clients and any bounds.  Of the runtimes alone: their     *)
(* types, that the database of the data directory is open in one process   *)
(* at a time as long as starts neither overlap nor are stopped half-way,   *)
(* that nothing left behind by a dead process then stops a start, and that *)
(* a race of starts elects at most one runtime.  Of the runtimes beside    *)
(* their clients: the same, and that a client that registers its workspace *)
(* is served by a runtime that is up.                                      *)
(***************************************************************************)
EXTENDS AgentStartup, TLAPS

USE DEF Threads, Steps, StartSteps, StopSteps, At, Alive, Starting, Mishaps,
        files, server, history

Erasing == {"eraseSocket", "erasePid", "eraseMeta"}
Bound == {"chmod", "writePid", "writeMeta", "up"}

\* What a thread has let go of by the time it ends: a failed start() of what
\* the process had, a stop() of everything that was not bound after it.
Closed(p) ==
  /\ pc[p]["start"] \in Erasing \union {"release", "done"} => ~database[p]
  /\ At(p, "start", "done") => ~lock[p]
  /\ (pc[p]["start"] \in Bound /\ ~listening[p]) =>
       /\ ~At(p, "stop", "none")
       /\ pc[p]["stop"] \in Erasing \union {"release", "done"} => ~database[p]
       /\ At(p, "stop", "done") => ~lock[p]

TypeInv == TypeOK /\ \A p \in Procs : Closed(p)

USE DEF Erasing, Bound

\* One thread's step leaves every other program counter alone.
LEMMA Moves ==
  ASSUME TypeOK, NEW p \in Procs, NEW t \in Threads, NEW s \in Steps, Go(p, t, s)
  PROVE  /\ pc' \in [Procs -> [Threads -> Steps]]
         /\ pc'[p][t] = s
         /\ \A u \in Threads : u # t => pc'[p][u] = pc[p][u]
         /\ \A q \in Procs : q # p => pc'[q] = pc[q]
BY DEF TypeOK, Go

\* A start() that throws closes the server and goes on to the runner.
LEMMA TypeCloses ==
  ASSUME TypeInv, NEW p \in Procs, pc[p]["start"] \in StartSteps \ {"off", "up"},
         CloseServer(p), Go(p, "start", "stopRunner"),
         metaFile' \in Procs \union {None}, failures' \in 0..MaxFailures,
         UNCHANGED <<lockFile, lockPid, pidFile, lock, ownsSocket, ownsPidFile, meta,
           database,
                     overlapped, early, stops, deaths>>
  PROVE  TypeInv'
<1>1. /\ pc' \in [Procs -> [Threads -> Steps]]
      /\ pc'[p]["start"] = "stopRunner"
      /\ pc'[p]["stop"] = pc[p]["stop"]
      /\ \A q \in Procs : q # p => pc'[q] = pc[q]
  BY Moves DEF TypeInv
<1>2. /\ socket' \in Procs \union {None}
      /\ listening' \in [Procs -> BOOLEAN] /\ stopping' \in [Procs -> BOOLEAN]
      /\ ~listening'[p]
      /\ \A q \in Procs : q # p => listening'[q] = listening[q]
  BY DEF CloseServer, TypeInv, TypeOK
<1>3. TypeOK'
  <2> USE <1>1, <1>2 DEF TypeInv, TypeOK
  <2>1. ({lockFile, pidFile, metaFile, socket} \subseteq Procs \union {None})'
    OBVIOUS
  <2>2. ({lock, listening, ownsSocket, ownsPidFile, meta, database, stopping}
          \subseteq [Procs -> BOOLEAN])'
    OBVIOUS
  <2>3. (\A q \in Procs : lock[q] \/ listening[q] \/ database[q] => Alive(q))'
    OBVIOUS
  <2> QED BY <2>1, <2>2, <2>3
<1>4. \A q \in Procs : Closed(q)'
  BY <1>1, <1>2 DEF TypeInv, Closed
<1> QED BY <1>3, <1>4 DEF TypeInv

\* The same where agent.meta.json is left alone.
LEMMA TypeFail ==
  ASSUME TypeInv, NEW p \in Procs, pc[p]["start"] \in StartSteps \ {"off", "up"}, Fail(p),
         failures' \in 0..MaxFailures, UNCHANGED <<overlapped, early, stops, deaths>>
  PROVE  TypeInv'
BY TypeCloses DEF Fail, TypeInv, TypeOK

\* A step of start() that touches files and no field of the server.
LEMMA TypeGo ==
  ASSUME TypeInv, NEW p \in Procs, NEW s \in StartSteps \ {"off"}, Go(p, "start", s),
         pc[p]["start"] \in StartSteps, s \in Bound => pc[p]["start"] \in Bound,
         ({lockFile, pidFile, metaFile, socket} \subseteq Procs \union {None})',
         lockPid' \in BOOLEAN, overlapped' \in BOOLEAN,
         UNCHANGED <<server, early, failures, stops, deaths>>
  PROVE  TypeInv'
<1>1. /\ pc' \in [Procs -> [Threads -> Steps]]
      /\ pc'[p]["start"] = s
      /\ pc'[p]["stop"] = pc[p]["stop"]
      /\ \A q \in Procs : q # p => pc'[q] = pc[q]
  BY Moves DEF TypeInv
<1>2. TypeOK'
  <2> USE <1>1 DEF TypeInv, TypeOK
  <2>1. ({lockFile, pidFile, metaFile, socket} \subseteq Procs \union {None})'
    OBVIOUS
  <2>2. ({lock, listening, ownsSocket, ownsPidFile, meta, database, stopping}
          \subseteq [Procs -> BOOLEAN])'
    OBVIOUS
  <2>3. (\A q \in Procs : lock[q] \/ listening[q] \/ database[q] => Alive(q))'
    OBVIOUS
  <2> QED BY <2>1, <2>2, <2>3
<1>3. \A q \in Procs : Closed(q)'
  BY <1>1 DEF TypeInv, Closed
<1> QED BY <1>2, <1>3 DEF TypeInv

\* The steps of start() keep the types.
LEMMA TypeStart ==
  ASSUME TypeInv, LifecycleAssumption, NEW p \in Procs, StartStep(p)
  PROVE  TypeInv'
<1> USE DEF TypeInv, TypeOK
<1>1. CASE CreateLock(p)
  BY <1>1, TypeGo DEF CreateLock
<1>2. CASE LockExists(p)
  BY <1>2, TypeGo DEF LockExists
<1>3. CASE WriteLock(p)
  BY <1>3 DEF WriteLock, Closed, Go, LifecycleAssumption
<1>4. CASE ReadPid(p)
  <2>1. CASE Fail(p)
    BY <1>4, <2>1, TypeFail DEF ReadPid
  <2>2. CASE Go(p, "start", "unlink") /\ UNCHANGED <<files, server>>
    BY <1>4, <2>2, TypeGo DEF ReadPid
  <2>3. CASE Go(p, "start", "readLock") /\ UNCHANGED <<files, server>>
    BY <1>4, <2>3, TypeGo DEF ReadPid
  <2> QED
    BY <1>4, <2>1, <2>2, <2>3 DEF ReadPid
<1>5. CASE ReadLock(p)
  <2>1. CASE Fail(p)
    BY <1>5, <2>1, TypeFail DEF ReadLock
  <2>2. CASE Go(p, "start", "unlink") /\ UNCHANGED <<files, server>>
    BY <1>5, <2>2, TypeGo DEF ReadLock
  <2> QED
    BY <1>5, <2>1, <2>2 DEF ReadLock
<1>6. CASE UnlinkStaleLock(p)
  BY <1>6, TypeGo DEF UnlinkStaleLock
<1>7. CASE ReadStalePid(p)
  BY <1>7, TypeGo DEF ReadStalePid
<1>8. CASE DropPid(p)
  BY <1>8, TypeGo DEF DropPid
<1>9. CASE DropMeta(p)
  BY <1>9, TypeGo DEF DropMeta
<1>10. CASE StatSocket(p)
  BY <1>10, TypeGo DEF StatSocket
<1>11. CASE ProbeSocket(p)
  <2>1. CASE Fail(p)
    BY <1>11, <2>1, TypeFail DEF ProbeSocket
  <2>2. CASE Go(p, "start", "dropSocket") /\ UNCHANGED <<files, server>>
    BY <1>11, <2>2, TypeGo DEF ProbeSocket
  <2> QED
    BY <1>11, <2>1, <2>2 DEF ProbeSocket
<1>12. CASE DropSocket(p)
  BY <1>12, TypeGo DEF DropSocket
<1>13. CASE OpenDatabase(p)
  BY <1>13 DEF OpenDatabase, Closed, Go, LifecycleAssumption
<1>14. CASE Bootstrap(p)
  <2>1. CASE Fail(p)
    BY <1>14, <2>1, TypeFail DEF Bootstrap
  <2>2. CASE Go(p, "start", "listen") /\ UNCHANGED <<files, server>>
    BY <1>14, <2>2, TypeGo DEF Bootstrap
  <2> QED
    BY <1>14, <2>1, <2>2 DEF Bootstrap
<1>15. CASE Listen(p)
  BY <1>15 DEF Listen, Closed, Go, LifecycleAssumption
<1>16. CASE AddressInUse(p)
  BY <1>16 DEF AddressInUse, Closed, Go, LifecycleAssumption
<1>17. CASE ChmodSocket(p)
  <2>1. CASE Fail(p)
    BY <1>17, <2>1, TypeFail DEF ChmodSocket
  <2>2. CASE Go(p, "start", "writePid") /\ UNCHANGED <<files, server>>
    BY <1>17, <2>2, TypeGo DEF ChmodSocket
  <2> QED
    BY <1>17, <2>1, <2>2 DEF ChmodSocket
<1>18. CASE WritePid(p)
  BY <1>18 DEF WritePid, Closed, Go, LifecycleAssumption
<1>19. CASE WriteMeta(p)
  <2>1. CASE meta[p]
    BY <1>19, <2>1, TypeGo DEF WriteMeta
  <2>2. CASE ~meta[p]
    BY <1>19, <2>2, TypeCloses DEF WriteMeta
  <2> QED BY <2>1, <2>2
<1> QED
  BY <1>1, <1>2, <1>3, <1>4, <1>5, <1>6, <1>7, <1>8, <1>9, <1>10, <1>11, <1>12, <1>13,
    <1>14, <1>15, <1>16, <1>17, <1>18, <1>19 DEF StartStep

\* So do those of stop(), on either thread.
LEMMA TypeStop ==
  ASSUME TypeInv, LifecycleAssumption, NEW p \in Procs, NEW t \in Threads, StopStep(p, t)
  PROVE  TypeInv'
<1> USE DEF TypeInv, TypeOK
<1>1. CASE StopRunner(p, t)
  BY <1>1 DEF StopRunner, Closed, Go, LifecycleAssumption
<1>2. CASE EraseSocket(p, t)
  BY <1>2 DEF EraseSocket, Closed, Go, LifecycleAssumption
<1>3. CASE ErasePid(p, t)
  BY <1>3 DEF ErasePid, Closed, Go, LifecycleAssumption
<1>4. CASE EraseMeta(p, t)
  BY <1>4 DEF EraseMeta, Closed, Go, LifecycleAssumption
<1>5. CASE Release(p, t)
  <2> USE <1>5 DEF Release
  <2>1. /\ pc' \in [Procs -> [Threads -> Steps]]
        /\ pc'[p][t] = "done"
        /\ \A u \in Threads : u # t => pc'[p][u] = pc[p][u]
        /\ \A q \in Procs : q # p => pc'[q] = pc[q]
    BY Moves
  <2>2. ({lockFile, pidFile, metaFile, socket} \subseteq Procs \union {None})'
    OBVIOUS
  <2>3. ({lock, listening, ownsSocket, ownsPidFile, meta, database, stopping}
          \subseteq [Procs -> BOOLEAN])'
    OBVIOUS
  <2>4. (\A q \in Procs : lock[q] \/ listening[q] \/ database[q] => Alive(q))'
    BY <2>1
  <2>5. TypeOK'
    BY <2>1, <2>2, <2>3, <2>4
  <2>6. \A q \in Procs : Closed(q)'
    BY <2>1 DEF Closed
  <2> QED BY <2>5, <2>6
<1> QED
  BY <1>1, <1>2, <1>3, <1>4, <1>5 DEF StopStep

\* And what begins and ends a process.
LEMMA TypeOther ==
  ASSUME TypeInv, LifecycleAssumption, NEW p \in Procs,
         StopAfterFailure(p) \/ Exit(p) \/ Environment(p)
  PROVE  TypeInv'
<1> USE DEF TypeInv, TypeOK
<1>1. CASE StopAfterFailure(p)
  BY <1>1 DEF StopAfterFailure, Closed, Go, LifecycleAssumption
<1>2. CASE Exit(p)
  BY <1>2 DEF Exit, Closed, Go, LifecycleAssumption
<1>3. CASE Launch(p)
  BY <1>3, TypeGo DEF Launch
<1>4. CASE BootFails(p)
  BY <1>4, TypeFail DEF BootFails, LifecycleAssumption
<1>5. CASE RequestStop(p)
  BY <1>5 DEF RequestStop, CloseServer, Closed, Go, LifecycleAssumption
<1>6. CASE Die(p)
  BY <1>6 DEF Die, Closed, Go, LifecycleAssumption
<1> QED
  BY <1>1, <1>2, <1>3, <1>4, <1>5, <1>6 DEF Environment

\* TypeInv is inductive.
LEMMA TypeStep ==
  ASSUME TypeInv, [Next]_vars, LifecycleAssumption
  PROVE  TypeInv'
<1>1. CASE Next
  BY <1>1, TypeStart, TypeStop, TypeOther DEF Next
<1>2. CASE UNCHANGED vars
  BY <1>2 DEF TypeInv, TypeOK, Closed, vars
<1> QED BY <1>1, <1>2

\* Nothing is started yet.
LEMMA TypeInit ==
  ASSUME Init, LifecycleAssumption
  PROVE  TypeInv
<1> USE DEF Init, Nobody, LifecycleAssumption
<1>1. pc \in [Procs -> [Threads -> Steps]]
  OBVIOUS
<1>2. {lock, listening, ownsSocket, ownsPidFile, meta, database, stopping}
        \subseteq [Procs -> BOOLEAN]
  OBVIOUS
<1>3. \A p \in Procs : pc[p]["start"] = "off" /\ pc[p]["stop"] = "none"
  OBVIOUS
<1>4. \A p \in Procs : ~lock[p] /\ ~listening[p] /\ ~database[p]
  OBVIOUS
<1>5. {lockFile, pidFile, metaFile, socket} \subseteq Procs \union {None}
  OBVIOUS
<1>6. lockPid \in BOOLEAN /\ overlapped \in BOOLEAN /\ early \subseteq Procs
  OBVIOUS
<1>7. failures \in 0..MaxFailures /\ stops \in 0..MaxStops /\ deaths \in 0..MaxDeaths
  OBVIOUS
<1>8. TypeOK
  BY <1>1, <1>2, <1>3, <1>4, <1>5, <1>6, <1>7 DEF TypeOK
<1>9. \A p \in Procs : Closed(p)
  BY <1>3 DEF Closed
<1> QED BY <1>8, <1>9 DEF TypeInv

\* Types, and what is let go of, always hold.
LEMMA Typed == Spec => []TypeInv
<1>1. Init => TypeInv
  BY TypeInit, LifecycleAssumption
<1>2. TypeInv /\ [Next]_vars => TypeInv'
  BY TypeStep, LifecycleAssumption
<1> QED BY <1>1, <1>2, PTL DEF Spec

\* The files name processes, the program counters are steps, and only a
\* running process holds the lock, listens or has the database open: one that
\* exits has let go of all three (server.ts, stop and cleanupAfterFailedStart).
THEOREM TypeCorrect == Spec => []TypeOK
<1>1. TypeInv => TypeOK
  BY DEF TypeInv
<1> QED BY <1>1, Typed, PTL

\* What happened is not forgotten.
LEMMA Moved ==
  ASSUME TypeInv, Next
  PROVE  /\ (overlapped => overlapped') /\ early \subseteq early'
         /\ failures' >= failures /\ stops' >= stops /\ deaths' >= deaths
<1> USE DEF TypeInv, TypeOK
<1>1. ASSUME NEW p \in Procs, StartStep(p)
      PROVE  UNCHANGED history
  BY <1>1 DEF StartStep, CreateLock, LockExists, WriteLock, ReadPid, ReadLock,
    UnlinkStaleLock, ReadStalePid, DropPid, DropMeta, StatSocket, ProbeSocket, DropSocket,
    OpenDatabase, Bootstrap, Listen, AddressInUse, ChmodSocket, WritePid, WriteMeta
<1>2. ASSUME NEW p \in Procs, NEW t \in Threads, StopStep(p, t) \/ StopAfterFailure(p) \/
  Exit(p)
      PROVE  UNCHANGED history
  BY <1>2 DEF StopStep, StopRunner, EraseSocket, ErasePid, EraseMeta, Release,
    StopAfterFailure, Exit
<1>3. ASSUME NEW p \in Procs, Environment(p)
      PROVE  /\ (overlapped => overlapped') /\ early \subseteq early'
             /\ failures' >= failures /\ stops' >= stops /\ deaths' >= deaths
  BY <1>3 DEF Environment, Launch, BootFails, RequestStop, Die
<1> QED BY <1>1, <1>2, <1>3 DEF Next

-----------------------------------------------------------------------------
(* Starts that neither overlap nor are stopped half-way.                   *)

Before == {"off", "lock", "readPid", "readLock", "unlink"}
Holding == {"stalePid", "dropPid", "dropMeta", "stat", "probe", "dropSocket", "database",
            "bootstrap", "listen", "chmod", "writePid", "writeMeta"}

OneStarter == \A p, q \in Procs : Starting(p) /\ Starting(q) => p = q

\* stop() begins after start() has ended, and closes the server first.
StopWaits(p) ==
  /\ Starting(p) \/ At(p, "start", "off") => At(p, "stop", "none")
  /\ ~At(p, "stop", "none") \/ pc[p]["start"] \in StopSteps => ~listening[p]

\* Who has the lock: agent.lock is its, and whoever has anything has the lock.
LockHeld(p) ==
  /\ lock[p] => lockFile = p /\ lockPid
  /\ database[p] \/ ownsSocket[p] \/ ownsPidFile[p] \/ listening[p] => lock[p]
  /\ pc[p]["start"] \in Holding => lock[p]
  /\ pc[p]["start"] \in Before \union {"write", "done", "gone"} => ~lock[p]
  /\ At(p, "stop", "done") => ~lock[p]

\* Why the check for a stale lock is right: no file names a process that has
\* not created the lock yet, and agent.pid names a runtime that is up, but for
\* the end of its stop.
Named(p) ==
  /\ pc[p]["start"] \in Before => lockFile # p /\ pidFile # p
  /\ At(p, "start", "write") => lockFile = p
  /\ At(p, "start", "unlink") => \A q \in Procs : ~lock[q]
  /\ At(p, "start", "writeMeta") => pidFile = p
  /\ (At(p, "start", "up") /\ lock[p]) =>
       /\ pidFile \in {p, None}
       /\ pidFile = None => pc[p]["stop"] \in {"eraseMeta", "release"}

\* The files go before the lock, the database before both.
LetsGo(p) ==
  \A t \in Threads :
    /\ pc[p][t] \in Erasing => lock[p] /\ ~database[p]
    /\ pc[p][t] \in {"release", "done"} =>
         ~ownsSocket[p] /\ ~ownsPidFile[p] /\ ~database[p]

\* The path is free from the check of the socket to listen(), and bound by the
\* process itself from there on.
Binds(p) ==
  /\ pc[p]["start"] \in {"database", "bootstrap", "listen"} => socket = None
  /\ At(p, "start", "bootstrap") => database[p]
  /\ pc[p]["start"] \in {"chmod", "writePid", "writeMeta"} => socket = p /\ meta[p]
  /\ listening[p] => pc[p]["start"] \in Bound

Orderly ==
  /\ OneStarter
  /\ \A p \in Procs : StopWaits(p) /\ LockHeld(p) /\ Named(p) /\ LetsGo(p) /\ Binds(p)

USE DEF Before, Holding

\* A start() that throws before it listens leaves every file as it is.
LEMMA OrderlyFail ==
  ASSUME TypeInv, Orderly, NEW p \in Procs, Fail(p),
         pc[p]["start"] \in {"readPid", "readLock", "probe", "database", "bootstrap"}
  PROVE  Orderly'
<1> USE DEF TypeInv, TypeOK, Orderly, OneStarter, StopWaits, LockHeld, Named, LetsGo, Binds
<1>1. /\ pc' \in [Procs -> [Threads -> Steps]]
      /\ pc'[p]["start"] = "stopRunner" /\ pc'[p]["stop"] = pc[p]["stop"]
      /\ \A q \in Procs \ {p} : pc'[q] = pc[q]
  BY Moves DEF Fail
<1>2. UNCHANGED <<files, lock, listening, ownsSocket, ownsPidFile, meta, database>>
  BY DEF Fail, CloseServer
<1>3. OneStarter'
  <2>1. \A q \in Procs : Starting(q)' => Starting(q)
    BY <1>1
  <2> QED BY <2>1
<1>4. \A q \in Procs : StopWaits(q)'
  BY <1>1, <1>2
<1>5. \A q \in Procs : LockHeld(q)' /\ Named(q)'
  BY <1>1, <1>2
<1>6. \A q \in Procs : LetsGo(q)' /\ Binds(q)'
  BY <1>1, <1>2
<1> QED BY <1>3, <1>4, <1>5, <1>6

\* start() keeps order: nobody else is in its start(), so the lock that is
\* found to be stale is nobody's, and the path that was free still is.
LEMMA OrderlyStart ==
  ASSUME TypeInv, Orderly, Undisturbed', LifecycleAssumption, NEW p \in Procs, StartStep(p)
  PROVE  Orderly'
<1> USE DEF TypeInv, TypeOK, Go, LifecycleAssumption, Undisturbed, Orderly, OneStarter,
  StopWaits, LockHeld, Named, LetsGo, Binds
<1>1. CASE CreateLock(p)
  BY <1>1 DEF CreateLock
<1>2. CASE LockExists(p)
  BY <1>2 DEF LockExists
<1>3. CASE WriteLock(p)
  <2> USE <1>3 DEF WriteLock
  <2>1. /\ pc'[p]["start"] = "stalePid" /\ pc'[p]["stop"] = pc[p]["stop"]
        /\ \A q \in Procs \ {p} : pc'[q] = pc[q]
    OBVIOUS
  <2>2. lockFile = p /\ \A q \in Procs : ~lock[q]
    OBVIOUS
  <2>3. OneStarter'
    BY <2>1
  <2>4. \A q \in Procs : StopWaits(q)'
    BY <2>1
  <2>5. \A q \in Procs : LockHeld(q)'
    <3>1. lockFile' = p /\ lockPid' /\ lock'[p] /\ \A q \in Procs \ {p} : lock'[q] = lock[q]
      BY <2>2
    <3>2. LockHeld(p)'
      BY <2>1, <3>1
    <3>3. ASSUME NEW q \in Procs \ {p}
          PROVE  LockHeld(q)'
      BY <2>1, <2>2, <3>1, <3>3
    <3> QED BY <3>2, <3>3
  <2>6. \A q \in Procs : Named(q)'
    BY <2>1, <2>2
  <2>7. \A q \in Procs : LetsGo(q)' /\ Binds(q)'
    BY <2>1, <2>2
  <2> QED BY <2>3, <2>4, <2>5, <2>6, <2>7
<1>4. CASE ReadPid(p)
  <2>1. CASE pidFile # None /\ Alive(pidFile)
    BY <1>4, <2>1, OrderlyFail DEF ReadPid
  <2>2. CASE pidFile # None /\ ~Alive(pidFile)
    <3>1. \A q \in Procs : ~lock[q]
      BY <1>4, <2>2 DEF ReadPid
    <3>2. Go(p, "start", "unlink") /\ UNCHANGED <<files, server, history>>
      BY <1>4, <2>2 DEF ReadPid
    <3> QED BY <1>4, <3>1, <3>2 DEF ReadPid
  <2>3. CASE pidFile = None
    <3>1. Go(p, "start", "readLock") /\ UNCHANGED <<files, server, history>>
      BY <1>4, <2>3 DEF ReadPid
    <3> QED BY <1>4, <3>1 DEF ReadPid
  <2> QED BY <2>1, <2>2, <2>3
<1>5. CASE ReadLock(p)
  <2> DEFINE stale == lockFile = None \/ ~lockPid \/ ~Alive(lockFile)
  <2>1. CASE ~stale
    BY <1>5, <2>1, OrderlyFail DEF ReadLock
  <2>2. CASE stale
    <3>1. \A q \in Procs : ~lock[q]
      BY <2>2
    <3>2. Go(p, "start", "unlink") /\ UNCHANGED <<files, server, history>>
      BY <1>5, <2>2 DEF ReadLock
    <3> QED BY <1>5, <3>1, <3>2 DEF ReadLock
  <2> QED BY <2>1, <2>2
<1>6. CASE UnlinkStaleLock(p)
  BY <1>6 DEF UnlinkStaleLock
<1>7. CASE ReadStalePid(p)
  BY <1>7 DEF ReadStalePid
<1>8. CASE DropPid(p)
  BY <1>8 DEF DropPid
<1>9. CASE DropMeta(p)
  BY <1>9 DEF DropMeta
<1>10. CASE StatSocket(p)
  BY <1>10 DEF StatSocket
<1>11. CASE ProbeSocket(p)
  <2>1. CASE socket # None /\ listening[socket]
    BY <1>11, <2>1, OrderlyFail DEF ProbeSocket
  <2>2. CASE ~(socket # None /\ listening[socket])
    <3>1. Go(p, "start", "dropSocket") /\ UNCHANGED <<files, server, history>>
      BY <1>11, <2>2 DEF ProbeSocket
    <3> QED BY <1>11, <3>1 DEF ProbeSocket
  <2> QED BY <2>1, <2>2
<1>12. CASE DropSocket(p)
  BY <1>12 DEF DropSocket
<1>13. CASE OpenDatabase(p)
  BY <1>13 DEF OpenDatabase
<1>14. CASE Bootstrap(p)
  <2>1. Go(p, "start", "listen") /\ UNCHANGED <<files, server, history>>
    BY <1>14 DEF Bootstrap
  <2> QED BY <1>14, <2>1 DEF Bootstrap
<1>15. CASE Listen(p)
  BY <1>15 DEF Listen
<1>16. CASE AddressInUse(p)
  BY <1>16 DEF AddressInUse
<1>17. CASE ChmodSocket(p)
  <2>1. Go(p, "start", "writePid") /\ UNCHANGED <<files, server, history>>
    BY <1>17 DEF ChmodSocket
  <2> QED BY <1>17, <2>1 DEF ChmodSocket
<1>18. CASE WritePid(p)
  BY <1>18 DEF WritePid
<1>19. CASE WriteMeta(p)
  BY <1>19 DEF WriteMeta, CloseServer
<1> QED
  BY <1>1, <1>2, <1>3, <1>4, <1>5, <1>6, <1>7, <1>8, <1>9, <1>10, <1>11, <1>12, <1>13,
    <1>14, <1>15, <1>16, <1>17, <1>18, <1>19 DEF StartStep

\* stop() keeps order: only the owner of the lock erases the files and unlinks it.
LEMMA OrderlyStop ==
  ASSUME TypeInv, Orderly, Undisturbed', LifecycleAssumption, NEW p \in Procs, NEW t \in
         Threads, StopStep(p, t)
  PROVE  Orderly'
<1> USE DEF TypeInv, TypeOK, Go, LifecycleAssumption, Undisturbed, Orderly, OneStarter,
  StopWaits, LockHeld, Named, LetsGo, Binds
<1>1. CASE StopRunner(p, t)
  BY <1>1 DEF StopRunner
<1>2. CASE EraseSocket(p, t)
  BY <1>2 DEF EraseSocket
<1>3. CASE ErasePid(p, t)
  BY <1>3 DEF ErasePid
<1>4. CASE EraseMeta(p, t)
  BY <1>4 DEF EraseMeta
<1>5. CASE Release(p, t)
  BY <1>5 DEF Release
<1> QED
  BY <1>1, <1>2, <1>3, <1>4, <1>5 DEF StopStep

\* A stop that arrives after the start keeps order, and so does a death.
LEMMA OrderlyOther ==
  ASSUME TypeInv, Orderly, Undisturbed', LifecycleAssumption, NEW p \in Procs,
         StopAfterFailure(p) \/ Exit(p) \/ Environment(p)
  PROVE  Orderly'
<1> USE DEF TypeInv, TypeOK, Go, LifecycleAssumption, Undisturbed, Orderly, OneStarter,
  StopWaits, LockHeld, Named, LetsGo, Binds
<1>1. CASE StopAfterFailure(p)
  BY <1>1 DEF StopAfterFailure
<1>2. CASE Exit(p)
  BY <1>2 DEF Exit
<1>3. CASE Launch(p)
  <2>1. OneStarter'
    BY <1>3 DEF Launch
  <2>2. \A q \in Procs : StopWaits(q)'
    BY <1>3 DEF Launch
  <2>3. \A q \in Procs : LockHeld(q)'
    BY <1>3 DEF Launch
  <2>4. \A q \in Procs : Named(q)'
    BY <1>3 DEF Launch
  <2>5. \A q \in Procs : LetsGo(q)' /\ Binds(q)'
    BY <1>3 DEF Launch
  <2> QED BY <2>1, <2>2, <2>3, <2>4, <2>5
<1>4. CASE BootFails(p)
  BY <1>4, OrderlyFail DEF BootFails
<1>5. CASE RequestStop(p)
  <2>1. ~Starting(p)
    BY <1>5 DEF RequestStop
  <2>2. OneStarter'
    BY <1>5, <2>1 DEF RequestStop, CloseServer
  <2>3. \A q \in Procs : StopWaits(q)'
    BY <1>5, <2>1 DEF RequestStop, CloseServer
  <2>4. \A q \in Procs : LockHeld(q)' /\ Named(q)'
    BY <1>5, <2>1 DEF RequestStop, CloseServer
  <2>5. \A q \in Procs : LetsGo(q)' /\ Binds(q)'
    BY <1>5, <2>1 DEF RequestStop, CloseServer
  <2> QED BY <2>2, <2>3, <2>4, <2>5
<1>6. CASE Die(p)
  BY <1>6 DEF Die
<1> QED
  BY <1>1, <1>2, <1>3, <1>4, <1>5, <1>6 DEF Environment

\* Orderly is inductive as long as the starts have been undisturbed.
LEMMA OrderlyStep ==
  ASSUME TypeInv, Undisturbed => Orderly, [Next]_vars
  PROVE  (Undisturbed => Orderly)'
<1> SUFFICES ASSUME Undisturbed'
             PROVE  Orderly'
  OBVIOUS
<1>1. CASE UNCHANGED vars
  BY <1>1 DEF vars, Undisturbed, Orderly, OneStarter, StopWaits, LockHeld, Named, LetsGo,
    Binds
<1>2. CASE Next
  <2>1. Undisturbed
    BY <1>2, Moved DEF Undisturbed
  <2> QED
    BY <1>2, <2>1, OrderlyStart, OrderlyStop, OrderlyOther, LifecycleAssumption DEF Next
<1> QED BY <1>1, <1>2

\* At first no process has started.
LEMMA OrderlyInit == Init => Orderly
BY LifecycleAssumption
   DEF Init, Nobody, LifecycleAssumption, Orderly, OneStarter, StopWaits, LockHeld, Named,
     LetsGo,
       Binds

\* Order lasts as long as the starts are undisturbed.
LEMMA Ordered == Spec => [](TypeInv /\ (Undisturbed => Orderly))
<1>1. Init => TypeInv /\ (Undisturbed => Orderly)
  BY TypeInit, OrderlyInit, LifecycleAssumption
<1>2. TypeInv /\ (Undisturbed => Orderly) /\ [Next]_vars
        => (TypeInv /\ (Undisturbed => Orderly))'
  BY TypeStep, OrderlyStep, LifecycleAssumption
<1> QED BY <1>1, <1>2, PTL DEF Spec

\* Starts that neither overlap nor are stopped half-way never have the database
\* open in two processes: whoever has it open has the lock, and agent.lock has
\* one owner (control.ts, acquireAgentRuntimeLock; server.ts, stop).
THEOREM OneAtATime == Spec => []OneDatabase
<1>1. TypeInv /\ (Undisturbed => Orderly) => OneDatabase
  BY DEF OneDatabase, Orderly, LockHeld
<1> QED BY <1>1, Ordered, PTL

\* The start of a process that has always been alone fails only with its
\* database or the backend, or when it is told to stop: every file it finds was
\* left by a dead process, and it takes each of them for stale (control.ts,
\* isExistingLockStale and cleanupStaleRuntimeArtifacts).
THEOREM LeftoversAreHarmless == Spec => AloneFailsOnlyAtBoot
<1> DEFINE Alone(p) == /\ Undisturbed /\ \A q \in Procs \ {p} : ~Alive(q)
                       /\ Starting(p) /\ ~stopping[p] /\ stopping'[p]
<1>1. ASSUME TypeInv, Undisturbed => Orderly, [Next]_vars, NEW p \in Procs, Alone(p)
      PROVE  stops' # stops \/ failures' # failures
  <2> USE <1>1 DEF TypeInv, TypeOK
  <2>1. CASE UNCHANGED vars
    BY <2>1 DEF vars
  <2>2. ASSUME NEW q \in Procs, StartStep(q)
        PROVE  FALSE
    <3>1. q = p
      BY <2>2 DEF StartStep, CreateLock, LockExists, WriteLock, ReadPid, ReadLock,
        UnlinkStaleLock, ReadStalePid, DropPid, DropMeta, StatSocket, ProbeSocket,
        DropSocket, OpenDatabase, Bootstrap, Listen, AddressInUse, ChmodSocket, WritePid,
        WriteMeta
    <3>2. ~(ReadPid(p) \/ ReadLock(p)) \/ stopping' = stopping
      BY DEF ReadPid, ReadLock, Orderly, LockHeld, Named
    <3>3. ~ProbeSocket(p) \/ stopping' = stopping
      BY DEF ProbeSocket, Orderly, Binds
    <3>4. ~Bootstrap(p) \/ stopping' = stopping
      BY DEF Bootstrap, Orderly, Binds
    <3>5. ~AddressInUse(p)
      BY DEF AddressInUse, Orderly, Binds
    <3>6. ~ChmodSocket(p) \/ stopping' = stopping
      BY LifecycleAssumption DEF ChmodSocket, Orderly, Binds, LifecycleAssumption
    <3>7. ~WriteMeta(p) \/ stopping' = stopping
      BY DEF WriteMeta, Orderly, Binds
    <3> QED
      BY <2>2, <3>1, <3>2, <3>3, <3>4, <3>5, <3>6, <3>7 DEF StartStep, CreateLock,
        LockExists, WriteLock, UnlinkStaleLock, ReadStalePid, DropPid, DropMeta, StatSocket,
        DropSocket, OpenDatabase, Listen, WritePid
  <2>3. CASE \E q \in Procs :
               StopAfterFailure(q) \/ Exit(q) \/ \E t \in Threads : StopStep(q, t)
    BY <2>3 DEF StopAfterFailure, Exit, StopStep, StopRunner, EraseSocket, ErasePid,
      EraseMeta, Release
  <2>4. ASSUME NEW q \in Procs, Environment(q)
        PROVE  stops' # stops \/ failures' # failures
    BY <2>4 DEF Environment, Launch, BootFails, RequestStop, Die
  <2> QED BY <2>1, <2>2, <2>3, <2>4 DEF Next
<1>2. TypeInv /\ (Undisturbed => Orderly) /\ [Next]_vars
        => [\A p \in Procs :
              (/\ Undisturbed /\ \A q \in Procs \ {p} : ~Alive(q)
               /\ Starting(p) /\ ~stopping[p] /\ stopping'[p])
              => stops' # stops \/ failures' # failures]_vars
  BY <1>1
<1> QED BY <1>2, Ordered, PTL DEF Spec, AloneFailsOnlyAtBoot

-----------------------------------------------------------------------------
(* Starts that race on clean ground.                                       *)

Calm == deaths = 0 /\ stops = 0 /\ failures = 0

\* The path names the one process that listens, so a probe of it always finds
\* one, and nobody removes it.
Raced(p) ==
  /\ listening[p] <=> socket = p
  /\ listening[p] <=> pc[p]["start"] \in Bound
  /\ ownsSocket[p] \/ ownsPidFile[p] => listening[p]
  /\ listening[p] => meta[p]
  /\ pc[p]["start"] \in StartSteps => At(p, "stop", "none")
  /\ At(p, "start", "probe") => socket # None
  /\ ~At(p, "start", "dropSocket")
  /\ \A t \in Threads : pc[p][t] \notin Erasing

Elected == \A p \in Procs : Raced(p)

\* A loser of the race leaves the winner's socket alone.
LEMMA ElectedStart ==
  ASSUME TypeInv, Elected, Calm', LifecycleAssumption, NEW p \in Procs, StartStep(p)
  PROVE  Elected'
<1> USE DEF TypeInv, TypeOK, Go, Elected, Raced, Calm, LifecycleAssumption
<1>1. CASE CreateLock(p)
  BY <1>1 DEF CreateLock
<1>2. CASE LockExists(p)
  BY <1>2 DEF LockExists
<1>3. CASE WriteLock(p)
  BY <1>3 DEF WriteLock
<1>4. CASE ReadPid(p)
  BY <1>4 DEF ReadPid, Fail, CloseServer
<1>5. CASE ReadLock(p)
  BY <1>5 DEF ReadLock, Fail, CloseServer
<1>6. CASE UnlinkStaleLock(p)
  BY <1>6 DEF UnlinkStaleLock
<1>7. CASE ReadStalePid(p)
  BY <1>7 DEF ReadStalePid
<1>8. CASE DropPid(p)
  BY <1>8 DEF DropPid
<1>9. CASE DropMeta(p)
  BY <1>9 DEF DropMeta
<1>10. CASE StatSocket(p)
  BY <1>10 DEF StatSocket
<1>11. CASE ProbeSocket(p)
  BY <1>11 DEF ProbeSocket, Fail, CloseServer
<1>12. CASE DropSocket(p)
  BY <1>12 DEF DropSocket
<1>13. CASE OpenDatabase(p)
  BY <1>13 DEF OpenDatabase
<1>14. CASE Bootstrap(p)
  <2>1. CASE Fail(p)
    BY <1>14, <2>1 DEF Bootstrap, Fail, CloseServer
  <2>2. CASE Go(p, "start", "listen") /\ UNCHANGED <<files, server>>
    BY <1>14, <2>2 DEF Bootstrap
  <2> QED BY <1>14, <2>1, <2>2 DEF Bootstrap
<1>15. CASE Listen(p)
  <2> USE <1>15 DEF Listen
  <2>1. /\ pc'[p]["start"] = "chmod" /\ pc'[p]["stop"] = pc[p]["stop"]
        /\ \A q \in Procs \ {p} : pc'[q] = pc[q]
    OBVIOUS
  <2>2. \A q \in Procs : ~listening[q]
    OBVIOUS
  <2>3. Raced(p)'
    <3>1. listening'[p] /\ socket' = p /\ ownsSocket'[p] /\ meta'[p]
      OBVIOUS
    <3>2. At(p, "stop", "none")
      OBVIOUS
    <3> QED BY <2>1, <3>1, <3>2
  <2>4. ASSUME NEW q \in Procs \ {p}
        PROVE  Raced(q)'
    BY <2>1, <2>2, <2>4
  <2> QED BY <2>3, <2>4
<1>16. CASE AddressInUse(p)
  BY <1>16 DEF AddressInUse
<1>17. CASE ChmodSocket(p)
  BY <1>17 DEF ChmodSocket, Fail, CloseServer
<1>18. CASE WritePid(p)
  BY <1>18 DEF WritePid
<1>19. CASE WriteMeta(p)
  BY <1>19 DEF WriteMeta, CloseServer
<1> QED
  BY <1>1, <1>2, <1>3, <1>4, <1>5, <1>6, <1>7, <1>8, <1>9, <1>10, <1>11, <1>12, <1>13,
    <1>14, <1>15, <1>16, <1>17, <1>18, <1>19 DEF StartStep

\* A loser that cleans up owns neither file, so it erases none.
LEMMA ElectedStop ==
  ASSUME TypeInv, Elected, Calm', LifecycleAssumption, NEW p \in Procs, NEW t \in Threads,
         StopStep(p, t)
  PROVE  Elected'
<1> USE DEF TypeInv, TypeOK, Go, Elected, Raced, Calm, LifecycleAssumption
<1>1. CASE StopRunner(p, t)
  BY <1>1 DEF StopRunner
<1>2. CASE EraseSocket(p, t)
  BY <1>2 DEF EraseSocket
<1>3. CASE ErasePid(p, t)
  BY <1>3 DEF ErasePid
<1>4. CASE EraseMeta(p, t)
  BY <1>4 DEF EraseMeta
<1>5. CASE Release(p, t)
  BY <1>5 DEF Release
<1> QED
  BY <1>1, <1>2, <1>3, <1>4, <1>5 DEF StopStep

\* While nothing has gone wrong processes are only launched and end by failing.
LEMMA ElectedOther ==
  ASSUME TypeInv, Elected, Calm', LifecycleAssumption, NEW p \in Procs,
         StopAfterFailure(p) \/ Exit(p) \/ Environment(p)
  PROVE  Elected'
<1> USE DEF TypeInv, TypeOK, Go, Elected, Raced, Calm, LifecycleAssumption
<1>1. CASE StopAfterFailure(p)
  BY <1>1 DEF StopAfterFailure
<1>2. CASE Exit(p)
  BY <1>2 DEF Exit
<1>3. CASE Launch(p)
  BY <1>3 DEF Launch
<1>4. CASE BootFails(p)
  BY <1>4 DEF BootFails, Fail, CloseServer
<1>5. CASE RequestStop(p)
  BY <1>5 DEF RequestStop, CloseServer
<1>6. CASE Die(p)
  BY <1>6 DEF Die
<1> QED
  BY <1>1, <1>2, <1>3, <1>4, <1>5, <1>6 DEF Environment

\* Elected is inductive while nothing has gone wrong.
LEMMA ElectedStep ==
  ASSUME TypeInv, Calm => Elected, [Next]_vars
  PROVE  (Calm => Elected)'
<1> SUFFICES ASSUME Calm'
             PROVE  Elected'
  OBVIOUS
<1>1. CASE UNCHANGED vars
  BY <1>1 DEF vars, Calm, Elected, Raced
<1>2. CASE Next
  <2>1. Calm
    BY <1>2, Moved DEF Calm, TypeInv, TypeOK
  <2> QED
    BY <1>2, <2>1, ElectedStart, ElectedStop, ElectedOther, LifecycleAssumption DEF Next
<1> QED BY <1>1, <1>2

\* At first nobody listens and no path is bound.
LEMMA ElectedInit == Init => Elected
BY LifecycleAssumption DEF Init, Nobody, LifecycleAssumption, Elected, Raced

\* Without a death, a stop or a failed boot two runtimes are never both up,
\* however their starts interleave: who is up listens on the path, and the path
\* is bound by one (control.ts, cleanupStaleRuntimeArtifacts; server.ts, start).
THEOREM OneIsElected == Spec => []RaceElectsOne
<1> DEFINE I == TypeInv /\ (Calm => Elected)
<1>1. Init => I
  BY TypeInit, ElectedInit, LifecycleAssumption
<1>2. I /\ [Next]_vars => I'
  BY TypeStep, ElectedStep, LifecycleAssumption
<1>3. I => RaceElectsOne
  BY DEF RaceElectsOne, Calm, Elected, Raced
<1> QED BY <1>1, <1>2, <1>3, PTL DEF Spec

-----------------------------------------------------------------------------
(* The runtimes beside the clients that spawn them (AgentStartup).         *)

\* A runtime that is up and not stopping can be found: it listens on the path,
\* and the token a client reads in agent.meta.json is its own.
Usable ==
  \A p \in Procs :
    /\ (pc[p]["start"] \in StartSteps /\ ~stopping[p]) => At(p, "stop", "none")
    /\ (pc[p]["start"] \in Bound /\ ~stopping[p]) => listening[p] /\ socket = p
    /\ Serving(p) => metaFile = p

\* start() ends with the path, the pid file and the meta file the process's own.
LEMMA UsableStart ==
  ASSUME TypeInv, Orderly, Usable, Undisturbed', LifecycleAssumption, NEW p \in Procs,
         StartStep(p)
  PROVE  Usable'
<1> USE DEF TypeInv, TypeOK, Go, LifecycleAssumption, Undisturbed, Orderly, OneStarter,
  StopWaits, LockHeld, LetsGo, Binds, Usable, Serving
<1>1. CASE CreateLock(p)
  BY <1>1 DEF CreateLock
<1>2. CASE LockExists(p)
  BY <1>2 DEF LockExists
<1>3. CASE WriteLock(p)
  BY <1>3 DEF WriteLock
<1>4. CASE ReadPid(p)
  BY <1>4 DEF ReadPid, Fail, CloseServer
<1>5. CASE ReadLock(p)
  BY <1>5 DEF ReadLock, Fail, CloseServer
<1>6. CASE UnlinkStaleLock(p)
  BY <1>6 DEF UnlinkStaleLock
<1>7. CASE ReadStalePid(p)
  BY <1>7 DEF ReadStalePid
<1>8. CASE DropPid(p)
  BY <1>8 DEF DropPid
<1>9. CASE DropMeta(p)
  BY <1>9 DEF DropMeta
<1>10. CASE StatSocket(p)
  BY <1>10 DEF StatSocket
<1>11. CASE ProbeSocket(p)
  BY <1>11 DEF ProbeSocket, Fail, CloseServer
<1>12. CASE DropSocket(p)
  BY <1>12 DEF DropSocket
<1>13. CASE OpenDatabase(p)
  BY <1>13 DEF OpenDatabase
<1>14. CASE Bootstrap(p)
  BY <1>14 DEF Bootstrap, Fail, CloseServer
<1>15. CASE Listen(p)
  BY <1>15 DEF Listen
<1>16. CASE AddressInUse(p)
  BY <1>16 DEF AddressInUse
<1>17. CASE ChmodSocket(p)
  BY <1>17 DEF ChmodSocket, Fail, CloseServer
<1>18. CASE WritePid(p)
  BY <1>18 DEF WritePid
<1>19. CASE WriteMeta(p)
  BY <1>19 DEF WriteMeta, CloseServer
<1> QED
  BY <1>1, <1>2, <1>3, <1>4, <1>5, <1>6, <1>7, <1>8, <1>9, <1>10, <1>11, <1>12, <1>13,
    <1>14, <1>15, <1>16, <1>17, <1>18, <1>19 DEF StartStep

\* stop() erases only what a process that stops has bound and written.
LEMMA UsableStop ==
  ASSUME TypeInv, Orderly, Usable, Undisturbed', LifecycleAssumption, NEW p \in Procs, NEW t
         \in Threads, StopStep(p, t)
  PROVE  Usable'
<1> USE DEF TypeInv, TypeOK, Go, LifecycleAssumption, Undisturbed, Orderly, OneStarter,
  StopWaits, LockHeld, LetsGo, Binds, Usable, Serving
<1>1. CASE StopRunner(p, t)
  BY <1>1 DEF StopRunner
<1>2. CASE EraseSocket(p, t)
  BY <1>2 DEF EraseSocket
<1>3. CASE ErasePid(p, t)
  BY <1>3 DEF ErasePid
<1>4. CASE EraseMeta(p, t)
  BY <1>4 DEF EraseMeta
<1>5. CASE Release(p, t)
  BY <1>5 DEF Release
<1> QED
  BY <1>1, <1>2, <1>3, <1>4, <1>5 DEF StopStep

\* A process that stops is not serving, one that dies serves no more.
LEMMA UsableOther ==
  ASSUME TypeInv, Orderly, Usable, Undisturbed', LifecycleAssumption, NEW p \in Procs,
         StopAfterFailure(p) \/ Exit(p) \/ Environment(p)
  PROVE  Usable'
<1> USE DEF TypeInv, TypeOK, Go, LifecycleAssumption, Undisturbed, Orderly, OneStarter,
  StopWaits, LockHeld, LetsGo, Binds, Usable, Serving
<1>1. CASE StopAfterFailure(p)
  BY <1>1 DEF StopAfterFailure
<1>2. CASE Exit(p)
  BY <1>2 DEF Exit
<1>3. CASE Launch(p)
  BY <1>3 DEF Launch
<1>4. CASE BootFails(p)
  BY <1>4 DEF BootFails, Fail, CloseServer
<1>5. CASE RequestStop(p)
  BY <1>5 DEF RequestStop, CloseServer
<1>6. CASE Die(p)
  BY <1>6 DEF Die
<1> QED
  BY <1>1, <1>2, <1>3, <1>4, <1>5, <1>6 DEF Environment

\* What is invariant of the composition.
StartupInv ==
  /\ TypeInv
  /\ Undisturbed => Orderly /\ Usable
  /\ prep \in [Clients -> Preparing \union {"ready", "failed"}]

\* A client changes nothing of the runtimes but the count of failures, unless
\* it launches one.
LEMMA ClientsWatch ==
  ASSUME NEW c \in Clients, ClientNext(c)
  PROVE  \/ Next \/ UNCHANGED vars
         \/ /\ failures < MaxFailures /\ failures' = failures + 1
            /\ UNCHANGED <<files, pc, server, overlapped, early, stops, deaths>>
BY DEF ClientNext, ClientStep, EnsureAgentRuntime, SpawnDetached, SpawnFails,
       WaitForAgentRuntimeReady, EnsureWorkspaceRegistered, AuthFails, PingTimesOut,
       DeadlinePasses, RegistrationFails, Next, Environment

\* StartupInv is inductive.
LEMMA StartupStep ==
  ASSUME StartupInv, [StartupNext]_allVars
  PROVE  StartupInv'
<1>1. ASSUME Next
      PROVE  TypeInv' /\ (Undisturbed => Orderly /\ Usable)'
  <2>1. TypeInv'
    BY <1>1, TypeStep, LifecycleAssumption DEF StartupInv
  <2>2. ASSUME Undisturbed'
        PROVE  Orderly' /\ Usable'
    <3>1. Undisturbed
      BY <1>1, <2>2, Moved DEF Undisturbed, StartupInv
    <3>2. Orderly'
      BY <1>1, <2>2, <3>1, OrderlyStep DEF StartupInv
    <3>3. Usable'
      BY <1>1, <2>2, <3>1, UsableStart, UsableStop, UsableOther, LifecycleAssumption
         DEF StartupInv, Next
    <3> QED BY <3>2, <3>3
  <2> QED BY <2>1, <2>2
<1>2. ASSUME UNCHANGED vars
      PROVE  TypeInv' /\ (Undisturbed => Orderly /\ Usable)'
  BY <1>2 DEF StartupInv, TypeInv, TypeOK, Closed, Undisturbed, Orderly, OneStarter,
    StopWaits,
              LockHeld, Named, LetsGo, Binds, Usable, Serving, vars
<1>3. ASSUME failures < MaxFailures, failures' = failures + 1,
             UNCHANGED <<files, pc, server, overlapped, early, stops, deaths>>
      PROVE  TypeInv' /\ (Undisturbed => Orderly /\ Usable)'
  <2>1. failures' \in 0..MaxFailures
    BY <1>3, LifecycleAssumption DEF StartupInv, TypeInv, TypeOK, LifecycleAssumption
  <2>2. TypeInv'
    BY <1>3, <2>1 DEF StartupInv, TypeInv, TypeOK, Closed
  <2>3. (Undisturbed => Orderly /\ Usable)'
    BY <1>3 DEF StartupInv, Undisturbed, Orderly, OneStarter, StopWaits, LockHeld, Named,
      LetsGo,
                Binds, Usable, Serving
  <2> QED BY <2>2, <2>3
<1>4. TypeInv' /\ (Undisturbed => Orderly /\ Usable)'
  <2>1. Next \/ (\E c \in Clients : ClientNext(c)) \/ UNCHANGED vars
    BY DEF StartupNext, allVars
  <2> QED BY <2>1, <1>1, <1>2, <1>3, ClientsWatch
<1>5. prep' \in [Clients -> Preparing \union {"ready", "failed"}]
  <2>1. ASSUME NEW c \in Clients, ClientNext(c)
        PROVE  \E s \in Preparing \union {"ready", "failed"} : prep' = [prep EXCEPT ![c] =
          s]
    BY <2>1 DEF ClientNext, ClientStep, EnsureAgentRuntime, SpawnDetached, SpawnFails,
                WaitForAgentRuntimeReady, EnsureWorkspaceRegistered, AuthFails,
                  PingTimesOut,
                DeadlinePasses, RegistrationFails, To, Preparing
  <2>2. prep' = prep \/ \E c \in Clients : ClientNext(c)
    BY DEF StartupNext, allVars
  <2> QED BY <2>1, <2>2 DEF StartupInv
<1> QED BY <1>4, <1>5 DEF StartupInv

\* Nothing is started, and every client begins with a ping.
LEMMA StartupBegins ==
  ASSUME StartupInit
  PROVE  StartupInv
<1>1. TypeInv /\ Orderly
  BY TypeInit, OrderlyInit, LifecycleAssumption DEF StartupInit
<1>2. Usable
  BY DEF StartupInit, Init, Nobody, Usable, Serving
<1> QED BY <1>1, <1>2 DEF StartupInit, StartupInv, Preparing

\* StartupInv always holds.
LEMMA StartupKept == StartupSpec => []StartupInv
BY StartupBegins, StartupStep, PTL DEF StartupSpec

\* The types of the runtimes hold beside their clients, whose preparation is at
\* one of its steps (runtime-context.ts, prepareMcpRuntime).
THEOREM StartupTypeCorrect == StartupSpec => []StartupTypeOK
<1>1. StartupInv => StartupTypeOK
  BY DEF StartupInv, TypeInv, StartupTypeOK
<1> QED BY <1>1, StartupKept, PTL

\* Clients that spawn runtimes do not open the database twice either: of starts
\* that neither overlap nor are stopped half-way one at most has it open
\* (bootstrap.ts, startAgentRuntime; control.ts, acquireAgentRuntimeLock).
THEOREM SpawnedOneAtATime == StartupSpec => []OneDatabase
<1>1. StartupInv => OneDatabase
  BY DEF StartupInv, OneDatabase, Orderly, LockHeld
<1> QED BY <1>1, StartupKept, PTL

\* Where starts neither overlap nor are stopped half-way, a client that
\* registers its workspace while a runtime is up and not stopping is served by
\* it, whatever dead and failed processes have left behind (bootstrap.ts,
\* waitForAgentRuntimeReady; client.ts, request).
THEOREM ServedByWhoServes == StartupSpec => ServingIsUsable
<1>1. ASSUME StartupInv, [StartupNext]_allVars, NEW c \in Clients,
             Undisturbed, In(c, "register"), prep'[c] = "failed",
             NEW p \in Procs, Serving(p)
      PROVE  failures' # failures
  <2>1. RequestServed
    <3>1. listening[p] /\ socket = p /\ metaFile = p /\ ~stopping[p]
      BY <1>1 DEF StartupInv, Usable, Serving
    <3> QED BY <3>1, LifecycleAssumption DEF RequestServed, PingAnswered,
      LifecycleAssumption
  <2>2. \E d \in Clients : ClientNext(d)
    BY <1>1 DEF StartupNext, allVars, In
  <2>3. PICK d \in Clients : ClientNext(d)
    BY <2>2
  <2>4. d = c
    BY <1>1, <2>3 DEF StartupInv, ClientNext, ClientStep, EnsureAgentRuntime, SpawnDetached,
                      SpawnFails, WaitForAgentRuntimeReady, EnsureWorkspaceRegistered,
                        AuthFails,
                      PingTimesOut, DeadlinePasses, RegistrationFails, In, To
  <2>5. RegistrationFails(c)
    BY <1>1, <2>1, <2>3, <2>4
       DEF StartupInv, ClientNext, ClientStep, EnsureAgentRuntime, SpawnDetached,
         SpawnFails,
           WaitForAgentRuntimeReady, EnsureWorkspaceRegistered, AuthFails, PingTimesOut,
           DeadlinePasses, In, To
  <2> QED BY <1>1, <2>5 DEF RegistrationFails, StartupInv, TypeInv, TypeOK
<1>2. StartupInv /\ [StartupNext]_allVars
        => [\A c \in Clients :
              (/\ Undisturbed /\ In(c, "register") /\ prep'[c] = "failed"
               /\ \E p \in Procs : Serving(p))
              => failures' # failures]_allVars
  BY <1>1
<1> QED BY <1>2, StartupKept, PTL DEF StartupSpec, ServingIsUsable

==============================================================================
