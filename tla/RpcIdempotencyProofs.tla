------------------------- MODULE RpcIdempotencyProofs -------------------------
(***************************************************************************)
(* The safety properties of RpcIdempotency hold for every set of callers,  *)
(* workspaces and branches and any number of failures, timeouts, crashes   *)
(* and expiries, and the module implements AnswerOnce.  Everything rests   *)
(* on Serial: one call runs at a time, and it finds the record it read     *)
(* unchanged when it writes its own.                                       *)
(***************************************************************************)
EXTENDS RpcIdempotency, TLAPS

\* The queue runs one call at a time.
Alone == \A c, d \in Callers : Running(c) /\ Running(d) => c = d

\* A task runs while its key has no record.
Unrecorded == \A c \in Callers : Executing(c) => records[KeyOf[c]] = None

\* An answer is on record before it is given.
AnswerRecorded ==
  \A c \in Callers : pc[c] = "answer" =>
    records[KeyOf[c]] # None /\ records[KeyOf[c]].answer = result[c]

Serial == Alone /\ Unrecorded /\ AnswerRecorded

\* Where a startup, its record or its result says "ok" the project is there, or
\* has been.
Known(w) == w \in projects \union removed
RecordKnown ==
  \A w \in Workspaces : records[w] # None /\ records[w].answer = "ok" => Known(w)
ResultKnown ==
  \A c \in Startups :
    pc[c] \in {"record", "answer"} /\ result[c] = "ok" => Known(WorkspaceOf[c])
OutcomeKnown ==
  \A c \in Startups : outcome[c] \in {"ok", "found"} => Known(WorkspaceOf[c])

Registered == RecordKnown /\ ResultKnown /\ OutcomeKnown

\* A registration writes its project while the backend has the binding.
BoundAtApply ==
  \A c \in Registering : pc[c] = "apply" => WorkspaceOf[c] \in remote

Bound == BoundAtApply /\ LocalIsBound

IInv == TypeOK /\ Serial /\ Registered /\ Bound

\* The key of a call is a key; a startup's is its workspace, a command's its own.
LEMMA KeyFacts ==
  ASSUME NEW c \in Callers
  PROVE  /\ KeyOf[c] \in Keys
         /\ c \in Startups => KeyOf[c] = WorkspaceOf[c]
         /\ c \notin Startups => KeyOf[c] = c /\ KeyOf[c] \notin Workspaces
         /\ WorkspaceOf[c] \in Workspaces
  BY RpcAssumption DEF RpcAssumption, KeyOf, Keys

\* A fresh data directory satisfies the inductive invariant.
LEMMA InitIInv == Init => IInv
<1>. SUFFICES ASSUME Init PROVE IInv
  OBVIOUS
<1>1. TypeOK
  <2>1. /\ pc \in [Callers -> Steps]
        /\ params \in [Callers -> Branches \union {None}]
        /\ result \in [Callers -> Answers \union {None}]
        /\ outcome \in [Callers -> Answers \union NoTask \union {"found", "nothing", None}]
        /\ records \in [Keys -> Record \union {None}]
    BY DEF Init, Steps
  <2>2. \A c \in Callers : pc[c] \notin {"record", "answer"}
    BY DEF Init
  <2>3. failures \in 0..MaxFailures /\ crashes \in 0..MaxCrashes /\ expiries \in 0..MaxExpiries
    BY RpcAssumption DEF RpcAssumption, Init
  <2>. QED
    BY <2>1, <2>2, <2>3 DEF Init, TypeOK
<1>2. Serial
  BY DEF Init, Serial, Alone, Unrecorded, AnswerRecorded, Running, Executing
<1>3. Registered
  <2>1. \A c \in Startups : outcome[c] = None /\ pc[c] = "idle"
    BY DEF Init, Callers
  <2>2. \A w \in Workspaces : records[w] = None
    BY DEF Init, Keys
  <2>. QED
    BY <2>1, <2>2, RpcAssumption
    DEF Registered, RecordKnown, ResultKnown, OutcomeKnown, RpcAssumption, Answers
<1>4. Bound
  BY DEF Init, Bound, BoundAtApply, LocalIsBound, Callers, Registering
<1>. QED
  BY <1>1, <1>2, <1>3, <1>4 DEF IInv

-----------------------------------------------------------------------------
(* Type correctness.                                                       *)

\* The first four conjuncts of TypeOK.
CallTypes ==
  /\ pc \in [Callers -> Steps]
  /\ params \in [Callers -> Branches \union {None}]
  /\ result \in [Callers -> Answers \union {None}]
  /\ \A c \in Callers : pc[c] \in {"record", "answer"} => result[c] # None
  /\ outcome \in [Callers -> Answers \union NoTask \union {"found", "nothing", None}]

\* The others.
StoreTypes ==
  /\ queue \in Seq(Callers)
  /\ records \in [Keys -> Record \union {None}]
  /\ projects \subseteq Workspaces /\ remote \subseteq Workspaces
  /\ tried \subseteq Callers /\ removed \subseteq Workspaces /\ torn \subseteq Workspaces
  /\ failures \in 0..MaxFailures /\ crashes \in 0..MaxCrashes
  /\ expiries \in 0..MaxExpiries

\* TypeOK is about the calls and about what they share.
LEMMA SplitTypes == TypeOK <=> CallTypes /\ StoreTypes
  BY DEF TypeOK, CallTypes, StoreTypes

\* No step leaves the types of the calls.
LEMMA StepCallTypes == TypeOK /\ [Next]_vars => CallTypes'
<1>. SUFFICES ASSUME TypeOK, [Next]_vars PROVE CallTypes'
  OBVIOUS
<1>. USE SplitTypes
<1>1. CASE UNCHANGED vars
  BY <1>1 DEF vars, call, CallTypes
<1>2. ASSUME NEW c \in Callers, List(c) \/ Send(c) \/ TimeOut(c)
      PROVE  CallTypes'
  BY <1>2 DEF List, Send, TimeOut, Go, Tell, CallTypes, Steps, Answers, NoTask, Callers,
              Registering
<1>3. ASSUME NEW c \in Callers, Dequeue(c) \/ DropExpired(c) \/ WriteRecord(c) \/ Answer(c)
      PROVE  CallTypes'
  BY <1>3 DEF Dequeue, DropExpired, WriteRecord, Answer, Go, Tell, CallTypes, Steps, NoTask
<1>4. ASSUME NEW c \in Callers, Read(c)
      PROVE  CallTypes'
  <2>1. records[KeyOf[c]] \in Record \union {None}
    BY KeyFacts DEF StoreTypes
  <2>2. None \notin Answers
    BY RpcAssumption DEF RpcAssumption
  <2>3. CASE Go(c, "task") /\ UNCHANGED <<params, result, outcome>>
    BY <2>3 DEF Go, CallTypes, Steps
  <2>4. CASE Go(c, "drop") /\ UNCHANGED <<params, result, outcome>>
    BY <2>4 DEF Go, CallTypes, Steps
  <2>5. CASE Go(c, "done") /\ Tell(c, "conflict") /\ UNCHANGED <<params, result>>
    BY <2>5 DEF Go, Tell, CallTypes, Steps, NoTask
  <2>6. CASE /\ records[KeyOf[c]] # None
             /\ result' = [result EXCEPT ![c] = records[KeyOf[c]].answer]
             /\ Go(c, "answer") /\ UNCHANGED <<params, outcome>>
    BY <2>1, <2>2, <2>6 DEF Go, CallTypes, Steps, Record
  <2>. QED
    BY <1>4, <2>3, <2>4, <2>5, <2>6 DEF Read
<1>5. ASSUME NEW c \in Callers, Begin(c) \/ BackendRegisters(c) \/ BackendUnbinds(c)
                                \/ BackendFails(c) \/ Apply(c)
      PROVE  CallTypes'
  <2>1. None \notin Answers
    BY RpcAssumption DEF RpcAssumption
  <2>2. CASE \E a \in Answers : EndsWith(c, a) /\ UNCHANGED <<params, outcome>>
    BY <2>1, <2>2 DEF EndsWith, Go, CallTypes, Steps
  <2>3. CASE \E s \in {"apply", "backend"} : Go(c, s) /\ UNCHANGED <<params, result, outcome>>
    BY <2>3 DEF Go, CallTypes, Steps
  <2>. QED
    BY <1>5, <2>2, <2>3
    DEF Begin, BackendRegisters, BackendUnbinds, BackendFails, Apply, Answers
<1>6. CASE Crash
  BY <1>6 DEF Crash, CallTypes, Steps, NoTask
<1>7. CASE \E k \in Keys : Expire(k)
  BY <1>7 DEF Expire, call, CallTypes
<1>. QED
  BY <1>1, <1>2, <1>3, <1>4, <1>5, <1>6, <1>7 DEF Next, RuntimeStep

\* No step leaves the types of queue, records and rows.
LEMMA StepStoreTypes == TypeOK /\ [Next]_vars => StoreTypes'
<1>. SUFFICES ASSUME TypeOK, [Next]_vars PROVE StoreTypes'
  OBVIOUS
<1>. USE SplitTypes
<1>0. MaxFailures \in Nat /\ MaxCrashes \in Nat /\ MaxExpiries \in Nat
  BY RpcAssumption DEF RpcAssumption
<1>1. CASE UNCHANGED vars
  BY <1>1 DEF vars, store, rows, history, StoreTypes
<1>2. ASSUME NEW c \in Callers, List(c) \/ TimeOut(c) \/ Read(c) \/ Answer(c)
      PROVE  StoreTypes'
  BY <1>2 DEF List, TimeOut, Read, Answer, store, rows, history, StoreTypes
<1>3. ASSUME NEW c \in Callers, Send(c) \/ Dequeue(c)
      PROVE  StoreTypes'
  <2>1. queue' \in Seq(Callers)
    <3>1. queue \in Seq(Callers)
      BY DEF StoreTypes
    <3>2. CASE queue' = Append(queue, c)
      BY <3>1, <3>2
    <3>3. CASE queue # <<>> /\ queue' = Tail(queue)
      BY <3>1, <3>3
    <3>. QED
      BY <1>3, <3>2, <3>3 DEF Send, Dequeue
  <2>. QED
    BY <1>3, <2>1 DEF Send, Dequeue, rows, history, StoreTypes
<1>4. ASSUME NEW c \in Callers, DropExpired(c) \/ WriteRecord(c)
      PROVE  StoreTypes'
  <2>1. WriteRecord(c) => [answer |-> result[c], params |-> params[c], expired |-> FALSE]
                            \in Record
    BY DEF WriteRecord, CallTypes, Record
  <2>2. KeyOf[c] \in Keys
    BY KeyFacts
  <2>. QED
    BY <1>4, <2>1, <2>2 DEF DropExpired, WriteRecord, rows, history, StoreTypes
<1>5. ASSUME NEW c \in Callers, Begin(c) \/ BackendRegisters(c) \/ BackendUnbinds(c)
                                \/ BackendFails(c) \/ Apply(c)
      PROVE  StoreTypes'
  <2>1. WorkspaceOf[c] \in Workspaces
    BY KeyFacts
  <2>. QED
    BY <1>0, <1>5, <2>1 DEF Begin, BackendRegisters, BackendUnbinds, BackendFails, Apply, store,
                      rows, history, StoreTypes
<1>6. CASE Crash
  <2>1. torn' \subseteq Workspaces
    <3>1. \A d \in Callers : WorkspaceOf[d] \in Workspaces
      BY KeyFacts
    <3>2. \A d \in Unbinders : WorkspaceOf[d] \in Workspaces
      BY <3>1 DEF Callers
    <3>. QED
      BY <1>6, <3>2 DEF Crash, StoreTypes
  <2>2. queue' \in Seq(Callers) /\ crashes' \in 0..MaxCrashes
    BY <1>0, <1>6 DEF Crash, StoreTypes
  <2>. QED
    BY <1>6, <2>1, <2>2 DEF Crash, rows, StoreTypes
<1>7. ASSUME NEW k \in Keys, Expire(k)
      PROVE  StoreTypes'
  <2>1. records[k] \in Record
    BY <1>7 DEF Expire, StoreTypes
  <2>2. [answer |-> records[k].answer, params |-> records[k].params, expired |-> TRUE]
         \in Record
    BY <2>1 DEF Record
  <2>3. records' \in [Keys -> Record \union {None}]
    BY <1>7, <2>2 DEF Expire, StoreTypes
  <2>. QED
    BY <1>0, <1>7, <2>3 DEF Expire, rows, StoreTypes
<1>. QED
  BY <1>1, <1>2, <1>3, <1>4, <1>5, <1>6, <1>7 DEF Next, RuntimeStep

-----------------------------------------------------------------------------
(* One call at a time.                                                     *)

\* A step of the running call keeps it alone.
LEMMA MoveKeepsAlone ==
  ASSUME pc \in [Callers -> Steps], Alone, NEW c \in Callers, Running(c), NEW s, Go(c, s)
  PROVE  /\ Alone'
         /\ \A d \in Callers : d # c => ~Running(d)'
<1>1. \A d \in Callers : d # c => ~Running(d) /\ pc'[d] = pc[d]
  BY DEF Alone, Go
<1>2. \A d \in Callers : d # c => ~Running(d)'
  BY <1>1 DEF Running, Executing
<1>. QED
  BY <1>2 DEF Alone

\* Calls stay serial: the queue gives a turn only when no call has one, and only
\* the call with the turn touches its record.
LEMMA StepSerial == TypeOK /\ Serial /\ [Next]_vars => Serial'
<1>. SUFFICES ASSUME TypeOK, Serial, [Next]_vars PROVE Serial'
  OBVIOUS
<1>0. /\ pc \in [Callers -> Steps] /\ result \in [Callers -> Answers \union {None}]
      /\ records \in [Keys -> Record \union {None}]
      /\ \A d \in Callers : KeyOf[d] \in Keys
  BY KeyFacts DEF TypeOK
<1>1. CASE UNCHANGED vars
  BY <1>1 DEF vars, call, store, Serial, Alone, Unrecorded, AnswerRecorded, Running, Executing
<1>2. ASSUME NEW c \in Callers, List(c) \/ Send(c) \/ TimeOut(c)
      PROVE  Serial'
  <2>1. /\ \A d \in Callers : \/ pc'[d] = pc[d]
                              \/ pc'[d] \in {"done", "listed", "queued"}
        /\ UNCHANGED <<records, result>>
    BY <1>0, <1>2 DEF List, Send, TimeOut, Go, store
  <2>. QED
    BY <2>1 DEF Serial, Alone, Unrecorded, AnswerRecorded, Running, Executing
<1>3. ASSUME NEW c \in Callers, Dequeue(c)
      PROVE  Serial'
  <2>1. \A d \in Callers : ~Running(d)
    BY <1>3 DEF Dequeue
  <2>2. \A d \in Callers : d # c => pc'[d] = pc[d]
    BY <1>0, <1>3 DEF Dequeue, Go
  <2>3. pc'[c] \in {"read", "done"}
    BY <1>0, <1>3 DEF Dequeue, Go
  <2>. QED
    BY <2>1, <2>2, <2>3 DEF Serial, Alone, Unrecorded, AnswerRecorded, Running, Executing
<1>4. ASSUME NEW c \in Callers, Read(c)
      PROVE  Serial'
  <2>1. Running(c)
    BY <1>4 DEF Read, Running
  <2>2. PICK s : Go(c, s)
    BY <1>4 DEF Read
  <2>3. Alone' /\ \A d \in Callers : d # c => ~Running(d)'
    BY <1>0, <2>1, <2>2, MoveKeepsAlone DEF Serial
  <2>4. Executing(c)' => records[KeyOf[c]] = None
    BY <1>0, <1>4 DEF Read, Go, Executing
  <2>5. pc'[c] = "answer" =>
          records[KeyOf[c]] # None /\ records[KeyOf[c]].answer = result'[c]
    BY <1>0, <1>4 DEF Read, Go
  <2>6. records' = records
    BY <1>4 DEF Read, store
  <2>. QED
    BY <2>3, <2>4, <2>5, <2>6 DEF Serial, Unrecorded, AnswerRecorded, Running, Executing
<1>5. ASSUME NEW c \in Callers, DropExpired(c) \/ WriteRecord(c)
      PROVE  Serial'
  <2>1. Running(c)
    BY <1>5 DEF DropExpired, WriteRecord, Running, Executing
  <2>2. PICK s : Go(c, s)
    BY <1>5 DEF DropExpired, WriteRecord
  <2>3. Alone' /\ \A d \in Callers : d # c => ~Running(d)'
    BY <1>0, <2>1, <2>2, MoveKeepsAlone DEF Serial
  <2>4. Executing(c)' => records'[KeyOf[c]] = None
    BY <1>0, <1>5 DEF DropExpired, WriteRecord, Go, Executing
  <2>5. pc'[c] = "answer" =>
          records'[KeyOf[c]] # None /\ records'[KeyOf[c]].answer = result'[c]
    <3>1. CASE DropExpired(c)
      BY <1>0, <3>1 DEF DropExpired, Go
    <3>2. CASE WriteRecord(c)
      <4>. DEFINE r == [answer |-> result[c], params |-> params[c], expired |-> FALSE]
      <4>1. r \in Record
        BY <3>2 DEF WriteRecord, TypeOK, Record
      <4>2. r # None
        BY <4>1, RpcAssumption DEF RpcAssumption
      <4>. QED
        BY <1>0, <3>2, <4>2 DEF WriteRecord
    <3>. QED
      BY <1>5, <3>1, <3>2
  <2>. QED
    BY <2>3, <2>4, <2>5 DEF Serial, Unrecorded, AnswerRecorded, Running, Executing
<1>6. ASSUME NEW c \in Callers, \/ Answer(c) \/ Begin(c) \/ BackendRegisters(c)
                                \/ BackendUnbinds(c) \/ BackendFails(c) \/ Apply(c)
      PROVE  Serial'
  <2>1. Running(c)
    BY <1>6 DEF Answer, Begin, BackendRegisters, BackendUnbinds, BackendFails, Apply, Running,
                Executing
  <2>2. PICK s : Go(c, s) /\ s # "answer"
    BY <1>6 DEF Answer, Begin, BackendRegisters, BackendUnbinds, BackendFails, Apply, EndsWith
  <2>3. Alone' /\ \A d \in Callers : d # c => ~Running(d)'
    BY <1>0, <2>1, <2>2, MoveKeepsAlone DEF Serial
  <2>4. Executing(c)' => Executing(c)
    BY <1>0, <1>6 DEF Answer, Begin, BackendRegisters, BackendUnbinds, BackendFails, Apply,
                      Go, EndsWith, Executing
  <2>5. records' = records
    BY <1>6 DEF Answer, Begin, BackendRegisters, BackendUnbinds, BackendFails, Apply, store
  <2>. QED
    BY <1>0, <2>2, <2>3, <2>4, <2>5
    DEF Serial, Unrecorded, AnswerRecorded, Running, Executing, Go
<1>7. CASE Crash
  <2>1. /\ \A d \in Callers : pc'[d] = pc[d] \/ pc'[d] = "done"
        /\ UNCHANGED <<records, result>>
    BY <1>0, <1>7 DEF Crash
  <2>. QED
    BY <2>1 DEF Serial, Alone, Unrecorded, AnswerRecorded, Running, Executing
<1>8. ASSUME NEW k \in Keys, Expire(k)
      PROVE  Serial'
  <2>. DEFINE r == [answer |-> records[k].answer, params |-> records[k].params,
                    expired |-> TRUE]
  <2>1. UNCHANGED <<pc, result>> /\ records' = [records EXCEPT ![k] = r]
    BY <1>8 DEF Expire, call
  <2>2. records[k] # None
    BY <1>8 DEF Expire
  <2>3. r # None
    <3>1. r \in Record
      BY <1>0, <2>2 DEF Record
    <3>. QED
      BY <3>1, RpcAssumption DEF RpcAssumption
  <2>4. \A j \in Keys : \/ records'[j] = records[j]
                        \/ /\ records[j] # None /\ records'[j] # None
                           /\ records'[j].answer = records[j].answer
    BY <1>0, <2>1, <2>2, <2>3
  <2>. QED
    BY <1>0, <2>1, <2>4 DEF Serial, Alone, Unrecorded, AnswerRecorded, Running, Executing
<1>. QED
  BY <1>1, <1>2, <1>3, <1>4, <1>5, <1>6, <1>7, <1>8 DEF Next, RuntimeStep

-----------------------------------------------------------------------------
(* Registrations.                                                          *)

\* A project that is or has been there stays so.
LEMMA KnownGrows == [Next]_vars => \A w \in Workspaces : Known(w) => Known(w)'
<1>. SUFFICES ASSUME [Next]_vars, NEW w \in Workspaces, Known(w) PROVE Known(w)'
  OBVIOUS
<1>1. CASE UNCHANGED <<projects, removed>>
  BY <1>1 DEF Known
<1>2. ASSUME NEW c \in Callers, Apply(c) PROVE Known(w)'
  BY <1>2 DEF Apply, Known
<1>3. CASE UNCHANGED vars
  BY <1>1, <1>3 DEF vars, rows, history
<1>4. ASSUME NEW c \in Callers, List(c) \/ Send(c) \/ TimeOut(c) PROVE Known(w)'
  BY <1>1, <1>4 DEF List, Send, TimeOut, rows, history
<1>5. ASSUME NEW c \in Callers, RuntimeStep(c) PROVE Known(w)'
  BY <1>1, <1>2, <1>5 DEF RuntimeStep, Dequeue, Read, DropExpired, WriteRecord, Answer, Begin,
     BackendRegisters, BackendUnbinds, BackendFails, rows, history
<1>6. CASE Crash \/ \E k \in Keys : Expire(k)
  BY <1>1, <1>6 DEF Crash, Expire, rows
<1>. QED
  BY <1>3, <1>4, <1>5, <1>6 DEF Next

\* Success stays backed: it is recorded and told after the project is written, and a
\* project that goes is in removed.
LEMMA StepRegistered == TypeOK /\ Registered /\ [Next]_vars => Registered'
<1>. SUFFICES ASSUME TypeOK, Registered, [Next]_vars PROVE Registered'
  OBVIOUS
<1>0. /\ pc \in [Callers -> Steps] /\ result \in [Callers -> Answers \union {None}]
      /\ outcome \in [Callers -> Answers \union NoTask \union {"found", "nothing", None}]
      /\ records \in [Keys -> Record \union {None}]
      /\ Workspaces \subseteq Keys /\ Startups \subseteq Callers
      /\ Startups \subseteq Registering
      /\ \A w \in Workspaces : Known(w) => Known(w)'
      /\ \A c \in Callers : WorkspaceOf[c] \in Workspaces
      /\ None # "ok" /\ None # "found"
  BY KnownGrows, KeyFacts, RpcAssumption
  DEF TypeOK, Keys, Callers, Registering, RpcAssumption, Answers
<1>1. CASE UNCHANGED vars
  BY <1>0, <1>1 DEF vars, call, store, Registered, RecordKnown, ResultKnown, OutcomeKnown
<1>2. ASSUME NEW c \in Callers, List(c)
      PROVE  Registered'
  <2>1. outcome'[c] = "found" => outcome[c] = "found" \/ WorkspaceOf[c] \in projects
    BY <1>0, <1>2 DEF List, Tell
  <2>2. outcome'[c] = "ok" => outcome[c] = "ok"
    BY <1>0, <1>2 DEF List, Tell
  <2>3. \A d \in Callers : /\ d # c => outcome'[d] = outcome[d]
                           /\ pc'[d] = pc[d] \/ pc'[d] \in {"done", "listed"}
    BY <1>0, <1>2 DEF List, Tell, Go
  <2>4. UNCHANGED <<records, result, projects, removed>>
    BY <1>2 DEF List, store, rows, history
  <2>. QED
    BY <1>0, <2>1, <2>2, <2>3, <2>4
    DEF Registered, RecordKnown, ResultKnown, OutcomeKnown, Known
<1>3. ASSUME NEW c \in Callers, Send(c) \/ TimeOut(c) \/ Dequeue(c)
      PROVE  Registered'
  <2>1. \A d \in Callers :
          /\ outcome'[d] \in {"ok", "found"} => outcome'[d] = outcome[d]
          /\ pc'[d] = pc[d] \/ pc'[d] \in {"queued", "read", "done"}
    BY <1>0, <1>3 DEF Send, TimeOut, Dequeue, Tell, Go
  <2>2. UNCHANGED <<records, result>>
    BY <1>3 DEF Send, TimeOut, Dequeue, store
  <2>. QED
    BY <1>0, <2>1, <2>2 DEF Registered, RecordKnown, ResultKnown, OutcomeKnown
<1>4. ASSUME NEW c \in Callers, Read(c)
      PROVE  Registered'
  <2>1. \A d \in Callers :
          /\ outcome'[d] \in {"ok", "found"} => outcome'[d] = outcome[d]
          /\ d # c => pc'[d] = pc[d] /\ result'[d] = result[d]
    BY <1>0, <1>4 DEF Read, Tell, Go
  <2>2. c \in Startups /\ pc'[c] \in {"record", "answer"} =>
          records[WorkspaceOf[c]] # None /\ result'[c] = records[WorkspaceOf[c]].answer
    BY <1>0, <1>4, KeyFacts DEF Read, Go
  <2>3. records' = records
    BY <1>4 DEF Read, store
  <2>. QED
    BY <1>0, <2>1, <2>2, <2>3 DEF Registered, RecordKnown, ResultKnown, OutcomeKnown
<1>5. ASSUME NEW c \in Callers, DropExpired(c) \/ WriteRecord(c)
      PROVE  Registered'
  <2>1. /\ \A d \in Callers : d # c => pc'[d] = pc[d]
        /\ pc'[c] = "task" \/ (pc[c] = "record" /\ pc'[c] = "answer")
        /\ UNCHANGED <<outcome, result>>
    BY <1>0, <1>5 DEF DropExpired, WriteRecord, Go
  <2>2. ASSUME NEW w \in Workspaces, records'[w] # None, records'[w].answer = "ok"
        PROVE  Known(w)
    <3>1. CASE records'[w] = records[w]
      BY <2>2, <3>1 DEF Registered, RecordKnown
    <3>2. CASE WriteRecord(c) /\ w = KeyOf[c]
      <4>1. c \in Startups /\ w = WorkspaceOf[c]
        BY <3>2, KeyFacts
      <4>2. pc[c] = "record" /\ result[c] = "ok"
        BY <1>0, <2>2, <3>2 DEF WriteRecord
      <4>. QED
        BY <4>1, <4>2 DEF Registered, ResultKnown
    <3>. QED
      BY <1>0, <1>5, <2>2, <3>1, <3>2 DEF DropExpired, WriteRecord
  <2>. QED
    BY <1>0, <2>1, <2>2 DEF Registered, RecordKnown, ResultKnown, OutcomeKnown
<1>6. ASSUME NEW c \in Callers, Answer(c)
      PROVE  Registered'
  <2>1. \A d \in Callers :
          /\ d # c => pc'[d] = pc[d] /\ outcome'[d] = outcome[d]
          /\ pc'[c] = "done" /\ pc[c] = "answer"
          /\ outcome'[c] = outcome[c] \/ outcome'[c] = result[c]
    BY <1>0, <1>6 DEF Answer, Go, Tell
  <2>2. UNCHANGED <<records, result>> /\ result[c] # "found"
    BY <1>0, <1>6, RpcAssumption DEF Answer, store, Answers, RpcAssumption
  <2>. QED
    BY <1>0, <2>1, <2>2 DEF Registered, RecordKnown, ResultKnown, OutcomeKnown
<1>7. ASSUME NEW c \in Callers, Begin(c) \/ BackendRegisters(c) \/ BackendUnbinds(c)
                                \/ BackendFails(c)
      PROVE  Registered'
  <2>1. /\ \A d \in Callers : d # c => pc'[d] = pc[d] /\ result'[d] = result[d]
        /\ pc'[c] \in {"record", "answer"} => result'[c] # "ok"
    BY <1>0, <1>7 DEF Begin, BackendRegisters, BackendUnbinds, BackendFails, Go, EndsWith
  <2>2. UNCHANGED <<records, outcome>>
    BY <1>7 DEF Begin, BackendRegisters, BackendUnbinds, BackendFails, store
  <2>. QED
    BY <1>0, <2>1, <2>2 DEF Registered, RecordKnown, ResultKnown, OutcomeKnown
<1>8. ASSUME NEW c \in Callers, Apply(c)
      PROVE  Registered'
  <2>1. \A d \in Callers : d # c => pc'[d] = pc[d] /\ result'[d] = result[d]
    BY <1>0, <1>8 DEF Apply, Go, EndsWith
  <2>2. c \in Startups => Known(WorkspaceOf[c])'
    BY <1>0, <1>8 DEF Apply, Known
  <2>3. UNCHANGED <<records, outcome>>
    BY <1>8 DEF Apply, store
  <2>. QED
    BY <1>0, <2>1, <2>2, <2>3 DEF Registered, RecordKnown, ResultKnown, OutcomeKnown
<1>9. CASE Crash
  <2>1. \A d \in Callers :
          /\ outcome'[d] \in {"ok", "found"} => outcome'[d] = outcome[d]
          /\ pc'[d] = pc[d] \/ pc'[d] = "done"
    BY <1>0, <1>9 DEF Crash
  <2>2. UNCHANGED <<records, result>>
    BY <1>9 DEF Crash
  <2>. QED
    BY <1>0, <2>1, <2>2 DEF Registered, RecordKnown, ResultKnown, OutcomeKnown
<1>10. ASSUME NEW k \in Keys, Expire(k)
       PROVE  Registered'
  <2>1. UNCHANGED <<pc, result, outcome>>
    BY <1>10 DEF Expire, call
  <2>2. \A j \in Keys : records'[j] # None => records[j] # None
                                           /\ records'[j].answer = records[j].answer
    BY <1>0, <1>10 DEF Expire
  <2>. QED
    BY <1>0, <2>1, <2>2 DEF Registered, RecordKnown, ResultKnown, OutcomeKnown
<1>. QED
  BY <1>1, <1>2, <1>3, <1>4, <1>5, <1>6, <1>7, <1>8, <1>9, <1>10 DEF Next, RuntimeStep

-----------------------------------------------------------------------------
(* Bindings.                                                               *)

\* Bindings stay: nobody unbinds a workspace between the two halves of its
\* registration, because that call would need the turn.
LEMMA StepBound == TypeOK /\ Serial /\ Bound /\ [Next]_vars => Bound'
<1>. SUFFICES ASSUME TypeOK, Serial, Bound, [Next]_vars PROVE Bound'
  OBVIOUS
<1>0. /\ pc \in [Callers -> Steps]
      /\ Registering \subseteq Callers /\ Unbinders \subseteq Callers
      /\ Registering \intersect Unbinders = {} /\ Registering \intersect Cleaners = {}
      /\ Unbinders \intersect Cleaners = {}
      /\ Callers = Registering \union Unbinders \union Cleaners
  BY RpcAssumption DEF TypeOK, RpcAssumption, Callers, Registering
<1>1. ASSUME UNCHANGED rows, UNCHANGED torn,
             \A d \in Callers : pc'[d] = "apply" <=> pc[d] = "apply"
      PROVE  Bound'
  BY <1>0, <1>1 DEF rows, Bound, BoundAtApply, LocalIsBound
<1>2. CASE UNCHANGED vars
  BY <1>1, <1>2 DEF vars, call, rows, history
<1>3. ASSUME NEW c \in Callers,
             \/ List(c) \/ Send(c) \/ TimeOut(c) \/ Dequeue(c) \/ Read(c) \/ DropExpired(c)
             \/ WriteRecord(c) \/ Answer(c)
      PROVE  Bound'
  <2>1. UNCHANGED rows /\ UNCHANGED torn
    BY <1>3 DEF List, Send, TimeOut, Dequeue, Read, DropExpired, WriteRecord, Answer, history
  <2>2. \A d \in Callers : pc'[d] = "apply" <=> pc[d] = "apply"
    <3>1. CASE pc' = pc
      BY <3>1
    <3>2. CASE pc[c] # "apply" /\ \E s \in Steps \ {"apply"} : Go(c, s)
      BY <1>0, <3>2 DEF Go
    <3>3. CASE List(c) \/ Send(c) \/ TimeOut(c)
      BY <3>1, <3>2, <3>3 DEF List, Send, TimeOut, Steps
    <3>4. CASE Dequeue(c)
      <4>1. ~Running(c)
        BY <3>4 DEF Dequeue
      <4>. QED
        BY <3>2, <3>4, <4>1 DEF Dequeue, Running, Executing, Steps
    <3>5. CASE Read(c) \/ DropExpired(c) \/ WriteRecord(c) \/ Answer(c)
      BY <3>2, <3>5 DEF Read, DropExpired, WriteRecord, Answer, Steps
    <3>. QED
      BY <1>3, <3>3, <3>4, <3>5
  <2>. QED
    BY <1>1, <2>1, <2>2
<1>4. ASSUME NEW c \in Callers, Begin(c)
      PROVE  Bound'
  <2>1. UNCHANGED <<projects, remote, torn>>
    BY <1>4 DEF Begin, rows
  <2>2. \A d \in Callers \ Cleaners : pc'[d] = "apply" <=> pc[d] = "apply"
    BY <1>0, <1>4 DEF Begin, Go, EndsWith
  <2>. QED
    BY <1>0, <2>1, <2>2 DEF Bound, BoundAtApply, LocalIsBound
<1>5. ASSUME NEW c \in Callers, BackendRegisters(c)
      PROVE  Bound'
  <2>1. c \in Registering /\ remote' = remote \union {WorkspaceOf[c]}
        /\ UNCHANGED <<projects, torn>>
    BY <1>5 DEF BackendRegisters, history
  <2>2. \A d \in Callers : d # c => pc'[d] = pc[d]
    BY <1>0, <1>5 DEF BackendRegisters, Go
  <2>. QED
    BY <1>0, <2>1, <2>2 DEF Bound, BoundAtApply, LocalIsBound
<1>6. ASSUME NEW c \in Callers, BackendUnbinds(c) \/ BackendFails(c)
      PROVE  Bound'
  <2>1. \A d \in Callers : d # c => pc[d] # "apply" /\ pc'[d] = pc[d]
    <3>1. Running(c)
      BY <1>6 DEF BackendUnbinds, BackendFails, Running, Executing
    <3>2. \A d \in Callers : pc[d] = "apply" => d = c
      BY <3>1 DEF Serial, Alone, Running, Executing
    <3>. QED
      BY <1>0, <1>6, <3>2 DEF BackendUnbinds, BackendFails, Go, EndsWith
  <2>2. pc[c] = "backend" /\ projects' = projects
    BY <1>6 DEF BackendUnbinds, BackendFails
  <2>3. \/ c \in Unbinders /\ pc'[c] = "apply"
        \/ pc'[c] # "apply"
    BY <1>0, <1>6 DEF BackendUnbinds, BackendFails, Go, EndsWith
  <2>4. /\ remote \ {WorkspaceOf[c]} \subseteq remote'
        /\ torn \subseteq torn'
        /\ \/ WorkspaceOf[c] \in remote => WorkspaceOf[c] \in remote' \union torn'
           \/ c \in Unbinders /\ pc'[c] = "apply"
    BY <1>0, <1>6 DEF BackendUnbinds, BackendFails, Go, EndsWith, history
  <2>5. BoundAtApply'
    BY <1>0, <2>1, <2>3 DEF BoundAtApply
  <2>6. LocalIsBound'
    BY <1>0, <2>1, <2>2, <2>4 DEF Bound, LocalIsBound
  <2>. QED
    BY <2>5, <2>6 DEF Bound
<1>7. ASSUME NEW c \in Callers, Apply(c)
      PROVE  Bound'
  <2>1. UNCHANGED <<remote, torn>>
    BY <1>7 DEF Apply
  <2>2. \A d \in Callers : d # c => pc'[d] = pc[d]
    BY <1>0, <1>7 DEF Apply, EndsWith, Go
  <2>3. pc[c] = "apply" /\ pc'[c] # "apply"
    BY <1>0, <1>7 DEF Apply, EndsWith, Go
  <2>4. c \in Registering =>
          projects' = projects \union {WorkspaceOf[c]} /\ WorkspaceOf[c] \in remote
    BY <1>7, <2>3 DEF Apply, Bound, BoundAtApply
  <2>5. c \notin Registering => projects' = projects \ {WorkspaceOf[c]}
    BY <1>7 DEF Apply
  <2>. QED
    BY <1>0, <2>1, <2>2, <2>3, <2>4, <2>5 DEF Bound, BoundAtApply, LocalIsBound
<1>8. CASE Crash
  <2>1. /\ UNCHANGED <<projects, remote>> /\ torn \subseteq torn'
        /\ \A d \in Callers : pc'[d] = "apply" => pc[d] = "apply"
    BY <1>0, <1>8 DEF Crash, rows
  <2>2. \A d \in Unbinders : pc[d] = "apply" => WorkspaceOf[d] \in torn'
    BY <1>0, <1>8 DEF Crash, Running, Executing
  <2>. QED
    BY <1>0, <2>1, <2>2 DEF Bound, BoundAtApply, LocalIsBound
<1>9. CASE \E k \in Keys : Expire(k)
  BY <1>1, <1>9 DEF Expire, call, rows
<1>. QED
  BY <1>2, <1>3, <1>4, <1>5, <1>6, <1>7, <1>8, <1>9 DEF Next, RuntimeStep

-----------------------------------------------------------------------------
(* The theorems.                                                           *)

\* The inductive invariant holds in every reachable state.
THEOREM Invariance == Spec => []IInv
<1>1. IInv /\ [Next]_vars => IInv'
  BY StepCallTypes, StepStoreTypes, SplitTypes, StepSerial, StepRegistered, StepBound
  DEF IInv, CallTypes, StoreTypes, TypeOK
<1>. QED
  BY <1>1, InitIInv, PTL DEF Spec

\* Every variable keeps its type: what is recorded or answered is an answer.
THEOREM TypeCorrect == Spec => []TypeOK
<1>1. IInv => TypeOK
  BY DEF IInv
<1>. QED
  BY <1>1, Invariance, PTL

\* However many callers share a key, a task runs alone and only while its key has
\* no record.
THEOREM ExecutesOnce == Spec => []OneExecution
<1>1. IInv => OneExecution
  <2>1. \A c \in Callers : Executing(c) => Running(c)
    BY DEF Running
  <2>. QED
    BY <2>1 DEF IInv, Serial, Alone, Unrecorded, OneExecution
<1>. QED
  BY <1>1, Invariance, PTL

\* A startup that is told "registered" finds a project that is there or was
\* removed since.
THEOREM ReadyMeansRegistered == Spec => []ReadyIsRegistered
<1>1. IInv => ReadyIsRegistered
  BY DEF IInv, Registered, OutcomeKnown, Known, ReadyIsRegistered
<1>. QED
  BY <1>1, Invariance, PTL

\* A local project is bound at the backend unless an unbind is between its two
\* halves or was torn apart there.
THEOREM LocalMeansBound == Spec => []LocalIsBound
<1>1. IInv => LocalIsBound
  BY DEF IInv, Bound
<1>. QED
  BY <1>1, Invariance, PTL

-----------------------------------------------------------------------------
(* The module implements AnswerOnce.                                       *)

Decided == [k \in Keys |-> IF records[k] = None THEN None ELSE records[k].answer]
Given ==
  [c \in Callers |-> IF outcome[c] \in Answers \union {None} THEN outcome[c] ELSE "no answer"]

\* A step that leaves the records' answers alone and tells some callers something
\* that is no answer is a refusal, or nothing at all.
LEMMA Refusal ==
  ASSUME TypeOK, Decided' = Decided,
         NEW C \in SUBSET Callers,
         \A c \in C : outcome[c] = None /\ outcome'[c] \notin Answers \union {None},
         \A c \in Callers \ C : outcome'[c] = outcome[c]
  PROVE  [Promise!Next]_<<Decided, Given>>
<1>1. \A c \in C : Given[c] = None
  BY DEF Given
<1>2. Given' = [c \in Callers |-> IF c \in C THEN "no answer" ELSE Given[c]]
  BY DEF Given
<1>3. Promise!Refuse(C)
  BY <1>1, <1>2 DEF Promise!Refuse, Given, Decided
<1>. QED
  BY <1>3 DEF Promise!Next

\* Every step decides a key, forgets one, gives a caller the answer of its key, ends
\* a caller without one, or changes nothing AnswerOnce sees.
LEMMA StepPromise == IInv /\ [Next]_vars => [Promise!Next]_<<Decided, Given>>
<1>. SUFFICES ASSUME IInv, [Next]_vars PROVE [Promise!Next]_<<Decided, Given>>
  OBVIOUS
<1>0. /\ TypeOK /\ None \notin Answers
      /\ outcome \in [Callers -> Answers \union NoTask \union {"found", "nothing", None}]
      /\ records \in [Keys -> Record \union {None}]
      /\ \A a \in NoTask \union {"found", "nothing"} : a \notin Answers \union {None}
      /\ \A d \in Callers : KeyOf[d] \in Keys
  BY RpcAssumption, KeyFacts DEF IInv, TypeOK, RpcAssumption, Answers, NoTask
<1>1. CASE UNCHANGED records /\ UNCHANGED outcome
  BY <1>1 DEF Decided, Given
<1>2. ASSUME NEW c \in Callers, UNCHANGED records, NEW a \in NoTask \union {"found", "nothing"},
             Tell(c, a)
      PROVE  [Promise!Next]_<<Decided, Given>>
  <2>1. Decided' = Decided
    BY <1>2 DEF Decided
  <2>2. CASE outcome[c] # None
    BY <1>0, <1>1, <1>2, <2>2 DEF Tell
  <2>3. CASE outcome[c] = None
    <3>1. outcome'[c] = a /\ \A d \in Callers \ {c} : outcome'[d] = outcome[d]
      BY <1>0, <1>2, <2>3 DEF Tell
    <3>2. \A d \in {c} : outcome[d] = None /\ outcome'[d] \notin Answers \union {None}
      BY <1>0, <2>3, <3>1
    <3>3. {c} \in SUBSET Callers
      OBVIOUS
    <3>. QED
      BY <1>0, <2>1, <3>1, <3>2, <3>3, Refusal
  <2>. QED
    BY <2>2, <2>3
<1>3. CASE UNCHANGED vars
  BY <1>1, <1>3 DEF vars, call, store
<1>4. ASSUME NEW c \in Callers, List(c) \/ Send(c) \/ TimeOut(c) \/ Dequeue(c) \/ Read(c)
      PROVE  [Promise!Next]_<<Decided, Given>>
  <2>1. UNCHANGED records
    BY <1>4 DEF List, Send, TimeOut, Dequeue, Read, store
  <2>2. UNCHANGED outcome \/ \E a \in NoTask \union {"found", "nothing"} : Tell(c, a)
    BY <1>4 DEF List, Send, TimeOut, Dequeue, Read, NoTask
  <2>. QED
    BY <1>1, <1>2, <2>1, <2>2
<1>5. ASSUME NEW c \in Callers, DropExpired(c)
      PROVE  [Promise!Next]_<<Decided, Given>>
  <2>1. Decided' = [Decided EXCEPT ![KeyOf[c]] = None]
    BY <1>0, <1>5 DEF DropExpired, Decided
  <2>2. Given' = Given
    BY <1>5 DEF DropExpired, Given
  <2>3. Promise!Forget(KeyOf[c])
    BY <2>1, <2>2 DEF Promise!Forget, Decided, Given
  <2>. QED
    BY <1>0, <2>3 DEF Promise!Next
<1>6. ASSUME NEW c \in Callers, WriteRecord(c)
      PROVE  [Promise!Next]_<<Decided, Given>>
  <2>. DEFINE r == [answer |-> result[c], params |-> params[c], expired |-> FALSE]
  <2>1. r \in Record /\ result[c] \in Answers
    BY <1>0, <1>6 DEF WriteRecord, TypeOK, Record
  <2>2. r # None
    BY <2>1, RpcAssumption DEF RpcAssumption
  <2>3. Decided[KeyOf[c]] = None
    BY <1>0, <1>6 DEF WriteRecord, Decided, IInv, Serial, Unrecorded, Executing
  <2>4. Decided' = [Decided EXCEPT ![KeyOf[c]] = result[c]]
    BY <1>0, <1>6, <2>2 DEF WriteRecord, Decided
  <2>5. Given' = Given
    BY <1>6 DEF WriteRecord, Given
  <2>6. PICK a \in Answers : a = result[c]
    BY <2>1
  <2>7. Promise!Decide(KeyOf[c], a)
    BY <2>3, <2>4, <2>5, <2>6 DEF Promise!Decide, Decided, Given
  <2>. QED
    BY <1>0, <2>7 DEF Promise!Next
<1>7. ASSUME NEW c \in Callers, Answer(c)
      PROVE  [Promise!Next]_<<Decided, Given>>
  <2>1. UNCHANGED records /\ Tell(c, result[c])
    BY <1>7 DEF Answer, store
  <2>2. CASE outcome[c] # None
    BY <1>0, <1>1, <2>1, <2>2 DEF Tell
  <2>3. CASE outcome[c] = None
    <3>1. records[KeyOf[c]] # None /\ records[KeyOf[c]].answer = result[c]
      BY <1>7 DEF Answer, IInv, Serial, AnswerRecorded
    <3>2. result[c] \in Answers /\ Decided[KeyOf[c]] = result[c]
      BY <1>0, <3>1 DEF Decided, Record
    <3>3. Given[c] = None /\ Given' = [Given EXCEPT ![c] = result[c]]
      BY <1>0, <2>1, <2>3, <3>2 DEF Given, Tell
    <3>4. Decided' = Decided
      BY <2>1 DEF Decided
    <3>5. Promise!Give(c)
      BY <1>0, <3>2, <3>3, <3>4 DEF Promise!Give, Decided, Given
    <3>. QED
      BY <3>5 DEF Promise!Next
  <2>. QED
    BY <2>2, <2>3
<1>8. ASSUME NEW c \in Callers, Begin(c) \/ BackendRegisters(c) \/ BackendUnbinds(c)
                                \/ BackendFails(c) \/ Apply(c)
      PROVE  [Promise!Next]_<<Decided, Given>>
  <2>1. UNCHANGED records /\ UNCHANGED outcome
    BY <1>8 DEF Begin, BackendRegisters, BackendUnbinds, BackendFails, Apply, store
  <2>. QED
    BY <1>1, <2>1
<1>9. CASE Crash
  <2>. DEFINE C == {c \in Callers : (pc[c] = "queued" \/ Running(c)) /\ outcome[c] = None}
  <2>1. /\ \A c \in C : outcome[c] = None /\ outcome'[c] = "broken"
        /\ \A c \in Callers \ C : outcome'[c] = outcome[c]
    BY <1>9 DEF Crash
  <2>2. Decided' = Decided
    BY <1>9 DEF Crash, Decided
  <2>3. "broken" \notin Answers \union {None}
    BY <1>0 DEF NoTask
  <2>. QED
    BY <1>0, <2>1, <2>2, <2>3, Refusal
<1>10. ASSUME NEW k \in Keys, Expire(k)
       PROVE  [Promise!Next]_<<Decided, Given>>
  <2>. DEFINE r == [answer |-> records[k].answer, params |-> records[k].params,
                    expired |-> TRUE]
  <2>1. records[k] # None /\ records' = [records EXCEPT ![k] = r] /\ outcome' = outcome
    BY <1>10 DEF Expire, call
  <2>2. r \in Record
    BY <1>0, <2>1 DEF Record
  <2>3. r # None
    BY <2>2, RpcAssumption DEF RpcAssumption
  <2>4. Decided' = Decided
    BY <1>0, <2>1, <2>3 DEF Decided
  <2>. QED
    BY <2>1, <2>4 DEF Given
<1>. QED
  BY <1>3, <1>4, <1>5, <1>6, <1>7, <1>8, <1>9, <1>10 DEF Next, RuntimeStep

\* The records keep AnswerOnce's promise: a key is decided once until it is
\* forgotten, and a caller is told what was decided or nothing of the task.
THEOREM ImplementsAnswerOnce == Spec => AnswersOnce
<1>1. Init => Promise!Init
  BY DEF Init, Promise!Init
<1>2. IInv /\ [Next]_vars => [Promise!Next]_<<Decided, Given>>
  BY StepPromise
<1>. QED
  BY <1>1, <1>2, Invariance, PTL DEF Spec, AnswersOnce, Promise!Spec, Decided, Given
=============================================================================
