-------------------------- MODULE CredentialsProofs --------------------------
(***************************************************************************)
(* Proofs about Credentials, for any number of requests, refreshers,       *)
(* sign-ins and events: types, CredentialIsCurrent and ConfigNamesLogin.   *)
(*                                                                         *)
(* CredentialIsCurrent is not inductive: storing a record could put an old *)
(* token back.  It cannot, because whoever is about to store an answer has *)
(* the only copy of it (Sole) -- the backend takes each token and session  *)
(* once, so of two tasks that began with the same copy the second is       *)
(* refused; and a copy of the record that nobody has written over since it *)
(* was read still has what is stored (Abreast), while of any other copy    *)
(* the half it puts back is given up.  ConfigNamesLogin needs that  *)
(* all who may write the config agree on the last sign-in (Settled).       *)
(*                                                                         *)
(* Steps come in four kinds, each of which keeps the invariant for one     *)
(* reason: a task goes on (TurnStep), the backend gives out something      *)
(* (SpendStep), a record is written (StoreStep), tasks die (DeathKeeps);   *)
(* the rest moves no task (Bystander).                                     *)
(***************************************************************************)
EXTENDS Credentials, TLAPS

USE CredentialsAssumption, NoneAssumption

-----------------------------------------------------------------------------
(* The inductive invariant.                                                *)

\* A task's record r: what it carries at each phase.  A rotation has a
\* credential, a renewal another one; a request runs only in a runtime; a
\* refresher that is about to write the config names a sign-in.
Form(t, r) ==
  /\ r \in TaskState
  /\ r.pc = "idle" => r.cred = None /\ r.held = None
  /\ r.pc = "load" => r.cred = None
  /\ r.pc # "idle" => r.key \in 1..logins
  /\ r.pc \in {"rotate", "store", "readConfig", "writeConfig"} => r.cred # None
  /\ r.pc \in {"renew", "storeSession"} => r.held # None /\ r.cred = None
  /\ r.rotation = "nested" => r.held # None
  /\ t \in Requests /\ r.pc \in {"token", "forceToken", "rotate", "store", "config", "nested"}
       => r.rotation # "none"
  /\ t \in Requests /\ r.pc # "idle" => memory # 0
  /\ r.parsed <= logins
  /\ r.pc = "writeConfig" => r.parsed # 0

Forms == \A t \in Tasks : Form(t, task[t])

\* Everybody names sign-ins that were made; each of them is in the secure
\* storage until somebody signs out of it.
Names ==
  /\ logins # 0 /\ auth <= logins /\ memory <= logins /\ saved \in 1..logins
  /\ signIn = "browser" => logins < MaxLogins
  /\ signOut.pc # "idle" => signOut.key \in signedOut
  /\ \A k \in 1..logins : keychain[k] = None => k \in signedOut

\* Phases with an answer that is not stored yet.
Holds == {"store", "storeSession"}

\* Copy c has the newest token, or session.
Newest(c, part) == c # None /\ c[part] = "newest"

\* Nobody but t can have the newest one of t's sign-in: neither the secure
\* storage nor another task.
NoOther(t, part) ==
  /\ ~Newest(keychain[task[t].key], part)
  /\ \A u \in Tasks \ {t} : task[u].key = task[t].key =>
       ~Newest(task[u].cred, part) /\ ~Newest(task[u].held, part)

\* Who is about to store an answer has the only copy of it: that is why storing
\* can never put back an older one of the same kind.
Sole ==
  \A t \in Tasks :
    /\ task[t].pc = "store" =>
         Newest(task[t].cred, "token") /\ ~Newest(task[t].held, "token") /\ NoOther(t, "token")
    /\ task[t].pc = "storeSession" => Newest(task[t].held, "session") /\ NoOther(t, "session")

\* The newest part is stored, or the task that was given it is about to store it.
Phase(part) == IF part = "token" THEN "store" ELSE "storeSession"
Kept(k, part) ==
  \/ Newest(keychain[k], part)
  \/ \E u \in Tasks : task[u].key = k /\ task[u].pc = Phase(part)

Current ==
  \A k \in Logins \ signedOut, part \in {"token", "session"} :
    keychain[k] # None /\ ~GivenUp(k, part) => Kept(k, part)

\* A copy c of sign-in k's record has every newest half that the stored one has,
\* unless somebody has written that since the copy was read.
AsNewAs(stored, c) ==
  c # None /\ c.since = "nobody" =>
    \A part \in {"token", "session"} : Newest(stored, part) => Newest(c, part)
Even(k, c) == AsNewAs(keychain[k], c)

Abreast == \A t \in Tasks : Even(task[t].key, task[t].cred) /\ Even(task[t].key, task[t].held)

\* Without an overrun, all who may write the config agree on the last sign-in,
\* until somebody signs out of it.
Settled ==
  ~overrun /\ saved \notin signedOut =>
    /\ auth = saved /\ memory \in {0, saved} /\ signOut.pc = "idle"
    /\ \A m \in Writers : task[m].parsed = saved

IInv == TypeOK /\ Forms /\ Names /\ Sole /\ Current /\ Abreast /\ Settled

-----------------------------------------------------------------------------
(* A turn: a task goes on without the backend giving out anything and      *)
(* without writing the secure storage.                                     *)

\* r may be the next record of t: no copy in it is new.
Turns(t, r) ==
  /\ Form(t, r) /\ r.pc \notin Holds
  /\ r.cred \in {None, task[t].cred, keychain[r.key]}
  /\ r.held \in {None, task[t].cred, task[t].held, keychain[r.key]}
  /\ r.key # task[t].key => r.cred = None /\ r.held = None
  /\ r.pc = "writeConfig" => r.parsed = auth

Turn(t) ==
  /\ task[t].pc \notin Holds
  /\ \E r \in TaskState : task' = [task EXCEPT ![t] = r] /\ Turns(t, r)

\* A task that ends does so in a turn.
LEMMA Ends ==
  ASSUME TypeOK, Names, NEW t \in Tasks
  PROVE  Turns(t, Idle)
BY DEF TypeOK, Names, Turns, Form, Idle, TaskState, Phases, Holds, CredentialsAssumption, Logins

\* So does one that goes on to send its request.
LEMMA Sends ==
  ASSUME TypeOK, Names, NEW t \in Tasks, Form(t, task[t]), task[t].pc # "idle"
  PROVE  Turns(t, Sending(t))
<1>1. Idle \in TaskState /\ task[t] \in TaskState
  BY Ends DEF Turns, Form
<1>2. Sending(t) \in TaskState
  BY <1>1 DEF Sending, TaskState, Phases
<1>3. /\ Sending(t).pc = "send" /\ Sending(t).key = task[t].key
      /\ Sending(t).rotation = "none" /\ Sending(t).parsed = 0
  BY <1>1 DEF Sending, Idle, TaskState
<1>4. Sending(t).cred = None /\ Sending(t).held = None
  BY <1>1 DEF Sending, Idle, TaskState
<1> QED
  BY <1>2, <1>3, <1>4 DEF Turns, Form, Names, TypeOK, Holds, CredentialsAssumption

\* A failing refresh does one or the other.
LEMMA Fails ==
  ASSUME TypeOK, Names, NEW t \in Tasks, Form(t, task[t]), task[t].pc # "idle",
     task[t].pc \notin Holds, RefreshFails(t) \/ End(t) \/ Send(t)
  PROVE Turn(t)
<1>1. CASE task' = [task EXCEPT ![t] = Idle]
   BY <1>1, Ends DEF Turn, Turns, Form
<1>2. CASE task' = [task EXCEPT ![t] = Sending(t)]
   BY <1>2, Sends DEF Turn, Turns, Form
<1> QED
  BY <1>1, <1>2 DEF RefreshFails, AfterFailure, End, Send

\* getAccessToken returns to whoever asked for the token.
LEMMA GotTokenTurns ==
  ASSUME TypeOK, Names, NEW t \in Requests, Form(t, task[t]),
  task[t].pc \in {"token", "nested", "config"}, GotToken(t)
  PROVE  Turn(t)
<1> DEFINE token == [task[t] EXCEPT !.pc = "session", !.cred = None]
           nested == [task[t] EXCEPT !.pc = "renew", !.cred = None]
           forced == [task[t] EXCEPT !.pc = "token", !.rotation = "headers", !.cred = None,
                                     !.held = None, !.renewal = "none"]
<1>0. t \in Tasks /\ task[t] \in TaskState
  BY DEF TypeOK, Tasks
<1>1. CASE task[t].rotation = "headers"
  <2>1. Turns(t, token)
    BY <1>0, <1>1 DEF Turns, Form, TaskState, Phases, Holds
  <2>2. task' = [task EXCEPT ![t] = token]
    BY <1>0, <1>1 DEF GotToken, TaskState
  <2> QED
    BY <2>1, <2>2 DEF Turn, Turns, Form, Holds
<1>2. CASE task[t].rotation = "nested"
  <2>1. Turns(t, nested)
    BY <1>0, <1>2 DEF Turns, Form, TaskState, Phases, Holds
  <2>2. task' = [task EXCEPT ![t] = nested]
    BY <1>0, <1>2 DEF GotToken, TaskState
  <2> QED
    BY <2>1, <2>2 DEF Turn, Turns, Form, Holds
<1>3. CASE task[t].rotation = "forced"
  <2>1. Turns(t, forced)
    BY <1>0, <1>3 DEF Turns, Form, TaskState, Phases, Holds
  <2>2. task' = [task EXCEPT ![t] = forced]
    BY <1>0, <1>3 DEF GotToken, BuildHeaders, Building, TaskState
  <2> QED
    BY <2>1, <2>2 DEF Turn, Turns, Form, Holds
<1> QED
  BY <1>0, <1>1, <1>2, <1>3 DEF Form, TaskState

\* A rotation begins with the stored credential.
LEMMA RotateTurns ==
  ASSUME TypeOK, Names, NEW t \in Tasks, Form(t, task[t]),
         task[t].pc \in {"token", "nested", "forceToken"},
         NEW c, c = keychain[task[t].key], c # None, Rotate(t, c)
  PROVE  Turn(t)
<1> DEFINE r == [task[t] EXCEPT !.pc = "rotate", !.cred = c]
<1>1. task[t] \in TaskState /\ c \in Credential
  BY DEF Form, TypeOK, Logins, CredentialsAssumption
<1>2. Turns(t, r)
  BY <1>1 DEF Turns, Form, TaskState, Phases, Holds
<1>3. task' = [task EXCEPT ![t] = r]
  BY <1>1 DEF Rotate, TaskState
<1> QED
  BY <1>2, <1>3 DEF Turn, Turns, Form, Holds

\* An account-session refresh begins with it too.
LEMMA RefreshTurns ==
  ASSUME TypeOK, Names, NEW t \in Requests, Form(t, task[t]),
         task[t].pc \in {"session", "forceSession"},
         NEW c, c = keychain[task[t].key], c # None, NEW why \in {"due", "expired", "forced"},
         RefreshSession(t, c, why)
  PROVE  Turn(t)
<1> DEFINE r == [task[t] EXCEPT !.pc = "nested", !.held = c, !.rotation = "nested", !.renewal = why]
<1>1. task[t] \in TaskState /\ c \in Credential
  BY DEF Form, TypeOK, Logins, CredentialsAssumption
<1>2. Turns(t, r)
  BY <1>1 DEF Turns, Form, TaskState, Phases, Holds
<1>3. task' = [task EXCEPT ![t] = r]
  BY <1>1 DEF RefreshSession, TaskState
<1> QED
  BY <1>2, <1>3 DEF Turn, Turns, Form, Holds

\* Every step of a request of its own is a turn.
LEMMA RequestTurns ==
  ASSUME TypeOK, Names, NEW t \in Requests, Form(t, task[t]),
         \/ Begin(t) \/ ResolveToken(t) \/ ForceToken(t) \/ SaveConfig(t)
         \/ ResolveSession(t) \/ ForceSession(t) \/ Answer(t)
  PROVE  Turn(t)
<1>0. t \in Tasks /\ task[t] \in TaskState
  BY DEF TypeOK, Tasks
<1>1. CASE Begin(t)
  <2> DEFINE r == [task[t] EXCEPT !.pc = "token", !.key = memory, !.rotation = "headers"]
  <2>0. memory \in 0..MaxLogins /\ memory \in 1..logins
    BY <1>1 DEF Begin, TypeOK, Names, CredentialsAssumption
  <2>1. Turns(t, r)
    BY <1>0, <1>1, <2>0 DEF Begin, Turns, Form, TaskState, Phases, Holds
  <2>2. task' = [task EXCEPT ![t] = r]
    BY <1>0, <1>1 DEF Begin, TaskState
  <2> QED
    BY <2>1, <2>2, <1>1 DEF Begin, Turn, Turns, Form, Holds
<1>2. CASE ResolveToken(t)
  BY <1>0, <1>2, Fails, GotTokenTurns, RotateTurns DEF ResolveToken, Holds
<1>3. CASE ForceToken(t)
  BY <1>0, <1>3, Fails, RotateTurns DEF ForceToken, Holds
<1>4. CASE SaveConfig(t)
  BY <1>0, <1>4, GotTokenTurns DEF SaveConfig, Holds
<1>5. CASE ResolveSession(t)
  <2>1. AgeOf(task[t].key, keychain[task[t].key]) \ {"fresh"} \subseteq {"due", "expired", "forced"}
    BY <1>0, <1>5 DEF AgeOf, TypeOK, Form, ResolveSession, Logins, CredentialsAssumption
  <2> QED
    BY <2>1, <1>0, <1>5, Fails, RefreshTurns DEF ResolveSession, Holds
<1>6. CASE ForceSession(t)
  BY <1>0, <1>6, Fails, RefreshTurns DEF ForceSession, Holds
<1>7. CASE Answer(t)
  <2> DEFINE r == [task[t] EXCEPT !.pc = "forceToken", !.rotation = "forced", !.retried = {"token"}]
             s == [task[t] EXCEPT !.pc = "forceSession", !.retried = @ \union {"session"}]
  <2>1. Turns(t, r)
    BY <1>0, <1>7 DEF Answer, Turns, Form, TaskState, Phases, Holds
  <2>2. Turns(t, s)
    BY <1>0, <1>7 DEF Answer, Turns, Form, TaskState, Phases, Holds
  <2>3. End(t) \/ task' = [task EXCEPT ![t] = r] \/ task' = [task EXCEPT ![t] = s]
    BY <1>0, <1>7 DEF Answer, TaskState
  <2> QED
    BY <2>1, <2>2, <2>3, <1>0, <1>7, Fails DEF Answer, Turn, Turns, Form, Holds
<1> QED
  BY <1>1, <1>2, <1>3, <1>4, <1>5, <1>6, <1>7

\* What follows the config file in a refresher is a turn.
LEMMA AfterConfigTurns ==
  ASSUME TypeOK, Names, NEW t \in Refreshers, Form(t, task[t]),
         task[t].pc \in {"readConfig", "writeConfig"}, AfterConfig(t)
  PROVE  Turn(t)
<1> DEFINE r == [task[t] EXCEPT !.pc = "renew", !.held = task[t].cred, !.cred = None, !.parsed = 0]
<1>0. t \in Tasks /\ task[t] \in TaskState
  BY DEF TypeOK, Tasks
<1>1. CASE End(t)
  BY <1>0, <1>1, Fails DEF Holds
<1>2. CASE ~End(t)
  <2>0. 0 <= logins /\ 0 \in 0..MaxLogins
    BY DEF TypeOK, CredentialsAssumption
  <2>1. r \in TaskState
    BY <1>0, <2>0 DEF TaskState, Phases
  <2>2. Turns(t, r)
    BY <1>0, <2>0, <2>1 DEF Turns, Form, TaskState, Holds
  <2>3. task' = [task EXCEPT ![t] = r]
    BY <1>0, <1>2 DEF AfterConfig, TaskState
  <2> QED
    BY <2>2, <2>3 DEF Turn, Turns, Form, Holds
<1> QED
  BY <1>1, <1>2

\* Every step of a refresher of its own is a turn.
LEMMA RefresherTurns ==
  ASSUME TypeOK, Names, NEW t \in Refreshers, Form(t, task[t]),
         ReadStatus(t) \/ LoadCredential(t) \/ ReadConfig(t) \/ WriteConfig(t)
  PROVE  Turn(t)
<1>0. t \in Tasks /\ t \notin Requests /\ task[t] \in TaskState
  BY DEF TypeOK, Tasks, CredentialsAssumption
<1>1. CASE ReadStatus(t)
  <2>0. auth \in 0..MaxLogins /\ auth \in 1..logins
    BY <1>1 DEF ReadStatus, TypeOK, Names, CredentialsAssumption
  <2>1. PICK why \in {"forced", "none"} :
          task' = [task EXCEPT ![t].pc = "load", ![t].key = auth, ![t].rotation = "headers",
                               ![t].renewal = why]
    BY <1>1 DEF ReadStatus
  <2> DEFINE r == [task[t] EXCEPT !.pc = "load", !.key = auth, !.rotation = "headers",
                                  !.renewal = why]
  <2>2. Turns(t, r)
    BY <1>0, <1>1, <2>0 DEF ReadStatus, Turns, Form, TaskState, Phases, Holds
  <2>3. task' = [task EXCEPT ![t] = r]
    BY <1>0, <2>1 DEF TaskState
  <2> QED
    BY <2>2, <2>3, <1>1 DEF ReadStatus, Turn, Turns, Form, Holds
<1>2. CASE LoadCredential(t)
  <2> DEFINE c == keychain[task[t].key]
             renew(why) == [task[t] EXCEPT !.pc = "renew", !.held = c, !.renewal = why]
             rotate(why) == [task[t] EXCEPT !.pc = "rotate", !.cred = c, !.renewal = why]
  <2>1. CASE End(t)
    BY <1>0, <1>2, <2>1, Fails DEF LoadCredential, Holds
  <2>2. CASE ~End(t)
    <3>1. c \in Credential /\ c # None
      BY <1>0, <1>2, <2>2 DEF LoadCredential, TypeOK, Form, Logins, CredentialsAssumption
    <3>2. PICK why \in {"forced", "none"} :
            \/ task' = [task EXCEPT ![t].pc = "renew", ![t].held = c, ![t].renewal = why]
            \/ task' = [task EXCEPT ![t].pc = "rotate", ![t].cred = c, ![t].renewal = why]
      BY <1>2, <2>2 DEF LoadCredential
    <3>3. \/ task' = [task EXCEPT ![t] = renew(why)]
          \/ task' = [task EXCEPT ![t] = rotate(why)]
      <4>1. CASE task' = [task EXCEPT ![t].pc = "renew", ![t].held = c, ![t].renewal = why]
        BY <1>0, <4>1 DEF TaskState
      <4>2. CASE task' = [task EXCEPT ![t].pc = "rotate", ![t].cred = c, ![t].renewal = why]
        BY <1>0, <4>2 DEF TaskState
      <4> QED
        BY <3>2, <4>1, <4>2
    <3>4. Turns(t, renew(why))
      BY <1>0, <1>2, <3>1 DEF LoadCredential, Turns, Form, TaskState, Phases, Holds
    <3>5. Turns(t, rotate(why))
      BY <1>0, <1>2, <3>1 DEF LoadCredential, Turns, Form, TaskState, Phases, Holds
    <3> QED
      BY <3>3, <3>4, <3>5, <1>2 DEF LoadCredential, Turn, Turns, Form, Holds
  <2> QED
    BY <2>1, <2>2
<1>3. CASE ReadConfig(t)
  <2> DEFINE r == [task[t] EXCEPT !.pc = "writeConfig", !.parsed = auth]
  <2>1. CASE auth = 0
    BY <1>3, <2>1, AfterConfigTurns DEF ReadConfig
  <2>2. CASE auth # 0
    <3>0. auth \in 0..MaxLogins /\ auth <= logins
      BY DEF TypeOK, Names
    <3>1. Turns(t, r)
      BY <1>0, <1>3, <2>2, <3>0 DEF ReadConfig, Turns, Form, TaskState, Phases, Holds
    <3>2. task' = [task EXCEPT ![t] = r]
      BY <1>0, <1>3, <2>2 DEF ReadConfig, TaskState
    <3> QED
      BY <3>1, <3>2, <1>3 DEF ReadConfig, Turn, Turns, Form, Holds
  <2> QED
    BY <2>1, <2>2
<1>4. CASE WriteConfig(t)
  BY <1>4, AfterConfigTurns DEF WriteConfig
<1> QED
  BY <1>1, <1>2, <1>3, <1>4

\* A refusal of the backend is a turn.
LEMMA Refusals ==
  ASSUME TypeOK, Names, NEW t \in Tasks, Form(t, task[t]),
         TokenRefused(t) \/ SessionRefused(t)
  PROVE  Turn(t)
BY Fails DEF TokenRefused, SessionRefused, Holds

\* The form used in the proofs is the property of the runs.
LEMMA CurrentIsCurrent ==
  ASSUME Sole, Current  PROVE CredentialIsCurrent
BY DEF Sole, Current, Kept, Phase, Newest, CredentialIsCurrent, Holding, Unstored, Stores

\* A turn keeps the forms, as it ends in one.
LEMMA TurnKeepsForms ==
  ASSUME TypeOK, Forms, NEW t \in Tasks, Turn(t),
         UNCHANGED <<memory, logins>>
  PROVE  task' \in [Tasks -> TaskState] /\ Forms'
BY DEF TypeOK, Forms, Turn, Turns, Form

\* A turn makes no new copy of what somebody is about to store.
LEMMA TurnKeepsSole ==
  ASSUME TypeOK, Forms, Sole, NEW t \in Tasks, Turn(t), UNCHANGED keychain
  PROVE  Sole'
<1> PICK r \in TaskState : task' = [task EXCEPT ![t] = r] /\ Turns(t, r)
  BY DEF Turn
<1>1. task'[t] = r /\ \A u \in Tasks \ {t} : task'[u] = task[u]
  BY DEF TypeOK
<1>2. r.pc \notin Holds
  BY DEF Turns
<1>3. ASSUME NEW u \in Tasks \ {t}, NEW part \in {"token", "session"}, NoOther(u, part)
      PROVE  NoOther(u, part)'
  BY <1>1, <1>3 DEF NoOther, Turns, Newest
<1> QED
  BY <1>1, <1>2, <1>3 DEF Sole, Holds

\* A turn loses nothing that somebody is about to store.
LEMMA TurnKeepsCurrent ==
  ASSUME TypeOK, Current, NEW t \in Tasks, Turn(t),
         UNCHANGED <<keychain, behind, undone, signedOut>>
  PROVE  Current'
<1> PICK r \in TaskState : task' = [task EXCEPT ![t] = r] /\ Turns(t, r)
  BY DEF Turn
<1>1. \A u \in Tasks \ {t} : task'[u] = task[u]
  BY DEF TypeOK
<1>2. task[t].pc \notin Holds
  BY DEF Turn
<1>3. ASSUME NEW k, NEW part \in {"token", "session"}, Kept(k, part)
      PROVE  Kept(k, part)'
  BY <1>1, <1>2, <1>3 DEF Kept, Phase, Holds
<1> QED
  BY <1>3 DEF Current, GivenUp

\* What a turn reads is what is stored.
LEMMA TurnKeepsAbreast ==
  ASSUME TypeOK, Abreast, NEW t \in Tasks, Turn(t), UNCHANGED keychain
  PROVE  Abreast'
<1> PICK r \in TaskState : task' = [task EXCEPT ![t] = r] /\ Turns(t, r)
  BY DEF Turn
<1>1. task'[t] = r /\ \A u \in Tasks \ {t} : task'[u] = task[u]
  BY DEF TypeOK
<1>2. Even(r.key, r.cred) /\ Even(r.key, r.held)
  <2>1. Even(r.key, keychain[r.key]) /\ Even(r.key, None)
    BY DEF Even, AsNewAs
  <2>2. CASE r.key = task[t].key
    BY <2>1, <2>2 DEF Turns, Abreast
  <2>3. CASE r.key # task[t].key
    BY <2>1, <2>3 DEF Turns
  <2> QED
    BY <2>2, <2>3
<1> QED
  BY <1>1, <1>2 DEF Abreast, Even, AsNewAs

-----------------------------------------------------------------------------
(* The backend gives out the next token or session.                        *)

\* Spend makes one part old and leaves the other.
LEMMA SpendIsSpent ==
  ASSUME NEW c \in Credential \union {None}, NEW part \in {"token", "session"}
  PROVE  /\ Spend(c, part) \in Credential \union {None}
         /\ Spend(c, part) = None <=> c = None
         /\ ~Newest(Spend(c, part), part)
         /\ c # None => Spend(c, part).since = c.since
         /\ \A p \in {"token", "session"} \ {part} : Newest(Spend(c, part), p) <=> Newest(c, p)
<1>1. CASE part = "token"
  BY <1>1 DEF Spend, Newest, Credential, Part, NoneAssumption
<1>2. CASE part = "session"
  BY <1>2 DEF Spend, Newest, Credential, Part, NoneAssumption
<1> QED
  BY <1>1, <1>2

\* SpendHeld does so to the copies of a task with that sign-in, and to nothing else.
LEMMA SpendHeldSpends ==
  ASSUME NEW u \in Tasks, Form(u, task[u]), NEW k, NEW part \in {"token", "session"}
  PROVE  /\ Form(u, SpendHeld(u, k, part))
         /\ SpendHeld(u, k, part).pc = task[u].pc /\ SpendHeld(u, k, part).key = task[u].key
         /\ SpendHeld(u, k, part).parsed = task[u].parsed
         /\ task[u].key = k => SpendHeld(u, k, part).cred = Spend(task[u].cred, part)
                            /\ SpendHeld(u, k, part).held = Spend(task[u].held, part)
         /\ task[u].key # k => SpendHeld(u, k, part) = task[u]
<1>1. task[u] \in TaskState
  BY DEF Form
<1>2. CASE task[u].key # k
  BY <1>2 DEF SpendHeld
<1>3. CASE task[u].key = k
  <2> DEFINE r == [task[u] EXCEPT !.cred = Spend(@, part), !.held = Spend(@, part)]
  <2>1. SpendHeld(u, k, part) = r
    BY <1>3 DEF SpendHeld
  <2>2. /\ Spend(task[u].cred, part) \in Credential \union {None}
        /\ Spend(task[u].held, part) \in Credential \union {None}
        /\ Spend(task[u].cred, part) = None <=> task[u].cred = None
        /\ Spend(task[u].held, part) = None <=> task[u].held = None
    BY <1>1, SpendIsSpent DEF TaskState
  <2>3. /\ r \in TaskState /\ r.pc = task[u].pc /\ r.key = task[u].key
        /\ r.parsed = task[u].parsed /\ r.rotation = task[u].rotation
        /\ r.cred = Spend(task[u].cred, part) /\ r.held = Spend(task[u].held, part)
    BY <1>1, <2>2 DEF TaskState
  <2>4. Form(u, r)
    BY <2>2, <2>3 DEF Form
  <2> QED
    BY <2>1, <2>3, <2>4, <1>3
<1> QED
  BY <1>2, <1>3

\* The backend gives part to t, whose record becomes r; all copies of it are spent.
Spends(t, part, r) ==
  /\ keychain' = [keychain EXCEPT ![task[t].key] = Spend(@, part)]
  /\ task' = [u \in Tasks |-> IF u # t THEN SpendHeld(u, task[t].key, part) ELSE r]

\* What r has to do with the record of t before: t had the newest part, and r
\* either holds the next one or is done.
Heir(t, part, r) ==
  /\ Form(t, r)
  /\ Newest(task[t].cred, part) \/ Newest(task[t].held, part)
  /\ task[t].pc \notin Holds \union {"idle"}
  /\ r.pc \in Holds => r.key = task[t].key
  /\ r.pc = "store" =>
       part = "token" /\ Newest(r.cred, "token") /\ ~Newest(r.held, "token")
  /\ r.pc = "storeSession" => part = "session" /\ Newest(r.held, "session")
  /\ \A p \in {"token", "session"} :
       Newest(r.cred, p) \/ Newest(r.held, p) =>
         r.key = task[t].key /\ (Newest(task[t].cred, p) \/ Newest(task[t].held, p))
  /\ r.cred # None => r.key = task[t].key /\ r.cred = task[t].cred
  /\ r.held # None => r.key = task[t].key /\ r.held \in {task[t].held, Spend(task[t].held, part)}
  /\ r.pc = "writeConfig" => FALSE

\* Spending keeps the forms.
LEMMA SpendKeepsForms ==
  ASSUME TypeOK, Forms, NEW t \in Tasks, NEW part \in {"token", "session"}, NEW r,
         Form(t, r), Spends(t, part, r), UNCHANGED <<memory, logins>>
  PROVE  task' \in [Tasks -> TaskState] /\ Forms'
<1>1. \A u \in Tasks \ {t} : task'[u] = SpendHeld(u, task[t].key, part)
  BY DEF Spends
<1>2. task'[t] = r
  BY DEF Spends
<1>3. \A u \in Tasks : Form(u, task'[u])
  BY <1>1, <1>2, SpendHeldSpends DEF Forms
<1>4. task' \in [Tasks -> TaskState]
  BY <1>3 DEF Form, Spends
<1> QED
  BY <1>3, <1>4 DEF Forms, Form

\* Spending keeps the other entries and the other part.
LEMMA SpendKeepsKeychain ==
  ASSUME TypeOK, NEW t \in Tasks, NEW part \in {"token", "session"}, NEW r,
         task[t].key \in Logins, Spends(t, part, r)
  PROVE  /\ keychain' \in [Logins -> Credential \union {None}]
         /\ \A k \in Logins : keychain'[k] = None <=> keychain[k] = None
         /\ \A k \in Logins \ {task[t].key} : keychain'[k] = keychain[k]
         /\ ~Newest(keychain'[task[t].key], part)
         /\ \A p \in {"token", "session"} \ {part}, k \in Logins :
               Newest(keychain'[k], p) <=> Newest(keychain[k], p)
<1>1. keychain' = [keychain EXCEPT ![task[t].key] = Spend(keychain[task[t].key], part)]
  BY DEF Spends
<1>2. keychain[task[t].key] \in Credential \union {None}
  BY DEF TypeOK
<1> QED
  BY <1>1, <1>2, SpendIsSpent DEF TypeOK

\* Two tasks cannot both hold the answer: the first made the second's copy old.
LEMMA SpendKeepsSole ==
  ASSUME TypeOK, Forms, Sole, NEW t \in Tasks, NEW part \in {"token", "session"}, NEW r,
         Heir(t, part, r), Spends(t, part, r), logins <= MaxLogins
  PROVE  Sole'
<1>0. task[t].key \in Logins
  BY DEF Heir, Forms, Form, TypeOK, CredentialsAssumption
<1>1. \A u \in Tasks \ {t} : task'[u] = SpendHeld(u, task[t].key, part)
  BY DEF Spends
<1>2. task'[t] = r
  BY DEF Spends
<1>3. ASSUME NEW u \in Tasks \ {t}
      PROVE  /\ task'[u].pc = task[u].pc /\ task'[u].key = task[u].key
             /\ \A p \in {"token", "session"} :
                  /\ Newest(task'[u].cred, p) => Newest(task[u].cred, p)
                  /\ Newest(task'[u].held, p) => Newest(task[u].held, p)
                  /\ p = part /\ task[u].key = task[t].key =>
                       ~Newest(task'[u].cred, p) /\ ~Newest(task'[u].held, p)
                  /\ p # part \/ task[u].key # task[t].key =>
                       /\ Newest(task[u].cred, p) => Newest(task'[u].cred, p)
                       /\ Newest(task[u].held, p) => Newest(task'[u].held, p)
  <2>1. task[u] \in TaskState /\ Form(u, task[u])
    BY DEF Forms, Form
  <2>2. task[u].cred \in Credential \union {None} /\ task[u].held \in Credential \union {None}
    BY <2>1 DEF TaskState
  <2> QED
    BY <1>1, <2>1, <2>2, SpendHeldSpends, SpendIsSpent
<1>4. ASSUME NEW u \in Tasks \ {t}, NEW p \in {"token", "session"}, NoOther(u, p),
             task[u].key \in Logins
      PROVE  NoOther(u, p)' /\ (task[u].key = task[t].key => p # part)
  BY <1>0, <1>2, <1>3, <1>4, SpendKeepsKeychain DEF NoOther, Heir
<1>5. ASSUME NEW u \in Tasks \ {t}, task[u].pc \in Holds
      PROVE  task[u].key \in Logins
  BY <1>5 DEF Forms, Form, TypeOK, Holds, CredentialsAssumption
<1>6. r.pc \in Holds => NoOther(t, part)'
  BY <1>0, <1>2, <1>3, SpendKeepsKeychain DEF NoOther, Heir
<1>7. ASSUME NEW u \in Tasks \ {t}
      PROVE /\ task'[u].pc = "store" =>
              /\ Newest(task'[u].cred, "token") /\ ~Newest(task'[u].held, "token")
              /\ NoOther(u, "token")'
            /\ task'[u].pc = "storeSession" =>
                 Newest(task'[u].held, "session") /\ NoOther(u, "session")'
  BY <1>3, <1>4, <1>5, <1>7 DEF Sole, Holds
<1>8. /\ task'[t].pc = "store" =>
              /\ Newest(task'[t].cred, "token") /\ ~Newest(task'[t].held, "token")
              /\ NoOther(t, "token")'
      /\ task'[t].pc = "storeSession" => Newest(task'[t].held, "session") /\ NoOther(t, "session")'
  BY <1>2, <1>6 DEF Heir, Holds
<1> QED
  BY <1>7, <1>8 DEF Sole

\* What is spent is on its way, or known to be lost.
LEMMA SpendKeepsCurrent ==
  ASSUME TypeOK, Forms, Current, NEW t \in Tasks, NEW part \in {"token", "session"}, NEW r,
         Heir(t, part, r), Spends(t, part, r), logins <= MaxLogins, UNCHANGED <<undone, signedOut>>,
         \/ UNCHANGED behind /\ r.pc = IF part = "token" THEN "store" ELSE "storeSession"
         \/ behind' = behind \union {<<task[t].key, part>>}
  PROVE  Current'
<1>0. task[t].key \in Logins
  BY DEF Heir, Forms, Form, TypeOK, CredentialsAssumption
<1>1. ASSUME NEW u \in Tasks \ {t}
      PROVE  /\ task'[u].pc = task[u].pc /\ task'[u].key = task[u].key
             /\ \A p \in {"token", "session"} :
                  /\ p # part \/ task[u].key # task[t].key =>
                       /\ Newest(task[u].cred, p) => Newest(task'[u].cred, p)
                       /\ Newest(task[u].held, p) => Newest(task'[u].held, p)
  <2>1. task[u] \in TaskState /\ Form(u, task[u]) /\ task'[u] = SpendHeld(u, task[t].key, part)
    BY DEF Forms, Form, Spends
  <2>2. task[u].cred \in Credential \union {None} /\ task[u].held \in Credential \union {None}
    BY <2>1 DEF TaskState
  <2> QED
    BY <2>1, <2>2, SpendHeldSpends, SpendIsSpent
<1>2. task[t].pc \notin Holds /\ task'[t] = r
  BY DEF Heir, Spends
<1>3. ASSUME NEW k \in Logins \ signedOut', NEW p \in {"token", "session"},
             keychain'[k] # None, ~GivenUp(k, p)'
      PROVE  Kept(k, p)'
  <2>1. keychain[k] # None /\ k \in Logins \ signedOut /\ ~GivenUp(k, p)
    BY <1>0, <1>3, SpendKeepsKeychain DEF GivenUp
  <2>2. Kept(k, p)
    BY <2>1 DEF Current
  <2>3. CASE p # part \/ k # task[t].key
    <3>1. CASE Newest(keychain[k], p)
      BY <3>1, <2>3, <1>0, SpendKeepsKeychain DEF Kept
    <3>2. CASE ~Newest(keychain[k], p)
      BY <3>2, <2>2, <2>3, <1>1, <1>2 DEF Kept, Phase, Holds
    <3> QED
      BY <3>1, <3>2
  <2>4. CASE p = part /\ k = task[t].key
    BY <2>4, <1>2, <1>3 DEF Kept, Phase, Heir, Holds, GivenUp
  <2> QED
    BY <2>3, <2>4
<1> QED
  BY <1>3 DEF Current

\* Spending what is stored spends every copy of it with it.
LEMMA SpendKeepsAbreast ==
  ASSUME TypeOK, Forms, Abreast, NEW t \in Tasks, NEW part \in {"token", "session"}, NEW r,
         Heir(t, part, r), Spends(t, part, r), logins <= MaxLogins
  PROVE  Abreast'
<1>0. task[t].key \in Logins
  BY DEF Heir, Forms, Form, TypeOK, CredentialsAssumption
<1>1. ASSUME NEW k \in Logins, NEW c \in Credential \union {None}, Even(k, c),
             NEW d, d = (IF k = task[t].key THEN Spend(c, part) ELSE c)
      PROVE  Even(k, d)'
  <2>1. CASE k = task[t].key
    BY <2>1, <1>0, <1>1, SpendIsSpent, SpendKeepsKeychain DEF Even, AsNewAs
  <2>2. CASE k # task[t].key
    BY <2>2, <1>0, <1>1, SpendKeepsKeychain DEF Even, AsNewAs
  <2> QED
    BY <2>1, <2>2
<1>2. ASSUME NEW u \in Tasks \ {t}
      PROVE  Even(task[u].key, task[u].cred)' /\ Even(task[u].key, task[u].held)'
  <2>1. /\ Form(u, task[u]) /\ task'[u] = SpendHeld(u, task[t].key, part)
        /\ task[u].cred \in Credential \union {None} /\ task[u].held \in Credential \union {None}
    BY DEF Forms, Form, Spends, TaskState
  <2>2. /\ task'[u].key = task[u].key
        /\ task[u].key = task[t].key => /\ task'[u].cred = Spend(task[u].cred, part)
                                       /\ task'[u].held = Spend(task[u].held, part)
        /\ task[u].key # task[t].key => task'[u] = task[u]
    BY <2>1, SpendHeldSpends
  <2>3. CASE task[u].key \in Logins
    BY <2>1, <2>2, <2>3, <1>1 DEF Abreast
  <2>4. CASE task[u].key \notin Logins
    <3>1. task[u].cred = None /\ task[u].held = None
      BY <2>1, <2>4 DEF Form, TypeOK, CredentialsAssumption, Logins
    <3> QED
      BY <3>1, <2>2, <2>4, <1>0 DEF Even, AsNewAs
  <2> QED
    BY <2>3, <2>4
<1>3. Even(r.key, r.cred)' /\ Even(r.key, r.held)'
  <2>1. task[t].cred \in Credential \union {None} /\ task[t].held \in Credential \union {None}
    BY DEF Forms, Form, TaskState
  <2>2. AsNewAs(keychain'[task[t].key], Spend(task[t].held, part))
    <3> PICK k \in Logins, c \in Credential \union {None} : k = task[t].key /\ c = task[t].held
      BY <1>0, <2>1
    <3> PICK d : d = Spend(c, part)
      OBVIOUS
    <3>1. Even(k, d)'
      BY <1>1 DEF Abreast
    <3> QED
      BY <3>1 DEF Even
  <2>3. ASSUME NEW c \in Credential \union {None}, Even(task[t].key, c)
        PROVE  AsNewAs(keychain'[task[t].key], c)
    BY <2>3, <1>0, SpendKeepsKeychain DEF Even, AsNewAs
  <2>4. /\ AsNewAs(keychain'[task[t].key], task[t].cred)
        /\ AsNewAs(keychain'[task[t].key], task[t].held)
    BY <2>1, <2>3 DEF Abreast
  <2> QED
    BY <2>2, <2>4 DEF Heir, Even, AsNewAs
<1>4. task'[t] = r
  BY DEF Spends
<1> QED
  BY <1>2, <1>3, <1>4 DEF Abreast

USE DEF machine, backend, people, history, vars, Logins

-----------------------------------------------------------------------------
(* The steps keep the invariant.                                           *)

\* The numbers are numbers.
LEMMA Typed ==
  ASSUME TypeOK
  PROVE  /\ logins \in Nat /\ logins <= MaxLogins /\ MaxLogins \in Nat
         /\ auth \in Nat /\ memory \in Nat /\ saved \in Nat
BY DEF TypeOK, CredentialsAssumption

\* The part of the type invariant that is not about tasks.
World ==
  /\ keychain \in [Logins -> Credential \union {None}]
  /\ auth \in 0..MaxLogins /\ memory \in 0..MaxLogins
  /\ tokenAged \in [Logins -> BOOLEAN]
  /\ sessionAge \in [Logins -> {"fresh", "due", "expired"}]
  /\ signIn \in {"idle", "browser", "save"} /\ logins \in 0..MaxLogins
  /\ signOut \in [pc : {"idle", "delete", "save"}, key : 0..MaxLogins]
  /\ behind \subseteq Logins \X {"token", "session"} /\ undone \subseteq Logins
  /\ saved \in 0..MaxLogins /\ overrun \in BOOLEAN
  /\ signedOut \subseteq Logins /\ events \in 0..MaxEvents

\* Types of the world and forms of the tasks make the type invariant.
LEMMA WorldAndForms ==
  ASSUME World', Forms', (task \in [Tasks -> TaskState])'
  PROVE  TypeOK'
<1>1. 1..logins' \subseteq Logins
  BY DEF World, CredentialsAssumption
<1> QED
  BY <1>1 DEF World, TypeOK, Forms, Form

\* A turn, with what it may do to the config.
TurnStep(t) ==
  /\ Turn(t) /\ UNCHANGED <<keychain, memory, backend, people, history>>
  /\ \/ UNCHANGED auth
     \/ t \in Requests /\ task[t].pc # "idle" /\ auth' = memory
     \/ t \in Writers /\ auth' = task[t].parsed

\* Such a step keeps the invariant.
LEMMA TurnStepKeeps ==
  ASSUME IInv, NEW t \in Tasks, TurnStep(t)
  PROVE  IInv'
<1>1. task' \in [Tasks -> TaskState] /\ Forms'
  BY TurnKeepsForms DEF IInv, TurnStep
<1>2. Sole' /\ Current' /\ Abreast'
  BY TurnKeepsSole, TurnKeepsCurrent, TurnKeepsAbreast DEF IInv, TurnStep
<1>3. Form(t, task[t])
  BY DEF IInv, Forms
<1>4. auth' \in 0..MaxLogins /\ auth' <= logins
  BY <1>3 DEF IInv, TurnStep, TypeOK, Names, Form, TaskState
<1>5. TypeOK'
  <2>1. World'
    BY <1>4 DEF IInv, TurnStep, TypeOK, World
  <2> QED
    BY <1>1, <2>1, WorldAndForms
<1>6. Names'
  BY <1>4 DEF IInv, TurnStep, Names
<1>7. Settled'
  <2> SUFFICES ASSUME ~overrun, saved \notin signedOut  PROVE Settled'
    BY DEF Settled, TurnStep
  <2>1. /\ auth = saved /\ memory \in {0, saved} /\ signOut.pc = "idle"
        /\ \A m \in Writers : task[m].parsed = saved
    BY DEF IInv, Settled
  <2>2. auth' = saved
    BY <2>1, <1>3 DEF TurnStep, Form
  <2>3. ASSUME NEW m \in Writers'  PROVE task'[m].parsed = saved
    <3> PICK r \in TaskState : task' = [task EXCEPT ![t] = r] /\ Turns(t, r)
      BY DEF TurnStep, Turn
    <3>1. CASE m = t
      BY <3>1, <2>1, <2>3 DEF Writers, IInv, TypeOK, Turns
    <3>2. CASE m # t
      BY <3>2, <2>1, <2>3 DEF Writers, IInv, TypeOK
    <3> QED
      BY <3>1, <3>2
  <2> QED
    BY <2>1, <2>2, <2>3 DEF Settled, TurnStep
<1> QED
  BY <1>1, <1>2, <1>5, <1>6, <1>7 DEF IInv

\* And these actions are such steps.
LEMMA TurnSteps ==
  ASSUME IInv, NEW t \in Tasks,
         \/ t \in Requests /\ (Begin(t) \/ RequestStep(t))
         \/ t \in Refreshers /\ (ReadStatus(t) \/ RefresherStep(t))
         \/ TokenRefused(t) \/ SessionRefused(t)
  PROVE  TurnStep(t)
<1>0. TypeOK /\ Names /\ Form(t, task[t])
  BY DEF IInv, Forms
<1>1. CASE t \in Requests /\ (Begin(t) \/ RequestStep(t))
  <2>1. Turn(t)
    BY <1>0, <1>1, RequestTurns DEF RequestStep
  <2> QED
    BY <2>1, <1>1 DEF RequestStep, TurnStep, Begin, ResolveToken, ForceToken, SaveConfig,
                      ResolveSession, ForceSession, Answer
<1>2. CASE t \in Refreshers /\ (ReadStatus(t) \/ RefresherStep(t))
  <2>1. Turn(t)
    BY <1>0, <1>2, RefresherTurns DEF RefresherStep
  <2> QED
    BY <2>1, <1>2 DEF RefresherStep, TurnStep, ReadStatus, LoadCredential, ReadConfig,
                      WriteConfig, Writers
<1>3. CASE TokenRefused(t) \/ SessionRefused(t)
  <2>1. Turn(t)
    BY <1>0, <1>3, Refusals
  <2> QED
    BY <2>1, <1>3 DEF TurnStep, TokenRefused, SessionRefused
<1> QED
  BY <1>1, <1>2, <1>3


\* A step of the backend, with what it does to the rest.
SpendStep(t, part, r) ==
  /\ Heir(t, part, r) /\ Spends(t, part, r)
  /\ UNCHANGED <<auth, memory, people, undone, saved, overrun, signedOut>>
  /\ tokenAged' \in [Logins -> BOOLEAN]
  /\ sessionAge' \in [Logins -> {"fresh", "due", "expired"}]
  /\ events' \in 0..MaxEvents
  /\ \/ UNCHANGED behind /\ r.pc = IF part = "token" THEN "store" ELSE "storeSession"
     \/ behind' = behind \union {<<task[t].key, part>>}

\* Such a step keeps the invariant.
LEMMA SpendStepKeeps ==
  ASSUME IInv, NEW t \in Tasks,
         NEW part \in {"token", "session"}, NEW r, SpendStep(t, part, r)
  PROVE  IInv'
<1>0. logins <= MaxLogins /\ task[t].key \in Logins
  BY DEF IInv, SpendStep, Heir, Forms, Form, TypeOK, CredentialsAssumption
<1>1. task' \in [Tasks -> TaskState] /\ Forms'
  BY SpendKeepsForms DEF IInv, SpendStep, Heir
<1>2. Sole'
  BY <1>0, SpendKeepsSole DEF IInv, SpendStep
<1>3. Current' /\ Abreast'
  BY <1>0, SpendKeepsCurrent, SpendKeepsAbreast DEF IInv, SpendStep
<1>4. /\ keychain' \in [Logins -> Credential \union {None}]
      /\ \A k \in Logins : keychain'[k] = None <=> keychain[k] = None
  BY <1>0, SpendKeepsKeychain DEF IInv, SpendStep
<1>5. TypeOK'
  <2>1. World'
    BY <1>0, <1>4 DEF IInv, SpendStep, TypeOK, World
  <2> QED
    BY <1>1, <2>1, WorldAndForms
<1>6. Names'
  BY <1>0, <1>4 DEF IInv, SpendStep, Names, TypeOK, CredentialsAssumption
<1>7. Settled'
  <2>1. ASSUME NEW m \in Writers'
        PROVE  m \in Writers /\ task'[m].parsed = task[m].parsed
    <3>1. m # t
      BY <2>1 DEF Writers, SpendStep, Spends, Heir, Tasks
    <3>2. task'[m] = SpendHeld(m, task[t].key, part) /\ Form(m, task[m])
      BY <2>1, <3>1 DEF Writers, SpendStep, Spends, Tasks, IInv, Forms
    <3> QED
      BY <2>1, <3>1, <3>2, SpendHeldSpends DEF Writers, Tasks
  <2> QED
    BY <2>1 DEF IInv, Settled, SpendStep
<1> QED
  BY <1>1, <1>2, <1>3, <1>5, <1>6, <1>7 DEF IInv

\* After a failure a task has no copy of anything.
LEMMA Failure ==
  ASSUME TypeOK, Names, NEW t \in Tasks, Form(t, task[t]),
         task[t].pc \in {"rotate", "renew"}
  PROVE  /\ Form(t, AfterFailure(t))
         /\ AfterFailure(t).pc \notin Holds \union {"writeConfig"}
         /\ AfterFailure(t).cred = None /\ AfterFailure(t).held = None
<1>1. Turns(t, Idle) /\ Turns(t, Sending(t))
  BY Ends, Sends
<1>2. Idle.pc = "idle" /\ Idle.cred = None /\ Idle.held = None
  BY DEF Idle
<1>3. Form(t, task[t]) /\ Idle \in TaskState
  BY <1>1 DEF Turns, Form
<1>4. Sending(t).pc = "send" /\ Sending(t).cred = None /\ Sending(t).held = None
  BY <1>3 DEF Sending, Idle, TaskState
<1> QED
  BY <1>1, <1>2, <1>4 DEF AfterFailure, Turns, Holds

\* The four answers of the backend, received or lost, are such steps.
LEMMA SpendSteps ==
  ASSUME IInv, NEW t \in Tasks,
         TokenRotated(t) \/ RotationLost(t) \/ SessionRenewed(t) \/ RenewalLost(t)
  PROVE  \E part \in {"token", "session"} : \E r : SpendStep(t, part, r)
<1>0. TypeOK /\ Names /\ Form(t, task[t]) /\ task[t] \in TaskState
  BY DEF IInv, Forms, Form
<1>1. CASE TokenRotated(t)
  <2> DEFINE h == Spend(task[t].held, "token")
             r == [task[t] EXCEPT !.pc = "store", !.held = h]
  <2>1. /\ h \in Credential \union {None}
        /\ h = None <=> task[t].held = None
        /\ ~Newest(h, "token")
        /\ Newest(h, "session") <=> Newest(task[t].held, "session")
    BY <1>0, SpendIsSpent DEF TaskState
  <2>2. /\ r \in TaskState /\ r.pc = "store" /\ r.held = h /\ r.cred = task[t].cred
        /\ r.key = task[t].key /\ r.rotation = task[t].rotation /\ r.parsed = task[t].parsed
    BY <1>0, <2>1 DEF TaskState, Phases
  <2>3. Form(t, r) /\ Newest(task[t].cred, "token")
    BY <1>0, <1>1, <2>1, <2>2 DEF TokenRotated, Form, Newest
  <2>4. Heir(t, "token", r)
    BY <1>1, <2>1, <2>2, <2>3 DEF TokenRotated, Heir, Holds
  <2>5. Spends(t, "token", r)
    BY <1>0, <1>1 DEF TokenRotated, SpendStored, Spends, TaskState
  <2> QED
    BY <1>0, <1>1, <2>2, <2>4, <2>5 DEF TokenRotated, SpendStep, TypeOK
<1>2. CASE RotationLost(t)
  <2> DEFINE r == AfterFailure(t)
  <2>1. Heir(t, "token", r)
    BY <1>0, <1>2, Failure DEF RotationLost, Heir, Holds, Newest, Form
  <2>2. Spends(t, "token", r)
    BY <1>2 DEF RotationLost, SpendStored, Spends
  <2> QED
    BY <1>0, <1>2, <2>1, <2>2
    DEF RotationLost, EventHappens, SpendStep, TypeOK, CredentialsAssumption
<1>3. CASE SessionRenewed(t)
  <2> DEFINE r == [task[t] EXCEPT !.pc = "storeSession"]
  <2>2. /\ r \in TaskState /\ r.pc = "storeSession"
        /\ r.held = task[t].held /\ r.cred = task[t].cred
        /\ r.key = task[t].key /\ r.rotation = task[t].rotation /\ r.parsed = task[t].parsed
    BY <1>0 DEF TaskState, Phases
  <2>3. Form(t, r) /\ Newest(task[t].held, "session")
    BY <1>0, <1>3, <2>2 DEF SessionRenewed, Form, Newest
  <2>4. Heir(t, "session", r)
    BY <1>3, <2>2, <2>3 DEF SessionRenewed, Heir, Holds
  <2>5. Spends(t, "session", r)
    BY <1>3 DEF SessionRenewed, SpendStored, Spends
  <2> QED
    BY <1>0, <1>3, <2>2, <2>4, <2>5 DEF SessionRenewed, SpendStep, TypeOK
<1>4. CASE RenewalLost(t)
  <2> DEFINE r == AfterFailure(t)
  <2>1. Heir(t, "session", r)
    BY <1>0, <1>4, Failure DEF RenewalLost, Heir, Holds, Newest, Form
  <2>2. Spends(t, "session", r)
    BY <1>4 DEF RenewalLost, SpendStored, Spends
  <2> QED
    BY <1>0, <1>4, <2>1, <2>2
    DEF RenewalLost, EventHappens, SpendStep, TypeOK, CredentialsAssumption
<1> QED
  BY <1>1, <1>2, <1>3, <1>4

\* Marking a copy of a record changes nothing in it.
LEMMA OutdatedIs ==
  ASSUME NEW c \in Credential \union {None}, NEW by \in {"nobody", "itself", "another"}
  PROVE  /\ Outdated(c, by) \in Credential \union {None}
         /\ Outdated(c, by) = None <=> c = None
         /\ c # None => Outdated(c, by).since = by
         /\ \A p \in {"token", "session"} : Newest(Outdated(c, by), p) <=> Newest(c, p)
BY DEF Outdated, Newest, Credential, NoneAssumption

\* Overtaken marks the copies of a task with that sign-in.
LEMMA OvertakenIs ==
  ASSUME NEW u \in Tasks, Form(u, task[u]), NEW k
  PROVE  /\ Form(u, Overtaken(u, k))
         /\ Overtaken(u, k).pc = task[u].pc /\ Overtaken(u, k).key = task[u].key
         /\ Overtaken(u, k).parsed = task[u].parsed
         /\ task[u].key = k => /\ Overtaken(u, k).cred = Outdated(task[u].cred, "another")
                               /\ Overtaken(u, k).held = Outdated(task[u].held, "another")
         /\ task[u].key # k => Overtaken(u, k) = task[u]
<1>1. task[u] \in TaskState
  BY DEF Form
<1>2. CASE task[u].key # k
  BY <1>2 DEF Overtaken
<1>3. CASE task[u].key = k
  <2> DEFINE r == [task[u] EXCEPT !.cred = Outdated(@, "another"), !.held = Outdated(@, "another")]
  <2>1. Overtaken(u, k) = r
    BY <1>3 DEF Overtaken
  <2>2. /\ Outdated(task[u].cred, "another") \in Credential \union {None}
        /\ Outdated(task[u].held, "another") \in Credential \union {None}
        /\ Outdated(task[u].cred, "another") = None <=> task[u].cred = None
        /\ Outdated(task[u].held, "another") = None <=> task[u].held = None
    BY <1>1, OutdatedIs DEF TaskState
  <2>3. /\ r \in TaskState /\ r.pc = task[u].pc /\ r.key = task[u].key
        /\ r.parsed = task[u].parsed /\ r.rotation = task[u].rotation
        /\ r.cred = Outdated(task[u].cred, "another") /\ r.held = Outdated(task[u].held, "another")
    BY <1>1, <2>2 DEF TaskState
  <2>4. Form(u, r)
    BY <2>2, <2>3 DEF Form
  <2> QED
    BY <2>1, <2>3, <2>4, <1>3
<1> QED
  BY <1>2, <1>3

\* What a holding task is about to write, the part that is new and the rest.
Record(t) == IF task[t].pc = "store" THEN task[t].cred ELSE task[t].held
Written(t) == IF task[t].pc = "store" THEN "token" ELSE "session"
Rest(t) == IF task[t].pc = "store" THEN "session" ELSE "token"

\* That half is given up once the step is done.
GivesUp(k, part) == <<k, part>> \in behind' \/ (part = "token" /\ k \in undone')

\* A step that writes the record back: if somebody has written it since it was
\* read, the rest is given up.
StoreStep(t, r) ==
  /\ task[t].pc \in Holds
  /\ StoreRecord(task[t].key, Record(t))
  /\ task' = [u \in Tasks |-> IF u # t THEN Overtaken(u, task[t].key) ELSE r]
  /\ Record(t).since = "nobody" \/ GivesUp(task[t].key, Rest(t))
  /\ behind \subseteq behind' /\ behind' \subseteq behind \union (Logins \X {"token", "session"})
  /\ undone \subseteq undone' /\ undone' \subseteq undone \union Logins
  /\ Form(t, r) /\ r.pc \notin Holds \union {"writeConfig"}
  /\ r.cred # None =>
       /\ r.key = task[t].key /\ task[t].pc = "store"
       /\ r.cred = Outdated(task[t].cred, "nobody")
  /\ r.held # None => r.key = task[t].key /\ r.held = Outdated(task[t].held, "itself")
  /\ UNCHANGED <<auth, memory, backend, people, saved, overrun, signedOut, events>>

\* What such a step does to the storage and to the tasks.
LEMMA StoreStepDoes ==
  ASSUME IInv, NEW t \in Tasks, NEW r, StoreStep(t, r)
  PROVE  /\ task[t].key \in Logins /\ task[t].key \in 1..logins
         /\ Record(t) \in Credential /\ Newest(Record(t), Written(t))
         /\ keychain' \in [Logins -> Credential \union {None}]
         /\ keychain'[task[t].key] # None
         /\ \A p \in {"token", "session"} :
              Newest(keychain'[task[t].key], p) <=> Newest(Record(t), p)
         /\ \A j \in Logins \ {task[t].key} : keychain'[j] = keychain[j]
         /\ task'[t] = r
         /\ task' \in [Tasks -> TaskState] /\ Forms'
<1>0. /\ TypeOK /\ Names /\ Form(t, task[t]) /\ task[t] \in TaskState
      /\ logins <= MaxLogins /\ task[t].key \in Logins /\ task[t].key \in 1..logins
  BY DEF IInv, StoreStep, Holds, Forms, Form, TypeOK, CredentialsAssumption
<1>1. Record(t) \in Credential
  BY <1>0 DEF StoreStep, Record, Holds, Form, TaskState
<1>2. Newest(Record(t), Written(t))
  BY DEF IInv, Sole, StoreStep, Record, Written, Holds
<1>3. keychain' = [keychain EXCEPT ![task[t].key] = Outdated(Record(t), "nobody")]
  BY DEF StoreStep, StoreRecord
<1>4. /\ Outdated(Record(t), "nobody") \in Credential \union {None}
      /\ Outdated(Record(t), "nobody") # None
      /\ \A p \in {"token", "session"} :
           Newest(Outdated(Record(t), "nobody"), p) <=> Newest(Record(t), p)
  BY <1>1, OutdatedIs, NoneAssumption
<1>5. \A u \in Tasks \ {t} : Form(u, Overtaken(u, task[t].key))
  BY OvertakenIs DEF IInv, Forms
<1>6. task'[t] = r /\ \A u \in Tasks \ {t} : task'[u] = Overtaken(u, task[t].key)
  BY DEF StoreStep
<1>7. \A u \in Tasks : Form(u, task'[u])
  BY <1>5, <1>6 DEF StoreStep
<1>8. task' \in [Tasks -> TaskState] /\ Forms'
  BY <1>7 DEF StoreStep, Forms, Form
<1> QED
  BY <1>0, <1>1, <1>2, <1>3, <1>4, <1>6, <1>8 DEF TypeOK

\* Another task goes on where it was; its copies are as new as they were.
LEMMA StoreStepOthers ==
  ASSUME IInv, NEW t \in Tasks, NEW r, StoreStep(t, r), NEW u \in Tasks \ {t}
  PROVE  /\ task'[u].pc = task[u].pc /\ task'[u].key = task[u].key
         /\ task'[u].parsed = task[u].parsed
         /\ \A p \in {"token", "session"} :
              /\ Newest(task'[u].cred, p) <=> Newest(task[u].cred, p)
              /\ Newest(task'[u].held, p) <=> Newest(task[u].held, p)
         /\ task[u].key # task[t].key => task'[u] = task[u]
         /\ task[u].key = task[t].key =>
              /\ task'[u].cred # None => task'[u].cred.since = "another"
              /\ task'[u].held # None => task'[u].held.since = "another"
<1>1. /\ Form(u, task[u])
      /\ task[u].cred \in Credential \union {None} /\ task[u].held \in Credential \union {None}
  BY DEF IInv, Forms, Form, TaskState
<1>2. task'[u] = Overtaken(u, task[t].key)
  BY DEF StoreStep
<1>3. /\ Overtaken(u, task[t].key).pc = task[u].pc /\ Overtaken(u, task[t].key).key = task[u].key
      /\ Overtaken(u, task[t].key).parsed = task[u].parsed
      /\ task[u].key = task[t].key =>
           /\ Overtaken(u, task[t].key).cred = Outdated(task[u].cred, "another")
           /\ Overtaken(u, task[t].key).held = Outdated(task[u].held, "another")
      /\ task[u].key # task[t].key => Overtaken(u, task[t].key) = task[u]
  BY <1>1, OvertakenIs
<1> QED
  BY <1>1, <1>2, <1>3, OutdatedIs

\* Storing makes no second copy of what another task is about to store.
LEMMA StoreStepSole ==
  ASSUME IInv, NEW t \in Tasks, NEW r, StoreStep(t, r)
  PROVE  Sole'
<1>1. ASSUME NEW u \in Tasks \ {t}, NEW part \in {"token", "session"}, NoOther(u, part),
             task[u].key \in Logins
      PROVE  NoOther(u, part)'
  <2>1. task[u].key = task[t].key => ~Newest(Record(t), part)
    BY <1>1 DEF NoOther, Record
  <2>2. ~Newest(keychain'[task[u].key], part)
    BY <1>1, <2>1, StoreStepDoes DEF NoOther
  <2>3. \A v \in Tasks \ {u, t} : task'[v].key = task[u].key =>
           ~Newest(task'[v].cred, part) /\ ~Newest(task'[v].held, part)
    BY <1>1, StoreStepOthers DEF NoOther
  <2>4. task'[t].key = task[u].key =>
           ~Newest(task'[t].cred, part) /\ ~Newest(task'[t].held, part)
    <3>1. /\ task[t].cred \in Credential \union {None} /\ task[t].held \in Credential \union {None}
          /\ task'[t] = r
      BY StoreStepDoes DEF IInv, Forms, Form, TaskState
    <3>2. /\ r.cred # None => /\ r.key = task[t].key /\ r.cred = Outdated(task[t].cred, "nobody")
          /\ r.held # None => r.key = task[t].key /\ r.held = Outdated(task[t].held, "itself")
      BY DEF StoreStep
    <3>3. /\ Newest(r.cred, part) => r.key = task[t].key /\ Newest(task[t].cred, part)
          /\ Newest(r.held, part) => r.key = task[t].key /\ Newest(task[t].held, part)
      BY <3>1, <3>2, OutdatedIs DEF Newest
    <3> QED
      BY <1>1, <3>1, <3>3 DEF NoOther
  <2> QED
    BY <2>2, <2>3, <2>4, StoreStepOthers DEF NoOther
<1>2. \A u \in Tasks : task[u].pc \in Holds => task[u].key \in Logins
  BY DEF IInv, Forms, Form, Holds, TypeOK, CredentialsAssumption
<1>3. ASSUME NEW u \in Tasks \ {t}
      PROVE /\ task'[u].pc = "store" =>
              /\ Newest(task'[u].cred, "token") /\ ~Newest(task'[u].held, "token")
              /\ NoOther(u, "token")'
            /\ task'[u].pc = "storeSession" =>
                 Newest(task'[u].held, "session") /\ NoOther(u, "session")'
  BY <1>1, <1>2, <1>3, StoreStepOthers DEF IInv, Sole, Holds
<1>4. task'[t].pc \notin Holds
  BY StoreStepDoes DEF StoreStep
<1> QED
  BY <1>3, <1>4 DEF Sole, Holds

\* The part that is new is stored now; the rest is as new as it was, or given up.
LEMMA StoreStepCurrent ==
  ASSUME IInv, NEW t \in Tasks, NEW r, StoreStep(t, r)
  PROVE  Current'
<1> DEFINE k == task[t].key
<1> SUFFICES ASSUME NEW j \in Logins \ signedOut',
                    NEW part \in {"token", "session"}, keychain'[j] # None, ~GivenUp(j, part)'
             PROVE  Kept(j, part)'
  BY DEF Current
<1>1. j \in Logins \ signedOut /\ ~GivenUp(j, part)
  BY DEF StoreStep, GivenUp
<1>2. CASE j # k
  <2>1. Kept(j, part)
    BY <1>1, <1>2, StoreStepDoes DEF IInv, Current
  <2> QED
    BY <2>1, <1>1, <1>2, StoreStepDoes, StoreStepOthers DEF Kept
<1>3. CASE j = k /\ part = Written(t)
  BY <1>3, StoreStepDoes DEF Kept
<1>4. CASE j = k /\ part = Rest(t)
  <2>1. keychain[k] # None
    BY <1>1, <1>4, StoreStepDoes DEF IInv, Names
  <2>2. Kept(k, part)
    BY <2>1, <1>1, <1>4 DEF IInv, Current
  <2>3. CASE Newest(keychain[k], part)
    <3>1. Record(t).since = "nobody"
      BY <1>4 DEF StoreStep, GivesUp, GivenUp
    <3>2. Even(k, Record(t)) /\ Record(t) # None
      BY StoreStepDoes, NoneAssumption DEF IInv, Abreast, Record
    <3>3. Newest(Record(t), part)
      BY <2>3, <3>1, <3>2 DEF Even, AsNewAs
    <3> QED
      BY <3>3, <1>4, StoreStepDoes DEF Kept
  <2>4. CASE ~Newest(keychain[k], part)
    <3>1. PICK u \in Tasks : task[u].key = k /\ task[u].pc = Phase(part)
      BY <2>2, <2>4 DEF Kept
    <3>2. u # t
      BY <3>1, <1>4 DEF Phase, Rest
    <3> QED
      BY <3>1, <3>2, <1>4, StoreStepOthers DEF Kept
  <2> QED
    BY <2>3, <2>4
<1> QED
  BY <1>2, <1>3, <1>4 DEF Written, Rest

\* The writer's own copy of what it wrote is what is stored; every other copy of
\* that record is marked.
LEMMA StoreStepAbreast ==
  ASSUME IInv, NEW t \in Tasks, NEW r, StoreStep(t, r)
  PROVE  Abreast'
<1> DEFINE k == task[t].key
<1>1. ASSUME NEW u \in Tasks \ {t}
      PROVE  Even(task[u].key, task[u].cred)' /\ Even(task[u].key, task[u].held)'
  <2>1. CASE task[u].key = k
    BY <2>1, StoreStepOthers DEF Even, AsNewAs
  <2>2. CASE task[u].key # k
    <3>1. task'[u] = task[u]
      BY <2>2, StoreStepOthers
    <3>2. CASE task[u].cred = None /\ task[u].held = None
      BY <3>1, <3>2 DEF Even, AsNewAs
    <3>3. CASE task[u].cred # None \/ task[u].held # None
      <4>1. task[u].key \in Logins
        BY <3>3 DEF IInv, Forms, Form, TypeOK, CredentialsAssumption
      <4>2. keychain'[task[u].key] = keychain[task[u].key]
        BY <4>1, <2>2, StoreStepDoes
      <4> QED
        BY <3>1, <4>2 DEF IInv, Abreast, Even, AsNewAs
    <3> QED
      BY <3>2, <3>3
  <2> QED
    BY <2>1, <2>2
<1>2. Even(r.key, r.cred)' /\ Even(r.key, r.held)'
  <2>1. task[t].cred \in Credential \union {None} /\ task[t].held \in Credential \union {None}
    BY DEF IInv, Forms, Form, TaskState
  <2>2. r.held # None => r.held.since = "itself"
    BY <2>1, OutdatedIs DEF StoreStep
  <2>3. CASE r.cred # None
    <3>1. r.key = k /\ r.cred = Outdated(Record(t), "nobody")
      BY <2>3 DEF StoreStep, Record
    <3>2. \A p \in {"token", "session"} : Newest(keychain'[k], p) => Newest(r.cred, p)
      BY <3>1, StoreStepDoes, OutdatedIs
    <3> QED
      BY <2>2, <3>1, <3>2 DEF Even, AsNewAs
  <2> QED
    BY <2>2, <2>3 DEF Even, AsNewAs
<1> QED
  BY <1>1, <1>2, StoreStepDoes DEF Abreast

\* Storing keeps the invariant.
LEMMA StoreStepKeeps ==
  ASSUME IInv, NEW t \in Tasks, NEW r, StoreStep(t, r)
  PROVE  IInv'
<1>1. Sole' /\ Current' /\ Abreast'
  BY StoreStepSole, StoreStepCurrent, StoreStepAbreast
<1>2. TypeOK'
  <2>1. behind' \subseteq Logins \X {"token", "session"} /\ undone' \subseteq Logins
    BY DEF IInv, StoreStep, TypeOK
  <2>2. World'
    BY <2>1, StoreStepDoes DEF IInv, StoreStep, TypeOK, World
  <2> QED
    BY <2>2, StoreStepDoes, WorldAndForms
<1>3. Names'
  <2>1. \A j \in 1..logins : keychain'[j] = None => keychain[j] = None
    BY StoreStepDoes DEF IInv, TypeOK, CredentialsAssumption
  <2> QED
    BY <2>1 DEF IInv, StoreStep, Names
<1>4. Settled'
  <2>1. ASSUME NEW m \in Writers'  PROVE m \in Writers /\ task'[m].parsed = task[m].parsed
    <3>1. m \in Tasks /\ m # t
      BY <2>1, StoreStepDoes DEF Writers, StoreStep, Tasks
    <3> QED
      BY <2>1, <3>1, StoreStepOthers DEF Writers
  <2> QED
    BY <2>1 DEF IInv, Settled, StoreStep
<1> QED
  BY <1>1, <1>2, <1>3, <1>4, StoreStepDoes DEF IInv

\* Storing a token and storing a session are such steps.
LEMMA StoreSteps ==
  ASSUME IInv, NEW t \in Tasks,
         StoreToken(t) \/ StoreSession(t)
  PROVE  \E r : StoreStep(t, r)
<1>0. /\ TypeOK /\ Names /\ Form(t, task[t]) /\ task[t] \in TaskState
      /\ task[t].cred \in Credential \union {None} /\ task[t].held \in Credential \union {None}
      /\ task[t].pc # "idle" => task[t].key \in Logins
  BY DEF IInv, Forms, Form, TaskState, TypeOK, CredentialsAssumption
<1>1. CASE StoreToken(t)
  <2> DEFINE p == IF t \in Requests THEN "config" ELSE "readConfig"
             r == [task[t] EXCEPT !.pc = p, !.cred = Outdated(@, "nobody"),
                                  !.held = Outdated(@, "itself")]
  <2>0. /\ Outdated(task[t].cred, "nobody") \in Credential \union {None}
        /\ Outdated(task[t].held, "itself") \in Credential \union {None}
        /\ Outdated(task[t].cred, "nobody") = None <=> task[t].cred = None
        /\ Outdated(task[t].held, "itself") = None <=> task[t].held = None
    BY <1>0, OutdatedIs
  <2>1. /\ r \in TaskState /\ r.pc = p
        /\ r.cred = Outdated(task[t].cred, "nobody") /\ r.held = Outdated(task[t].held, "itself")
        /\ r.key = task[t].key /\ r.rotation = task[t].rotation /\ r.parsed = task[t].parsed
    BY <1>0, <2>0 DEF TaskState, Phases
  <2>2. Form(t, r)
    BY <1>0, <1>1, <2>0, <2>1 DEF StoreToken, Form
  <2>3. task' = [u \in Tasks |-> IF u # t THEN Overtaken(u, task[t].key) ELSE r]
    BY <1>1 DEF StoreToken
  <2>4. /\ Record(t) = task[t].cred /\ Rest(t) = "session" /\ task[t].pc \in Holds
        /\ task[t].pc = "store" /\ task[t].key \in Logins
    BY <1>0, <1>1 DEF StoreToken, Record, Rest, Holds
  <2>5. r.pc \notin Holds \union {"writeConfig"}
    BY <2>1 DEF Holds
  <2>6. Record(t).since = "nobody" \/ GivesUp(task[t].key, Rest(t))
    BY <1>1, <2>4 DEF StoreToken, GivesUp
  <2> HIDE DEF r, p
  <2> QED
    BY <1>1, <2>1, <2>2, <2>3, <2>4, <2>5, <2>6 DEF StoreToken, StoreStep
<1>2. CASE StoreSession(t)
  <2>1. /\ Building(t) \in TaskState /\ Building(t).pc = "token"
        /\ Building(t).held = None /\ Building(t).cred = None
        /\ Building(t).rotation = "headers" /\ Building(t).key = task[t].key
        /\ Building(t).parsed = task[t].parsed
    BY <1>0 DEF TaskState, Phases, Building
  <2>2. Form(t, Building(t))
    BY <1>0, <1>2, <2>1 DEF StoreSession, Form
  <2>3. /\ Form(t, Idle) /\ Idle.pc = "idle" /\ Idle.cred = None /\ Idle.held = None
    BY <1>0, Ends DEF Turns, Idle
  <2>4. Form(t, Sending(t)) /\ Sending(t).pc = "send"
        /\ Sending(t).cred = None /\ Sending(t).held = None
    <3>1. Form(t, Sending(t))
      BY <1>0, <1>2, Sends DEF Turns, StoreSession
    <3> QED
      BY <3>1, <2>3 DEF Sending, Idle, Form, TaskState
  <2>5. AfterSession(t) \in {Building(t), Idle, Sending(t)}
    BY DEF AfterSession, Tasks, CredentialsAssumption
  <2>6. /\ Record(t) = task[t].held /\ Rest(t) = "token" /\ task[t].pc \in Holds
        /\ task[t].key \in Logins
    BY <1>0, <1>2 DEF StoreSession, Record, Rest, Holds
  <2>7. /\ Form(t, AfterSession(t)) /\ AfterSession(t).pc \notin Holds \union {"writeConfig"}
        /\ AfterSession(t).cred = None /\ AfterSession(t).held = None
    BY <2>1, <2>2, <2>3, <2>4, <2>5 DEF Holds
  <2>8. Record(t).since \in {"nobody", "itself", "another"}
    BY <1>0, <1>2, <2>6 DEF StoreSession, Form, Credential
  <2>9. Record(t).since = "nobody" \/ GivesUp(task[t].key, Rest(t))
    BY <1>2, <2>6, <2>8 DEF StoreSession, GivesUp
  <2> QED
    BY <1>2, <2>6, <2>7, <2>9 DEF StoreSession, StoreStep
<1> QED
  BY <1>1, <1>2

\* Steps that move no task: sign-ins and sign-outs, time, a new runtime.
Bystander ==
  \/ BeginSignIn \/ SignInFails \/ StoreLogin \/ SaveLogin
  \/ BeginSignOut \/ DeleteCredential \/ SaveSignedOut
  \/ SignInDies \/ SignOutDies \/ StartRuntime
  \/ \E k \in Logins : TokenAges(k) \/ SessionAges(k)

\* They keep the types,
LEMMA BystanderWorld ==
  ASSUME IInv, Bystander
  PROVE  World'
<1> USE DEF IInv, TypeOK, World, Names
<1>1. CASE StoreLogin
  <2>1. logins' \in Logins
    BY <1>1, Typed DEF StoreLogin
  <2>2. New \in Credential
    BY DEF New, Credential, Part
  <2>3. keychain' \in [Logins -> Credential \union {None}]
    BY <1>1, <2>1, <2>2 DEF StoreLogin
  <2> QED
    BY <1>1, <2>1, <2>3, Typed DEF StoreLogin
<1>2. CASE SaveLogin
  BY <1>2, Typed DEF SaveLogin, EventHappens, CredentialsAssumption
<1>3. CASE BeginSignOut
  BY <1>3, Typed DEF BeginSignOut, EventHappens, CredentialsAssumption
<1>4. CASE DeleteCredential
  BY <1>4, Typed DEF DeleteCredential, EventHappens, CredentialsAssumption
<1>5. CASE SaveSignedOut
  BY <1>5, Typed DEF SaveSignedOut, EventHappens, CredentialsAssumption
<1>6. CASE StartRuntime
  BY <1>6, Typed DEF StartRuntime, EventHappens, CredentialsAssumption
<1>7. CASE BeginSignIn \/ SignInFails \/ SignInDies
  <2>1. events' \in 0..MaxEvents
    BY <1>7, Typed DEF BeginSignIn, SignInFails, SignInDies, EventHappens, CredentialsAssumption
  <2> QED
    BY <1>7, <2>1 DEF BeginSignIn, SignInFails, SignInDies
<1>8. CASE SignOutDies
  BY <1>8, Typed DEF SignOutDies, CredentialsAssumption
<1>9. ASSUME NEW k \in Logins, TokenAges(k)
      PROVE  World'
  BY <1>9, Typed DEF TokenAges, EventHappens, CredentialsAssumption
<1>10. ASSUME NEW k \in Logins, SessionAges(k)
      PROVE  World'
  <2>1. sessionAge' \in [Logins -> {"fresh", "due", "expired"}]
    BY <1>10 DEF SessionAges
  <2> QED
    BY <1>10, <2>1, Typed DEF SessionAges, EventHappens, CredentialsAssumption
<1> QED
  BY <1>1, <1>2, <1>3, <1>4, <1>5, <1>6, <1>7, <1>8, <1>9, <1>10 DEF Bystander

\* the forms of the tasks,
LEMMA BystanderForms ==
  ASSUME IInv, Bystander
  PROVE  (task \in [Tasks -> TaskState])' /\ Forms'
<1> USE DEF IInv, TypeOK, Forms, Form
<1>1. CASE StoreLogin
  <2>1. logins' \in Nat /\ logins <= logins' /\ UNCHANGED <<task, memory>>
    BY <1>1, Typed DEF StoreLogin
  <2>2. ASSUME NEW t \in Tasks  PROVE  Form(t, task[t])'
    <3>1. task[t] \in TaskState /\ task[t].parsed \in Nat /\ task[t].key \in Nat
      BY Typed DEF TaskState
    <3> QED
      BY <2>1, <3>1, Typed
  <2> QED
    BY <2>1, <2>2
<1>2. CASE SaveLogin
  BY <1>2, Typed DEF SaveLogin, EventHappens, CredentialsAssumption
<1>3. CASE BeginSignOut
  BY <1>3, Typed DEF BeginSignOut, EventHappens, CredentialsAssumption
<1>4. CASE DeleteCredential
  BY <1>4, Typed DEF DeleteCredential, EventHappens, CredentialsAssumption
<1>5. CASE SaveSignedOut
  BY <1>5, Typed DEF SaveSignedOut, EventHappens, CredentialsAssumption
<1>6. CASE StartRuntime
  BY <1>6, Typed DEF StartRuntime, EventHappens, CredentialsAssumption
<1>7. CASE BeginSignIn \/ SignInFails \/ SignInDies \/ SignOutDies
  BY <1>7, Typed
  DEF BeginSignIn, SignInFails, SignInDies, SignOutDies, EventHappens, CredentialsAssumption
<1>8. ASSUME NEW k \in Logins, TokenAges(k) \/ SessionAges(k)
      PROVE  (task \in [Tasks -> TaskState])' /\ Forms'
  BY <1>8, Typed DEF TokenAges, SessionAges, EventHappens, CredentialsAssumption
<1> QED
  BY <1>1, <1>2, <1>3, <1>4, <1>5, <1>6, <1>7, <1>8 DEF Bystander

\* the names,
LEMMA BystanderNames ==
  ASSUME IInv, Bystander
  PROVE  Names'
<1> USE DEF IInv, TypeOK, Names, New, NoneAssumption, Credential, Part
<1>1. CASE StoreLogin
  BY <1>1, Typed DEF StoreLogin, EventHappens, CredentialsAssumption
<1>2. CASE SaveLogin
  BY <1>2, Typed DEF SaveLogin, EventHappens, CredentialsAssumption
<1>3. CASE BeginSignOut
  BY <1>3, Typed DEF BeginSignOut, EventHappens, CredentialsAssumption
<1>4. CASE DeleteCredential
  BY <1>4, Typed DEF DeleteCredential, EventHappens, CredentialsAssumption
<1>5. CASE SaveSignedOut
  BY <1>5, Typed DEF SaveSignedOut, EventHappens, CredentialsAssumption
<1>6. CASE StartRuntime
  BY <1>6, Typed DEF StartRuntime, EventHappens, CredentialsAssumption
<1>7. CASE BeginSignIn \/ SignInFails \/ SignInDies \/ SignOutDies
  BY <1>7, Typed
  DEF BeginSignIn, SignInFails, SignInDies, SignOutDies, EventHappens, CredentialsAssumption
<1>8. ASSUME NEW k \in Logins, TokenAges(k) \/ SessionAges(k)
      PROVE  Names'
  BY <1>8, Typed DEF TokenAges, SessionAges, EventHappens, CredentialsAssumption
<1> QED
  BY <1>1, <1>2, <1>3, <1>4, <1>5, <1>6, <1>7, <1>8 DEF Bystander

\* the sole copies,
LEMMA BystanderSole ==
  ASSUME IInv, Bystander
  PROVE  Sole'
<1> USE DEF IInv, TypeOK, Sole, NoOther, Newest, Forms, Form
<1>1. CASE StoreLogin
  BY <1>1, Typed DEF StoreLogin, EventHappens, CredentialsAssumption
<1>2. CASE SaveLogin
  BY <1>2, Typed DEF SaveLogin, EventHappens, CredentialsAssumption
<1>3. CASE BeginSignOut
  BY <1>3, Typed DEF BeginSignOut, EventHappens, CredentialsAssumption
<1>4. CASE DeleteCredential
  BY <1>4, Typed DEF DeleteCredential, EventHappens, CredentialsAssumption
<1>5. CASE SaveSignedOut
  BY <1>5, Typed DEF SaveSignedOut, EventHappens, CredentialsAssumption
<1>6. CASE StartRuntime
  BY <1>6, Typed DEF StartRuntime, EventHappens, CredentialsAssumption
<1>7. CASE BeginSignIn \/ SignInFails \/ SignInDies \/ SignOutDies
  BY <1>7, Typed
  DEF BeginSignIn, SignInFails, SignInDies, SignOutDies, EventHappens, CredentialsAssumption
<1>8. ASSUME NEW k \in Logins, TokenAges(k) \/ SessionAges(k)
      PROVE  Sole'
  BY <1>8, Typed DEF TokenAges, SessionAges, EventHappens, CredentialsAssumption
<1> QED
  BY <1>1, <1>2, <1>3, <1>4, <1>5, <1>6, <1>7, <1>8 DEF Bystander

\* (an entry that changes is a new sign-in's, or gone)
LEMMA StillCurrent ==
  ASSUME IInv, UNCHANGED task, behind \subseteq behind', undone \subseteq undone',
         signedOut \subseteq signedOut',
         \A k \in Logins : keychain'[k] \in {keychain[k], None, New}
  PROVE  Current'
<1> SUFFICES ASSUME NEW k \in Logins \ signedOut',
                    NEW part \in {"token", "session"}, keychain'[k] # None, ~GivenUp(k, part)'
             PROVE  Kept(k, part)'
  BY DEF Current
<1>0. k \in Logins \ signedOut /\ ~GivenUp(k, part)
  BY DEF GivenUp
<1>1. CASE keychain'[k] = keychain[k]
  <2>1. Kept(k, part)
    BY <1>0, <1>1 DEF IInv, Current
  <2> QED
    BY <1>1, <2>1 DEF Kept
<1>2. CASE keychain'[k] = New
  BY <1>2 DEF Kept, Newest, New
<1> QED
  BY <1>1, <1>2

\* the newest copies,
LEMMA BystanderCurrent ==
  ASSUME IInv, Bystander
  PROVE  Current'
<1>1. /\ UNCHANGED task /\ behind \subseteq behind' /\ undone \subseteq undone'
      /\ signedOut \subseteq signedOut'
  BY DEF Bystander, BeginSignIn, SignInFails, StoreLogin, SaveLogin, BeginSignOut,
         DeleteCredential, SaveSignedOut, SignInDies, SignOutDies, StartRuntime, TokenAges,
         SessionAges
<1>2. \A k \in Logins : keychain'[k] \in {keychain[k], None, New}
  <2>1. CASE StoreLogin
    BY <2>1 DEF StoreLogin, IInv, TypeOK
  <2>2. CASE DeleteCredential
    BY <2>2 DEF DeleteCredential, IInv, TypeOK
  <2>3. CASE UNCHANGED keychain
    BY <2>3
  <2> QED
    BY <2>1, <2>2, <2>3
    DEF Bystander, BeginSignIn, SignInFails, SaveLogin, BeginSignOut, SaveSignedOut,
       SignInDies, SignOutDies, StartRuntime, TokenAges, SessionAges
<1> QED
  BY <1>1, <1>2, StillCurrent

\* what the copies have of it,
LEMMA BystanderAbreast ==
  ASSUME IInv, Bystander
  PROVE  Abreast'
<1>0. UNCHANGED task
  BY DEF Bystander, BeginSignIn, SignInFails, StoreLogin, SaveLogin, BeginSignOut,
         DeleteCredential, SaveSignedOut, SignInDies, SignOutDies, StartRuntime, TokenAges,
         SessionAges
<1>1. ASSUME NEW t \in Tasks, task[t].cred # None \/ task[t].held # None
      PROVE  keychain'[task[t].key] \in {None, keychain[task[t].key]}
  <2>1. task[t].key \in 1..logins
    BY <1>1 DEF IInv, Forms, Form
  <2>2. CASE StoreLogin
    <3>1. logins' # task[t].key /\ logins' = logins + 1
      BY <2>1, <2>2, Typed DEF StoreLogin, IInv
    <3>2. keychain' = [keychain EXCEPT ![logins'] = New]
      BY <2>2 DEF StoreLogin
    <3> QED
      BY <2>1, <3>1, <3>2, Typed DEF IInv, TypeOK
  <2>3. CASE DeleteCredential
    BY <2>1, <2>3, Typed DEF DeleteCredential, IInv, TypeOK
  <2>4. CASE UNCHANGED keychain
    BY <2>4
  <2> QED
    BY <2>2, <2>3, <2>4
    DEF Bystander, BeginSignIn, SignInFails, SaveLogin, BeginSignOut, SaveSignedOut,
       SignInDies, SignOutDies, StartRuntime, TokenAges, SessionAges
<1> QED
  BY <1>0, <1>1 DEF IInv, Abreast, Even, AsNewAs, Newest

\* and the agreement on the last sign-in.
LEMMA BystanderSettled ==
  ASSUME IInv, Bystander
  PROVE  Settled'
<1> USE DEF IInv, TypeOK, Settled, Writers
<1>1. CASE StoreLogin
  BY <1>1, Typed DEF StoreLogin, EventHappens, CredentialsAssumption
<1>2. CASE SaveLogin
  BY <1>2, Typed DEF SaveLogin, EventHappens, CredentialsAssumption
<1>3. CASE BeginSignOut
  BY <1>3, Typed DEF BeginSignOut, EventHappens, CredentialsAssumption
<1>4. CASE DeleteCredential
  BY <1>4, Typed DEF DeleteCredential, EventHappens, CredentialsAssumption
<1>5. CASE SaveSignedOut
  BY <1>5, Typed DEF SaveSignedOut, EventHappens, CredentialsAssumption
<1>6. CASE StartRuntime
  BY <1>6, Typed DEF StartRuntime, EventHappens, CredentialsAssumption
<1>7. CASE BeginSignIn \/ SignInFails \/ SignInDies \/ SignOutDies
  BY <1>7, Typed
  DEF BeginSignIn, SignInFails, SignInDies, SignOutDies, EventHappens, CredentialsAssumption
<1>8. ASSUME NEW k \in Logins, TokenAges(k) \/ SessionAges(k)
      PROVE  Settled'
  BY <1>8, Typed DEF TokenAges, SessionAges, EventHappens, CredentialsAssumption
<1> QED
  BY <1>1, <1>2, <1>3, <1>4, <1>5, <1>6, <1>7, <1>8 DEF Bystander


\* Tasks that die take down only what `behind` then names.
LEMMA DeathKeeps ==
  ASSUME IInv, NEW D \in SUBSET Tasks,
         task' = [t \in Tasks |-> IF t \in D THEN Idle ELSE task[t]],
         behind' = behind \union {Unstored(t) : t \in {u \in D : Holding(u)}},
         UNCHANGED memory \/ (memory' = 0 /\ Requests \subseteq D),
         events' \in 0..MaxEvents,
         UNCHANGED <<keychain, auth, backend, people, undone, saved, overrun, signedOut>>
  PROVE  IInv'
<1>0. TypeOK /\ Names
  BY DEF IInv
<1>1. /\ Idle \in TaskState /\ Idle.pc = "idle" /\ Idle.rotation = "none"
      /\ Idle.cred = None /\ Idle.held = None /\ Idle.parsed = 0
  BY DEF Idle, TaskState, Phases, CredentialsAssumption
<1>2. \A t \in D : task'[t] = Idle
  OBVIOUS
<1>3. \A t \in Tasks \ D : task'[t] = task[t]
  OBVIOUS
<1>4. Names'
  BY <1>0, Typed DEF Names
<1>5. \A t \in Tasks : Form(t, task[t])'
  <2>1. ASSUME NEW t \in D  PROVE Form(t, task[t])'
    BY <1>0, <1>1, <1>2, Typed DEF Form
  <2>2. ASSUME NEW t \in Tasks \ D  PROVE Form(t, task[t])'
    BY <1>3 DEF Form, IInv, Forms
  <2> QED
    BY <2>1, <2>2
<1>6. task' \in [Tasks -> TaskState] /\ Forms'
  BY <1>5 DEF Forms, Form
<1>7. Sole'
  <2>1. ASSUME NEW t \in Tasks \ D, NEW part, NoOther(t, part)
        PROVE  NoOther(t, part)'
    BY <1>1, <1>2, <1>3, <2>1 DEF NoOther, Newest
  <2> QED
    BY <1>1, <1>2, <1>3, <2>1 DEF IInv, Sole
<1>8. Current'
  <2> SUFFICES ASSUME NEW k \in Logins \ signedOut',
                      NEW part \in {"token", "session"}, keychain'[k] # None, ~GivenUp(k, part)'
               PROVE  Kept(k, part)'
    BY DEF Current
  <2>1. Kept(k, part) /\ ~GivenUp(k, part)
    BY DEF IInv, Current, GivenUp
  <2>2. CASE Newest(keychain[k], part)
    BY <2>2 DEF Kept
  <2>3. CASE ~Newest(keychain[k], part)
    <3>1. PICK u \in Tasks : task[u].key = k /\ task[u].pc = Phase(part)
      BY <2>1, <2>3 DEF Kept
    <3>2. u \notin D
      BY <3>1 DEF Phase, Holding, Unstored, GivenUp
    <3> QED
      BY <3>1, <3>2, <1>3 DEF Kept
  <2> QED
    BY <2>2, <2>3
<1>9. TypeOK'
  <2>1. behind' \subseteq Logins \X {"token", "session"}
    <3>1. ASSUME NEW t \in D, Holding(t)  PROVE Unstored(t) \in Logins \X {"token", "session"}
      <4>1. task[t].pc # "idle" /\ Form(t, task[t])
        BY <3>1 DEF IInv, Forms, Holding
      <4>2. task[t].key \in 1..logins
        BY <4>1 DEF Form
      <4>3. task[t].key \in Logins
        BY <4>2, <1>0, Typed
      <4> QED
        BY <4>3 DEF Unstored
    <3>2. behind \subseteq Logins \X {"token", "session"}
      BY <1>0 DEF TypeOK
    <3> HIDE DEF Logins
    <3> QED
      BY <3>1, <3>2
  <2>2. World'
    BY <1>0, <2>1, Typed DEF TypeOK, World
  <2> QED
    BY <1>6, <2>2, WorldAndForms
<1>10. Settled'
  <2>1. \A m \in Writers' : m \in Writers /\ task'[m].parsed = task[m].parsed
    BY <1>1, <1>2, <1>3 DEF Writers, Tasks
  <2> QED
    BY <2>1 DEF IInv, Settled
<1>11. Abreast'
  <2>1. ASSUME NEW t \in D
        PROVE  Even(task[t].key, task[t].cred)' /\ Even(task[t].key, task[t].held)'
    BY <1>1, <1>2, <2>1 DEF Even, AsNewAs
  <2>2. ASSUME NEW t \in Tasks \ D
        PROVE  Even(task[t].key, task[t].cred)' /\ Even(task[t].key, task[t].held)'
    BY <1>3, <2>2 DEF IInv, Abreast, Even, AsNewAs
  <2> QED
    BY <2>1, <2>2 DEF Abreast
<1> QED
  BY <1>4, <1>6, <1>7, <1>8, <1>9, <1>10, <1>11 DEF IInv

\* A runtime that stops and a refresher that dies are such deaths.
LEMMA Deaths ==
  ASSUME IInv,
         StopRuntime \/ \E m \in Refreshers : RefresherDies(m)
  PROVE  IInv'
<1>1. CASE StopRuntime
  <2>1. events' \in 0..MaxEvents
    BY <1>1 DEF StopRuntime, EventHappens, IInv, TypeOK, CredentialsAssumption
  <2> QED
    BY <1>1, <2>1, DeathKeeps DEF StopRuntime, Tasks
<1>2. ASSUME NEW m \in Refreshers, RefresherDies(m)
      PROVE  IInv'
  <2>1. events' \in 0..MaxEvents
    BY <1>2 DEF RefresherDies, EventHappens, IInv, TypeOK, CredentialsAssumption
  <2>2. task' = [t \in Tasks |-> IF t \in {m} THEN Idle ELSE task[t]]
    BY <1>2 DEF RefresherDies, End, IInv, TypeOK
  <2>3. behind' = behind \union {Unstored(t) : t \in {u \in {m} : Holding(u)}}
    BY <1>2 DEF RefresherDies
  <2>4. UNCHANGED <<keychain, auth, memory, backend, people, undone, saved, overrun, signedOut>>
    BY <1>2 DEF RefresherDies
  <2>5. {m} \in SUBSET Tasks
    BY DEF Tasks
  <2> HIDE DEF backend, people
  <2> QED
    BY <2>1, <2>2, <2>3, <2>4, <2>5, DeathKeeps
<1> QED
  BY <1>1, <1>2

-----------------------------------------------------------------------------
(* The theorems.                                                           *)

\* The invariant holds at first: the one sign-in is stored and nobody is at work.
LEMMA InitIInv == Init => IInv
<1> SUFFICES ASSUME Init  PROVE IInv
  OBVIOUS
<1>1. Idle \in TaskState /\ Idle.pc = "idle" /\ Idle.rotation = "none"
      /\ Idle.cred = None /\ Idle.held = None /\ Idle.parsed = 0 /\ Idle.key = 0
  BY DEF Idle, TaskState, Phases, CredentialsAssumption
<1>2. \A t \in Tasks : task[t] = Idle
  BY DEF Init
<1>3. New \in Credential /\ New # None /\ New.token = "newest" /\ New.session = "newest"
  BY DEF New, Credential, Part, NoneAssumption
<1>4. keychain[1] = New /\ \A k \in Logins \ {1} : keychain[k] = None
  BY DEF Init, CredentialsAssumption
<1>5. Forms /\ task \in [Tasks -> TaskState]
  BY <1>1, <1>2 DEF Init, Forms, Form
<1>6. TypeOK
  <2>1. keychain \in [Logins -> Credential \union {None}]
    BY <1>3 DEF Init
  <2>2. /\ tokenAged \in [Logins -> BOOLEAN]
        /\ sessionAge \in [Logins -> {"fresh", "due", "expired"}]
    BY DEF Init
  <2>3. /\ auth \in 0..MaxLogins /\ memory \in 0..MaxLogins
        /\ logins \in 0..MaxLogins /\ saved \in 0..MaxLogins /\ events \in 0..MaxEvents
        /\ signOut \in [pc : {"idle", "delete", "save"}, key : 0..MaxLogins]
    BY DEF Init, CredentialsAssumption
  <2> QED
    BY <2>1, <2>2, <2>3, <1>1, <1>2, <1>5 DEF Init, TypeOK
<1>7. Names
  BY <1>3, <1>4 DEF Init, Names
<1>8. Sole
  BY <1>1, <1>2 DEF Sole
<1>9. Current
  BY <1>3, <1>4 DEF Current, Kept, Newest
<1>10. Settled
  BY <1>1, <1>2 DEF Init, Settled, Writers, Tasks
<1>11. Abreast
  BY <1>1, <1>2 DEF Abreast, Even, AsNewAs
<1> QED
  BY <1>5, <1>6, <1>7, <1>8, <1>9, <1>10, <1>11 DEF IInv

\* A step that moves no task keeps the invariant.
LEMMA BystanderKeeps ==
  ASSUME IInv, Bystander  PROVE IInv'
<1>1. TypeOK'
  BY BystanderWorld, BystanderForms, WorldAndForms
<1> QED
  BY <1>1, BystanderForms, BystanderNames, BystanderSole, BystanderCurrent, BystanderAbreast,
     BystanderSettled DEF IInv

\* Every step keeps the invariant.
LEMMA StepIInv == IInv /\ [Next]_vars => IInv'
<1> SUFFICES ASSUME IInv, [Next]_vars  PROVE IInv'
  OBVIOUS
<1>1. ASSUME NEW r \in Requests, Begin(r)  PROVE IInv'
  BY <1>1, TurnSteps, TurnStepKeeps DEF Tasks
<1>2. ASSUME NEW m \in Refreshers, ReadStatus(m)  PROVE IInv'
  BY <1>2, TurnSteps, TurnStepKeeps DEF Tasks
<1>3. ASSUME NEW t \in Tasks, Step(t)  PROVE IInv'
  <2>1. CASE t \in Requests /\ RequestStep(t)
    BY <2>1, TurnSteps, TurnStepKeeps
  <2>2. CASE t \in Refreshers /\ RefresherStep(t)
    BY <2>2, TurnSteps, TurnStepKeeps
  <2>3. CASE TokenRefused(t) \/ SessionRefused(t)
    BY <2>3, TurnSteps, TurnStepKeeps
  <2>4. CASE TokenRotated(t) \/ RotationLost(t) \/ SessionRenewed(t) \/ RenewalLost(t)
    BY <2>4, SpendSteps, SpendStepKeeps
  <2>5. CASE StoreToken(t) \/ StoreSession(t)
    BY <2>5, StoreSteps, StoreStepKeeps
  <2> QED
    BY <1>3, <2>1, <2>2, <2>3, <2>4, <2>5 DEF Step, SharedStep
<1>4. CASE Bystander
  BY <1>4, BystanderKeeps
<1>5. CASE StopRuntime \/ \E m \in Refreshers : RefresherDies(m)
  BY <1>5, Deaths
<1>6. CASE UNCHANGED vars
  BY <1>6 DEF IInv, TypeOK, Forms, Form, Names, Sole, NoOther, Current, Kept, GivenUp,
              Abreast, Even, AsNewAs, Settled, Writers
<1> QED
  BY <1>1, <1>2, <1>3, <1>4, <1>5, <1>6 DEF Next, People, Environment, Bystander

\* The invariant is one.
LEMMA Inductive == Spec => []IInv
BY InitIInv, StepIInv, PTL DEF Spec

\* Every variable has its type, and a task has a credential wherever the code
\* reads one: in no interleaving is a record used that was never loaded.
THEOREM TypeCorrect == Spec => []TypeOK
<1>1. IInv => TypeOK
  BY DEF IInv
<1> QED
  BY <1>1, Inductive, PTL

\* However many requests and processes refresh one sign-in at a time, its newest
\* token and its newest session are each stored, or about to be by the task they
\* were given to, but for the three ways the code has of losing a half: its answer
\* lost, another task's older record written, or, of the token, the request's own
\* older record (auth-token-provider.ts:208-218, 255-268; auth-refresh.ts).
THEOREM CredentialStaysCurrent == Spec => []CredentialIsCurrent
<1>1. IInv => CredentialIsCurrent
  BY CurrentIsCurrent DEF IInv
<1> QED
  BY <1>1, Inductive, PTL

\* However many sign-ins, sign-outs and writers of the config there are, what it
\* names is stored, and it is the last sign-in unless somebody who had read an
\* earlier one was at work (command-handlers/auth.ts, auth-refresh.ts).
THEOREM ConfigNamesTheLogin == Spec => []ConfigNamesLogin
<1>1. IInv => ConfigNamesLogin
  BY Typed DEF IInv, Names, Settled, ConfigNamesLogin
<1> QED
  BY <1>1, Inductive, PTL
=============================================================================
