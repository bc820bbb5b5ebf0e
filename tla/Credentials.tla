----------------------------- MODULE Credentials -----------------------------
(***************************************************************************)
(* The secrets a sign-in leaves on the machine and everybody who renews    *)
(* them: the runtime's HTTP requests (cli/auth-token-provider.ts,          *)
(* backend/agent-backend-client.ts), the processes that prepare a runtime  *)
(* (agent-rpc/src/auth-refresh.ts), and `auth login` and `auth logout`     *)
(* (cli/command-handlers/auth.ts).                                         *)
(*                                                                         *)
(* A sign-in has one entry of the OS secure storage, a rotating OAuth      *)
(* token and an account session in one record, and agent-config.json names *)
(* the entry in use.  Nobody locks either: a task reads the record, awaits *)
(* the backend and writes the whole record back.  Requests use the config  *)
(* object their runtime read when it started.                              *)
(*                                                                         *)
(* Of a token or session only this is kept: whether it is the newest of    *)
(* its sign-in or spent, which a copy becomes when the backend gives out   *)
(* the next one.  Device id, names and poll intervals are left out.  A     *)
(* copy of a record also says who has written the record since it was      *)
(* read, which the code does not know and the properties are about.        *)
(***************************************************************************)
EXTENDS Naturals, FiniteSets

CONSTANTS
  Requests,     \* HTTP requests of the runtime
  Refreshers,   \* processes that run refreshAgentAuthIfPossible
  MaxLogins,    \* bound on sign-ins
  MaxEvents,    \* bound on expiries, lost answers, deaths, restarts and sign-outs
  None

ASSUME CredentialsAssumption ==
  /\ MaxLogins \in Nat \ {0} /\ MaxEvents \in Nat
  /\ Requests \intersect Refreshers = {}

Tasks == Requests \union Refreshers
Logins == 1..MaxLogins

VARIABLES
  \* the machine
  keychain,   \* secure storage: a sign-in's credential, or None
  auth,       \* the sign-in agent-config.json names, 0 if it has no auth
  memory,     \* the sign-in of the running runtime's config object
  \* per sign-in: the newest token is near expiry; the age of the newest session
  tokenAged, sessionAge,
  \* who is at work
  task,       \* a request or refresher under way
  signIn, logins, signOut,
  \* history
  behind,     \* halves of sign-ins whose answer was lost, with its task or on its
              \* way, or that another task's older record was written over
  undone,     \* sign-ins whose new token the request that asked for it put back
  saved, overrun, signedOut,
  events

machine == <<keychain, auth, memory>>
backend == <<tokenAged, sessionAge>>
people  == <<signIn, logins, signOut>>
history == <<behind, undone, saved, overrun, signedOut, events>>
vars == <<machine, backend, task, people, history>>

-----------------------------------------------------------------------------
Part == {"newest", "spent"}
\* since  who has last written the record since this copy of it was read
Credential == [token : Part, session : Part, since : {"nobody", "itself", "another"}]
\* No credential is not a credential.
ASSUME NoneAssumption == None \notin Credential
New == [token |-> "newest", session |-> "newest", since |-> "nobody"]

\* pc       where the task is suspended
\* cred     the credential a rotation was begun with, then its outcome
\* held     the credential an account-session refresh was begun with
\* rotation who asked for the token: "headers", "nested" (an account-session
\*          refresh) or "forced" (the answer was 401)
\* renewal  why the session is refreshed: "due", "expired" or "forced"
\* retried  the refreshes this request was already repeated for
\* parsed   the sign-in in the config file a refresher is about to write back
Phases == {"idle", "token", "forceToken", "rotate", "store", "config", "session",
           "forceSession", "nested", "renew", "storeSession", "send",
           "load", "readConfig", "writeConfig"}
TaskState ==
  [pc : Phases, key : 0..MaxLogins,
   cred : Credential \union {None}, held : Credential \union {None},
   rotation : {"none", "headers", "nested", "forced"},
   renewal : {"none", "due", "expired", "forced"},
   retried : SUBSET {"token", "session"}, parsed : 0..MaxLogins]

Idle == [pc |-> "idle", key |-> 0, cred |-> None, held |-> None, rotation |-> "none",
         renewal |-> "none", retried |-> {}, parsed |-> 0]

TypeOK ==
  /\ keychain \in [Logins -> Credential \union {None}]
  /\ auth \in 0..MaxLogins /\ memory \in 0..MaxLogins
  /\ tokenAged \in [Logins -> BOOLEAN]
  /\ sessionAge \in [Logins -> {"fresh", "due", "expired"}]
  /\ task \in [Tasks -> TaskState]
  /\ \A t \in Tasks :
       /\ task[t].pc # "idle" => task[t].key \in Logins
       /\ task[t].pc \in {"rotate", "store"} => task[t].cred # None
       /\ task[t].pc \in {"renew", "storeSession"} => task[t].held # None
  /\ signIn \in {"idle", "browser", "save"} /\ logins \in 0..MaxLogins
  /\ signOut \in [pc : {"idle", "delete", "save"}, key : 0..MaxLogins]
  /\ behind \subseteq Logins \X {"token", "session"} /\ undone \subseteq Logins
  /\ saved \in 0..MaxLogins /\ overrun \in BOOLEAN /\ signedOut \subseteq Logins
  /\ events \in 0..MaxEvents

\* Signed in once, some time ago, with the runtime started afterwards.
Init ==
  /\ keychain = [k \in Logins |-> IF k = 1 THEN New ELSE None]
  /\ auth = 1 /\ memory = 1 /\ logins = 1 /\ saved = 1
  /\ \E aged \in BOOLEAN, age \in {"fresh", "due", "expired"} :
       /\ tokenAged = [k \in Logins |-> k = 1 /\ aged]
       /\ sessionAge = [k \in Logins |-> IF k = 1 THEN age ELSE "fresh"]
  /\ task = [t \in Tasks |-> Idle]
  /\ signIn = "idle" /\ signOut = [pc |-> "idle", key |-> 0]
  /\ behind = {} /\ undone = {} /\ overrun = FALSE /\ signedOut = {} /\ events = 0

EventHappens == events < MaxEvents /\ events' = events + 1

-----------------------------------------------------------------------------
(* Where a task goes on.                                                   *)

\* needsRefresh, needsOAuthRefresh: whether the token is in its last five
\* minutes; a spent one may be, whatever it was spent for.
NeedsRefresh(k, c) == IF c.token = "newest" THEN {tokenAged[k]} ELSE BOOLEAN
AgeOf(k, c) ==
  IF c.session = "newest" THEN {sessionAge[k]} ELSE {"fresh", "due", "expired"}

Go(t, p) == task' = [task EXCEPT ![t].pc = p]
Sending(t) == [Idle EXCEPT !.pc = "send", !.key = task[t].key, !.retried = task[t].retried]
Send(t) == task' = [task EXCEPT ![t] = Sending(t)]
End(t) == task' = [task EXCEPT ![t] = Idle]
Rotate(t, c) == task' = [task EXCEPT ![t].pc = "rotate", ![t].cred = c]
Building(t) == [task[t] EXCEPT !.pc = "token", !.rotation = "headers", !.cred = None,
                               !.held = None, !.renewal = "none"]
BuildHeaders(t) == task' = [task EXCEPT ![t] = Building(t)]

\* refreshAccountSession begins with credential c; it asks for a token first.
RefreshSession(t, c, why) ==
  task' = [task EXCEPT ![t].pc = "nested", ![t].held = c,
                       ![t].rotation = "nested", ![t].renewal = why]

\* refreshAccountSession throws: a session that was merely due is still sent,
\* otherwise the request, or the refresh of a preparing process, is over.  A
\* token that cannot be had ends what it was asked for.
AfterFailure(t) ==
  IF task[t].renewal = "due" THEN Sending(t) ELSE Idle
RefreshFails(t) == task' = [task EXCEPT ![t] = AfterFailure(t)]

\* getAccessToken returns.
GotToken(t) ==
  CASE task[t].rotation = "headers" ->
         task' = [task EXCEPT ![t].pc = "session", ![t].cred = None]
    [] task[t].rotation = "nested" ->
         task' = [task EXCEPT ![t].pc = "renew", ![t].cred = None]
    [] task[t].rotation = "forced" -> BuildHeaders(t)

-----------------------------------------------------------------------------
(* A request of the runtime: AgentBackendClient.request.                   *)

Begin(r) ==
  /\ task[r].pc = "idle" /\ memory # 0
  /\ task' = [task EXCEPT ![r].pc = "token", ![r].key = memory, ![r].rotation = "headers"]
  /\ UNCHANGED <<machine, backend, people, history>>

\* getAccessToken: a token that is not near expiry is used as it is.
ResolveToken(r) ==
  /\ task[r].pc \in {"token", "nested"}
  /\ LET k == task[r].key
         c == keychain[k] IN
       \/ c = None /\ RefreshFails(r)
       \/ c # None /\ FALSE \in NeedsRefresh(k, c) /\ GotToken(r)
       \/ c # None /\ TRUE \in NeedsRefresh(k, c) /\ Rotate(r, c)
  /\ UNCHANGED <<machine, backend, people, history>>

\* refreshAccessToken: the backend said 401, whatever the expiry date says.
ForceToken(r) ==
  /\ task[r].pc = "forceToken"
  /\ LET c == keychain[task[r].key] IN
       \/ c = None /\ End(r)
       \/ c # None /\ Rotate(r, c)
  /\ UNCHANGED <<machine, backend, people, history>>

\* saveAgentCliConfig writes the whole config object of the runtime.
SaveConfig(r) ==
  /\ task[r].pc = "config"
  /\ auth' = memory
  /\ GotToken(r)
  /\ UNCHANGED <<keychain, memory, backend, people, history>>

\* The account-session provider: the session is fresh, due (then a failing
\* refresh is tolerated) or expired.
ResolveSession(r) ==
  /\ task[r].pc = "session"
  /\ LET k == task[r].key
         c == keychain[k] IN
       \/ c = None /\ End(r)
       \/ /\ c # None
          /\ \E age \in AgeOf(k, c) \ {"fresh"} : RefreshSession(r, c, age)
       \/ c # None /\ "fresh" \in AgeOf(k, c) /\ Send(r)
  /\ UNCHANGED <<machine, backend, people, history>>

\* forceRefreshAccountSession
ForceSession(r) ==
  /\ task[r].pc = "forceSession"
  /\ LET c == keychain[task[r].key] IN
       \/ c = None /\ End(r)
       \/ c # None /\ RefreshSession(r, c, "forced")
  /\ UNCHANGED <<machine, backend, people, history>>

\* Bug: a refused request is repeated as often as the refresh succeeds.
AnswerUntilServed(r) ==
  /\ task[r].pc = "send"
  /\ \/ End(r)
     \/ task' = [task EXCEPT ![r].pc = "forceToken", ![r].rotation = "forced"]
     \/ Go(r, "forceSession")
  /\ UNCHANGED <<machine, backend, people, history>>

\* The backend serves or refuses for good, says 401, or says that the account
\* session has expired.  Each refresh repeats the request once, and after a
\* refreshed session nothing else does.
Answer(r) ==
  /\ task[r].pc = "send"
  /\ \/ End(r)
     \/ /\ task[r].retried = {}
        /\ task' = [task EXCEPT ![r].pc = "forceToken", ![r].rotation = "forced",
                                ![r].retried = {"token"}]
     \/ /\ "session" \notin task[r].retried
        /\ task' = [task EXCEPT ![r].pc = "forceSession", ![r].retried = @ \union {"session"}]
  /\ UNCHANGED <<machine, backend, people, history>>

-----------------------------------------------------------------------------
(* refreshAgentAuthIfPossible in a process that prepares a runtime.        *)

\* getAgentAuthStatus: the config, then the credential it names.  An expired
\* session is refreshed even if it is fresh by the time it is loaded.
ReadStatus(m) ==
  /\ task[m].pc = "idle" /\ auth # 0 /\ keychain[auth] # None
  /\ \E age \in AgeOf(auth, keychain[auth]) :
       task' = [task EXCEPT ![m].pc = "load", ![m].key = auth, ![m].rotation = "headers",
                            ![m].renewal = IF age = "expired" THEN "forced" ELSE "none"]
  /\ UNCHANGED <<machine, backend, people, history>>

LoadCredential(m) ==
  /\ task[m].pc = "load"
  /\ LET k == task[m].key
         c == keychain[k] IN
       \/ c = None /\ End(m)
       \/ /\ c # None
          /\ \E rotate \in NeedsRefresh(k, c), age \in AgeOf(k, c) :
               LET renew == task[m].renewal # "none" \/ age # "fresh"
                   why == IF renew THEN "forced" ELSE "none" IN
               \/ ~rotate /\ ~renew /\ End(m)
               \/ /\ ~rotate /\ renew
                  /\ task' = [task EXCEPT ![m].pc = "renew", ![m].held = c, ![m].renewal = why]
               \/ /\ rotate
                  /\ task' = [task EXCEPT ![m].pc = "rotate", ![m].cred = c, ![m].renewal = why]
  /\ UNCHANGED <<machine, backend, people, history>>

\* The rotated token is stored; the session is refreshed with that credential.
AfterConfig(m) ==
  IF task[m].renewal = "none"
  THEN End(m)
  ELSE task' = [task EXCEPT ![m].pc = "renew", ![m].held = task[m].cred, ![m].cred = None,
                            ![m].parsed = 0]

\* updateStoredConfigAuthExpiresAt: the file is read, its auth changed, and the
\* whole of it written; without an auth there is nothing to do.
ReadConfig(m) ==
  /\ task[m].pc = "readConfig"
  /\ IF auth = 0
     THEN AfterConfig(m)
     ELSE task' = [task EXCEPT ![m].pc = "writeConfig", ![m].parsed = auth]
  /\ UNCHANGED <<machine, backend, people, history>>

WriteConfig(m) ==
  /\ task[m].pc = "writeConfig"
  /\ auth' = task[m].parsed
  /\ AfterConfig(m)
  /\ UNCHANGED <<keychain, memory, backend, people, history>>

-----------------------------------------------------------------------------
(* Talking to the backend and to the secure storage, for both kinds.       *)

\* The backend gives out the next token or session of a sign-in: every copy of
\* the one before is spent.
Spend(c, part) == IF c = None THEN None ELSE [c EXCEPT ![part] = "spent"]
SpendStored(k, part) == keychain' = [keychain EXCEPT ![k] = Spend(@, part)]
SpendHeld(u, k, part) ==
  IF task[u].key # k THEN task[u]
  ELSE [task[u] EXCEPT !.cred = Spend(@, part), !.held = Spend(@, part)]

\* The token endpoint takes a refresh token once.
TokenRotated(t) ==
  LET k == task[t].key IN
  /\ task[t].pc = "rotate" /\ task[t].cred.token = "newest"
  /\ SpendStored(k, "token")
  /\ tokenAged' = [tokenAged EXCEPT ![k] = FALSE]
  /\ task' = [u \in Tasks |->
       IF u # t THEN SpendHeld(u, k, "token")
       ELSE [task[t] EXCEPT !.pc = "store", !.held = Spend(@, "token")]]
  /\ UNCHANGED <<auth, memory, sessionAge, people, history>>

\* The endpoint refuses, or cannot be reached.
TokenRefused(t) ==
  /\ task[t].pc = "rotate"
  /\ RefreshFails(t)
  /\ UNCHANGED <<machine, backend, people, history>>

\* The endpoint rotates the token and its answer is lost.
RotationLost(t) ==
  LET k == task[t].key IN
  /\ task[t].pc = "rotate" /\ task[t].cred.token = "newest" /\ EventHappens
  /\ SpendStored(k, "token")
  /\ tokenAged' = [tokenAged EXCEPT ![k] = FALSE]
  /\ behind' = behind \union {<<k, "token">>}
  /\ task' = [u \in Tasks |->
       IF u # t THEN SpendHeld(u, k, "token") ELSE AfterFailure(t)]
  /\ UNCHANGED <<auth, memory, sessionAge, people, undone, saved, overrun, signedOut>>

\* The whole record is written: the half that is new and the other half as it was
\* when the writer read it.  Every other copy is older from then on.
Outdated(c, by) == IF c = None THEN None ELSE [c EXCEPT !.since = by]
StoreRecord(k, c) == keychain' = [keychain EXCEPT ![k] = Outdated(c, "nobody")]
Overtaken(u, k) ==
  IF task[u].key # k THEN task[u]
  ELSE [task[u] EXCEPT !.cred = Outdated(@, "another"), !.held = Outdated(@, "another")]

\* Bug: the new access token is used, the record keeps the old refresh token.
StoreNothing(t) ==
  /\ task[t].pc = "store"
  /\ Go(t, IF t \in Requests THEN "config" ELSE "readConfig")
  /\ UNCHANGED <<machine, backend, people, history>>

StoreToken(t) ==
  LET k == task[t].key IN
  /\ task[t].pc = "store"
  /\ StoreRecord(k, task[t].cred)
  /\ behind' = IF task[t].cred.since = "nobody" THEN behind
               ELSE behind \union {<<k, "session">>}
  /\ task' = [u \in Tasks |->
       IF u # t THEN Overtaken(u, k)
       ELSE [task[t] EXCEPT !.pc = IF t \in Requests THEN "config" ELSE "readConfig",
                            !.cred = Outdated(@, "nobody"), !.held = Outdated(@, "itself")]]
  /\ UNCHANGED <<auth, memory, backend, people, undone, saved, overrun, signedOut, events>>

SessionRenewed(t) ==
  LET k == task[t].key IN
  /\ task[t].pc = "renew" /\ task[t].held.session = "newest"
  /\ SpendStored(k, "session")
  /\ sessionAge' = [sessionAge EXCEPT ![k] = "fresh"]
  /\ task' = [u \in Tasks |->
       IF u # t THEN SpendHeld(u, k, "session")
       ELSE [task[t] EXCEPT !.pc = "storeSession"]]
  /\ UNCHANGED <<auth, memory, tokenAged, people, history>>

SessionRefused(t) ==
  /\ task[t].pc = "renew"
  /\ RefreshFails(t)
  /\ UNCHANGED <<machine, backend, people, history>>

RenewalLost(t) ==
  LET k == task[t].key IN
  /\ task[t].pc = "renew" /\ task[t].held.session = "newest" /\ EventHappens
  /\ SpendStored(k, "session")
  /\ sessionAge' = [sessionAge EXCEPT ![k] = "fresh"]
  /\ behind' = behind \union {<<k, "session">>}
  /\ task' = [u \in Tasks |->
       IF u # t THEN SpendHeld(u, k, "session") ELSE AfterFailure(t)]
  /\ UNCHANGED <<auth, memory, tokenAged, people, undone, saved, overrun, signedOut>>

\* Where the session was asked for: the end of a preparing process's refresh, the
\* headers of a repeated request, or the request itself.
AfterSession(t) ==
  CASE t \in Refreshers -> Idle
    [] t \in Requests /\ task[t].renewal = "forced" -> Building(t)
    [] t \in Requests /\ task[t].renewal # "forced" -> Sending(t)

\* refreshAccountSession of a request loads the record before it asks for a token:
\* a rotation that this brings about is in the store by now, and is put back.
StoreSession(t) ==
  LET k == task[t].key
      since == task[t].held.since IN
  /\ task[t].pc = "storeSession"
  /\ StoreRecord(k, task[t].held)
  /\ behind' = IF since = "another" THEN behind \union {<<k, "token">>} ELSE behind
  /\ undone' = IF since = "itself" THEN undone \union {k} ELSE undone
  /\ task' = [u \in Tasks |-> IF u # t THEN Overtaken(u, k) ELSE AfterSession(t)]
  /\ UNCHANGED <<auth, memory, backend, people, saved, overrun, signedOut, events>>

-----------------------------------------------------------------------------
(* auth login and auth logout.                                             *)

\* The browser round trips, the token exchange and the bootstrap check.
BeginSignIn ==
  /\ signIn = "idle" /\ logins < MaxLogins
  /\ signIn' = "browser"
  /\ UNCHANGED <<machine, backend, task, logins, signOut, history>>

\* Denied, wrong state or nonce, timed out, or not accepted by the backend.
SignInFails ==
  /\ signIn = "browser"
  /\ signIn' = "idle"
  /\ UNCHANGED <<machine, backend, task, logins, signOut, history>>

\* Bug: the config names the entry before it is stored.
ConfigureLogin ==
  /\ signIn = "browser"
  /\ logins' = logins + 1 /\ auth' = logins'
  /\ signIn' = "save"
  /\ UNCHANGED <<keychain, memory, backend, task, signOut, history>>

\* Every sign-in has a storage entry of its own.
StoreLogin ==
  /\ signIn = "browser"
  /\ logins' = logins + 1
  /\ keychain' = [keychain EXCEPT ![logins'] = New]
  /\ signIn' = "save"
  /\ UNCHANGED <<auth, memory, backend, task, signOut, history>>

\* Who has read the config of an earlier sign-in and may still write it.
Writers == {m \in Refreshers : task[m].pc = "writeConfig"}

SaveLogin ==
  /\ signIn = "save"
  /\ auth' = logins /\ saved' = logins
  /\ overrun' = (memory # 0 \/ Writers # {} \/ signOut.pc # "idle")
  /\ signIn' = "idle"
  /\ UNCHANGED <<keychain, memory, backend, task, logins, signOut, behind, undone>>
  /\ UNCHANGED <<signedOut, events>>

\* The session is revoked at the backend if that works.
BeginSignOut ==
  /\ signOut.pc = "idle" /\ auth # 0 /\ EventHappens
  /\ signOut' = [pc |-> "delete", key |-> auth]
  /\ signedOut' = signedOut \union {auth}
  /\ UNCHANGED <<machine, backend, task, signIn, logins, behind, undone, saved, overrun>>

DeleteCredential ==
  /\ signOut.pc = "delete"
  /\ keychain' = [keychain EXCEPT ![signOut.key] = None]
  /\ signOut' = [signOut EXCEPT !.pc = "save"]
  /\ UNCHANGED <<auth, memory, backend, task, signIn, logins, history>>

SaveSignedOut ==
  /\ signOut.pc = "save"
  /\ auth' = 0
  /\ signOut' = [pc |-> "idle", key |-> 0]
  /\ UNCHANGED <<keychain, memory, backend, task, signIn, logins, history>>

-----------------------------------------------------------------------------
(* Time, and processes that end.                                           *)

TokenAges(k) ==
  /\ k <= logins /\ ~tokenAged[k] /\ EventHappens
  /\ tokenAged' = [tokenAged EXCEPT ![k] = TRUE]
  /\ UNCHANGED <<machine, sessionAge, task, people, behind, undone, saved, overrun, signedOut>>

SessionAges(k) ==
  /\ k <= logins /\ sessionAge[k] = "fresh" /\ EventHappens
  /\ \E age \in {"due", "expired"} : sessionAge' = [sessionAge EXCEPT ![k] = age]
  /\ UNCHANGED <<machine, tokenAged, task, people, behind, undone, saved, overrun, signedOut>>

\* Who dies with an answer that is not stored yet loses it.
Holding(t) == task[t].pc \in {"store", "storeSession"}
Unstored(t) == <<task[t].key, IF task[t].pc = "store" THEN "token" ELSE "session">>

RefresherDies(m) ==
  /\ task[m].pc # "idle" /\ EventHappens
  /\ behind' = IF Holding(m) THEN behind \union {Unstored(m)} ELSE behind
  /\ End(m)
  /\ UNCHANGED <<machine, backend, people, undone, saved, overrun, signedOut>>

SignInDies ==
  /\ signIn = "save" /\ EventHappens
  /\ signIn' = "idle"
  /\ UNCHANGED <<machine, backend, task, logins, signOut>>
  /\ UNCHANGED <<behind, undone, saved, overrun, signedOut>>

SignOutDies ==
  /\ signOut.pc # "idle"
  /\ signOut' = [pc |-> "idle", key |-> 0]
  /\ UNCHANGED <<machine, backend, task, signIn, logins, history>>

StopRuntime ==
  /\ memory # 0 /\ EventHappens
  /\ memory' = 0
  /\ behind' = behind \union {Unstored(r) : r \in {q \in Requests : Holding(q)}}
  /\ task' = [t \in Tasks |-> IF t \in Requests THEN Idle ELSE task[t]]
  /\ UNCHANGED <<keychain, auth, backend, people, undone, saved, overrun, signedOut>>

StartRuntime ==
  /\ memory = 0 /\ auth # 0
  /\ memory' = auth
  /\ UNCHANGED <<keychain, auth, backend, task, people, history>>

-----------------------------------------------------------------------------
RequestStep(r) ==
  \/ ResolveToken(r) \/ ForceToken(r) \/ SaveConfig(r) \/ ResolveSession(r)
  \/ ForceSession(r) \/ Answer(r)

RefresherStep(m) == LoadCredential(m) \/ ReadConfig(m) \/ WriteConfig(m)

SharedStep(t) ==
  \/ TokenRotated(t) \/ TokenRefused(t) \/ RotationLost(t) \/ StoreToken(t)
  \/ SessionRenewed(t) \/ SessionRefused(t) \/ RenewalLost(t) \/ StoreSession(t)

Step(t) ==
  \/ t \in Requests /\ RequestStep(t)
  \/ t \in Refreshers /\ RefresherStep(t)
  \/ SharedStep(t)

People ==
  \/ BeginSignIn \/ SignInFails \/ StoreLogin \/ SaveLogin
  \/ BeginSignOut \/ DeleteCredential \/ SaveSignedOut

Environment ==
  \/ \E k \in Logins : TokenAges(k) \/ SessionAges(k)
  \/ \E m \in Refreshers : RefresherDies(m)
  \/ SignInDies \/ SignOutDies \/ StopRuntime \/ StartRuntime

Next ==
  \/ \E r \in Requests : Begin(r)
  \/ \E m \in Refreshers : ReadStatus(m)
  \/ \E t \in Tasks : Step(t)
  \/ People \/ Environment

\* Every await settles; nobody has to sign in, and nothing has to expire.
Fairness == \A t \in Tasks : WF_vars(Step(t))

Spec == Init /\ [][Next]_vars
FairSpec == Spec /\ Fairness

-----------------------------------------------------------------------------
(* Properties.                                                             *)

\* The record a task will store next.
Stores(t) == IF task[t].pc = "store" THEN task[t].cred ELSE task[t].held

\* The halves of a record that the code loses.
GivenUp(k, part) == <<k, part>> \in behind \/ (part = "token" /\ k \in undone)

\* However many tasks refresh at once, the stored credential keeps the newest
\* token and the newest session, or who was given one is about to store it.  A half
\* of it is given up in three ways only: its answer was lost, on its way or with the
\* task that waited to store it; the record was written, for the other half, by a task
\* that had read it before another one's write; and, of the token, a request that
\* refreshed its session put back the record it had loaded before its own rotation
\* (auth-token-provider.ts:208-218, 255-268), which takes no other task, only a token
\* that comes near its expiry after the headers had it.  Two tasks that rotate
\* one token, or renew one session, never cost it.
CredentialIsCurrent ==
  \A k \in Logins \ signedOut, part \in {"token", "session"} :
    keychain[k] # None /\ ~GivenUp(k, part) =>
      \/ keychain[k][part] = "newest"
      \/ \E t \in Tasks :
           Holding(t) /\ Unstored(t) = <<k, part>> /\ Stores(t)[part] = "newest"

\* What agent-config.json names can be found in the secure storage, and it is
\* the newest sign-in, unless somebody who had read the config of an earlier
\* one was still running when it was saved.
ConfigNamesLogin ==
  /\ auth \notin {0} \union signedOut => keychain[auth] # None
  /\ ~overrun /\ saved \notin signedOut => auth = saved

\* A request is over however often the backend refuses it, and so is a refresh.
TasksEnd == \A t \in Tasks : task[t].pc # "idle" ~> task[t].pc = "idle"
=============================================================================
