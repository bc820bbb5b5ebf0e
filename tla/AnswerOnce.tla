------------------------------ MODULE AnswerOnce ------------------------------
(***************************************************************************)
(* What the runtime's idempotency records promise a caller: a key has one  *)
(* answer from when it is decided until the record is forgotten, and a     *)
(* call either gets the answer of its key or no answer of the task at all. *)
(***************************************************************************)
CONSTANTS Calls, Keys, Answers, KeyOf, None, NoAnswer

VARIABLES
  decided, \* the answer of a key, or None
  given    \* what a call was told: an answer, NoAnswer, or None yet

Init ==
  /\ decided = [k \in Keys |-> None]
  /\ given = [c \in Calls |-> None]

Decide(k, a) ==
  /\ decided[k] = None
  /\ decided' = [decided EXCEPT ![k] = a]
  /\ UNCHANGED given

Forget(k) ==
  /\ decided' = [decided EXCEPT ![k] = None]
  /\ UNCHANGED given

Give(c) ==
  /\ given[c] = None /\ decided[KeyOf[c]] # None
  /\ given' = [given EXCEPT ![c] = decided[KeyOf[c]]]
  /\ UNCHANGED decided

\* A set of calls at once: those a dying process leaves without an answer.
Refuse(C) ==
  /\ \A c \in C : given[c] = None
  /\ given' = [c \in Calls |-> IF c \in C THEN NoAnswer ELSE given[c]]
  /\ UNCHANGED decided

Next ==
  \/ \E k \in Keys : Forget(k) \/ \E a \in Answers : Decide(k, a)
  \/ \E c \in Calls : Give(c)
  \/ \E C \in SUBSET Calls : Refuse(C)

Spec == Init /\ [][Next]_<<decided, given>>
=============================================================================
