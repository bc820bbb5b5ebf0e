--------------------------- MODULE MCHeadRequests ---------------------------
(* Instances of HeadRequests for TLC.                                      *)
EXTENDS HeadRequests

\* A commit, a branch under another remote, and a detached HEAD.
MCTrees ==
  {[remote |-> "r1", branch |-> "main", commit |-> 1],
   [remote |-> "r1", branch |-> "main", commit |-> 2],
   [remote |-> "r2", branch |-> "topic", commit |-> 2],
   [remote |-> "r1", branch |-> None, commit |-> 1]}

MCLinked == [b \in Branches |-> IF b = "main" THEN 7 ELSE None]
MCFirstTree == CHOOSE t \in MCTrees : t.branch = "main" /\ t.commit = 1

MCRequests == {[branch |-> "main", repoBranch |-> 7], [branch |-> None, repoBranch |-> 7]}
=============================================================================
