---------------------------- MODULE MCProjectSync ----------------------------
(* Instances of ProjectSync for TLC.                                       *)
EXTENDS ProjectSync

\* Three attachments: r1 is attached twice, the second time on another branch.
MCRevisionOf == [a \in Attachments |-> IF a = 2 THEN "r2" ELSE "r1"]
MCBranchOf == [a \in Attachments |-> IF a = 3 THEN "feature" ELSE "main"]
\* r1 has two files, r2 one of them; with one target all carry its artifact.
MCFilesOf == [r \in Revisions |-> IF r = "r1" THEN Files ELSE {"f1"}]
MCTargetOf == [f \in Files |-> "code"]
=============================================================================
