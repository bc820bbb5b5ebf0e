---------------------------- MODULE MCExactSearch ----------------------------
(* An instance of ExactSearch for TLC.                                     *)
EXTENDS ExactSearch, SequencesExt

MCFiles == {"f", "g"}
M(file, line) == [kind |-> "match", file |-> file, line |-> line]
C(file, line) == [kind |-> "context", file |-> file, line |-> line]

B(file, line) == [kind |-> "bytes", file |-> file, line |-> line]

\* Nothing, one match between two context lines, three matches in one file, two
\* files, of which one has a path that is not ASCII, and a line that is not UTF-8.
Trees ==
  {<<>>, <<C("f", 4), M("f", 5), C("f", 6)>>,
   <<M("f", 2), C("f", 3), C("f", 11), M("f", 12), M("f", 13)>>,
   <<M("f", 5), M("g", 1), C("g", 2), M("g", 30)>>,
   <<B("f", 3), M("g", 2), M("f", 5)>>}
MCOutputs ==
  {[S \in SUBSET MCFiles |-> SelectSeq(tree, LAMBDA x : x.file \in S)] : tree \in Trees}

I(file, first, last, score) ==
  [file |-> file, first |-> first, last |-> last, score |-> score]

\* No item, items that overlap or repeat, and a good one without a match.
MCResponses ==
  {<<>>, <<I("g", 8, 9, 90), I("f", 1, 6, 40), I("f", 5, 20, 40)>>,
   <<I("f", 1, 20, 30), I("f", 1, 20, 80), I("g", 1, 3, 60)>>}
=============================================================================
