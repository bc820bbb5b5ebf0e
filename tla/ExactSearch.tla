----------------------------- MODULE ExactSearch -----------------------------
(***************************************************************************)
(* A head search with an exact pattern, once its head is resolved:         *)
(* the semantic search, then `rg` over the files it named, as a child      *)
(* process read line by line under a timeout, a limit of matches and a     *)
(* limit of output, then the merge of both (search-head-service.ts,        *)
(* local-rg-search-service.ts, local-rg-search-runner.ts,                  *)
(* search-result-merge.ts).  How the head is found is in HeadRequests.     *)
(***************************************************************************)
EXTENDS Integers, FiniteSets, Sequences, FiniteSetsExt

CONSTANTS
  Files, WideFiles,  \* the files, and those whose path is not all ASCII
  Garbled,           \* a path that is of no file, for it was decoded in two parts
  Outputs,      \* what `rg` would print, in the working trees there may be, for
                \* any set of files: a sequence of lines
  Responses,    \* what the semantic search may answer: sequences of items
  MaxMatches,   \* matches after which `rg` is stopped
  OutputLimit,  \* output after which `rg` is stopped, in half lines
  Limit,        \* items in an answer
  ContextLines

\* A line of output: a match, the context of one, or a match whose path or text `rg`
\* gives as bytes, for it is not UTF-8.
Line == [kind : {"match", "context", "bytes"}, file : Files \union {Garbled}, line : Nat]
\* A semantic item: lines first..last of a file, with a score in hundredths.
Item == [file : Files, first : Nat, last : Nat, score : 0..100]

ASSUME SearchAssumption ==
  /\ WideFiles \subseteq Files /\ Garbled \notin Files
  /\ Outputs \subseteq [SUBSET Files -> Seq(Line)] /\ Responses \subseteq Seq(Item)
  /\ {MaxMatches, OutputLimit, Limit} \subseteq Nat \ {0} /\ ContextLines \in Nat

VARIABLES
  request,  \* tags, the files its path filter lets through, and how the local
            \* search finds its input
  phase,    \* "semantic", "exact", "answered" or "failed"
  found,    \* the semantic items
  output,   \* the lines `rg` has to print, as the service decodes them
  rg,       \* the child process
  printed,  \* half lines it has written to its pipe
  reader,   \* the state of the run
  answer

exactVars == <<request, phase, found, output, rg, printed, reader, answer>>

\* Matches are known by their place in the output.
Reading == [received |-> 0, buffered |-> 0, parsed |-> 0, items |-> {},
            matchLimit |-> FALSE, outputLimit |-> FALSE, timedOut |-> FALSE]

ExactRequests == [tags : BOOLEAN, files : SUBSET Files,
             input : {"inside", "missing", "outside", "invalid"}]
NoAnswer == [matches |-> {}, truncated |-> FALSE, warning |-> FALSE]

ExactInit ==
  /\ request \in ExactRequests
  /\ phase = "semantic" /\ found = <<>> /\ output = <<>>
  /\ rg \in [state : {"none"}, sent : {"none"}, code : {"none"}, stubborn : BOOLEAN]
  /\ printed = 0 /\ reader = Reading
  /\ answer = NoAnswer

-----------------------------------------------------------------------------
(* The merge: a match is evidence for one semantic item of its file, the    *)
(* one it lies in before one near it before any other.                      *)

Inside(x, item) == item.first <= x.line /\ x.line <= item.last
Distance(x, item) ==
  IF Inside(x, item) THEN 0
  ELSE IF x.line < item.first THEN item.first - x.line ELSE x.line - item.last
Near(x, item) == Distance(x, item) <= ContextLines + 3
Priority(x, item) == IF Inside(x, item) THEN 0 ELSE IF Near(x, item) THEN 1 ELSE 2
Boost(x, item) == CASE Inside(x, item) -> 12 [] ~Inside(x, item) /\ Near(x, item) -> 6
                    [] OTHER -> 3

\* The order of two triples of numbers, at their first difference.
Before(s, t) ==
  \/ s[1] < t[1]
  \/ s[1] = t[1] /\ s[2] < t[2]
  \/ s[1] = t[1] /\ s[2] = t[2] /\ s[3] < t[3]

\* findBestSemanticEvidenceMatch, as the set of its index, or none.
BestItem(x, items) ==
  LET same == {i \in DOMAIN items : items[i].file = x.file}
      Key(i) == <<Priority(x, items[i]), Distance(x, items[i]), i>>
  IN {i \in same : \A j \in same \ {i} : Before(Key(i), Key(j))}

\* Items with the evidence of the matches: it raises the score and the rank.
Merged(items, matches) ==
  [i \in DOMAIN items |->
     LET mine == {k \in matches : i \in BestItem(output[k], items)}
         boost == Max({0} \union {Boost(output[k], items[i]) : k \in mine})
     IN [item |-> items[i], evidence |-> mine, score |-> Min({100, items[i].score + boost}),
         bucket |-> IF mine # {} THEN 0 ELSE IF items[i].score >= 75 THEN 2 ELSE 4]]

\* Bug: what evidence an item has does not count.
ByScore(m, i, place) == <<0, 100 - m[i].score, place>>

\* rankBucket, then the score, then the place among equals.
Rank(m, i, place) == <<m[i].bucket, 100 - m[i].score, place>>

SameKey(m, i, j) ==
  /\ m[i].item.file = m[j].item.file
  /\ m[i].item.first = m[j].item.first /\ m[i].item.last = m[j].item.last

\* dedupeExactItems: the best of the items with one key, at the place of the first.
Deduped(m) ==
  {i \in DOMAIN m : \A j \in DOMAIN m \ {i} :
     SameKey(m, i, j) => Before(Rank(m, i, i), Rank(m, j, j))}
Place(m, i) == Min({j \in DOMAIN m : SameKey(m, i, j)})

\* Without a match the items stay as they are.
Kept(m, matches) == IF matches = {} THEN DOMAIN m ELSE Deduped(m)
SortKey(m, matches, i) == IF matches = {} THEN <<0, 0, i>> ELSE Rank(m, i, Place(m, i))

\* sortRankedItems: those that come before i.
Ahead(m, matches, i) ==
  {j \in Kept(m, matches) : Before(SortKey(m, matches, j), SortKey(m, matches, i))}

\* The items with less than Limit others before them, each with how many these are.
MergeSearchResults(items, matches) ==
  LET m == Merged(items, matches)
      At(i) == Cardinality(Ahead(m, matches, i))
  IN [i \in {i \in Kept(m, matches) : At(i) < Limit} |->
        [item |-> m[i].item, evidence |-> m[i].evidence, at |-> At(i)]]

-----------------------------------------------------------------------------
(* The answer: `items` are what it shows, the rest is its `meta`.           *)

AnswerItems == MergeSearchResults(found, answer.matches)

Answer(matches, truncated, warning) ==
  /\ phase' = "answered"
  /\ answer' = [matches |-> matches, truncated |-> truncated, warning |-> warning]

\* collectSemanticExactSearchPaths: the files `rg` is given.
SearchPaths(items) == {items[i].file : i \in DOMAIN items} \intersect request.files

\* What isFatalLocalRgError lets through: validateInput or resolveScope threw. A
\* semantic answer can name too many files, or too long ones.
Fatal == request.input \in {"outside", "invalid"}

\* resolveScope: the path filter names something.
Searchable == request.input = "inside"

\* LocalRgSearchService.search among the named files that are not gone.
SearchLocally(paths, gone, tree) ==
  IF Fatal THEN phase' = "failed" /\ UNCHANGED <<answer, rg, output>>
  ELSE IF ~Searchable \/ paths \subseteq gone
  THEN Answer({}, FALSE, ~Searchable) /\ UNCHANGED <<rg, output>>
  ELSE /\ phase' = "exact" /\ rg' = [rg EXCEPT !.state = "running"]
       /\ output' = tree[paths \ gone]
       /\ UNCHANGED answer

\* The semantic search answers; `rg` is skipped for tags, for want of time, and
\* where no file is named.
SemanticAnswers ==
  /\ phase = "semantic"
  /\ \E items \in Responses, late \in BOOLEAN, gone \in SUBSET Files, tree \in Outputs :
       LET paths == SearchPaths(items)
           skipped == request.tags \/ (paths # {} /\ late)
       IN /\ found' = items
          /\ IF skipped \/ paths = {}
             THEN Answer({}, FALSE, skipped) /\ UNCHANGED <<rg, output>>
             ELSE SearchLocally(paths, gone, tree)
  /\ UNCHANGED <<request, printed, reader>>

\* The transport's error, or its timeout.
SemanticFails ==
  /\ phase = "semantic" /\ phase' = "failed"
  /\ UNCHANGED <<request, found, output, rg, printed, reader, answer>>

\* spawn fails, for want of `rg` as a rule.
StartFails ==
  /\ phase = "exact" /\ rg.state = "running" /\ printed = 0 /\ rg.sent = "none"
  /\ rg' = [rg EXCEPT !.state = "closed"]
  /\ Answer({}, FALSE, TRUE)
  /\ UNCHANGED <<request, found, output, printed, reader>>

-----------------------------------------------------------------------------
(* The child process.                                                       *)

Running == phase = "exact" /\ rg.state = "running"

\* The matches among the lines first..last that can be read: normalizeRgEvent passes
\* over one that is in bytes.
Matches(first, last) == {k \in first..last : output[k].kind = "match"}

WriteOutput ==
  /\ Running /\ printed < 2 * Len(output)
  /\ printed' = printed + 1
  /\ UNCHANGED <<request, phase, found, output, rg, reader, answer>>

\* Exit code 2 is an error, a file that cannot be read or a bad pattern, even
\* beside matches.
Finish ==
  /\ Running /\ printed = 2 * Len(output)
  /\ \E code \in {"2", IF \A k \in DOMAIN output : output[k].kind = "context"
                        THEN "1" ELSE "0"} :
       rg' = [rg EXCEPT !.state = "exited", !.code = code]
  /\ UNCHANGED <<request, phase, found, output, printed, reader, answer>>

\* A signal ends it: one of somebody else's, or the service's, whose SIGTERM may
\* be to no avail.
DieOf(signal) ==
  /\ Running
  /\ rg' = [rg EXCEPT !.state = "exited", !.code = "signal"]
  /\ UNCHANGED <<request, phase, found, output, printed, reader, answer>>

Killed == \/ rg.sent = "term" /\ ~rg.stubborn /\ DieOf("SIGTERM")
          \/ rg.sent = "kill" /\ DieOf("SIGKILL")

\* terminateProcess: once.
Terminate(p) == IF p.sent = "none" THEN [p EXCEPT !.sent = "term"] ELSE p

\* Bug: nothing follows the SIGTERM.
TermOnly == FALSE /\ UNCHANGED exactVars

\* 500 ms later.
Escalate ==
  /\ Running /\ rg.sent = "term"
  /\ rg' = [rg EXCEPT !.sent = "kill"]
  /\ UNCHANGED <<request, phase, found, output, printed, reader, answer>>

RgTimeout ==
  /\ phase = "exact" /\ ~reader.timedOut
  /\ reader' = [reader EXCEPT !.timedOut = TRUE]
  /\ rg' = Terminate(rg)
  /\ UNCHANGED <<request, phase, found, output, printed, answer>>

-----------------------------------------------------------------------------
(* The reader.                                                              *)

\* Lines up to the n-th, or until there are enough matches: then none but one
\* per chunk that still comes.  A context line adds to a preview only.
ConsumeLines(r, n) ==
  LET Upto(k) == r.items \union Matches(r.parsed + 1, k)
      enough == {k \in (r.parsed + 1)..n : Cardinality(Upto(k)) >= MaxMatches}
      last == Min({n} \union enough)
  IN [r EXCEPT !.parsed = last, !.items = Upto(last), !.matchLimit = @ \/ enough # {}]

\* Bug: the half line at the end of a chunk is not kept for the next one.
ConsumeChunkAlone ==
  /\ phase = "exact" /\ reader.received < printed
  /\ LET whole == printed \div 2
         torn == reader.received % 2 = 1
         start == [reader EXCEPT !.received = printed, !.buffered = printed,
                                 !.parsed = IF torn THEN @ + 1 ELSE @]
         next == IF start.parsed > whole THEN start ELSE ConsumeLines(start, whole)
         over == printed > OutputLimit
     IN /\ reader' = IF over THEN [reader EXCEPT !.received = printed, !.outputLimit = TRUE]
                     ELSE next
        /\ rg' = IF over \/ Cardinality(next.items) >= MaxMatches THEN Terminate(rg) ELSE rg
  /\ UNCHANGED <<request, phase, found, output, printed, answer>>

\* Each chunk is decoded on its own.  One that ends inside a character of a match's
\* path spoils the path: the match is of no file searched, or the globs of a search in
\* the docs do not let it through.
Decoded ==
  LET k == printed \div 2 + 1
  IN {output} \union
     IF printed % 2 = 1 /\ output[k].kind = "match" /\ output[k].file \in WideFiles
     THEN {[output EXCEPT ![k].file = Garbled], [output EXCEPT ![k].kind = "bytes"]}
     ELSE {}

\* All that is in the pipe; past the limit of output nothing is kept any more.
ConsumeStdoutChunk ==
  /\ phase = "exact" /\ reader.received < printed
  /\ LET over == printed > OutputLimit
         next == ConsumeLines([reader EXCEPT !.buffered = printed], printed \div 2)
     IN /\ reader' = IF over THEN [reader EXCEPT !.received = printed, !.outputLimit = TRUE]
                     ELSE [next EXCEPT !.received = printed]
        /\ rg' = IF over \/ Cardinality(next.items) >= MaxMatches THEN Terminate(rg) ELSE rg
        /\ output' \in IF over THEN {output} ELSE Decoded
  /\ UNCHANGED <<request, phase, found, printed, answer>>

\* What is left in the buffer parses if it is one line.
Rest(r) ==
  IF r.buffered = 2 * (r.parsed + 1) THEN r.items \union Matches(r.parsed + 1, r.parsed + 1)
  ELSE r.items

\* createCloseResult: the pipe is drained before `close` comes. An error leaves
\* the semantic items and a warning.
Close ==
  /\ phase = "exact" /\ rg.state = "exited" /\ reader.received = printed
  /\ LET items == Rest(reader)
         cut == reader.timedOut \/ reader.outputLimit \/ reader.matchLimit
         truncated == cut \/ rg.code = "signal"
         usable == rg.code \in {"0", "1"} \/ reader.matchLimit \/ (truncated /\ items # {})
     IN IF usable THEN Answer(items, truncated, cut)
        ELSE Answer({}, FALSE, TRUE)
  /\ rg' = [rg EXCEPT !.state = "closed"]
  /\ UNCHANGED <<request, found, output, printed, reader>>

Service == SemanticAnswers \/ SemanticFails \/ ConsumeStdoutChunk \/ Close
ExactNext ==
  \/ Service \/ StartFails
  \/ WriteOutput \/ Finish \/ DieOf("SIGSEGV") \/ Killed \/ Escalate \/ RgTimeout

\* The semantic search has a timeout of its own. `rg` may hang.
ExactFairness ==
  /\ WF_exactVars(Service) /\ WF_exactVars(RgTimeout)
  /\ WF_exactVars(Escalate) /\ WF_exactVars(Killed)

ExactSpec == ExactInit /\ [][ExactNext]_exactVars
FairExactSpec == ExactSpec /\ ExactFairness

-----------------------------------------------------------------------------
(* Properties.                                                              *)

\* A search keeps the types of its variables: half lines printed are half lines of
\* the output, and matches are lines of it.
ExactTypeOK ==
  /\ request \in ExactRequests
  /\ phase \in {"semantic", "exact", "answered", "failed"}
  /\ found \in Seq(Item) /\ output \in Seq(Line) /\ printed \in 0..(2 * Len(output))
  /\ rg \in [state : {"none", "running", "exited", "closed"}, sent : {"none", "term", "kill"},
            code : {"none", "0", "1", "2", "signal"}, stubborn : BOOLEAN]
  /\ reader \in [received : Nat, buffered : Nat, parsed : Nat, items : SUBSET Nat,
                 matchLimit : BOOLEAN, outputLimit : BOOLEAN, timedOut : BOOLEAN]
  /\ answer \in [matches : SUBSET DOMAIN output, truncated : BOOLEAN, warning : BOOLEAN]

\* An answer that has not all the readable matches of the files it searched says so;
\* the ones it has are the first ones, without a hole, wherever the output was cut
\* into chunks, stopped or killed.  What `rg` gives as bytes, and a path that a chunk's
\* end has spoiled, is not readable, and nothing is said of it (consumeStdoutChunk,
\* normalizeRgEvent, createCloseResult).
PartialIsSaid ==
  (phase = "answered" /\ rg.state = "closed") =>
    LET all == Matches(1, Len(output))
    IN /\ answer.matches \subseteq all
       /\ \A k \in answer.matches, j \in all : j < k => j \in answer.matches
       /\ ~answer.truncated /\ ~answer.warning => answer.matches = all

\* A match that lies in a semantic item is shown with an item it lies in, and
\* items with evidence stand before the others, unless the limit cuts both
\* (mergeSearchResults).
EvidenceIsShown ==
  phase = "answered" =>
    LET rows == AnswerItems
        shown == DOMAIN rows
        bare == {i \in shown : rows[i].evidence = {}}
    IN \A k \in answer.matches :
         (\E i \in DOMAIN found :
            found[i].file = output[k].file /\ Inside(output[k], found[i])) =>
           \/ \E i \in shown :
                /\ k \in rows[i].evidence /\ Inside(output[k], rows[i].item)
                /\ \A j \in bare : rows[i].at < rows[j].at
           \/ Cardinality(shown) = Limit /\ bare = {}

\* Every search with an exact pattern is answered or fails, though `rg` may hang
\* or ignore a SIGTERM.
SearchEnds == phase = "semantic" ~> phase \in {"answered", "failed"}
=============================================================================
