------------------------- MODULE WorkspaceInitProofs -------------------------
(***************************************************************************)
(* The safety properties of WorkspaceInit hold for any hosts, clients,     *)
(* command lines and file contents.  They are proved together: the locals  *)
(* of the command are what it read while nobody edits the files, the agent *)
(* is signed in before the first file is written, every file the command   *)
(* is through with holds an entry of one form, and a command that asks for *)
(* the same finds that form and leaves it alone.  The Codex file is a      *)
(* sequence of sections: a first part shows what replacing a block keeps.  *)
(***************************************************************************)
EXTENDS WorkspaceInit, FiniteSetTheorems, SequenceTheorems, WellFoundedInduction, TLAPS

-----------------------------------------------------------------------------
(* What the command has put in a file when it is through with it.          *)

\* The commands it leaves in an entry.
Kept(force, package) == IF force THEN {package} ELSE {package, "gen", "older"}

\* A generated block at r, and no other section of grepmind around it.
BlockStands(toml, r, cmd, env) ==
  /\ RootSections(toml) = {r}
  /\ toml[r] = [name |-> "root", val |-> cmd, tuned |-> env.tuned, tidy |-> TRUE]
  /\ toml[r + 1] = [name |-> "env", val |-> env.host, tuned |-> env.tuned, tidy |-> TRUE]
  /\ r + 1 < Len(toml) => ~OfGrepmind(toml[r + 2])

EntryStands(a, content, host, tuned, force, package) ==
  \E cmd \in Kept(force, package) :
    IF a = "codex"
    THEN /\ content \in Seq(Section)
         /\ \E r \in 1 .. (Len(content) - 1) :
              BlockStands(content, r, cmd, GeneratedEnv(host, tuned))
    ELSE /\ content \in Json /\ content.tidy
         /\ content.entry = [cmd |-> cmd, env |-> GeneratedEnv(host, tuned), extra |-> FALSE]

ProjectStands(host) ==
  /\ disk["project"] \in Project
  /\ disk["project"].host = host
  /\ ~disk["project"].extra /\ disk["project"].tidy

-----------------------------------------------------------------------------
(* The inductive invariant.                                                *)

Signing == {"auth", "askLogin", "login", "ready", "register"}
Writing == {"decide", "askReplace", "write"}

\* The locals of the command.
Locals ==
  /\ run.pc = "idle" => run = Rest
  /\ run.pc # "idle" => run.inv \in Invocation /\ run.host \in Hosts
  /\ run.pc \in Signing \cup {"project"} \cup Writing =>
       run.todo # <<>> /\ Range(run.todo) \subseteq run.all
  /\ run.pc \in Signing \cup {"project"} => run.all \subseteq Range(run.todo)
  /\ run.pc \in Signing => ~run.inv.dryRun
  /\ run.wrote => run.pc \in Writing /\ ~run.inv.dryRun

\* The agent before the first file is written.
Signed ==
  /\ run.pc = "ready" => agentHost \in {None, run.host}
  /\ run.pc = "register" => agentHost = run.host
  /\ run.pc \in {"project"} \cup Writing /\ ~run.inv.dryRun =>
       agentHost = run.host /\ registered # None
  /\ run.pc # "idle" /\ ~run.moved => {registered, runtimeHost} \subseteq {None, run.host}

\* What the command has read is what the file holds while nobody edits it.
AsRead ==
  /\ run.pc \in {"confirm", "select", "project"} \cup Signing /\ "project" \in fresh =>
       disk["project"] = run.read
  /\ run.pc \in {"askReplace", "write"} =>
       LET a == Head(run.todo)
       IN /\ run.seen = None \/ run.seen \in Content(a)
          /\ a \in fresh => disk[a] = run.seen

\* Why it writes the command it has decided on.
Decided ==
  LET a == Head(run.todo)
      cmd == EntryCommand(a, run.seen)
  IN /\ run.pc = "askReplace" => ~run.inv.force /\ cmd \notin Recognized
     /\ run.pc = "write" =>
          \/ /\ run.cmd = run.inv.package
             /\ run.inv.force \/ cmd \notin Recognized
             /\ cmd = None \/ MayReplace(a) \/ run.consent
          \/ /\ run.cmd = PreservedCommand(cmd)
             /\ ~run.inv.force /\ cmd \in Recognized

\* The files the command is through with.
Done ==
  run.pc \in Writing /\ ~run.inv.dryRun =>
    /\ "project" \in fresh => ProjectStands(run.host)
    /\ \A a \in (run.all \ Range(run.todo)) \intersect fresh :
         EntryStands(a, disk[a], run.host, run.inv.tuned, run.inv.force, run.inv.package)

\* A command that asks for what the last one has configured.
Again == run.pc # "idle" /\ run.host = settled.host /\ SameFlags

\* What the last successful command has configured.
Stands ==
  settled # None =>
    /\ run.pc # "idle" => fresh = Files
    /\ agentHost = settled.host
    /\ ~settled.moved => registered = settled.host /\ runtimeHost \in {None, settled.host}
    /\ ProjectStands(settled.host)
    /\ ~run.wrote \/ Again =>
         \A a \in settled.agents :
           EntryStands(a, disk[a], settled.host, settled.tuned, settled.force, settled.package)

IInv == TypeOK /\ Locals /\ Signed /\ AsRead /\ Decided /\ Done /\ Stands
-----------------------------------------------------------------------------
(* The sections of a Codex file.                                           *)

\* A set of naturals that is not empty has a least element, which Min is.
LEMMA MinIsLeast ==
  ASSUME NEW S \in SUBSET Nat, S # {}
  PROVE  Min(S) \in S /\ \A b \in S : Min(S) <= b
<1> DEFINE Less == OpToRel(<, Nat)
<1>1. IsWellFoundedOn(Less, Nat)
  BY NatLessThanWellFounded
<1> HIDE DEF Less
<1>2. PICK a \in S : \A b \in S : ~(<<b, a>> \in Less)
  BY <1>1, WFMin
<1>3. \A b \in S : ~(b < a)
  BY <1>2 DEF Less, OpToRel
<1>4. \A b \in S : a <= b
  <2>1. S \subseteq Nat
    OBVIOUS
  <2> QED
    BY <1>3, <2>1
<1>5. \E c \in S : \A b \in S : c <= b
  BY <1>4
<1> QED
  BY <1>5, Zenon DEF Min

\* What a sequence is with the part from r to e replaced by another one.
Splice(s, r, e, b) == SubSeq(s, 1, r - 1) \o b \o SubSeq(s, e + 1, Len(s))

\* Where the elements of a spliced sequence t come from.
IsSplice(t, s, r, e, b) ==
  /\ Len(t) = (r - 1) + Len(b) + (Len(s) - e)
  /\ \A i \in 1 .. (r - 1) : t[i] = s[i]
  /\ \A i \in 1 .. Len(b) : t[r - 1 + i] = b[i]
  /\ \A i \in (e + 1) .. Len(s) : t[i - e + (r - 1) + Len(b)] = s[i]

\* A spliced sequence holds its parts in their order.
LEMMA SpliceProperties ==
  ASSUME NEW S, NEW s \in Seq(S), NEW b \in Seq(S),
         NEW r \in 1 .. (Len(s) + 1), NEW e \in (r - 1) .. Len(s)
  PROVE  /\ Splice(s, r, e, b) \in Seq(S)
         /\ IsSplice(Splice(s, r, e, b), s, r, e, b)
<1> DEFINE x == SubSeq(s, 1, r - 1)
           y == SubSeq(s, e + 1, Len(s))
<1>0. Len(s) \in Nat /\ Len(b) \in Nat
  OBVIOUS
<1>1. x \in Seq(S) /\ Len(x) = r - 1 /\ \A i \in 1 .. (r - 1) : x[i] = s[i]
  <2>1. \A i \in 1 .. (r - 1) : s[i] \in S
    BY <1>0, ElementOfSeq
  <2>2. 1 \in Int /\ r - 1 \in Int
    BY <1>0
  <2>3. /\ SubSeq(s, 1, r - 1) \in Seq(S)
        /\ Len(SubSeq(s, 1, r - 1)) = IF 1 <= r - 1 THEN (r - 1) - 1 + 1 ELSE 0
        /\ \A i \in 1 .. (r - 1) - 1 + 1 : SubSeq(s, 1, r - 1)[i] = s[1 + i - 1]
    BY <2>1, <2>2, SubSeqProperties
  <2> QED
    BY <1>0, <2>3
<1>2. y \in Seq(S) /\ Len(y) = Len(s) - e /\ \A i \in 1 .. (Len(s) - e) : y[i] = s[e + i]
  <2>1. \A i \in (e + 1) .. Len(s) : s[i] \in S
    BY <1>0, ElementOfSeq
  <2>2. e + 1 \in Int /\ Len(s) \in Int
    BY <1>0
  <2>3. /\ SubSeq(s, e + 1, Len(s)) \in Seq(S)
        /\ Len(SubSeq(s, e + 1, Len(s))) =
             IF e + 1 <= Len(s) THEN Len(s) - (e + 1) + 1 ELSE 0
        /\ \A i \in 1 .. Len(s) - (e + 1) + 1 :
             SubSeq(s, e + 1, Len(s))[i] = s[(e + 1) + i - 1]
    BY <2>1, <2>2, SubSeqProperties
  <2> QED
    BY <1>0, <2>3
<1> HIDE DEF x, y
<1> DEFINE xb == x \o b
<1>3. /\ xb \in Seq(S) /\ Len(xb) = (r - 1) + Len(b)
      /\ \A i \in 1 .. ((r - 1) + Len(b)) :
           xb[i] = IF i <= r - 1 THEN x[i] ELSE b[i - (r - 1)]
  <2>1. /\ x \o b \in Seq(S) /\ Len(x \o b) = Len(x) + Len(b)
        /\ \A i \in 1 .. Len(x) + Len(b) :
             (x \o b)[i] = IF i <= Len(x) THEN x[i] ELSE b[i - Len(x)]
    BY <1>1, ConcatProperties
  <2> QED
    BY <1>1, <2>1
<1> HIDE DEF xb
<1>4. /\ xb \o y \in Seq(S)
      /\ Len(xb \o y) = (r - 1) + Len(b) + (Len(s) - e)
      /\ \A i \in 1 .. ((r - 1) + Len(b) + (Len(s) - e)) :
           (xb \o y)[i] = IF i <= (r - 1) + Len(b) THEN xb[i]
                          ELSE y[i - ((r - 1) + Len(b))]
  <2>1. /\ xb \o y \in Seq(S) /\ Len(xb \o y) = Len(xb) + Len(y)
        /\ \A i \in 1 .. Len(xb) + Len(y) :
             (xb \o y)[i] = IF i <= Len(xb) THEN xb[i] ELSE y[i - Len(xb)]
    BY <1>2, <1>3, ConcatProperties
  <2> QED
    BY <1>2, <1>3, <2>1
<1>5. Splice(s, r, e, b) = xb \o y
  BY DEF Splice, x, y, xb
<1>6. \A i \in 1 .. (r - 1) : Splice(s, r, e, b)[i] = s[i]
  <2> SUFFICES ASSUME NEW i \in 1 .. (r - 1)
               PROVE  Splice(s, r, e, b)[i] = s[i]
    OBVIOUS
  <2>1. /\ i \in 1 .. ((r - 1) + Len(b)) /\ i <= r - 1 /\ i <= (r - 1) + Len(b)
        /\ i \in 1 .. ((r - 1) + Len(b) + (Len(s) - e))
    BY <1>0
  <2>2. (xb \o y)[i] = xb[i]
    BY <1>4, <2>1
  <2>3. xb[i] = x[i]
    BY <1>3, <2>1
  <2>4. x[i] = s[i]
    BY <1>1
  <2> QED
    BY <1>5, <2>2, <2>3, <2>4
<1>7. \A i \in 1 .. Len(b) : Splice(s, r, e, b)[r - 1 + i] = b[i]
  <2> SUFFICES ASSUME NEW i \in 1 .. Len(b)
               PROVE  Splice(s, r, e, b)[r - 1 + i] = b[i]
    OBVIOUS
  <2> DEFINE k == r - 1 + i
  <2>1. /\ k \in 1 .. ((r - 1) + Len(b)) /\ ~(k <= r - 1) /\ k <= (r - 1) + Len(b)
        /\ k \in 1 .. ((r - 1) + Len(b) + (Len(s) - e)) /\ k - (r - 1) = i
    BY <1>0
  <2>2. (xb \o y)[k] = xb[k]
    BY <1>4, <2>1
  <2>3. xb[k] = b[k - (r - 1)]
    BY <1>3, <2>1
  <2> QED
    BY <1>5, <2>1, <2>2, <2>3
<1>8. \A i \in (e + 1) .. Len(s) : Splice(s, r, e, b)[i - e + (r - 1) + Len(b)] = s[i]
  <2> SUFFICES ASSUME NEW i \in (e + 1) .. Len(s)
               PROVE  Splice(s, r, e, b)[i - e + (r - 1) + Len(b)] = s[i]
    OBVIOUS
  <2> DEFINE k == i - e + (r - 1) + Len(b)
  <2>1. /\ k \in 1 .. ((r - 1) + Len(b) + (Len(s) - e)) /\ ~(k <= (r - 1) + Len(b))
        /\ k - ((r - 1) + Len(b)) = i - e /\ i - e \in 1 .. (Len(s) - e) /\ e + (i - e) = i
    BY <1>0
  <2>2. (xb \o y)[k] = y[i - e]
    BY <1>4, <2>1
  <2>3. y[i - e] = s[i]
    BY <1>2, <2>1
  <2> QED
    BY <1>5, <2>2, <2>3
<1> QED
  BY <1>4, <1>5, <1>6, <1>7, <1>8 DEF IsSplice

\* The places of a file are pairs of numbers, and None is not one.
LEMMA PlaceIsSomething == ASSUME NEW i \in Nat, NEW j \in Nat PROVE <<i, j>> # None
BY NothingAssumption DEF NothingAssumption

\* The root section of a file that init does not refuse is one.
LEMMA OneRoot ==
  ASSUME NEW toml \in Seq(Section), ~AmbiguousBlock(toml), RootSections(toml) # {}
  PROVE  \E r \in 1 .. Len(toml) : RootSections(toml) = {r}
<1>1. RootSections(toml) \subseteq 1 .. Len(toml) /\ Len(toml) \in Nat
  BY DEF RootSections
<1>2. IsFiniteSet(1 .. Len(toml))
  BY <1>1, FS_Interval
<1>3. IsFiniteSet(RootSections(toml))
  BY <1>1, <1>2, FS_Subset
<1>4. Cardinality(RootSections(toml)) \in Nat /\ Cardinality(RootSections(toml)) # 0
  BY <1>3, FS_CardinalityType, FS_EmptySet
<1>5. ~(Cardinality(RootSections(toml)) > 1)
  BY DEF AmbiguousBlock
<1>6. Cardinality(RootSections(toml)) = 1
  BY <1>4, <1>5
<1>7. PICK r : RootSections(toml) = {r}
  BY <1>3, <1>6, FS_Singleton
<1> QED
  BY <1>1, <1>7

\* The block begins at the root and goes on to the next unrelated section.
LEMMA BlockPlaces ==
  ASSUME NEW toml \in Seq(Section), NEW r \in 1 .. Len(toml), RootSections(toml) = {r}
  PROVE  \E e \in r .. Len(toml) :
           /\ FindGrepmindBlock(toml) = <<r, e>>
           /\ \A i \in r .. e : OfGrepmind(toml[i])
           /\ e < Len(toml) => ~OfGrepmind(toml[e + 1])
<1> DEFINE after == {i \in DOMAIN toml : i > r /\ ~OfGrepmind(toml[i])}
           e == IF after = {} THEN Len(toml) ELSE Min(after) - 1
<1>0. Len(toml) \in Nat /\ DOMAIN toml = 1 .. Len(toml)
  OBVIOUS
<1>1. FindGrepmindBlock(toml) = <<r, e>>
  <2>1. (CHOOSE i \in RootSections(toml) : TRUE) = r
    OBVIOUS
  <2> QED
    BY <2>1 DEF FindGrepmindBlock
<1>2. OfGrepmind(toml[r])
  BY DEF RootSections, OfGrepmind
<1>3. CASE after = {}
  <2>1. e = Len(toml)
    BY <1>3
  <2>2. ASSUME NEW i \in r .. Len(toml)
        PROVE  OfGrepmind(toml[i])
    BY <1>0, <1>2, <1>3
  <2>3. Len(toml) \in r .. Len(toml) /\ ~(Len(toml) < Len(toml))
    BY <1>0
  <2>4. FindGrepmindBlock(toml) = <<r, Len(toml)>>
    BY <1>1, <2>1
  <2> QED
    BY <2>2, <2>3, <2>4, Zenon
<1>4. CASE after # {}
  <2>1. Min(after) \in after /\ \A b \in after : Min(after) <= b
    <3>1. after \in SUBSET Nat
      BY <1>0
    <3> HIDE DEF after
    <3> QED
      BY <1>4, <3>1, MinIsLeast
  <2>2. e \in r .. Len(toml) /\ e + 1 = Min(after)
    BY <1>0, <1>4, <2>1
  <2>3. ~OfGrepmind(toml[e + 1])
    BY <2>1, <2>2
  <2>4. ASSUME NEW i \in r .. e
        PROVE  OfGrepmind(toml[i])
    <3>1. i \in DOMAIN toml /\ i < Min(after)
      BY <1>0, <2>1, <2>2
    <3>2. ASSUME i \in after
          PROVE  FALSE
      <4>1. Min(after) <= i /\ Min(after) \in Nat /\ i \in Nat
        BY <1>0, <2>1, <3>1, <3>2
      <4> HIDE DEF after
      <4> QED
        BY <3>1, <4>1
    <3> QED
      BY <1>0, <1>2, <3>1, <3>2
  <2> HIDE DEF e
  <2> QED
    BY <1>1, <2>2, <2>3, <2>4
<1> QED
  BY <1>3, <1>4

\* A file init does not refuse is spliced: all that is replaced is of grepmind, the
\* root with it, and what follows is not.
LEMMA ReplaceSplices ==
  ASSUME NEW toml \in Seq(Section), ~AmbiguousBlock(toml), NEW block \in Seq(Section)
  PROVE  \E r \in 1 .. (Len(toml) + 1) : \E e \in (r - 1) .. Len(toml) :
           /\ ReplaceGrepmindBlock(toml, block) = Splice(toml, r, e, block)
           /\ RootSections(toml) \subseteq r .. e
           /\ \A i \in r .. e : OfGrepmind(toml[i])
           /\ e < Len(toml) => ~OfGrepmind(toml[e + 1])
<1>0. Len(toml) \in Nat
  OBVIOUS
<1>1. CASE RootSections(toml) = {}
  <2>1. FindGrepmindBlock(toml) = None
    BY <1>1 DEF FindGrepmindBlock
  <2>2. SubSeq(toml, 1, Len(toml)) = toml /\ SubSeq(toml, Len(toml) + 1, Len(toml)) = <<>>
    BY <1>0, SubSeqFull, SubSeqEmpty
  <2>3. toml \o block \in Seq(Section)
    BY ConcatProperties
  <2>4. Splice(toml, Len(toml) + 1, Len(toml), block) = (toml \o block) \o <<>>
    <3>1. (Len(toml) + 1) - 1 = Len(toml)
      BY <1>0
    <3> QED
      BY <2>2, <3>1 DEF Splice
  <2>5. (toml \o block) \o <<>> = toml \o block
    BY <2>3, ConcatEmptySeq
  <2>6. ReplaceGrepmindBlock(toml, block) = toml \o block
    BY <2>1 DEF ReplaceGrepmindBlock
  <2>7. /\ Len(toml) + 1 \in 1 .. (Len(toml) + 1)
        /\ Len(toml) \in ((Len(toml) + 1) - 1) .. Len(toml)
        /\ (Len(toml) + 1) .. Len(toml) = {}
    BY <1>0
  <2> QED
    <3>1. Splice(toml, Len(toml) + 1, Len(toml), block) = ReplaceGrepmindBlock(toml, block)
      BY <2>4, <2>5, <2>6
    <3> QED
      BY <1>0, <1>1, <2>7, <3>1
<1>2. CASE RootSections(toml) # {}
  <2>1. PICK r \in 1 .. Len(toml) : RootSections(toml) = {r}
    BY <1>2, OneRoot
  <2>2. PICK e \in r .. Len(toml) :
          /\ FindGrepmindBlock(toml) = <<r, e>>
          /\ \A i \in r .. e : OfGrepmind(toml[i])
          /\ e < Len(toml) => ~OfGrepmind(toml[e + 1])
    BY <2>1, BlockPlaces
  <2>3. ReplaceGrepmindBlock(toml, block) = Splice(toml, r, e, block)
    <3>1. <<r, e>> # None
      BY <1>0, PlaceIsSomething
    <3>2. /\ FindGrepmindBlock(toml) # None
          /\ FindGrepmindBlock(toml)[1] = r /\ FindGrepmindBlock(toml)[2] = e
      BY <2>2, <3>1
    <3> QED
      BY <3>2, Zenon DEF ReplaceGrepmindBlock, Splice
  <2>4. r \in 1 .. (Len(toml) + 1) /\ e \in (r - 1) .. Len(toml) /\ r \in r .. e
    BY <1>0
  <2> QED
    BY <2>1, <2>2, <2>3, <2>4
<1> QED
  BY <1>1, <1>2

\* What the command writes between the other sections.
LEMMA RenderedBlock ==
  ASSUME NEW cmd \in {"gen", "older", "custom"}, NEW env \in Env, env.host \in Hosts
  PROVE  LET block == RenderGrepmindBlock(cmd, env)
         IN /\ block \in Seq(Section) /\ Len(block) = 2
            /\ block[1] = [name |-> "root", val |-> cmd, tuned |-> env.tuned, tidy |-> TRUE]
            /\ block[2] = [name |-> "env", val |-> env.host, tuned |-> env.tuned,
                           tidy |-> TRUE]
<1> DEFINE root == [name |-> "root", val |-> cmd, tuned |-> env.tuned, tidy |-> TRUE]
           sub == [name |-> "env", val |-> env.host, tuned |-> env.tuned, tidy |-> TRUE]
<1>1. root \in Section /\ sub \in Section
  BY DEF Section, Commands, Env
<1> HIDE DEF root, sub
<1>2. /\ <<root, sub>> \in Seq(Section) /\ Len(<<root, sub>>) = 2
      /\ <<root, sub>>[1] = root /\ <<root, sub>>[2] = sub
  BY <1>1
<1> QED
  BY <1>2, Zenon DEF RenderGrepmindBlock, root, sub

\* After a write the block stands alone, and all the other sections are there.
LEMMA ReplacedBlock ==
  ASSUME NEW toml \in Seq(Section), ~AmbiguousBlock(toml),
         NEW cmd \in {"gen", "older", "custom"}, NEW env \in Env, env.host \in Hosts
  PROVE  LET new == ReplaceGrepmindBlock(toml, RenderGrepmindBlock(cmd, env))
         IN /\ new \in Seq(Section)
            /\ \E r \in 1 .. (Len(new) - 1) : BlockStands(new, r, cmd, env)
            /\ SameOthers(toml, new)
<1> DEFINE block == RenderGrepmindBlock(cmd, env)
           new == ReplaceGrepmindBlock(toml, block)
<1>0. Len(toml) \in Nat
  OBVIOUS
<1>1. /\ block \in Seq(Section) /\ Len(block) = 2
      /\ block[1] = [name |-> "root", val |-> cmd, tuned |-> env.tuned, tidy |-> TRUE]
      /\ block[2] = [name |-> "env", val |-> env.host, tuned |-> env.tuned, tidy |-> TRUE]
  BY RenderedBlock
<1> HIDE DEF block
<1>2. PICK r \in 1 .. (Len(toml) + 1) : \E e \in (r - 1) .. Len(toml) :
        /\ new = Splice(toml, r, e, block)
        /\ RootSections(toml) \subseteq r .. e
        /\ \A i \in r .. e : OfGrepmind(toml[i])
        /\ e < Len(toml) => ~OfGrepmind(toml[e + 1])
  BY <1>1, ReplaceSplices
<1>3. PICK e \in (r - 1) .. Len(toml) :
        /\ new = Splice(toml, r, e, block)
        /\ RootSections(toml) \subseteq r .. e
        /\ \A i \in r .. e : OfGrepmind(toml[i])
        /\ e < Len(toml) => ~OfGrepmind(toml[e + 1])
  BY <1>2
<1> DEFINE At(i) == IF i < r THEN i ELSE i - e + (r - 1) + 2
<1>4. new \in Seq(Section) /\ IsSplice(new, toml, r, e, block)
  BY <1>1, <1>3, SpliceProperties
<1> HIDE DEF new
<1>5. Len(new) = (r + 1) + (Len(toml) - e)
  BY <1>0, <1>1, <1>4 DEF IsSplice
<1>6. \A i \in 1 .. (r - 1) : new[i] = toml[i]
  BY <1>4 DEF IsSplice
<1>7. new[r] = block[1] /\ new[r + 1] = block[2]
  <2>1. 1 \in 1 .. Len(block) /\ 2 \in 1 .. Len(block) /\ r - 1 + 1 = r /\ r - 1 + 2 = r + 1
    BY <1>1
  <2> QED
    BY <1>4, <2>1 DEF IsSplice
<1>8. \A i \in (e + 1) .. Len(toml) : new[i - e + (r - 1) + 2] = toml[i]
  BY <1>1, <1>4 DEF IsSplice
<1>9. \A k \in (r + 2) .. Len(new) :
        /\ k - (r + 1) + e \in (e + 1) .. Len(toml)
        /\ new[k] = toml[k - (r + 1) + e]
  <2> SUFFICES ASSUME NEW k \in (r + 2) .. Len(new)
               PROVE  /\ k - (r + 1) + e \in (e + 1) .. Len(toml)
                      /\ new[k] = toml[k - (r + 1) + e]
    OBVIOUS
  <2>1. /\ k - (r + 1) + e \in (e + 1) .. Len(toml)
        /\ (k - (r + 1) + e) - e + (r - 1) + 2 = k
    BY <1>0, <1>5
  <2> QED
    BY <1>8, <2>1
<1>10. /\ new[r].name = "root" /\ new[r + 1].name = "env"
       /\ OfGrepmind(new[r]) /\ OfGrepmind(new[r + 1])
  BY <1>1, <1>7 DEF OfGrepmind
<1>11. r \in 1 .. (Len(new) - 1) /\ r + 1 \in 1 .. Len(new)
  BY <1>0, <1>5
<1>12. RootSections(new) = {r}
  <2>1. \A i \in 1 .. Len(toml) : toml[i].name = "root" => i \in r .. e
    BY <1>3 DEF RootSections
  <2>2. ASSUME NEW i \in 1 .. Len(new), new[i].name = "root"
        PROVE  i = r
    <3>1. CASE i < r
      BY <1>0, <1>6, <2>1, <2>2, <3>1
    <3>2. CASE i = r + 1
      BY <1>10, <2>2, <3>2
    <3>3. CASE i > r + 1
      BY <1>0, <1>9, <2>1, <2>2, <3>3
    <3> QED
      BY <3>1, <3>2, <3>3
  <2> QED
    BY <1>4, <1>10, <1>11, <2>2 DEF RootSections
<1>13. BlockStands(new, r, cmd, env)
  <2>1. r + 1 < Len(new) => ~OfGrepmind(new[r + 2])
    <3> SUFFICES ASSUME r + 1 < Len(new)
                 PROVE  ~OfGrepmind(new[r + 2])
      OBVIOUS
    <3>1. r + 2 \in (r + 2) .. Len(new) /\ (r + 2) - (r + 1) + e = e + 1 /\ e < Len(toml)
      BY <1>0, <1>5
    <3> QED
      BY <1>3, <1>9, <3>1
  <2> QED
    BY <1>1, <1>7, <1>12, <2>1 DEF BlockStands
<1>14. SameOthers(toml, new)
  <2> DEFINE f == [i \in Others(toml) |-> At(i)]
  <2>1. \A i \in Others(toml) :
          /\ i \in 1 .. Len(toml) /\ ~OfGrepmind(toml[i])
          /\ i < r \/ i > e
    BY <1>0, <1>3 DEF Others
  <2>2. ASSUME NEW i \in Others(toml)
        PROVE  At(i) \in 1 .. Len(new) /\ new[At(i)] = toml[i]
    <3>1. CASE i < r
      <4>1. At(i) = i
        BY <3>1
      <4>2. i \in 1 .. (r - 1) /\ i \in 1 .. Len(new)
        BY <1>0, <1>5, <2>1, <3>1
      <4> QED
        BY <1>6, <4>1, <4>2
    <3>2. CASE ~(i < r)
      <4>1. At(i) = i - e + (r - 1) + 2
        BY <3>2
      <4>2. i \in (e + 1) .. Len(toml) /\ i - e + (r - 1) + 2 \in 1 .. Len(new)
        <5>1. i \in 1 .. Len(toml) /\ i > e
          BY <2>1, <3>2
        <5> QED
          BY <1>0, <1>5, <5>1
      <4> QED
        BY <1>8, <4>1, <4>2
    <3> QED
      BY <3>1, <3>2
  <2>3. \A i \in Others(toml) : At(i) \in Others(new)
    BY <1>5, <2>1, <2>2 DEF Others
  <2>4. ASSUME NEW k \in Others(new)
        PROVE  \E i \in Others(toml) : At(i) = k
    <3>1. k \in 1 .. Len(new) /\ ~OfGrepmind(new[k]) /\ k # r /\ k # r + 1
      BY <1>5, <1>10, <2>4 DEF Others
    <3>2. CASE k < r
      <4>1. k \in 1 .. Len(toml) /\ new[k] = toml[k]
        BY <1>0, <1>6, <3>1, <3>2
      <4> QED
        BY <3>1, <3>2, <4>1 DEF Others
    <3>3. CASE k > r + 1
      <4>1. /\ k - (r + 1) + e \in (e + 1) .. Len(toml)
            /\ new[k] = toml[k - (r + 1) + e]
        <5>1. k \in (r + 2) .. Len(new)
          BY <1>0, <1>5, <3>1, <3>3
        <5> QED
          BY <1>9, <5>1
      <4>2. /\ k - (r + 1) + e \in 1 .. Len(toml)
            /\ At(k - (r + 1) + e) = k
        <5>1. /\ k - (r + 1) + e \in 1 .. Len(toml) /\ ~(k - (r + 1) + e < r)
              /\ (k - (r + 1) + e) - e + (r - 1) + 2 = k
          BY <1>0, <3>1, <4>1
        <5> QED
          BY <5>1
      <4> QED
        BY <3>1, <4>1, <4>2 DEF Others
    <3> QED
      BY <3>1, <3>2, <3>3
  <2>5. \A i, j \in Others(toml) : i < j => At(i) < At(j)
    BY <1>0, <2>1
  <2> HIDE DEF At
  <2>6. /\ f \in [Others(toml) -> Others(new)]
        /\ Range(f) = Others(new)
    BY <2>3, <2>4 DEF Range
  <2>7. \A i, j \in Others(toml) : i < j => f[i] < f[j]
    BY <2>5
  <2>8. \A i \in Others(toml) : new[f[i]] = toml[i]
    BY <2>2
  <2> HIDE DEF f
  <2> QED
    BY <2>6, <2>7, <2>8 DEF SameOthers
<1> QED
  BY <1>4, <1>11, <1>13, <1>14 DEF new, block

\* What stands is found again: its command, its host,
LEMMA BlockIsFound ==
  ASSUME NEW toml \in Seq(Section),
         NEW cmd \in {"gen", "older", "custom"}, NEW env \in Env, env.host \in Hosts,
         NEW r \in 1 .. (Len(toml) - 1), BlockStands(toml, r, cmd, env)
  PROVE  /\ FindGrepmindBlock(toml) = <<r, r + 1>>
         /\ TomlCommand(toml) = cmd
         /\ toml[FindGrepmindBlock(toml)[1] + 1].val = env.host
<1>0. Len(toml) \in Nat /\ r \in 1 .. Len(toml)
  OBVIOUS
<1>1. RootSections(toml) = {r}
  BY DEF BlockStands
<1>2. PICK e \in r .. Len(toml) :
        /\ FindGrepmindBlock(toml) = <<r, e>>
        /\ \A i \in r .. e : OfGrepmind(toml[i])
        /\ e < Len(toml) => ~OfGrepmind(toml[e + 1])
  BY <1>0, <1>1, BlockPlaces
<1>3. OfGrepmind(toml[r + 1])
  BY DEF BlockStands, OfGrepmind
<1>4. e # r
  BY <1>0, <1>2, <1>3
<1>5. ~(e > r + 1)
  <2> SUFFICES ASSUME e > r + 1
               PROVE  FALSE
    OBVIOUS
  <2>1. r + 2 \in r .. e /\ r + 1 < Len(toml)
    BY <1>0
  <2> QED
    BY <1>2, <2>1 DEF BlockStands
<1>6. FindGrepmindBlock(toml) = <<r, r + 1>>
  <2>1. e = r + 1
    BY <1>0, <1>4, <1>5
  <2> QED
    BY <1>2, <2>1
<1>7. /\ FindGrepmindBlock(toml) # None /\ FindGrepmindBlock(toml)[1] = r
  BY <1>0, <1>6, PlaceIsSomething
<1>8. toml[r].val = cmd /\ toml[r + 1].val = env.host
  BY DEF BlockStands
<1> QED
  BY <1>6, <1>7, <1>8 DEF TomlCommand, ParsedCommand

\* and writing it once more changes nothing.
LEMMA BlockIsKept ==
  ASSUME NEW toml \in Seq(Section),
         NEW cmd \in {"gen", "older", "custom"}, NEW env \in Env, env.host \in Hosts,
         NEW r \in 1 .. (Len(toml) - 1), BlockStands(toml, r, cmd, env)
  PROVE  ReplaceGrepmindBlock(toml, RenderGrepmindBlock(cmd, env)) = toml
<1> DEFINE block == RenderGrepmindBlock(cmd, env)
           middle == SubSeq(toml, r, r + 1)
<1>0. Len(toml) \in Nat /\ r \in 1 .. Len(toml)
  OBVIOUS
<1>1. /\ FindGrepmindBlock(toml) # None
      /\ FindGrepmindBlock(toml)[1] = r /\ FindGrepmindBlock(toml)[2] = r + 1
  BY <1>0, BlockIsFound, PlaceIsSomething
<1>2. /\ block \in Seq(Section) /\ Len(block) = 2
      /\ block[1] = toml[r] /\ block[2] = toml[r + 1]
  BY RenderedBlock DEF BlockStands
<1>3. /\ middle \in Seq(Section) /\ Len(middle) = 2
      /\ middle[1] = toml[r] /\ middle[2] = toml[r + 1]
  <2>1. \A i \in r .. (r + 1) : toml[i] \in Section
    BY <1>0, ElementOfSeq
  <2>2. r \in Int /\ r + 1 \in Int
    BY <1>0
  <2>3. /\ SubSeq(toml, r, r + 1) \in Seq(Section)
        /\ Len(SubSeq(toml, r, r + 1)) = IF r <= r + 1 THEN (r + 1) - r + 1 ELSE 0
        /\ \A i \in 1 .. (r + 1) - r + 1 : SubSeq(toml, r, r + 1)[i] = toml[r + i - 1]
    BY <2>1, <2>2, SubSeqProperties
  <2> QED
    BY <1>0, <2>3
<1> HIDE DEF block, middle
<1>4. block = middle
  <2>1. \A i \in 1 .. Len(block) : block[i] = middle[i]
    BY <1>2, <1>3
  <2> QED
    BY <1>2, <1>3, <2>1, SeqEqual
<1>5. SubSeq(toml, 1, r - 1) \o middle = SubSeq(toml, 1, r + 1)
  <2>1. /\ 1 \in 1 .. (Len(toml) + 1) /\ r - 1 \in (1 - 1) .. Len(toml)
        /\ r + 1 \in (r - 1) .. Len(toml) /\ (r - 1) + 1 = r
    BY <1>0
  <2>2. SubSeq(toml, 1, r - 1) \o SubSeq(toml, (r - 1) + 1, r + 1) = SubSeq(toml, 1, r + 1)
    BY <2>1, ConcatAdjacentSubSeq
  <2> QED
    BY <2>1, <2>2 DEF middle
<1>6. SubSeq(toml, 1, r + 1) \o SubSeq(toml, (r + 1) + 1, Len(toml)) = toml
  <2>1. /\ 1 \in 1 .. (Len(toml) + 1) /\ r + 1 \in (1 - 1) .. Len(toml)
        /\ Len(toml) \in (r + 1) .. Len(toml)
    BY <1>0
  <2> QED
    BY <2>1, ConcatAdjacentSubSeq, SubSeqFull
<1> QED
  BY <1>1, <1>4, <1>5, <1>6 DEF ReplaceGrepmindBlock, block

-----------------------------------------------------------------------------
(* The steps.  First what they have in common.                             *)

\* A step that only turns to another phase.
LEMMA GotoFields ==
  ASSUME TypeOK, NEW p \in Steps, Goto(p)
  PROVE  /\ run' \in [pc : Steps, inv : {None} \cup Invocation, host : {None} \cup Hosts,
                      read : {run'.read}, todo : Seq(Agents), all : SUBSET Agents,
                      seen : {run'.seen}, cmd : {None, "ask"} \cup Commands,
                      consent : BOOLEAN, wrote : BOOLEAN, moved : BOOLEAN]
         /\ run'.read = run.read /\ (run'.read = None \/ run'.read \in Project)
         /\ run'.pc = p /\ run'.inv = run.inv /\ run'.host = run.host
         /\ run'.todo = run.todo /\ run'.all = run.all /\ run'.seen = run.seen
         /\ run'.cmd = run.cmd /\ run'.consent = run.consent
         /\ run'.wrote = run.wrote /\ run'.moved = run.moved
BY DEF TypeOK, Goto

\* What is configured stays so while no file is written and the agent keeps its
\* credential.
LEMMA StandsKept ==
  ASSUME Stands, UNCHANGED <<disk, settled>>, run.pc # "idle", run'.pc # "idle",
         fresh = Files => fresh' = Files,
         run'.inv = run.inv, run'.host = run.host, run'.wrote = run.wrote,
         settled # None => agentHost' = agentHost,
         settled # None /\ ~settled.moved /\ registered = settled.host
           /\ runtimeHost \in {None, settled.host} =>
           registered' = settled.host /\ runtimeHost' \in {None, settled.host}
  PROVE  Stands'
BY DEF Stands, Again, SameFlags, ProjectStands

\* A command that ends without success.
LEMMA FailKeeps ==
  ASSUME IInv, run.pc # "idle", Fail,
         UNCHANGED <<disk, links, agentHost, runtimeHost, registered, runs, edits>>,
         fresh \subseteq fresh', fresh' \subseteq Files
  PROVE  IInv'
<1>1. run' = Rest /\ run'.pc = "idle" /\ ~run'.wrote
  BY DEF Fail, Rest
<1>2. TypeOK'
  <2>1. /\ run' \in [pc : Steps, inv : {None} \cup Invocation, host : {None} \cup Hosts,
                    read : {run'.read}, todo : Seq(Agents), all : SUBSET Agents,
                    seen : {run'.seen}, cmd : {None, "ask"} \cup Commands,
                    consent : BOOLEAN, wrote : BOOLEAN, moved : BOOLEAN]
        /\ run'.read = None
    BY <1>1 DEF Rest, Steps
  <2> QED
    BY <2>1 DEF IInv, TypeOK, Fail
<1>3. Locals' /\ Signed' /\ AsRead' /\ Decided' /\ Done'
  BY <1>1 DEF Locals, Signed, AsRead, Decided, Done, Signing, Writing
<1>4. Stands'
  BY <1>1 DEF IInv, Stands, Again, SameFlags, ProjectStands, Fail
<1> QED
  BY <1>2, <1>3, <1>4 DEF IInv

\* At first nothing runs and nothing is configured.
LEMMA InitIInv == Init => IInv
<1> SUFFICES ASSUME Init
             PROVE  IInv
  OBVIOUS
<1>1. run = Rest /\ run.pc = "idle" /\ ~run.wrote /\ run.read = None
  BY DEF Init, Rest
<1>2. TypeOK
  <2>1. run \in [pc : Steps, inv : {None} \cup Invocation, host : {None} \cup Hosts,
                 read : {run.read}, todo : Seq(Agents), all : SUBSET Agents,
                 seen : {run.seen}, cmd : {None, "ask"} \cup Commands,
                 consent : BOOLEAN, wrote : BOOLEAN, moved : BOOLEAN]
    BY <1>1 DEF Rest, Steps
  <2>2. /\ disk = [f \in Files |-> disk[f]]
        /\ \A f \in Files : disk[f] \in {None, Invalid} \/ disk[f] \in Content(f)
    <3>1. PICK project \in ProjectFiles, codex \in CodexFiles,
               json \in [JsonAgents -> JsonFiles] :
            disk = [f \in Files |-> IF f = "project" THEN project
                                    ELSE IF f = "codex" THEN codex ELSE json[f]]
      BY DEF Init
    <3>2. disk = [f \in Files |-> disk[f]]
      BY <3>1
    <3>3. ASSUME NEW f \in Files
          PROVE  disk[f] \in {None, Invalid} \/ disk[f] \in Content(f)
      <4>1. CASE f = "project"
        BY <3>1, <4>1, FileAssumption DEF FileAssumption, Content
      <4>2. CASE f = "codex"
        BY <3>1, <4>2, FileAssumption DEF FileAssumption, Content
      <4>3. CASE f \in JsonAgents
        <5>1. f # "project" /\ f # "codex"
          BY <4>3, AgentAssumption DEF AgentAssumption
        <5>2. disk[f] \in JsonFiles
          BY <3>1, <4>3, <5>1
        <5> QED
          BY <5>1, <5>2, FileAssumption DEF FileAssumption, Content
      <4> QED
        BY <4>1, <4>2, <4>3 DEF Files, Agents
    <3> QED
      BY <3>2, <3>3
  <2>3. /\ links \subseteq Files
        /\ {agentHost, runtimeHost, registered} \subseteq Hosts \cup {None}
    BY FileAssumption DEF FileAssumption, Init
  <2> QED
    BY <1>1, <2>1, <2>2, <2>3, BoundsAssumption DEF TypeOK, Init, BoundsAssumption
<1>3. Locals /\ Signed /\ AsRead /\ Decided /\ Done /\ Stands
  BY <1>1 DEF Locals, Signed, AsRead, Decided, Done, Signing, Writing, Stands, Init
<1> QED
  BY <1>2, <1>3 DEF IInv

\* A new command starts with what .grepmind.json holds, and takes no host but the
\* one of its flag, of the file, or the default.
LEMMA StartKeeps ==
  ASSUME IInv, NEW inv \in Invocations, Start(inv)
  PROVE  IInv'
<1> DEFINE read == disk["project"]
           host == ResolveInitHostname(inv, read)
           moved == \E h \in {runtimeHost, registered} : h \notin {None, host}
<1>1. /\ inv \in Invocation
      /\ inv.hostname \in Hosts \cup {None}
  BY InvocationAssumption DEF InvocationAssumption, Invocation
<1>2. read = None \/ read \in Project
  BY DEF Start, ReadProjectConfig, IInv, TypeOK, Files, Content
<1>3. host \in Hosts
  BY <1>1, <1>2, HostAssumption DEF ResolveInitHostname, HostAssumption, Project
<1>4. run = Rest /\ ~run.wrote
  BY DEF IInv, Locals, Start, AtPc, Rest
<1>5. /\ run'.pc \in {"confirm", "select"} /\ run'.inv = inv /\ run'.host = host
      /\ run'.read = read /\ run'.todo = <<>> /\ run'.all = {} /\ run'.seen = None
      /\ run'.cmd = None /\ run'.consent = FALSE /\ run'.wrote = FALSE /\ run'.moved = moved
      /\ run' \in [pc : Steps, inv : {None} \cup Invocation, host : {None} \cup Hosts,
                   read : {run'.read}, todo : Seq(Agents), all : SUBSET Agents,
                   seen : {run'.seen}, cmd : {None, "ask"} \cup Commands,
                   consent : BOOLEAN, wrote : BOOLEAN, moved : BOOLEAN]
  <2> HIDE DEF host, moved
  <2>1. PICK p \in {"confirm", "select"} :
          run' = [Rest EXCEPT !.pc = p, !.inv = inv, !.host = host, !.read = read,
                              !.moved = moved]
    BY DEF Start, ReadProjectConfig, host, moved
  <2>2. run' = [pc |-> p, inv |-> inv, host |-> host, read |-> read, todo |-> <<>>,
                all |-> {}, seen |-> None, cmd |-> None, consent |-> FALSE,
                wrote |-> FALSE, moved |-> moved]
    BY <2>1 DEF Rest
  <2>3. moved \in BOOLEAN
    BY DEF moved
  <2> QED
    BY <1>1, <1>3, <2>2, <2>3 DEF Steps
<1> HIDE DEF host
<1>6. /\ fresh' = Files /\ runs < MaxRuns /\ runs' = runs + 1
      /\ UNCHANGED <<disk, links, agentHost, runtimeHost, registered, edits, settled>>
  BY DEF Start, fileVars, agentVars
<1>7. TypeOK'
  BY <1>2, <1>5, <1>6, BoundsAssumption DEF IInv, TypeOK, BoundsAssumption
<1>8. Locals' /\ Decided' /\ Done'
  BY <1>1, <1>3, <1>5 DEF Locals, Decided, Done, Signing, Writing
<1>9. Signed' /\ AsRead'
  BY <1>5, <1>6 DEF Signed, AsRead, Signing, Writing
<1>10. Stands'
  BY <1>4, <1>6 DEF IInv, Stands, ProjectStands
<1> QED
  BY <1>7, <1>8, <1>9, <1>10 DEF IInv

\* The prompts and checks that come before the first file is written only turn to
\* the next of these phases.
LEMMA TurnKeeps ==
  ASSUME IInv, NEW p \in {"select", "askLogin", "login", "ready"}, Goto(p),
         run.pc \in {"confirm", "auth", "askLogin"},
         p = "select" <=> run.pc = "confirm",
         p = "ready" => agentHost \in {None, run.host},
         UNCHANGED <<disk, links, agentHost, runtimeHost, registered,
                     runs, edits, fresh, settled>>
  PROVE  IInv'
<1>1. p \in Steps
  BY DEF Steps
<1>2. TypeOK'
  BY <1>1, GotoFields DEF IInv, TypeOK
<1>3. /\ run'.pc = p /\ run'.inv = run.inv /\ run'.host = run.host /\ run'.read = run.read
      /\ run'.todo = run.todo /\ run'.all = run.all
      /\ run'.wrote = run.wrote /\ run'.moved = run.moved
  BY <1>1, GotoFields DEF IInv
<1>4. Locals' /\ Decided' /\ Done'
  BY <1>3 DEF IInv, Locals, Decided, Done, Signing, Writing
<1>5. Signed' /\ AsRead'
  BY <1>3 DEF IInv, Signed, AsRead, Signing, Writing
<1>6. Stands'
  BY <1>3, StandsKept DEF IInv
<1> QED
  BY <1>2, <1>4, <1>5, <1>6 DEF IInv

\* The question about the host, and its refusal.
LEMMA ConfirmHostnameChangeKeeps ==
  ASSUME IInv, ConfirmHostnameChange
  PROVE  IInv'
<1>1. /\ run.pc = "confirm"
      /\ UNCHANGED <<disk, links, agentHost, runtimeHost, registered, runs, edits, fresh>>
  BY DEF ConfirmHostnameChange, AtPc, fileVars, agentVars
<1>2. (Goto("select") /\ UNCHANGED settled) \/ Fail
  BY DEF ConfirmHostnameChange, Ask
<1>3. fresh \subseteq Files
  BY DEF IInv, TypeOK
<1> QED
  BY <1>1, <1>2, <1>3, TurnKeeps, FailKeeps

\* The agent's credential is looked at: signed in, or a login is needed.
LEMMA CheckAuthKeeps ==
  ASSUME IInv, CheckAuth
  PROVE  IInv'
<1>1. /\ run.pc = "auth"
      /\ UNCHANGED <<disk, links, agentHost, runtimeHost, registered, runs, edits, fresh>>
  BY DEF CheckAuth, AtPc, fileVars, agentVars
<1>2. \/ Fail
      \/ UNCHANGED settled /\ (Goto("login") \/ Goto("askLogin"))
      \/ UNCHANGED settled /\ Goto("ready") /\ agentHost \in {None, run.host}
  BY DEF CheckAuth, HostMismatch
<1>3. fresh \subseteq Files
  BY DEF IInv, TypeOK
<1> QED
  BY <1>1, <1>2, <1>3, TurnKeeps, FailKeeps

\* The question about the login, and its refusal.
LEMMA ConfirmLoginKeeps ==
  ASSUME IInv, ConfirmLogin
  PROVE  IInv'
<1>1. /\ run.pc = "askLogin"
      /\ UNCHANGED <<disk, links, agentHost, runtimeHost, registered, runs, edits, fresh>>
  BY DEF ConfirmLogin, AtPc, fileVars, agentVars
<1>2. (Goto("login") /\ UNCHANGED settled) \/ Fail
  BY DEF ConfirmLogin, Ask
<1>3. fresh \subseteq Files
  BY DEF IInv, TypeOK
<1> QED
  BY <1>1, <1>2, <1>3, TurnKeeps, FailKeeps

\* However the clients are selected, they are some, and the command is about them.
LEMMA SelectAgentsKeeps ==
  ASSUME IInv, SelectAgents
  PROVE  IInv'
<1>1. /\ run.pc = "select"
      /\ UNCHANGED <<disk, links, agentHost, runtimeHost, registered, runs, edits, fresh>>
  BY DEF SelectAgents, AtPc, fileVars, agentVars
<1>2. fresh \subseteq Files
  BY DEF IInv, TypeOK
<1>3. Fail \/ \E todo \in Selections : Selected(todo)
  BY DEF SelectAgents
<1>4. ASSUME NEW todo \in Selections, Selected(todo)
      PROVE  IInv'
  <2>1. todo \in Seq(Agents) /\ todo # <<>> /\ Range(todo) \subseteq Agents
    <3>1. PICK n \in 1 .. Cardinality(Agents) : todo \in [1 .. n -> Agents]
      BY DEF Selections
    <3>2. n \in Nat /\ 1 \in 1 .. n
      OBVIOUS
    <3>3. todo \in Seq(Agents) /\ Len(todo) = n
      BY <3>1, <3>2
    <3> QED
      BY <3>1, <3>2, <3>3 DEF Range
  <2>2. /\ run'.pc \in {"project", "auth"} /\ (run.inv.dryRun <=> run'.pc = "project")
        /\ run'.inv = run.inv /\ run'.host = run.host
        /\ run'.read = run.read /\ run'.todo = todo /\ run'.all = Range(todo)
        /\ run'.wrote = run.wrote /\ run'.moved = run.moved
        /\ run' \in [pc : Steps, inv : {None} \cup Invocation, host : {None} \cup Hosts,
                     read : {run'.read}, todo : Seq(Agents), all : SUBSET Agents,
                     seen : {run'.seen}, cmd : {None, "ask"} \cup Commands,
                     consent : BOOLEAN, wrote : BOOLEAN, moved : BOOLEAN]
    <3>1. PICK p \in {"project", "auth"} :
            /\ run.inv.dryRun <=> p = "project"
            /\ run' = [run EXCEPT !.pc = p, !.todo = todo, !.all = Range(todo)]
      BY <1>4 DEF Selected
    <3>2. run \in [pc : Steps, inv : {None} \cup Invocation, host : {None} \cup Hosts,
                   read : {run.read}, todo : Seq(Agents), all : SUBSET Agents,
                   seen : {run.seen}, cmd : {None, "ask"} \cup Commands,
                   consent : BOOLEAN, wrote : BOOLEAN, moved : BOOLEAN]
      BY DEF IInv, TypeOK
    <3>3. p \in Steps
      BY DEF Steps
    <3> QED
      BY <2>1, <3>1, <3>2, <3>3
  <2>3. UNCHANGED settled
    BY <1>4 DEF Selected
  <2>4. TypeOK'
    BY <1>1, <2>2, <2>3 DEF IInv, TypeOK
  <2>5. Locals' /\ Decided' /\ Done'
    BY <1>1, <2>1, <2>2 DEF IInv, Locals, Decided, Done, Signing, Writing
  <2>6. Signed' /\ AsRead'
    BY <1>1, <2>2 DEF IInv, Signed, AsRead, Signing, Writing
  <2>7. Stands'
    BY <1>1, <2>2, <2>3, StandsKept DEF IInv
  <2> QED
    BY <2>4, <2>5, <2>6, <2>7 DEF IInv
<1> QED
  BY <1>1, <1>2, <1>3, <1>4, FailKeeps

\* A login at another host unsettles what was configured for the one before.
LEMMA LoginAgentKeeps ==
  ASSUME IInv, LoginAgent
  PROVE  IInv'
<1>1. /\ run.pc = "login"
      /\ UNCHANGED <<disk, links, runtimeHost, registered, runs, edits, fresh>>
  BY DEF LoginAgent, AtPc, fileVars
<1>2. fresh \subseteq Files
  BY DEF IInv, TypeOK
<1>3. CASE UNCHANGED agentHost /\ Fail
  BY <1>1, <1>2, <1>3, FailKeeps
<1>4. CASE agentHost' = run.host /\ Goto("ready") /\ settled' = None
  <2>1. "ready" \in Steps
    BY DEF Steps
  <2>2. /\ run'.pc = "ready" /\ run'.inv = run.inv /\ run'.host = run.host
        /\ run'.read = run.read /\ run'.todo = run.todo /\ run'.all = run.all
        /\ run'.wrote = run.wrote /\ run'.moved = run.moved
    BY <1>4, <2>1, GotoFields DEF IInv
  <2>3. run.host \in Hosts
    BY <1>1 DEF IInv, Locals
  <2>4. TypeOK'
    BY <1>1, <1>4, <2>1, <2>3, GotoFields DEF IInv, TypeOK
  <2>5. Locals' /\ Decided' /\ Done' /\ Stands'
    BY <1>1, <1>4, <2>2 DEF IInv, Locals, Decided, Done, Stands, Signing, Writing
  <2>6. Signed' /\ AsRead'
    BY <1>1, <1>4, <2>2 DEF IInv, Signed, AsRead, Signing, Writing
  <2> QED
    BY <2>4, <2>5, <2>6 DEF IInv
<1> QED
  BY <1>3, <1>4 DEF LoginAgent

\* An agent that is ready is signed in at the host of the command.
LEMMA EnsureAgentReadyKeeps ==
  ASSUME IInv, EnsureAgentReady
  PROVE  IInv'
<1>1. /\ run.pc = "ready"
      /\ UNCHANGED <<disk, links, registered, runs, edits, fresh>>
  BY DEF EnsureAgentReady, AtPc, fileVars
<1>2. fresh \subseteq Files
  BY DEF IInv, TypeOK
<1>3. CASE UNCHANGED <<agentHost, runtimeHost>> /\ Fail
  BY <1>1, <1>2, <1>3, FailKeeps
<1>4. CASE /\ agentHost' = IF agentHost = None THEN run.host ELSE agentHost
           /\ runtimeHost' = IF runtimeHost = None THEN agentHost' ELSE runtimeHost
           /\ Goto("register") /\ UNCHANGED settled
  <2>1. "register" \in Steps
    BY DEF Steps
  <2>2. /\ run'.pc = "register" /\ run'.inv = run.inv /\ run'.host = run.host
        /\ run'.read = run.read /\ run'.todo = run.todo /\ run'.all = run.all
        /\ run'.wrote = run.wrote /\ run'.moved = run.moved
    BY <1>4, <2>1, GotoFields DEF IInv
  <2>3. run.host \in Hosts
    BY <1>1 DEF IInv, Locals
  <2>4. agentHost' = run.host /\ runtimeHost' \in {runtimeHost, run.host}
        /\ (runtimeHost' # runtimeHost => runtimeHost = None)
    BY <1>1, <1>4 DEF IInv, Signed
  <2>5. TypeOK'
    BY <1>1, <1>4, <2>1, <2>3, <2>4, GotoFields DEF IInv, TypeOK
  <2>6. Locals' /\ Decided' /\ Done'
    BY <1>1, <1>4, <2>2 DEF IInv, Locals, Decided, Done, Signing, Writing
  <2>7. Signed' /\ AsRead'
    BY <1>1, <1>4, <2>2, <2>4 DEF IInv, Signed, AsRead, Signing, Writing
  <2>8. Stands'
    <3>1. settled # None => agentHost' = agentHost /\ agentHost = settled.host
      <4>1. settled # None => agentHost = settled.host /\ settled.host \in Hosts
        BY DEF IInv, Stands, TypeOK
      <4>2. settled # None => agentHost # None
        BY <4>1, HostAssumption DEF HostAssumption
      <4> QED
        BY <1>4, <4>1, <4>2
    <3>2. settled # None => run.host = settled.host
      BY <2>4, <3>1
    <3> QED
      BY <1>1, <1>4, <2>2, <2>4, <3>1, <3>2, StandsKept DEF IInv
  <2> QED
    BY <2>5, <2>6, <2>7, <2>8 DEF IInv
<1> QED
  BY <1>3, <1>4 DEF EnsureAgentReady

\* A command that found no binding and no runtime of another host binds the
\* workspace at its own.
LEMMA RegisterWorkspaceKeeps ==
  ASSUME IInv, RegisterWorkspace
  PROVE  IInv'
<1>1. /\ run.pc = "register"
      /\ UNCHANGED <<disk, links, agentHost, runtimeHost, runs, edits, fresh>>
  BY DEF RegisterWorkspace, AtPc, fileVars
<1>2. fresh \subseteq Files
  BY DEF IInv, TypeOK
<1>3. CASE UNCHANGED registered /\ Fail
  BY <1>1, <1>2, <1>3, FailKeeps
<1>4. CASE /\ runtimeHost # None
           /\ registered' = IF registered = None THEN runtimeHost ELSE registered
           /\ Goto("project") /\ UNCHANGED settled
  <2>1. "project" \in Steps
    BY DEF Steps
  <2>2. /\ run'.pc = "project" /\ run'.inv = run.inv /\ run'.host = run.host
        /\ run'.read = run.read /\ run'.todo = run.todo /\ run'.all = run.all
        /\ run'.wrote = run.wrote /\ run'.moved = run.moved
    BY <1>4, <2>1, GotoFields DEF IInv
  <2>3. /\ registered' # None /\ registered' \in {registered, runtimeHost}
        /\ registered # None => registered' = registered
    BY <1>4
  <2>4. TypeOK'
    BY <1>1, <1>4, <2>1, <2>3, GotoFields DEF IInv, TypeOK
  <2>5. Locals' /\ Decided' /\ Done'
    BY <1>1, <1>4, <2>2 DEF IInv, Locals, Decided, Done, Signing, Writing
  <2>6. Signed' /\ AsRead'
    BY <1>1, <1>4, <2>2, <2>3 DEF IInv, Signed, AsRead, Signing, Writing
  <2>7. Stands'
    <3>1. settled # None => settled.host # None
      BY HostAssumption DEF IInv, TypeOK, HostAssumption
    <3> QED
      BY <1>1, <1>4, <2>2, <2>3, <3>1, StandsKept DEF IInv
  <2> QED
    BY <2>4, <2>5, <2>6, <2>7 DEF IInv
<1> QED
  BY <1>3, <1>4 DEF RegisterWorkspace

\* .grepmind.json is rebuilt from what was read, without what init does not write,
\* and a file that is as configured is not touched.
LEMMA WriteProjectConfigEffect ==
  ASSUME IInv, WriteProjectConfig
  PROVE  LET next == BuildProjectConfig(run.read, run.host)
             Proceed(wrote) ==
               /\ run' = [run EXCEPT !.pc = "decide", !.read = None, !.wrote = wrote]
               /\ UNCHANGED settled
         IN /\ next \in Project /\ next.host = run.host /\ ~next.extra /\ next.tidy
            /\ \/ Fail /\ UNCHANGED disk
               \/ Proceed(FALSE) /\ UNCHANGED disk /\ (next = run.read \/ run.inv.dryRun)
               \/ /\ Proceed(TRUE) /\ disk' = [disk EXCEPT !["project"] = next]
                  /\ next # run.read /\ ~run.inv.dryRun /\ "project" \notin links
<1> DEFINE next == BuildProjectConfig(run.read, run.host)
<1>1. run.read = None \/ run.read \in Project
  BY DEF IInv, TypeOK
<1>2. run.host \in Hosts
  BY DEF IInv, Locals, WriteProjectConfig, AtPc
<1>3. next \in Project /\ next.host = run.host /\ ~next.extra /\ next.tidy
  BY <1>1, <1>2, FileAssumption DEF BuildProjectConfig, Project, FileAssumption
<1> QED
  BY <1>3 DEF WriteProjectConfig, WriteTextFile

\* .grepmind.json is written, found written, or refused.
LEMMA WriteProjectConfigKeeps ==
  ASSUME IInv, WriteProjectConfig
  PROVE  IInv'
<1> DEFINE next == BuildProjectConfig(run.read, run.host)
           Proceed(wrote) ==
             /\ run' = [run EXCEPT !.pc = "decide", !.read = None, !.wrote = wrote]
             /\ UNCHANGED settled
<1>1. /\ run.pc = "project"
      /\ UNCHANGED <<links, agentHost, runtimeHost, registered, runs, edits, fresh>>
  BY DEF WriteProjectConfig, AtPc, agentVars
<1>2. fresh \subseteq Files
  BY DEF IInv, TypeOK
<1>3. CASE Fail /\ UNCHANGED disk
  BY <1>1, <1>2, <1>3, FailKeeps
<1>4. ASSUME NEW wrote \in BOOLEAN, Proceed(wrote),
             next \in Project, next.host = run.host, ~next.extra, next.tidy,
             \/ ~wrote /\ UNCHANGED disk /\ (next = run.read \/ run.inv.dryRun)
             \/ /\ wrote /\ disk' = [disk EXCEPT !["project"] = next]
                /\ next # run.read /\ ~run.inv.dryRun
      PROVE  IInv'
  <2> HIDE DEF next
  <2>1. /\ run'.pc = "decide" /\ run'.inv = run.inv /\ run'.host = run.host
        /\ run'.read = None /\ run'.todo = run.todo /\ run'.all = run.all
        /\ run'.wrote = wrote /\ run'.moved = run.moved
        /\ run' \in [pc : Steps, inv : {None} \cup Invocation, host : {None} \cup Hosts,
                     read : {run'.read}, todo : Seq(Agents), all : SUBSET Agents,
                     seen : {run'.seen}, cmd : {None, "ask"} \cup Commands,
                     consent : BOOLEAN, wrote : BOOLEAN, moved : BOOLEAN]
    <3>1. run \in [pc : Steps, inv : {None} \cup Invocation, host : {None} \cup Hosts,
                   read : {run.read}, todo : Seq(Agents), all : SUBSET Agents,
                   seen : {run.seen}, cmd : {None, "ask"} \cup Commands,
                   consent : BOOLEAN, wrote : BOOLEAN, moved : BOOLEAN]
      BY DEF IInv, TypeOK
    <3>2. "decide" \in Steps
      BY DEF Steps
    <3> QED
      BY <1>4, <3>1, <3>2
  <2>2. UNCHANGED settled
    BY <1>4
  <2>3. /\ disk' = [f \in Files |-> disk'[f]]
        /\ \A f \in Files : disk'[f] \in {None, Invalid} \/ disk'[f] \in Content(f)
        /\ \A f \in Files \ {"project"} : disk'[f] = disk[f]
    BY <1>4 DEF IInv, TypeOK, Content
  <2>4. TypeOK'
    BY <1>1, <2>1, <2>2, <2>3 DEF IInv, TypeOK
  <2>5. Locals' /\ Decided' /\ AsRead'
    BY <1>1, <1>4, <2>1 DEF IInv, Locals, Decided, AsRead, Signing, Writing
  <2>6. Signed'
    BY <1>1, <2>1 DEF IInv, Signed, Signing, Writing
  <2>7. "project" \in Files /\ \A a \in Agents : a \in Files /\ a # "project"
    BY AgentAssumption DEF Files, Agents, AgentAssumption
  <2>8. Done'
    <3>1. ~run.inv.dryRun /\ "project" \in fresh => ProjectStands(run.host)'
      <4>1. CASE wrote
        BY <1>1, <1>4, <2>1, <2>7, <4>1 DEF ProjectStands, IInv, TypeOK
      <4>2. CASE ~wrote
        BY <1>1, <1>4, <2>1, <4>2 DEF ProjectStands, IInv, AsRead
      <4> QED
        BY <4>1, <4>2
    <3>2. run.all \ Range(run.todo) = {}
      <4>1. Range(run.todo) = run.all
        BY <1>1 DEF IInv, Locals, TypeOK
      <4> QED
        BY <4>1
    <3> QED
      BY <1>1, <2>1, <3>1, <3>2 DEF Done, ProjectStands
  <2>9. Stands'
    <3>1. settled # None /\ wrote => FALSE
      <4>1. settled # None /\ wrote =>
              /\ disk["project"] = run.read /\ run.host = settled.host
              /\ run.read \in Project /\ run.read.host = settled.host
              /\ ~run.read.extra /\ run.read.tidy
        BY <1>1, <1>4, <2>7 DEF IInv, Stands, AsRead, Signed, ProjectStands
      <4>2. run.read \in Project => run.read # None
        BY NothingAssumption DEF NothingAssumption
      <4>3. /\ settled # None /\ wrote => next = run.read
        BY <4>1, <4>2 DEF next, BuildProjectConfig, Project
      <4> QED
        BY <1>4, <4>3
    <3>2. settled # None => UNCHANGED disk /\ ~wrote
      BY <1>4, <3>1
    <3>3. ~run.wrote
      BY <1>1 DEF IInv, Locals, Writing
    <3> QED
      BY <1>1, <2>1, <2>2, <3>2, <3>3 DEF IInv, Stands, ProjectStands
  <2> QED
    BY <2>4, <2>5, <2>6, <2>8, <2>9 DEF IInv
<1>5. \/ Fail /\ UNCHANGED disk
      \/ \E wrote \in BOOLEAN :
           /\ Proceed(wrote) /\ next \in Project /\ next.host = run.host /\ ~next.extra /\ next.tidy
           /\ \/ ~wrote /\ UNCHANGED disk /\ (next = run.read \/ run.inv.dryRun)
              \/ /\ wrote /\ disk' = [disk EXCEPT !["project"] = next]
                 /\ next # run.read /\ ~run.inv.dryRun
  <2> HIDE DEF next
  <2>1. /\ next \in Project /\ next.host = run.host /\ ~next.extra /\ next.tidy
        /\ \/ Fail /\ UNCHANGED disk
           \/ Proceed(FALSE) /\ UNCHANGED disk /\ (next = run.read \/ run.inv.dryRun)
           \/ /\ Proceed(TRUE) /\ disk' = [disk EXCEPT !["project"] = next]
              /\ next # run.read /\ ~run.inv.dryRun /\ "project" \notin links
    BY WriteProjectConfigEffect DEF next
  <2> HIDE DEF Proceed
  <2> QED
    BY <2>1
<1> HIDE DEF next, Proceed
<1> QED
  BY <1>3, <1>4, <1>5

\* What one client's turn leaves behind: the new content of its file, if any.
Turn(a, wrote) ==
  /\ a = Head(run.todo)
  /\ run.pc \in Writing /\ run.pc # "askReplace"
  /\ UNCHANGED <<links, agentHost, runtimeHost, registered, runs, edits>>
  /\ disk' = [f \in Files |-> disk'[f]]
  /\ disk'[a] \in {None, Invalid} \/ disk'[a] \in Content(a)
  /\ \A f \in Files \ {a} : disk'[f] = disk[f]
  /\ fresh \subseteq fresh' /\ fresh' \subseteq Files
  /\ wrote => ~run.inv.dryRun
  /\ ~wrote => UNCHANGED disk
  /\ ~run.inv.dryRun => fresh' = fresh
  /\ ~run.inv.dryRun /\ a \in fresh =>
       EntryStands(a, disk'[a], run.host, run.inv.tuned, run.inv.force, run.inv.package)
  /\ wrote /\ settled # None /\ Again => a \notin settled.agents

\* The client whose turn it is is one of the command's, and no other is left out.
LEMMA TurnOf ==
  ASSUME IInv, NEW a, NEW wrote \in BOOLEAN, Turn(a, wrote)
  PROVE  /\ a \in Agents /\ a \in Files /\ a # "project" /\ "project" \in Files
         /\ run.todo \in Seq(Agents) /\ Len(run.todo) \in Nat \ {0}
         /\ Len(run.todo) = 1 => Range(run.todo) = {a}
         /\ Len(run.todo) # 1 =>
              /\ Tail(run.todo) \in Seq(Agents) /\ Tail(run.todo) # <<>>
              /\ Range(Tail(run.todo)) \subseteq Range(run.todo)
              /\ Range(run.todo) \subseteq Range(Tail(run.todo)) \cup {a}
<1>1. run.todo \in Seq(Agents) /\ run.todo # <<>>
  BY DEF IInv, TypeOK, Locals, Turn, Writing
<1>2. /\ Len(run.todo) \in Nat \ {0} /\ Head(run.todo) = run.todo[1]
      /\ DOMAIN run.todo = 1 .. Len(run.todo)
  BY <1>1
<1>3. a = run.todo[1] /\ a \in Agents
  BY <1>1, <1>2 DEF Turn
<1>4. a \in Files /\ a # "project" /\ "project" \in Files
  BY <1>3, AgentAssumption DEF Files, Agents, AgentAssumption
<1>5. ASSUME Len(run.todo) = 1
      PROVE  Range(run.todo) = {a}
  BY <1>2, <1>3, <1>5 DEF Range
<1>6. ASSUME Len(run.todo) # 1
      PROVE  /\ Tail(run.todo) \in Seq(Agents) /\ Tail(run.todo) # <<>>
             /\ Range(Tail(run.todo)) \subseteq Range(run.todo)
             /\ Range(run.todo) \subseteq Range(Tail(run.todo)) \cup {a}
  <2> DEFINE tail == Tail(run.todo)
  <2>1. /\ tail \in Seq(Agents) /\ Len(tail) = Len(run.todo) - 1
        /\ \A i \in 1 .. Len(tail) : tail[i] = run.todo[i + 1]
    BY <1>1, HeadTailProperties
  <2> HIDE DEF tail
  <2>2. DOMAIN tail = 1 .. Len(tail) /\ tail # <<>>
    <3>1. DOMAIN tail = 1 .. Len(tail) /\ Len(tail) # 0
      BY <1>2, <1>6, <2>1
    <3> QED
      BY <3>1, EmptySeq
  <2>3. Range(tail) \subseteq Range(run.todo)
    <3> SUFFICES ASSUME NEW x \in Range(tail)
                 PROVE  x \in Range(run.todo)
      OBVIOUS
    <3>1. PICK i \in 1 .. Len(tail) : x = tail[i]
      BY <2>2 DEF Range
    <3>2. i + 1 \in DOMAIN run.todo /\ tail[i] = run.todo[i + 1]
      BY <1>2, <2>1
    <3> QED
      BY <3>1, <3>2 DEF Range
  <2>4. ASSUME NEW i \in 1 .. Len(run.todo), i # 1
        PROVE  run.todo[i] \in Range(tail)
    <3>1. i - 1 \in 1 .. Len(tail) /\ (i - 1) + 1 = i
      BY <1>2, <2>1, <2>4
    <3>2. tail[i - 1] = run.todo[i]
      BY <2>1, <3>1
    <3> QED
      BY <2>2, <3>1, <3>2 DEF Range
  <2>5. Range(run.todo) \subseteq Range(tail) \cup {a}
    BY <1>2, <1>3, <2>4 DEF Range
  <2> QED
    BY <2>1, <2>2, <2>3, <2>5 DEF tail
<1> QED
  BY <1>1, <1>2, <1>3, <1>4, <1>5, <1>6

\* The last turn ends the command: what it found or made of each file stands.
LEMMA SucceedKeeps ==
  ASSUME IInv, NEW a, NEW wrote \in BOOLEAN, Turn(a, wrote), Len(run.todo) = 1, Succeed
  PROVE  IInv'
<1>1. run' = Rest /\ run'.pc = "idle" /\ ~run'.wrote
  BY DEF Succeed, Rest
<1>2. /\ a \in Agents /\ a \in Files /\ a # "project" /\ "project" \in Files
      /\ Range(run.todo) = {a}
  BY TurnOf
<1>3. /\ run.pc \in Writing /\ run.pc # "idle"
      /\ run.inv \in Invocation /\ run.host \in Hosts
      /\ run.all \subseteq Agents /\ run.moved \in BOOLEAN
  BY DEF IInv, TypeOK, Locals, Turn, Writing
<1>4. \/ settled' = None
      \/ run.inv.dryRun /\ settled' = settled
      \/ /\ ~run.inv.dryRun /\ {"project"} \cup run.all \subseteq fresh
         /\ settled' = [host |-> run.host, agents |-> run.all, force |-> run.inv.force,
                        package |-> run.inv.package, tuned |-> run.inv.tuned,
                        moved |-> run.moved]
  BY DEF Succeed
<1>5. TypeOK'
  <2>1. /\ run' \in [pc : Steps, inv : {None} \cup Invocation, host : {None} \cup Hosts,
                    read : {run'.read}, todo : Seq(Agents), all : SUBSET Agents,
                    seen : {run'.seen}, cmd : {None, "ask"} \cup Commands,
                    consent : BOOLEAN, wrote : BOOLEAN, moved : BOOLEAN]
        /\ run'.read = None
    BY <1>1 DEF Rest, Steps
  <2>2. settled' = None \/ settled' \in [host : Hosts, agents : SUBSET Agents,
                                         force : BOOLEAN, package : {"gen", "custom"},
                                         tuned : BOOLEAN, moved : BOOLEAN]
    BY <1>3, <1>4 DEF IInv, TypeOK, Invocation
  <2>3. \A f \in Files : disk'[f] \in {None, Invalid} \/ disk'[f] \in Content(f)
    BY DEF IInv, TypeOK, Turn
  <2> QED
    BY <2>1, <2>2, <2>3 DEF IInv, TypeOK, Turn
<1>6. Locals' /\ Signed' /\ AsRead' /\ Decided' /\ Done'
  BY <1>1 DEF Locals, Signed, AsRead, Decided, Done, Signing, Writing
<1>7. Stands'
  <2>1. CASE settled' = None
    BY <2>1 DEF Stands
  <2>2. CASE run.inv.dryRun /\ settled' = settled
    <3>1. UNCHANGED disk /\ ~run.wrote
      BY <2>2 DEF Turn, IInv, Locals
    <3> QED
      BY <1>1, <2>2, <3>1 DEF IInv, Stands, ProjectStands, Turn
  <2>3. CASE /\ ~run.inv.dryRun /\ {"project"} \cup run.all \subseteq fresh
             /\ settled' = [host |-> run.host, agents |-> run.all, force |-> run.inv.force,
                            package |-> run.inv.package, tuned |-> run.inv.tuned,
                            moved |-> run.moved]
    <3>1. /\ settled'.host = run.host /\ settled'.agents = run.all
          /\ settled'.force = run.inv.force /\ settled'.package = run.inv.package
          /\ settled'.tuned = run.inv.tuned /\ settled'.moved = run.moved
      BY <2>3
    <3>2. agentHost' = run.host
      BY <1>3, <2>3 DEF IInv, Signed, Turn
    <3>3. ~run.moved => registered' = run.host /\ runtimeHost' \in {None, run.host}
      BY <1>3, <2>3 DEF IInv, Signed, Turn
    <3>4. /\ disk'["project"] \in Project
          /\ disk'["project"].host = run.host
          /\ ~disk'["project"].extra /\ disk'["project"].tidy
      <4>1. ProjectStands(run.host)
        BY <1>3, <2>3 DEF IInv, Done
      <4>2. disk'["project"] = disk["project"]
        BY <1>2 DEF Turn
      <4> QED
        BY <4>1, <4>2 DEF ProjectStands
    <3>5. ASSUME NEW b \in run.all
          PROVE  EntryStands(b, disk'[b], run.host, run.inv.tuned, run.inv.force, run.inv.package)
      <4>1. CASE b = a
        BY <2>3, <4>1 DEF Turn
      <4>2. CASE b # a
        <5>1. b \in (run.all \ Range(run.todo)) \intersect fresh
          BY <1>2, <2>3, <4>2
        <5>2. EntryStands(b, disk[b], run.host, run.inv.tuned, run.inv.force, run.inv.package)
          BY <1>3, <2>3, <5>1 DEF IInv, Done
        <5>3. b \in Files
          BY <1>3 DEF Files
        <5> QED
          BY <4>2, <5>2, <5>3 DEF Turn
      <4> QED
        BY <4>1, <4>2
    <3> QED
      BY <1>1, <3>1, <3>2, <3>3, <3>4, <3>5 DEF Stands, ProjectStands
  <2> QED
    BY <1>4, <2>1, <2>2, <2>3
<1> QED
  BY <1>5, <1>6, <1>7 DEF IInv

\* Any other turn is followed by the next client's.
LEMMA GoOnKeeps ==
  ASSUME IInv, NEW a, NEW wrote \in BOOLEAN, Turn(a, wrote), Len(run.todo) # 1,
         run' = [run EXCEPT !.pc = "decide", !.todo = Tail(@), !.seen = None, !.cmd = None,
                            !.consent = FALSE, !.wrote = @ \/ wrote],
         UNCHANGED settled
  PROVE  IInv'
<1>1. /\ a \in Agents /\ a \in Files /\ a # "project" /\ "project" \in Files
      /\ Tail(run.todo) \in Seq(Agents) /\ Tail(run.todo) # <<>>
      /\ Range(Tail(run.todo)) \subseteq Range(run.todo)
      /\ Range(run.todo) \subseteq Range(Tail(run.todo)) \cup {a}
  BY TurnOf
<1>2. /\ run'.pc = "decide" /\ run'.inv = run.inv /\ run'.host = run.host
      /\ run'.read = run.read /\ run'.todo = Tail(run.todo) /\ run'.all = run.all
      /\ run'.wrote = (run.wrote \/ wrote) /\ run'.moved = run.moved
      /\ run' \in [pc : Steps, inv : {None} \cup Invocation, host : {None} \cup Hosts,
                   read : {run'.read}, todo : Seq(Agents), all : SUBSET Agents,
                   seen : {run'.seen}, cmd : {None, "ask"} \cup Commands,
                   consent : BOOLEAN, wrote : BOOLEAN, moved : BOOLEAN]
  <2>1. run \in [pc : Steps, inv : {None} \cup Invocation, host : {None} \cup Hosts,
                 read : {run.read}, todo : Seq(Agents), all : SUBSET Agents,
                 seen : {run.seen}, cmd : {None, "ask"} \cup Commands,
                 consent : BOOLEAN, wrote : BOOLEAN, moved : BOOLEAN]
    BY DEF IInv, TypeOK
  <2>2. "decide" \in Steps
    BY DEF Steps
  <2>3. (run.wrote \/ wrote) \in BOOLEAN
    OBVIOUS
  <2> DEFINE w == run.wrote \/ wrote
             tail == Tail(run.todo)
  <2>4. run' = [run EXCEPT !.pc = "decide", !.todo = tail, !.seen = None, !.cmd = None,
                           !.consent = FALSE, !.wrote = w]
    OBVIOUS
  <2>5. w \in BOOLEAN /\ tail \in Seq(Agents)
    BY <1>1, <2>3
  <2> HIDE DEF w, tail
  <2>6. /\ run'.pc = "decide" /\ run'.inv = run.inv /\ run'.host = run.host
        /\ run'.read = run.read /\ run'.todo = tail /\ run'.all = run.all
        /\ run'.wrote = w /\ run'.moved = run.moved
        /\ run' \in [pc : Steps, inv : {None} \cup Invocation, host : {None} \cup Hosts,
                     read : {run'.read}, todo : Seq(Agents), all : SUBSET Agents,
                     seen : {run'.seen}, cmd : {None, "ask"} \cup Commands,
                     consent : BOOLEAN, wrote : BOOLEAN, moved : BOOLEAN]
    BY <2>1, <2>2, <2>4, <2>5
  <2> QED
    BY <2>6 DEF w, tail
<1>3. /\ run.pc \in Writing /\ run.pc # "idle"
  BY DEF Turn, Writing
<1>4. TypeOK'
  <2>1. \A f \in Files : disk'[f] \in {None, Invalid} \/ disk'[f] \in Content(f)
    BY DEF IInv, TypeOK, Turn
  <2>2. run'.read = None \/ run'.read \in Project
    BY <1>2 DEF IInv, TypeOK
  <2> QED
    BY <1>2, <2>1, <2>2 DEF IInv, TypeOK, Turn
<1>5. Locals'
  BY <1>1, <1>2, <1>3 DEF IInv, Locals, Signing, Writing, Turn
<1>6. Signed' /\ AsRead' /\ Decided'
  BY <1>2, <1>3 DEF IInv, Signed, AsRead, Decided, Signing, Writing, Turn
<1>7. disk'["project"] = disk["project"]
  BY <1>1 DEF Turn
<1>8. Done'
  <2> SUFFICES ASSUME ~run.inv.dryRun
               PROVE  /\ "project" \in fresh' => ProjectStands(run.host)'
                      /\ \A b \in (run.all \ Range(Tail(run.todo))) \intersect fresh' :
                            EntryStands(b, disk'[b],
                                        run.host, run.inv.tuned, run.inv.force, run.inv.package)
    BY <1>2 DEF Done, ProjectStands
  <2>1. fresh' = fresh
    BY DEF Turn
  <2>2. "project" \in fresh' => ProjectStands(run.host)'
    BY <1>2, <1>3, <1>7, <2>1 DEF IInv, Done, ProjectStands
  <2>3. ASSUME NEW b \in (run.all \ Range(Tail(run.todo))) \intersect fresh
        PROVE  EntryStands(b, disk'[b], run.host, run.inv.tuned, run.inv.force, run.inv.package)
    <3>1. CASE b = a
      BY <2>3, <3>1 DEF Turn
    <3>2. CASE b # a
      <4>1. b \in (run.all \ Range(run.todo)) \intersect fresh
        BY <1>1, <2>3, <3>2
      <4>2. EntryStands(b, disk[b], run.host, run.inv.tuned, run.inv.force, run.inv.package)
        BY <1>3, <4>1 DEF IInv, Done
      <4>3. b \in Files
        BY <2>3 DEF IInv, TypeOK
      <4> QED
        BY <3>2, <4>2, <4>3 DEF Turn
    <3> QED
      BY <3>1, <3>2
  <2> QED
    BY <2>1, <2>2, <2>3
<1>9. Stands'
  <2> SUFFICES ASSUME settled # None
               PROVE  /\ fresh' = Files /\ agentHost' = settled.host
                      /\ ~settled.moved => /\ registered' = settled.host
                                           /\ runtimeHost' \in {None, settled.host}
                      /\ /\ disk'["project"] \in Project
                         /\ disk'["project"].host = settled.host
                         /\ ~disk'["project"].extra /\ disk'["project"].tidy
                      /\ ~run'.wrote \/ Again =>
                           \A b \in settled.agents :
                             EntryStands(b, disk'[b],
                                         settled.host, settled.tuned,
                                         settled.force, settled.package)
    BY <1>2, <1>3 DEF Stands, Again, SameFlags, ProjectStands
  <2>1. /\ fresh = Files /\ agentHost = settled.host
        /\ ~settled.moved => registered = settled.host
                             /\ runtimeHost \in {None, settled.host}
        /\ ProjectStands(settled.host)
        /\ ~run.wrote \/ Again =>
             \A b \in settled.agents :
               EntryStands(b, disk[b], settled.host, settled.tuned, settled.force, settled.package)
    BY <1>3 DEF IInv, Stands
  <2>2. ASSUME ~run'.wrote \/ Again, NEW b \in settled.agents
        PROVE  EntryStands(b, disk'[b], settled.host, settled.tuned, settled.force, settled.package)
    <3>1. EntryStands(b, disk[b], settled.host, settled.tuned, settled.force, settled.package)
      BY <1>2, <2>1, <2>2
    <3>2. disk'[b] = disk[b]
      <4>1. CASE UNCHANGED disk
        BY <4>1
      <4>2. CASE wrote
        <5>1. Again /\ a \notin settled.agents
          BY <1>2, <2>2, <4>2 DEF Turn
        <5>2. b \in Files \ {a}
          BY <2>2, <5>1 DEF IInv, TypeOK, Files
        <5> QED
          BY <5>2 DEF Turn
      <4> QED
        BY <4>1, <4>2 DEF Turn
    <3> QED
      BY <3>1, <3>2
  <2> QED
    BY <1>7, <2>1, <2>2 DEF ProjectStands, Turn
<1> QED
  BY <1>4, <1>5, <1>6, <1>8, <1>9 DEF IInv

\* The command goes on to the next client, or succeeds.
LEMMA NextAgentKeeps ==
  ASSUME IInv, NEW a, NEW wrote \in BOOLEAN, Turn(a, wrote), NextAgent(wrote)
  PROVE  IInv'
BY SucceedKeeps, GoOnKeeps DEF NextAgent

\* The command that is decided on, and why.
LEMMA Decision ==
  ASSUME NEW a, NEW cmd, run.inv \in Invocation,
         ResolveWriteDecision(a, cmd) # "refuse"
  PROVE  LET decision == ResolveWriteDecision(a, cmd)
         IN /\ decision \in {"ask", "gen", "older", "custom"}
            /\ decision = "ask" => ~run.inv.force /\ cmd \notin Recognized
            /\ decision # "ask" =>
                 \/ /\ decision = run.inv.package
                    /\ run.inv.force \/ cmd \notin Recognized
                    /\ cmd = None \/ MayReplace(a)
                 \/ /\ decision = PreservedCommand(cmd)
                    /\ ~run.inv.force /\ cmd \in Recognized
<1>1. run.inv.package \in {"gen", "custom"} /\ run.inv.force \in BOOLEAN
  BY DEF Invocation
<1>2. cmd \in Recognized => PreservedCommand(cmd) \in {"gen", "older"}
  BY DEF Recognized, PreservedCommand
<1>3. cmd = None => cmd \notin Recognized
  BY NothingAssumption DEF NothingAssumption, Recognized, Commands
<1> QED
  BY <1>1, <1>2, <1>3 DEF ResolveWriteDecision, IsRecognized, MayReplace

\* What a client's file holds, when init does not refuse it.
LEMMA ReadableContent ==
  ASSUME TypeOK, NEW a \in Agents, ~Unreadable(a, disk[a])
  PROVE  /\ disk[a] = None \/ disk[a] \in Content(a)
         /\ a = "codex" => /\ Sections(disk[a]) \in Seq(Section)
                           /\ ~AmbiguousBlock(Sections(disk[a]))
<1>1. a \in Files /\ a # "project"
  BY AgentAssumption DEF Files, Agents, AgentAssumption
<1> QED
  BY <1>1 DEF Unreadable, TypeOK, Content, Sections

\* The entry of a client is read, and its command decided on.
LEMMA DecideEntryKeeps ==
  ASSUME IInv, DecideEntry
  PROVE  IInv'
<1> DEFINE a == Head(run.todo)
           seen == disk[a]
           decision == ResolveWriteDecision(a, EntryCommand(a, seen))
<1>1. /\ run.pc = "decide" /\ run.inv \in Invocation
      /\ UNCHANGED <<disk, links, agentHost, runtimeHost, registered, runs, edits>>
      /\ fresh' = fresh \cup {a}
  BY DEF DecideEntry, AtPc, fileVars, agentVars, IInv, Locals
<1>2. run.todo \in Seq(Agents) /\ run.todo # <<>>
  BY <1>1 DEF IInv, TypeOK, Locals, Writing
<1>3. a \in Range(run.todo) /\ a \in Agents
  <2>1. 1 \in DOMAIN run.todo /\ Head(run.todo) = run.todo[1] /\ run.todo[1] \in Agents
    BY <1>2
  <2> QED
    BY <2>1 DEF Range
<1>4. a \in Files /\ a # "project" /\ fresh' \subseteq Files
  BY <1>1, <1>3, AgentAssumption DEF Files, Agents, AgentAssumption, IInv, TypeOK
<1>5. \/ Fail
      \/ run.inv.dryRun /\ NextAgent(FALSE)
      \/ /\ ~Unreadable(a, seen) /\ decision # "refuse" /\ UNCHANGED settled
         /\ run' = [run EXCEPT !.pc = IF decision = "ask" THEN "askReplace" ELSE "write",
                               !.seen = seen, !.cmd = decision]
  BY DEF DecideEntry
<1>6. CASE Fail
  BY <1>1, <1>4, <1>6, FailKeeps
<1>7. CASE run.inv.dryRun /\ NextAgent(FALSE)
  <2>1. Turn(a, FALSE)
    BY <1>1, <1>4, <1>7 DEF Turn, Writing, IInv, TypeOK
  <2> QED
    BY <1>7, <2>1, NextAgentKeeps
<1>8. CASE /\ ~Unreadable(a, seen) /\ decision # "refuse" /\ UNCHANGED settled
           /\ run' = [run EXCEPT !.pc = IF decision = "ask" THEN "askReplace" ELSE "write",
                                 !.seen = seen, !.cmd = decision]
  <2>1. /\ decision \in {"ask", "gen", "older", "custom"}
        /\ decision = "ask" => ~run.inv.force /\ EntryCommand(a, seen) \notin Recognized
        /\ decision # "ask" =>
             \/ /\ decision = run.inv.package
                /\ run.inv.force \/ EntryCommand(a, seen) \notin Recognized
                /\ EntryCommand(a, seen) = None \/ MayReplace(a)
             \/ /\ decision = PreservedCommand(EntryCommand(a, seen))
                /\ ~run.inv.force /\ EntryCommand(a, seen) \in Recognized
    BY <1>1, <1>8, Decision
  <2>2. seen = None \/ seen \in Content(a)
    BY <1>3, <1>8, ReadableContent DEF IInv
  <2> HIDE DEF decision, seen
  <2>3. /\ run'.pc = IF decision = "ask" THEN "askReplace" ELSE "write"
        /\ run'.inv = run.inv /\ run'.host = run.host
        /\ run'.read = run.read /\ run'.todo = run.todo /\ run'.all = run.all
        /\ run'.seen = seen /\ run'.cmd = decision /\ run'.consent = run.consent
        /\ run'.wrote = run.wrote /\ run'.moved = run.moved
        /\ run' \in [pc : Steps, inv : {None} \cup Invocation, host : {None} \cup Hosts,
                     read : {run'.read}, todo : Seq(Agents), all : SUBSET Agents,
                     seen : {run'.seen}, cmd : {None, "ask"} \cup Commands,
                     consent : BOOLEAN, wrote : BOOLEAN, moved : BOOLEAN]
    <3>1. run \in [pc : Steps, inv : {None} \cup Invocation, host : {None} \cup Hosts,
                   read : {run.read}, todo : Seq(Agents), all : SUBSET Agents,
                   seen : {run.seen}, cmd : {None, "ask"} \cup Commands,
                   consent : BOOLEAN, wrote : BOOLEAN, moved : BOOLEAN]
      BY DEF IInv, TypeOK
    <3>2. {"askReplace", "write"} \subseteq Steps /\ decision \in {None, "ask"} \cup Commands
      BY <2>1 DEF Steps, Commands
    <3> QED
      BY <1>8, <3>1, <3>2
  <2>4. TypeOK'
    BY <1>1, <1>4, <1>8, <2>3 DEF IInv, TypeOK
  <2>5. Locals' /\ Signed'
    BY <1>1, <2>3 DEF IInv, Locals, Signed, Signing, Writing
  <2>6. AsRead'
    BY <1>1, <2>2, <2>3 DEF AsRead, Signing, seen, Content
  <2>7. Decided'
    BY <1>1, <2>1, <2>3 DEF Decided, MayReplace
  <2>8. Done'
    <3>1. ~run.inv.dryRun =>
            /\ "project" \in fresh => ProjectStands(run.host)
            /\ \A b \in (run.all \ Range(run.todo)) \intersect fresh :
                 EntryStands(b, disk[b], run.host, run.inv.tuned, run.inv.force, run.inv.package)
      BY <1>1 DEF IInv, Done, Writing
    <3>2. "project" \in fresh' => "project" \in fresh
      BY <1>1, <1>4
    <3>3. (run.all \ Range(run.todo)) \intersect fresh'
            \subseteq (run.all \ Range(run.todo)) \intersect fresh
      BY <1>1, <1>3
    <3> QED
      BY <1>1, <2>3, <3>1, <3>2, <3>3 DEF Done, ProjectStands
  <2>9. Stands'
    BY <1>1, <1>4, <1>8, <2>3, StandsKept DEF IInv
  <2> QED
    BY <2>4, <2>5, <2>6, <2>7, <2>8, <2>9 DEF IInv
<1> QED
  BY <1>5, <1>6, <1>7, <1>8

\* The user's word is what makes the command replace an entry.
LEMMA ConfirmReplaceKeeps ==
  ASSUME IInv, ConfirmReplace
  PROVE  IInv'
<1>1. /\ run.pc = "askReplace" /\ run.inv \in Invocation
      /\ UNCHANGED <<disk, links, agentHost, runtimeHost, registered, runs, edits, fresh>>
  BY DEF ConfirmReplace, AtPc, fileVars, agentVars, IInv, Locals
<1>2. fresh \subseteq Files
  BY DEF IInv, TypeOK
<1>3. \/ Fail
      \/ /\ run' = [run EXCEPT !.pc = "write", !.cmd = run.inv.package, !.consent = TRUE]
         /\ UNCHANGED settled
  BY DEF ConfirmReplace, Ask
<1>4. CASE Fail
  BY <1>1, <1>2, <1>4, FailKeeps
<1>5. CASE /\ run' = [run EXCEPT !.pc = "write", !.cmd = run.inv.package, !.consent = TRUE]
           /\ UNCHANGED settled
  <2>1. run.inv.package \in {"gen", "custom"}
    BY <1>1 DEF Invocation
  <2>2. /\ run'.pc = "write" /\ run'.inv = run.inv /\ run'.host = run.host
        /\ run'.read = run.read /\ run'.todo = run.todo /\ run'.all = run.all
        /\ run'.seen = run.seen /\ run'.cmd = run.inv.package /\ run'.consent = TRUE
        /\ run'.wrote = run.wrote /\ run'.moved = run.moved
        /\ run' \in [pc : Steps, inv : {None} \cup Invocation, host : {None} \cup Hosts,
                     read : {run'.read}, todo : Seq(Agents), all : SUBSET Agents,
                     seen : {run'.seen}, cmd : {None, "ask"} \cup Commands,
                     consent : BOOLEAN, wrote : BOOLEAN, moved : BOOLEAN]
    <3>1. run \in [pc : Steps, inv : {None} \cup Invocation, host : {None} \cup Hosts,
                   read : {run.read}, todo : Seq(Agents), all : SUBSET Agents,
                   seen : {run.seen}, cmd : {None, "ask"} \cup Commands,
                   consent : BOOLEAN, wrote : BOOLEAN, moved : BOOLEAN]
      BY DEF IInv, TypeOK
    <3>2. "write" \in Steps /\ run.inv.package \in {None, "ask"} \cup Commands
      BY <2>1 DEF Steps, Commands
    <3> QED
      BY <1>5, <3>1, <3>2
  <2>3. TypeOK'
    BY <1>1, <1>5, <2>2 DEF IInv, TypeOK
  <2>4. Locals' /\ Signed' /\ Decided'
    BY <1>1, <2>2 DEF IInv, Locals, Signed, Decided, Signing, Writing
  <2>5. AsRead'
    BY <1>1, <2>2 DEF IInv, AsRead, Signing, Content
  <2>6. Done'
    BY <1>1, <2>2 DEF IInv, Done, Writing, ProjectStands
  <2>7. Stands'
    BY <1>1, <1>5, <2>2, StandsKept DEF IInv
  <2> QED
    BY <2>3, <2>4, <2>5, <2>6, <2>7 DEF IInv
<1> QED
  BY <1>3, <1>4, <1>5

\* The operator may stop the command at any time.
LEMMA InterruptKeeps ==
  ASSUME IInv, Interrupt
  PROVE  IInv'
<1>1. fresh \subseteq Files
  BY DEF IInv, TypeOK
<1> QED
  BY <1>1, FailKeeps DEF Interrupt, AtPc, fileVars, agentVars

\* A runtime that ends leaves the binding and the credential.
LEMMA StopRuntimeKeeps ==
  ASSUME IInv, StopRuntime
  PROVE  IInv'
<1>1. runtimeHost' = None
      /\ UNCHANGED <<disk, links, agentHost, registered, run, runs, edits, fresh, settled>>
  BY DEF StopRuntime, fileVars
<1>2. TypeOK'
  BY <1>1 DEF IInv, TypeOK
<1>3. Locals' /\ AsRead' /\ Decided'
  BY <1>1 DEF IInv, Locals, AsRead, Decided, MayReplace
<1>4. Signed'
  BY <1>1 DEF IInv, Signed
<1>5. Done'
  BY <1>1 DEF IInv, Done, ProjectStands
<1>6. Stands'
  BY <1>1 DEF IInv, Stands, Again, SameFlags, ProjectStands
<1> QED
  BY <1>2, <1>3, <1>4, <1>5, <1>6 DEF IInv

\* An edit makes a file stale and unsettles what was configured.
LEMMA EditedKeeps ==
  ASSUME IInv, NEW f \in Files, NEW content \in Content(f), Edited(f, content)
  PROVE  IInv'
<1>1. /\ disk' = [disk EXCEPT ![f] = content] /\ fresh' = fresh \ {f} /\ settled' = None
      /\ edits < MaxEdits /\ edits' = edits + 1
      /\ UNCHANGED <<links, agentHost, runtimeHost, registered, run, runs>>
  BY DEF Edited, agentVars
<1>2. /\ disk' = [g \in Files |-> disk'[g]]
      /\ \A g \in Files : disk'[g] \in {None, Invalid} \/ disk'[g] \in Content(g)
      /\ \A g \in fresh' : g \in fresh /\ disk'[g] = disk[g]
  BY <1>1 DEF IInv, TypeOK
<1>3. TypeOK'
  BY <1>1, <1>2, BoundsAssumption DEF IInv, TypeOK, BoundsAssumption
<1>4. Locals' /\ Signed' /\ Decided' /\ Stands'
  BY <1>1 DEF IInv, Locals, Signed, Decided, Stands, MayReplace
<1>5. AsRead'
  BY <1>1, <1>2 DEF IInv, AsRead, Content
<1>6. Done'
  BY <1>1, <1>2 DEF IInv, Done, ProjectStands
<1> QED
  BY <1>3, <1>4, <1>5, <1>6 DEF IInv

\* Somebody edits what is not init's.
LEMMA EditUnrelatedKeeps ==
  ASSUME IInv, NEW f \in Files, EditUnrelated(f)
  PROVE  IInv'
<1>1. disk[f] \in Content(f)
  BY DEF EditUnrelated, IInv, TypeOK
<1>2. "edited" \in Words
  BY FileAssumption DEF FileAssumption
<1>3. CASE f = "project"
  <2>1. [disk[f] EXCEPT !.rules = "edited"] \in Content(f)
    BY <1>1, <1>2, <1>3 DEF Content, Project
  <2> QED
    BY <1>3, <2>1, EditedKeeps DEF EditUnrelated
<1>4. CASE f = "codex"
  <2>1. [name |-> "other", val |-> "edited", tuned |-> FALSE, tidy |-> TRUE] \in Section
    BY <1>2 DEF Section
  <2>2. disk[f] \in Seq(Section) /\ f # "project"
    BY <1>1, <1>4 DEF Content
  <2>3. Append(disk[f], [name |-> "other", val |-> "edited", tuned |-> FALSE, tidy |-> TRUE])
          \in Content(f)
    BY <1>4, <2>1, <2>2 DEF Content
  <2> QED
    BY <1>4, <2>2, <2>3, EditedKeeps DEF EditUnrelated
<1>5. CASE f \notin {"project", "codex"}
  <2>1. [disk[f] EXCEPT !.others = "edited"] \in Content(f)
    BY <1>1, <1>2, <1>5 DEF Content, Json
  <2> QED
    BY <1>5, <2>1, EditedKeeps DEF EditUnrelated
<1> QED
  BY <1>3, <1>4, <1>5

\* Somebody edits the entry itself.
LEMMA EditEntryKeeps ==
  ASSUME IInv, NEW a \in Agents, EditEntry(a)
  PROVE  IInv'
<1>1. a \in Files /\ a # "project"
  BY AgentAssumption DEF Files, Agents, AgentAssumption
<1>2. disk[a] = None \/ disk[a] \in Content(a)
  BY <1>1 DEF EditEntry, IInv, TypeOK
<1>3. CASE a = "codex"
  <2>1. TomlCommand(Sections(disk[a])) # None
    BY <1>3 DEF EditEntry, EntryCommand
  <2>2. FindGrepmindBlock(Sections(disk[a])) # None
    BY <2>1 DEF TomlCommand
  <2>3. RootSections(Sections(disk[a])) # {}
    BY <2>2 DEF FindGrepmindBlock
  <2>4. disk[a] # None
    BY <2>3 DEF Sections, RootSections
  <2>5. disk[a] \in Seq(Section) /\ Sections(disk[a]) = disk[a]
    BY <1>2, <1>3, <2>4 DEF Content, Sections
  <2> DEFINE t == disk[a]
             r == FindGrepmindBlock(t)[1]
  <2>6. r \in RootSections(t)
    <3>1. (CHOOSE i \in RootSections(t) : TRUE) \in RootSections(t)
      BY <2>3, <2>5
    <3>2. r = CHOOSE i \in RootSections(t) : TRUE
      BY <2>3, <2>5 DEF FindGrepmindBlock
    <3> QED
      BY <3>1, <3>2
  <2>7. r \in 1 .. Len(t) /\ t[r] \in Section
    BY <2>5, <2>6 DEF RootSections
  <2>8. [t EXCEPT ![r].val = "foreign"] \in Seq(Section)
    <3>1. [t[r] EXCEPT !.val = "foreign"] \in Section
      BY <2>7 DEF Section, Commands
    <3> HIDE DEF r, t
    <3>2. t \in Seq(Section)
      BY <2>5 DEF t
    <3>3. [t EXCEPT ![r] = [t[r] EXCEPT !.val = "foreign"]] \in Seq(Section)
      BY <2>7, <3>1, <3>2, ExceptSeq
    <3> QED
      BY <3>3
  <2> QED
    BY <1>1, <1>3, <2>8, EditedKeeps DEF EditEntry, Content
<1>4. CASE a # "codex"
  <2>1. JsonCommand(disk[a]) # None
    BY <1>4 DEF EditEntry, EntryCommand
  <2>2. disk[a] # None /\ disk[a].entry # None
    BY <2>1 DEF JsonCommand
  <2>3. disk[a] \in Json /\ disk[a].entry \in Entry
    BY <1>1, <1>2, <1>4, <2>2 DEF Content, Json
  <2>4. [disk[a].entry EXCEPT !.cmd = "foreign"] \in Entry
    BY <2>3 DEF Entry, Commands
  <2>5. [disk[a] EXCEPT !.entry.cmd = "foreign"] \in Json
    BY <2>3, <2>4 DEF Json
  <2> QED
    BY <1>1, <1>4, <2>5, EditedKeeps DEF EditEntry, Content
<1> QED
  BY <1>3, <1>4

-----------------------------------------------------------------------------
(* The write of a client's file.                                           *)

\* The environment of an entry names a host and says whether it is tuned.
LEMMA GeneratedEnvIsOne ==
  ASSUME NEW host \in Hosts, NEW tuned \in BOOLEAN
  PROVE  /\ GeneratedEnv(host, tuned) \in Env
         /\ GeneratedEnv(host, tuned).host = host
BY DEF GeneratedEnv, Env

\* What the command writes, and what it keeps of the rest of the file.
LEMMA EntryIsBuilt ==
  ASSUME IInv, run.pc = "write", NEW a, a = Head(run.todo),
         a = "codex" => ~Unreadable(a, disk[a])
  PROVE  /\ a \in Agents
         /\ run.cmd \in Kept(run.inv.force, run.inv.package)
         /\ run.cmd \in {"gen", "older", "custom"}
         /\ NextContent(a) \in Content(a)
         /\ EntryStands(a, NextContent(a), run.host, run.inv.tuned, run.inv.force, run.inv.package)
         /\ SameUnrelated(a, IF a = "codex" THEN disk[a] ELSE run.seen, NextContent(a))
<1>1. /\ run.inv \in Invocation /\ run.host \in Hosts
      /\ run.todo \in Seq(Agents) /\ run.todo # <<>>
  BY DEF IInv, TypeOK, Locals, Writing
<1>2. a \in Agents
  BY <1>1
<1>3. a # "project"
  BY <1>2, AgentAssumption DEF Agents, AgentAssumption
<1>4. run.cmd \in Kept(run.inv.force, run.inv.package)
  <2>1. EntryCommand(a, run.seen) \in Recognized =>
          PreservedCommand(EntryCommand(a, run.seen)) \in {"gen", "older"}
    BY DEF Recognized, PreservedCommand
  <2> QED
    BY <2>1 DEF IInv, Decided, Kept
<1>5. run.cmd \in {"gen", "older", "custom"}
  <2>1. run.inv.package \in {"gen", "custom"}
    BY <1>1 DEF Invocation
  <2> QED
    BY <1>4, <2>1 DEF Kept
<1>8. RunEnv \in Env /\ RunEnv.host \in Hosts
  BY <1>1, GeneratedEnvIsOne DEF RunEnv, Invocation
<1>6. CASE a = "codex"
  <2> DEFINE toml == Sections(disk[a])
             new == ReplaceGrepmindBlock(toml, RenderGrepmindBlock(run.cmd, RunEnv))
  <2>1. toml \in Seq(Section) /\ ~AmbiguousBlock(toml)
    BY <1>2, <1>6, ReadableContent DEF IInv
  <2>2. NextContent(a) = new
    BY <1>6 DEF NextContent
  <2>3. /\ new \in Seq(Section)
        /\ \E r \in 1 .. (Len(new) - 1) : BlockStands(new, r, run.cmd, RunEnv)
        /\ SameOthers(toml, new)
    BY <1>5, <1>8, <2>1, ReplacedBlock
  <2> HIDE DEF new
  <2>4. EntryStands(a, new, run.host, run.inv.tuned, run.inv.force, run.inv.package)
    BY <1>4, <1>6, <2>3 DEF EntryStands, RunEnv
  <2>5. SameUnrelated(a, disk[a], new)
    BY <1>3, <1>6, <2>3 DEF SameUnrelated
  <2> QED
    BY <1>2, <1>3, <1>4, <1>5, <1>6, <2>2, <2>3, <2>4, <2>5 DEF Content
<1>7. CASE a # "codex"
  <2> DEFINE new == BuildJsonConfig(run.seen, run.cmd, RunEnv)
  <2>1. NextContent(a) = new
    BY <1>7 DEF NextContent
  <2>2. run.seen = None \/ run.seen \in Json
    BY <1>3, <1>7 DEF IInv, AsRead, Content
  <2>3. [cmd |-> run.cmd, env |-> RunEnv, extra |-> FALSE] \in Entry
    BY <1>5, <1>8 DEF Entry, Commands
  <2>4. /\ new \in Json /\ new.tidy
        /\ new.entry = [cmd |-> run.cmd, env |-> RunEnv, extra |-> FALSE]
        /\ new.others = IF run.seen = None THEN "none" ELSE run.seen.others
    BY <2>2, <2>3, FileAssumption DEF BuildJsonConfig, Json, FileAssumption
  <2> HIDE DEF new
  <2>5. EntryStands(a, new, run.host, run.inv.tuned, run.inv.force, run.inv.package)
    BY <1>4, <1>7, <2>4 DEF EntryStands, RunEnv
  <2>6. SameUnrelated(a, run.seen, new)
    BY <1>3, <1>7, <2>4 DEF SameUnrelated
  <2> QED
    BY <1>2, <1>3, <1>4, <1>5, <1>7, <2>1, <2>4, <2>5, <2>6 DEF Content
<1> QED
  BY <1>6, <1>7

\* Reading such an entry finds its command and its host, and building it again
\* changes nothing.
Settles(a, content, env, cmd) ==
  /\ EntryCommand(a, content) = cmd
  /\ a = "codex" =>
       /\ content \in Seq(Section)
       /\ content[FindGrepmindBlock(content)[1] + 1].val = env.host
       /\ ReplaceGrepmindBlock(Sections(content), RenderGrepmindBlock(cmd, env)) = content
  /\ a # "codex" =>
       /\ content.entry.env = env
       /\ BuildJsonConfig(content, cmd, env) = content

\* What is configured is found again: the command of the entry and its host.
LEMMA StandingEntry ==
  ASSUME NEW a \in Agents, NEW content, NEW host \in Hosts, NEW tuned \in BOOLEAN,
         NEW force \in BOOLEAN, NEW package \in {"gen", "custom"},
         EntryStands(a, content, host, tuned, force, package)
  PROVE  \E cmd \in Kept(force, package) :
           Settles(a, content, GeneratedEnv(host, tuned), cmd)
<1> DEFINE env == GeneratedEnv(host, tuned)
<1>0. env \in Env /\ env.host \in Hosts
  BY GeneratedEnvIsOne
<1>1. PICK cmd \in Kept(force, package) :
        IF a = "codex"
        THEN /\ content \in Seq(Section)
             /\ \E r \in 1 .. (Len(content) - 1) : BlockStands(content, r, cmd, env)
        ELSE /\ content \in Json /\ content.tidy
             /\ content.entry = [cmd |-> cmd, env |-> env, extra |-> FALSE]
  BY DEF EntryStands
<1> HIDE DEF env
<1>2. cmd \in {"gen", "older", "custom"}
  BY DEF Kept
<1>3. CASE a = "codex"
  <2>1. content \in Seq(Section)
    BY <1>1, <1>3
  <2>2. PICK r \in 1 .. (Len(content) - 1) : BlockStands(content, r, cmd, env)
    BY <1>1, <1>3
  <2>3. Sections(content) = content
    BY <2>1, NothingAssumption DEF NothingAssumption, Sections
  <2>4. /\ TomlCommand(content) = cmd
        /\ content[FindGrepmindBlock(content)[1] + 1].val = env.host
    BY <1>0, <1>2, <2>1, <2>2, BlockIsFound
  <2>5. ReplaceGrepmindBlock(content, RenderGrepmindBlock(cmd, env)) = content
    BY <1>0, <1>2, <2>1, <2>2, BlockIsKept
  <2> QED
    BY <1>3, <2>1, <2>3, <2>4, <2>5 DEF EntryCommand, Settles, env
<1>4. CASE a # "codex"
  <2>1. /\ content \in Json /\ content.tidy
        /\ content.entry = [cmd |-> cmd, env |-> env, extra |-> FALSE]
    BY <1>1, <1>4
  <2>2. content # None
    BY <2>1, NothingAssumption DEF NothingAssumption
  <2>3. content.entry \in Entry
    BY <1>0, <1>2, <2>1 DEF Entry, Commands
  <2>4. content.entry # None
    BY <2>3, NothingAssumption DEF NothingAssumption
  <2>5. BuildJsonConfig(content, cmd, env) = content
    BY <2>1, <2>2 DEF BuildJsonConfig, Json
  <2>6. EntryCommand(a, content) = cmd /\ content.entry.env = env
    BY <1>4, <2>1, <2>2, <2>4 DEF EntryCommand, JsonCommand
  <2> QED
    BY <1>4, <2>1, <2>5, <2>6 DEF Settles, env
<1> QED
  BY <1>3, <1>4 DEF env

\* A command that asks for what is configured would write what the file holds.
LEMMA AgainIsQuiet ==
  ASSUME IInv, run.pc = "write", settled # None, Again, NEW a, a = Head(run.todo),
         a \in settled.agents
  PROVE  NextContent(a) = disk[a] /\ (a # "codex" => run.seen = disk[a])
<1>1. /\ run.inv \in Invocation /\ run.host \in Hosts
      /\ settled.host \in Hosts /\ settled.agents \subseteq Agents
      /\ settled.force \in BOOLEAN /\ settled.package \in {"gen", "custom"}
      /\ settled.tuned \in BOOLEAN
  BY DEF IInv, TypeOK, Locals
<1>2. a \in Agents /\ a \in fresh
  BY <1>1 DEF IInv, Stands, Files
<1>3. run.seen = disk[a]
  BY <1>2 DEF IInv, AsRead
<1>4. EntryStands(a, disk[a], settled.host, settled.tuned, settled.force, settled.package)
  BY DEF IInv, Stands
<1>5. PICK cmd \in Kept(settled.force, settled.package) :
        Settles(a, disk[a], GeneratedEnv(settled.host, settled.tuned), cmd)
  BY <1>1, <1>2, <1>4, StandingEntry
<1>6. run.cmd = cmd
  <2>1. /\ run.host = settled.host /\ run.inv.package = settled.package
        /\ run.inv.force => settled.force
    BY DEF Again, SameFlags
  <2>2. \/ /\ run.cmd = settled.package
           /\ run.inv.force \/ cmd \notin Recognized
        \/ /\ run.cmd = PreservedCommand(cmd)
           /\ ~run.inv.force /\ cmd \in Recognized
    BY <1>3, <1>5, <2>1 DEF IInv, Decided, Settles
  <2>3. cmd = settled.package \/ (~settled.force /\ cmd \in {"gen", "older"})
    BY DEF Kept
  <2>4. cmd \in {"gen", "older"} => cmd \in Recognized /\ PreservedCommand(cmd) = cmd
    BY DEF Recognized, PreservedCommand
  <2>5. cmd \in Recognized => cmd # "custom"
    BY DEF Recognized
  <2> QED
    BY <1>1, <2>1, <2>2, <2>3, <2>4, <2>5
<1>7. RunEnv = GeneratedEnv(settled.host, settled.tuned)
  BY DEF Again, SameFlags, RunEnv
<1> QED
  BY <1>3, <1>5, <1>6, <1>7 DEF NextContent, Settles

\* The write, when there is one: no link, no dry run, and nothing that stands already.
LEMMA WriteEntryEffect ==
  ASSUME IInv, WriteEntry
  PROVE  LET a == Head(run.todo)
             base == IF a = "codex" THEN disk[a] ELSE run.seen
         IN /\ run.pc = "write"
            /\ UNCHANGED <<links, agentHost, runtimeHost, registered, runs, edits, fresh>>
            /\ \/ Fail /\ UNCHANGED disk
               \/ /\ NextAgent(FALSE) /\ UNCHANGED disk
                  /\ a = "codex" => ~Unreadable(a, disk[a])
                  /\ NextContent(a) = base \/ run.inv.dryRun
               \/ /\ NextAgent(TRUE) /\ disk' = [disk EXCEPT ![a] = NextContent(a)]
                  /\ a = "codex" => ~Unreadable(a, disk[a])
                  /\ NextContent(a) # base /\ ~run.inv.dryRun /\ a \notin links
BY DEF WriteEntry, WriteTextFile, AtPc, agentVars

\* The entry of a client is written, found written, or refused.
LEMMA WriteEntryKeeps ==
  ASSUME IInv, WriteEntry
  PROVE  IInv'
<1> DEFINE a == Head(run.todo)
           base == IF a = "codex" THEN disk[a] ELSE run.seen
           next == NextContent(a)
<1>1. /\ run.pc = "write"
      /\ UNCHANGED <<links, agentHost, runtimeHost, registered, runs, edits, fresh>>
  BY WriteEntryEffect
<1>2. fresh \subseteq Files
  BY DEF IInv, TypeOK
<1>3. a \in fresh => run.seen = disk[a]
  BY <1>1 DEF IInv, AsRead
<1>4. \/ Fail /\ UNCHANGED disk
      \/ /\ NextAgent(FALSE) /\ UNCHANGED disk
         /\ a = "codex" => ~Unreadable(a, disk[a])
         /\ next = base \/ run.inv.dryRun
      \/ /\ NextAgent(TRUE) /\ disk' = [disk EXCEPT ![a] = next]
         /\ a = "codex" => ~Unreadable(a, disk[a])
         /\ next # base /\ ~run.inv.dryRun /\ a \notin links
  BY WriteEntryEffect
<1>5. CASE Fail /\ UNCHANGED disk
  BY <1>1, <1>2, <1>5, FailKeeps
<1>6. ASSUME a = "codex" => ~Unreadable(a, disk[a])
      PROVE  /\ a \in Agents /\ next \in Content(a)
             /\ EntryStands(a, next, run.host, run.inv.tuned, run.inv.force, run.inv.package)
  BY <1>1, <1>6, EntryIsBuilt
<1>7. CASE /\ NextAgent(FALSE) /\ UNCHANGED disk
           /\ a = "codex" => ~Unreadable(a, disk[a])
           /\ next = base \/ run.inv.dryRun
  <2>1. /\ a \in Agents
        /\ EntryStands(a, next, run.host, run.inv.tuned, run.inv.force, run.inv.package)
    BY <1>6, <1>7
  <2>2. ~run.inv.dryRun /\ a \in fresh => next = disk[a]
    BY <1>3, <1>7
  <2>3. a \in Files
    BY <2>1 DEF Files
  <2> HIDE DEF a, next
  <2>4. Turn(a, FALSE)
    BY <1>1, <1>2, <1>7, <2>1, <2>2, <2>3 DEF Turn, Writing, IInv, TypeOK, a
  <2> QED
    BY <1>7, <2>4, NextAgentKeeps
<1>8. CASE /\ NextAgent(TRUE) /\ disk' = [disk EXCEPT ![a] = next]
           /\ a = "codex" => ~Unreadable(a, disk[a])
           /\ next # base /\ ~run.inv.dryRun /\ a \notin links
  <2>1. /\ a \in Agents /\ next \in Content(a)
        /\ EntryStands(a, next, run.host, run.inv.tuned, run.inv.force, run.inv.package)
    BY <1>6, <1>8
  <2>2. a \in Files
    BY <2>1 DEF Files
  <2>3. settled # None /\ Again => a \notin settled.agents
    BY <1>1, <1>8, AgainIsQuiet
  <2> HIDE DEF a, next, base
  <2>4. /\ disk' = [f \in Files |-> disk'[f]] /\ disk'[a] = next
        /\ \A f \in Files \ {a} : disk'[f] = disk[f]
    BY <1>8, <2>2 DEF IInv, TypeOK
  <2>5. Turn(a, TRUE)
    BY <1>1, <1>2, <1>8, <2>1, <2>2, <2>3, <2>4 DEF Turn, Writing, a
  <2> QED
    BY <1>8, <2>5, NextAgentKeeps
<1> HIDE DEF a, base, next
<1> QED
  BY <1>4, <1>5, <1>7, <1>8

\* The invariant is inductive.
LEMMA StepIInv ==
  ASSUME IInv, [Next]_vars
  PROVE  IInv'
<1>1. CASE UNCHANGED vars
  <2>1. UNCHANGED <<disk, links, agentHost, runtimeHost, registered,
                    run, runs, edits, fresh, settled>>
    BY <1>1 DEF vars
  <2>2. TypeOK'
    BY <2>1 DEF IInv, TypeOK
  <2>3. Locals' /\ AsRead' /\ Decided'
    BY <2>1 DEF IInv, Locals, AsRead, Decided, MayReplace
  <2>4. Signed'
    BY <2>1 DEF IInv, Signed
  <2>5. Done'
    BY <2>1 DEF IInv, Done, ProjectStands
  <2>6. Stands'
    BY <2>1 DEF IInv, Stands, Again, SameFlags, ProjectStands
  <2> QED
    BY <2>2, <2>3, <2>4, <2>5, <2>6 DEF IInv
<1>2. CASE InitStep
  BY <1>2, StartKeeps, ConfirmHostnameChangeKeeps, SelectAgentsKeeps, CheckAuthKeeps,
     ConfirmLoginKeeps, LoginAgentKeeps, EnsureAgentReadyKeeps, RegisterWorkspaceKeeps,
     WriteProjectConfigKeeps, DecideEntryKeeps, ConfirmReplaceKeeps, WriteEntryKeeps,
     InterruptKeeps
  DEF InitStep
<1> QED
  BY <1>1, <1>2, StopRuntimeKeeps, EditUnrelatedKeeps, EditEntryKeeps DEF Next

\* The invariant is one.
LEMMA Inductive == Spec => []IInv
BY InitIInv, StepIInv, PTL DEF Spec

-----------------------------------------------------------------------------
(* What follows.                                                           *)

\* The files keep their forms, and the command its locals.
THEOREM TypeCorrect == Spec => []TypeOK
<1>1. IInv => TypeOK
  BY DEF IInv
<1> QED
  BY <1>1, Inductive, PTL

\* However commands, edits, logins, interruptions and the ends of runtimes follow
\* each other, no file is written before the agent is signed in at the chosen host,
\* and what a successful command has configured is served by one host (command.ts,
\* agent-rpc/bootstrap.ts).
THEOREM WhatIsConfiguredIsServed == Spec => []ConfiguredIsServed
<1>1. IInv => ConfiguredIsServed
  <2> SUFFICES ASSUME IInv
               PROVE  ConfiguredIsServed
    OBVIOUS
  <2>1. run.wrote => agentHost = run.host /\ registered # None
    BY DEF IInv, Locals, Signed, Writing
  <2>2. ASSUME settled # None, run.pc = "idle"
        PROVE  /\ agentHost = settled.host
               /\ ~settled.moved => registered = settled.host
                                    /\ runtimeHost \in {None, settled.host}
               /\ disk["project"].host = settled.host
               /\ \A a \in settled.agents : EntryHost(a) = settled.host
    <3>1. run = Rest /\ ~run.wrote
      BY <2>2 DEF IInv, Locals, Rest
    <3>2. /\ agentHost = settled.host
          /\ ~settled.moved => registered = settled.host
                               /\ runtimeHost \in {None, settled.host}
          /\ disk["project"].host = settled.host
      BY <2>2 DEF IInv, Stands, ProjectStands
    <3>3. ASSUME NEW a \in settled.agents
          PROVE  EntryHost(a) = settled.host
      <4>1. /\ a \in Agents /\ settled.host \in Hosts
            /\ settled.tuned \in BOOLEAN /\ settled.force \in BOOLEAN
            /\ settled.package \in {"gen", "custom"}
        BY <2>2 DEF IInv, TypeOK
      <4>2. EntryStands(a, disk[a], settled.host, settled.tuned, settled.force, settled.package)
        BY <2>2, <3>1 DEF IInv, Stands
      <4>3. PICK cmd \in Kept(settled.force, settled.package) :
              Settles(a, disk[a], GeneratedEnv(settled.host, settled.tuned), cmd)
        BY <4>1, <4>2, StandingEntry
      <4>4. GeneratedEnv(settled.host, settled.tuned).host = settled.host
        BY <4>1, GeneratedEnvIsOne
      <4> QED
        BY <4>3, <4>4 DEF Settles, EntryHost
    <3> QED
      BY <3>2, <3>3
  <2> QED
    BY <2>1, <2>2 DEF ConfiguredIsServed
<1> QED
  BY <1>1, Inductive, PTL

\* Two steps of the command rewrite a file.
LEMMA Writers ==
  ASSUME IInv, [Next]_vars, NEW f \in Files, Rewritten(f)
  PROVE  \/ WriteProjectConfig /\ f = "project"
         \/ WriteEntry /\ f = Head(run.todo) /\ f \in Agents
<1>1. disk' # disk /\ edits' = edits
  BY DEF Rewritten
<1>2. edits \in Nat
  BY BoundsAssumption DEF IInv, TypeOK, BoundsAssumption
<1>3. CASE WriteProjectConfig
  <2>1. disk' = [disk EXCEPT !["project"] = BuildProjectConfig(run.read, run.host)]
    BY <1>1, <1>3, WriteProjectConfigEffect
  <2> QED
    BY <1>3, <2>1 DEF Rewritten, IInv, TypeOK
<1>4. CASE WriteEntry
  <2>1. /\ disk' = [disk EXCEPT ![Head(run.todo)] = NextContent(Head(run.todo))]
        /\ run.pc = "write"
    BY <1>1, <1>4, WriteEntryEffect
  <2>2. f = Head(run.todo)
    BY <2>1 DEF Rewritten, IInv, TypeOK
  <2>3. run.todo \in Seq(Agents) /\ run.todo # <<>>
    BY <2>1 DEF IInv, TypeOK, Locals, Writing
  <2>4. Head(run.todo) \in Agents
    BY <2>3
  <2> QED
    BY <1>4, <2>2, <2>4
<1>5. ASSUME NEW g \in Files, NEW content, Edited(g, content)
      PROVE  FALSE
  BY <1>1, <1>2, <1>5 DEF Edited
<1>6. CASE \E g \in Files : EditUnrelated(g)
  BY <1>5, <1>6 DEF EditUnrelated
<1>7. CASE \E a \in Agents : EditEntry(a)
  <2>1. Agents \subseteq Files
    BY DEF Files
  <2> QED
    BY <1>5, <1>7, <2>1 DEF EditEntry
<1>8. CASE UNCHANGED vars
  BY <1>1, <1>8 DEF vars
<1>9. CASE StopRuntime
  BY <1>1, <1>9 DEF StopRuntime, fileVars
<1>10. CASE \E inv \in Invocations : Start(inv)
  BY <1>1, <1>10 DEF Start, fileVars
<1>11. CASE ConfirmHostnameChange \/ SelectAgents \/ CheckAuth \/ ConfirmLogin
  BY <1>1, <1>11 DEF ConfirmHostnameChange, SelectAgents, CheckAuth, ConfirmLogin, fileVars
<1>12. CASE LoginAgent \/ EnsureAgentReady \/ RegisterWorkspace
  BY <1>1, <1>12 DEF LoginAgent, EnsureAgentReady, RegisterWorkspace, fileVars
<1>13. CASE DecideEntry \/ ConfirmReplace \/ Interrupt
  BY <1>1, <1>13 DEF DecideEntry, ConfirmReplace, Interrupt, fileVars
<1> QED
  BY <1>3, <1>4, <1>6, <1>7, <1>8, <1>9, <1>10, <1>11, <1>12, <1>13 DEF Next, InitStep

\* Whatever the command writes, the include and exclude lists and the unknown keys of
\* .grepmind.json, the other servers and the other TOML sections survive, no link is
\* followed and a dry run writes nothing (writers/*.ts, project-config.ts).
THEOREM TheRestIsKept == Spec => UnrelatedKept
<1>1. ASSUME IInv, [Next]_vars, NEW f \in Files, Rewritten(f)
      PROVE  /\ f \notin links /\ ~run.inv.dryRun
             /\ f = "codex" \/ f \in fresh => SameUnrelated(f, disk[f], disk'[f])
  <2>1. CASE WriteProjectConfig /\ f = "project"
    <3> DEFINE next == BuildProjectConfig(run.read, run.host)
    <3>1. /\ disk' = [disk EXCEPT !["project"] = next]
          /\ ~run.inv.dryRun /\ "project" \notin links
      BY <1>1, <2>1, WriteProjectConfigEffect DEF Rewritten
    <3>2. disk'[f] = next
      BY <1>1, <2>1, <3>1 DEF IInv, TypeOK
    <3>3. f \in fresh => run.read = disk[f]
      BY <1>1, <2>1 DEF IInv, AsRead, WriteProjectConfig, AtPc
    <3>4. <<next.rules, next.other>> = IF run.read = None THEN <<"none", "none">>
                                       ELSE <<run.read.rules, run.read.other>>
      BY DEF BuildProjectConfig
    <3> HIDE DEF next
    <3>5. f \in fresh => SameUnrelated(f, disk[f], next)
      BY <2>1, <3>3, <3>4 DEF SameUnrelated
    <3> QED
      BY <2>1, <3>1, <3>2, <3>5
  <2>2. CASE WriteEntry /\ f = Head(run.todo) /\ f \in Agents
    <3>1. /\ disk' = [disk EXCEPT ![f] = NextContent(f)] /\ run.pc = "write"
          /\ f = "codex" => ~Unreadable(f, disk[f])
          /\ ~run.inv.dryRun /\ f \notin links
      BY <1>1, <2>2, WriteEntryEffect DEF Rewritten
    <3>2. disk'[f] = NextContent(f)
      BY <1>1, <3>1 DEF IInv, TypeOK
    <3>3. SameUnrelated(f, IF f = "codex" THEN disk[f] ELSE run.seen, NextContent(f))
      BY <1>1, <2>2, <3>1, EntryIsBuilt
    <3>4. f \in fresh => run.seen = disk[f]
      BY <1>1, <2>2, <3>1 DEF IInv, AsRead
    <3> QED
      BY <3>1, <3>2, <3>3, <3>4
  <2> QED
    BY <1>1, <2>1, <2>2, Writers
<1>2. IInv /\ [Next]_vars =>
        [\A f \in Files : Rewritten(f) =>
           /\ f \notin links /\ ~run.inv.dryRun
           /\ f = "codex" \/ f \in fresh => SameUnrelated(f, disk[f], disk'[f])]_vars
  BY <1>1
<1> QED
  BY <1>2, Inductive, PTL DEF Spec, UnrelatedKept

\* An entry init does not recognise goes only with the operator's word, unless it
\* appeared after init had read the file (mcp-entry.ts, resolveWriteDecision).
THEOREM ReplacedWithConsent == Spec => ConsentedReplacement
<1>1. ASSUME IInv, [Next]_vars, NEW a \in Agents, Rewritten(a),
             EntryCommand(a, disk[a]) \notin {None} \cup Recognized, a \in fresh
      PROVE  run.inv.force \/ run.consent \/ (run.inv.yes /\ a \in run.inv.explicit)
  <2>1. a \in Files /\ a # "project"
    BY AgentAssumption DEF Files, Agents, AgentAssumption
  <2>2. WriteEntry /\ a = Head(run.todo)
    BY <1>1, <2>1, Writers
  <2>3. run.pc = "write"
    BY <1>1, <2>2, WriteEntryEffect
  <2>4. run.seen = disk[a]
    BY <1>1, <2>2, <2>3 DEF IInv, AsRead
  <2>5. MayReplace(a) \/ run.consent
    BY <1>1, <2>2, <2>3, <2>4 DEF IInv, Decided
  <2> QED
    BY <2>5 DEF MayReplace
<1>2. IInv /\ [Next]_vars =>
        [\A a \in Agents :
           /\ Rewritten(a)
           /\ EntryCommand(a, disk[a]) \notin {None} \cup Recognized
           => \/ run.inv.force \/ run.consent
              \/ run.inv.yes /\ a \in run.inv.explicit
              \/ a \notin fresh]_vars
  BY <1>1
<1> QED
  BY <1>2, Inductive, PTL DEF Spec, ConsentedReplacement

\* A command run again leaves every file a successful one has configured as it is:
\* .grepmind.json whatever its flags but for the host, the entries whatever the clients
\* and prompts when the flags written into them are the same, short of a first --force
\* (project-config.ts, writers/json-config.ts, writers/toml-config.ts).
THEOREM ASecondRunIsQuiet == Spec => RerunIsQuiet
<1>1. ASSUME IInv, [Next]_vars, settled # None, run.pc # "idle", run.host = settled.host,
             Rewritten("project")
      PROVE  FALSE
  <2>1. WriteProjectConfig
    <3>1. "project" \in Files /\ "project" \notin Agents
      BY AgentAssumption DEF Files, Agents, AgentAssumption
    <3> QED
      BY <1>1, <3>1, Writers
  <2>2. /\ ~run.inv.dryRun /\ run.pc = "project"
        /\ BuildProjectConfig(run.read, run.host) # run.read
    BY <1>1, <2>1, WriteProjectConfigEffect DEF Rewritten, WriteProjectConfig, AtPc
  <2>3. /\ disk["project"] = run.read /\ run.read \in Project
        /\ run.read.host = run.host /\ ~run.read.extra /\ run.read.tidy
    BY <1>1, <2>2 DEF IInv, Stands, AsRead, ProjectStands, Files
  <2>4. run.read # None
    BY <2>3, NothingAssumption DEF NothingAssumption
  <2>5. BuildProjectConfig(run.read, run.host) = run.read
    BY <2>3, <2>4 DEF BuildProjectConfig, Project
  <2> QED
    BY <2>2, <2>5
<1>2. ASSUME IInv, [Next]_vars, settled # None, Again, NEW a \in settled.agents, Rewritten(a)
      PROVE  FALSE
  <2>1. a \in Files /\ a \in Agents /\ a # "project"
    BY <1>2, AgentAssumption DEF IInv, TypeOK, Files, Agents, AgentAssumption
  <2>2. WriteEntry /\ a = Head(run.todo)
    BY <1>2, <2>1, Writers
  <2>3. /\ run.pc = "write"
        /\ NextContent(a) # IF a = "codex" THEN disk[a] ELSE run.seen
    BY <1>2, <2>2, WriteEntryEffect DEF Rewritten
  <2> QED
    BY <1>2, <2>2, <2>3, AgainIsQuiet
<1>3. IInv /\ [Next]_vars =>
        [settled # None /\ run.pc # "idle" /\ run.host = settled.host =>
           /\ ~Rewritten("project")
           /\ SameFlags => \A a \in settled.agents : ~Rewritten(a)]_vars
  BY <1>1, <1>2 DEF Again
<1> QED
  BY <1>3, Inductive, PTL DEF Spec, RerunIsQuiet

=============================================================================
