--------------------------- MODULE WorkspaceInit ---------------------------
(* `grepmind init`: it reads .grepmind.json, prepares the agent runtime (a  *)
(* login may take minutes), registers the workspace, writes .grepmind.json  *)
(* and then the MCP configuration of each selected client in turn, stopping *)
(* at the first refusal. Meanwhile the user and the clients edit the same   *)
(* files. Sources: packages/grepmind/src/init.                              *)
EXTENDS Naturals, FiniteSets, Sequences, SequencesExt

CONSTANTS
  Hosts, DefaultHost,    \* backend host names
  JsonAgents,            \* clients configured in a JSON file: "claude", "cursor"
  Invocations,           \* the command lines the operator may type
  ProjectFiles, JsonFiles, CodexFiles,  \* what the files may hold at first
  AgentDirs,             \* clients detected by a directory of theirs
  Links,                 \* sets of files that may be symbolic links
  Words,                 \* what the parts of the files that are not init's may say
  MaxRuns, MaxEdits,     \* bounds: commands run, edits by somebody else
  None,                  \* nothing: no file, no entry, no value
  Invalid                \* a file that does not parse

ASSUME BoundsAssumption == MaxRuns \in Nat /\ MaxEdits \in Nat
ASSUME HostAssumption == DefaultHost \in Hosts /\ None \notin Hosts

ASSUME AgentAssumption == JsonAgents \subseteq {"claude", "cursor"}

Agents == {"codex"} \cup JsonAgents
Files == {"project"} \cup Agents

(* supportedInitAgents, which is the order of the flags and of detection.   *)
Place == [codex |-> 1, claude |-> 2, cursor |-> 3]
InOrder(todo) == \A i, j \in DOMAIN todo : i < j => Place[todo[i]] < Place[todo[j]]

(* The `command` of an MCP entry, as isRecognizedGrepmindCommand tells them *)
(* apart: "gen" is the generated one, "older" another recognised one,       *)
(* "array" a recognised array, "custom" what --mcp-package generates,       *)
(* "foreign" anything else and "broken" an entry without a command.         *)
Commands == {"gen", "older", "array", "custom", "foreign", "broken"}
Recognized == {"gen", "older", "array"}

(* tuned: --data-dir or --mcp-startup-timeout-ms has a value of its own. The *)
(* directory, however it is named, is that of the one agent of the model.   *)
Invocation ==
  [hostname : Hosts \cup {None}, explicit : SUBSET Agents, allDetected : BOOLEAN,
   yes : BOOLEAN, noOpen : BOOLEAN, force : BOOLEAN, dryRun : BOOLEAN,
   package : {"gen", "custom"}, tuned : BOOLEAN, tty : BOOLEAN]

ASSUME InvocationAssumption ==
  /\ Invocations \subseteq Invocation
  /\ \A i \in Invocations : i.allDetected => i.explicit = {}

(* Files: a project configuration, a JSON MCP configuration with an entry   *)
(* or None, and a Codex configuration, the sequence of its TOML sections:   *)
(* "root" is [mcp_servers.grepmind] and holds a command, "env" and "nested" *)
(* are its sub-tables, "other" belongs to somebody else. A section is all   *)
(* the text from its header to the next, so that a comment above a header   *)
(* belongs to the section before. tidy: the text is what the writer would   *)
(* have produced. rules: the include and exclude lists of code and docs.    *)
(* other: the top-level keys init does not know. extra: what it knows and   *)
(* does not write: $schema, mcp, another version, a section without a list, *)
(* any other key of a section; further keys of an entry.                    *)
Project == [host : Hosts \cup {None}, rules : Words, other : Words, extra : BOOLEAN,
            tidy : BOOLEAN]
Env == [host : Hosts \cup {None}, tuned : BOOLEAN]   \* of an entry; startup_timeout_sec too
Entry == [cmd : Commands, env : Env, extra : BOOLEAN]
Json == [others : Words, entry : {None} \cup Entry, tidy : BOOLEAN]
Section == [name : {"root", "env", "nested", "other"},
            val : Hosts \cup Commands \cup Words, tuned : BOOLEAN, tidy : BOOLEAN]
Content(f) ==
  IF f = "project" THEN Project ELSE IF f = "codex" THEN Seq(Section) ELSE Json

ASSUME FileAssumption ==
  /\ {"none", "edited"} \subseteq Words
  /\ \A c \in ProjectFiles : c \in {None, Invalid} \/ c \in Project
  /\ \A c \in JsonFiles : c \in {None, Invalid} \/ c \in Json
  /\ \A c \in CodexFiles : c \in {None, Invalid} \/ c \in Seq(Section)
  /\ \A l \in Links : l \subseteq Files
  /\ AgentDirs \subseteq Agents

(* None and Invalid are neither contents nor entries nor places in a file.  *)
ASSUME NothingAssumption ==
  /\ None # Invalid
  /\ \A x \in {None, Invalid} : x \notin Project /\ x \notin Json /\ x \notin Seq(Section)
  /\ None \notin Commands \cup Words /\ None \notin Entry /\ None \notin Nat \X Nat

VARIABLES
  disk,        \* Files -> content
  links,       \* files that are symbolic links
  agentHost,   \* host of the agent's credential
  runtimeHost, \* host the running agent runtime was started for, or None
  registered,  \* host of the workspace's binding in the agent's database
  run,         \* the command that runs
  runs, edits, \* how often a command was run, a file edited
  fresh,       \* files nobody else changed since the command read them
  settled      \* what the last successful command configured, until a change

vars == <<disk, links, agentHost, runtimeHost, registered, run, runs, edits, fresh, settled>>
fileVars == <<disk, links>>
agentVars == <<agentHost, runtimeHost, registered>>

Rest == [pc |-> "idle", inv |-> None, host |-> None, read |-> None,
         todo |-> <<>>, all |-> {}, seen |-> None, cmd |-> None,
         consent |-> FALSE, wrote |-> FALSE, moved |-> FALSE]

Init ==
  /\ \E project \in ProjectFiles, codex \in CodexFiles,
        json \in [JsonAgents -> JsonFiles] :
       disk = [f \in Files |-> IF f = "project" THEN project
                               ELSE IF f = "codex" THEN codex ELSE json[f]]
  /\ links \in Links
  /\ agentHost \in Hosts \cup {None}
  /\ runtimeHost \in {None, agentHost}
  /\ registered = None
  /\ run = Rest
  /\ runs = 0 /\ edits = 0
  /\ fresh = {}
  /\ settled = None

----------------------------------------------------------------------------
(* What the command makes of the files.                                    *)

BuildProjectConfig(read, host) ==
  [host |-> host, extra |-> FALSE, tidy |-> TRUE,
   rules |-> IF read = None THEN "none" ELSE read.rules,
   other |-> IF read = None THEN "none" ELSE read.other]

(* Indexing rules must be lists of strings.                                 *)
RulesRefused(read) == read # None /\ read.rules = "bad"

GeneratedEnv(host, tuned) == [host |-> host, tuned |-> tuned]

BuildJsonConfig(seen, cmd, env) ==
  [others |-> IF seen = None THEN "none" ELSE seen.others,
   entry |-> [cmd |-> cmd, env |-> env, extra |-> FALSE],
   tidy |-> TRUE]

OfGrepmind(section) == section.name \in {"root", "env", "nested"}

Sections(content) == IF content = None THEN <<>> ELSE content

(* Indices of the [mcp_servers.grepmind] sections. *)
RootSections(toml) == {i \in DOMAIN toml : toml[i].name = "root"}

(* A Codex configuration init refuses to touch: two root sections, or a     *)
(* sub-table that no root section precedes.                                 *)
AmbiguousBlock(toml) ==
  \/ Cardinality(RootSections(toml)) > 1
  \/ \E i \in DOMAIN toml : /\ toml[i].name \in {"env", "nested"}
                            /\ \A j \in RootSections(toml) : i < j

FindRootSection(toml) ==
  LET start == CHOOSE i \in RootSections(toml) : TRUE
  IN IF RootSections(toml) = {} THEN None ELSE <<start, start>>

(* First and last section of the block: the root and all that follows it up *)
(* to the next unrelated header.                                            *)
FindGrepmindBlock(toml) ==
  LET start == CHOOSE i \in RootSections(toml) : TRUE
      after == {i \in DOMAIN toml : i > start /\ ~OfGrepmind(toml[i])}
  IN IF RootSections(toml) = {} THEN None
     ELSE <<start, IF after = {} THEN Len(toml) ELSE Min(after) - 1>>

RenderGrepmindBlock(cmd, env) ==
  <<[name |-> "root", val |-> cmd, tuned |-> env.tuned, tidy |-> TRUE],
    [name |-> "env", val |-> env.host, tuned |-> env.tuned, tidy |-> TRUE]>>

ReplaceGrepmindBlock(toml, block) ==
  LET found == FindGrepmindBlock(toml)
  IN IF found = None THEN toml \o block
     ELSE SubSeq(toml, 1, found[1] - 1) \o block
          \o SubSeq(toml, found[2] + 1, Len(toml))

(* Only a string is read from TOML: an array counts as no command at all.   *)
ParsedCommand(val) == IF val = "array" THEN "broken" ELSE val

(* The command of an entry that is present, None where the file has none.   *)
TomlCommand(toml) ==
  LET found == FindGrepmindBlock(toml)
  IN IF found = None THEN None ELSE ParsedCommand(toml[found[1]].val)

JsonCommand(content) ==
  IF content = None \/ content.entry = None THEN None ELSE content.entry.cmd

EntryCommand(a, content) ==
  IF a = "codex" THEN TomlCommand(Sections(content)) ELSE JsonCommand(content)

IsRecognized(cmd) == cmd \in Recognized

(* The command that stays when an entry is preserved: an array has no       *)
(* command string to keep, the generated one replaces it.                   *)
PreservedCommand(cmd) == IF cmd = "array" THEN "gen" ELSE cmd

Detected(a) == disk[a] # None \/ a \in AgentDirs

(* Selections of clients, in the order of the flags or of the answer.       *)
Selections == {s \in UNION {[1 .. n -> Agents] : n \in 1 .. Cardinality(Agents)} :
              IsInjective(s)}

----------------------------------------------------------------------------
(* Ends of a command. A dry run and a failed run that wrote nothing leave   *)
(* what was settled before as it was.                                       *)
Fail ==
  /\ run' = Rest
  /\ settled' = IF run.wrote THEN None ELSE settled

Succeed ==
  /\ run' = Rest
  /\ settled' = IF run.inv.dryRun THEN settled
                ELSE IF ~({"project"} \cup run.all \subseteq fresh) THEN None
                ELSE [host |-> run.host, agents |-> run.all,
                      force |-> run.inv.force, package |-> run.inv.package,
                      tuned |-> run.inv.tuned, moved |-> run.moved]

(* Prompts need a terminal; the answer is the user's.                       *)
Ask(Yes) == \E answer \in BOOLEAN : IF run.inv.tty /\ answer THEN Yes ELSE Fail

(* The file appears whole under its name or not at all; a symbolic link is  *)
(* refused.                                                                 *)
WriteTextFile(f, content, Then) ==
  IF f \in links THEN Fail /\ UNCHANGED disk
  ELSE disk' = [disk EXCEPT ![f] = content] /\ Then

AtPc(p) == run.pc = p
Goto(p) == run' = [run EXCEPT !.pc = p]

(* What follows one client's file: the next client's, or the summary.       *)
NextAgent(wrote) ==
  IF Len(run.todo) = 1 THEN Succeed
  ELSE /\ run' = [run EXCEPT !.pc = "decide", !.todo = Tail(@), !.seen = None,
                             !.cmd = None, !.consent = FALSE,
                             !.wrote = @ \/ wrote]
       /\ UNCHANGED settled

(* --hostname, else what .grepmind.json names, else the default.            *)
ResolveInitHostname(inv, read) ==
  IF inv.hostname # None THEN inv.hostname
  ELSE IF read # None /\ read.host # None THEN read.host
  ELSE DefaultHost

(* The content .grepmind.json has now; the command ends if it is Invalid.   *)
ReadProjectConfig == disk["project"]

(* The command reads .grepmind.json once; what it read is what it builds on *)
(* when it writes the file, after the login.                                *)
Start(inv) ==
  LET read == ReadProjectConfig
      host == ResolveInitHostname(inv, read)
      asks == /\ ~inv.dryRun /\ ~inv.yes /\ inv.hostname # None /\ read # None
              /\ read.host # None /\ read.host # host
      moved == \E h \in {runtimeHost, registered} : h \notin {None, host}
  IN /\ AtPc("idle") /\ runs < MaxRuns
     /\ read # Invalid
     /\ runs' = runs + 1
     /\ run' = [Rest EXCEPT !.pc = IF asks THEN "confirm" ELSE "select",
                            !.inv = inv, !.host = host, !.read = read,
                            !.moved = moved]
     /\ fresh' = Files
     /\ UNCHANGED <<fileVars, agentVars, edits, settled>>

(* .grepmind.json names another host than --hostname.                       *)
ConfirmHostnameChange ==
  /\ AtPc("confirm")
  /\ Ask(Goto("select") /\ UNCHANGED settled)
  /\ UNCHANGED <<fileVars, agentVars, runs, edits, fresh>>

(* The flags name the clients, or all detected ones are taken, or the user  *)
(* picks some.                                                              *)
Selected(todo) ==
  /\ run' = [run EXCEPT !.pc = IF run.inv.dryRun THEN "project" ELSE "auth",
                        !.todo = todo, !.all = Range(todo)]
  /\ UNCHANGED settled

SelectAgents ==
  LET detected == {a \in Agents : Detected(a)}
      Take(agents) ==
        \E todo \in Selections : Range(todo) = agents /\ InOrder(todo) /\ Selected(todo)
  IN /\ AtPc("select")
     /\ IF run.inv.explicit # {} THEN Take(run.inv.explicit)
        ELSE IF run.inv.allDetected \/ run.inv.yes
             THEN IF detected = {} THEN Fail ELSE Take(detected)
        ELSE IF run.inv.tty
             THEN \E todo \in Selections : Selected(todo)
        ELSE Fail
     /\ UNCHANGED <<fileVars, agentVars, runs, edits, fresh>>

NeverMismatch == FALSE

HostMismatch == agentHost # None /\ agentHost # run.host

(* The stored credential against the chosen host. --yes --no-open cannot    *)
(* open a browser, another host needs the user's word unless --yes.         *)
CheckAuth ==
  LET barred == run.inv.yes /\ run.inv.noOpen /\ (agentHost = None \/ HostMismatch)
  IN /\ AtPc("auth")
     /\ IF barred THEN Fail
        ELSE /\ Goto(IF ~HostMismatch THEN "ready"
                     ELSE IF run.inv.yes THEN "login" ELSE "askLogin")
             /\ UNCHANGED settled
     /\ UNCHANGED <<fileVars, agentVars, runs, edits, fresh>>

ConfirmLogin ==
  /\ AtPc("askLogin")
  /\ Ask(Goto("login") /\ UNCHANGED settled)
  /\ UNCHANGED <<fileVars, agentVars, runs, edits, fresh>>

(* The `auth login` subprocess for the other host succeeds or is killed at  *)
(* its deadline.                                                            *)
LoginAgent ==
  /\ AtPc("login")
  /\ \/ /\ agentHost' = run.host
        /\ Goto("ready")
        /\ settled' = None
     \/ UNCHANGED agentHost /\ Fail
  /\ UNCHANGED <<fileVars, runtimeHost, registered, runs, edits, fresh>>

(* ensureAgentReady: log in where there is no credential, then take the     *)
(* runtime that answers, whose configuration dates from its start, or start *)
(* one.                                                                     *)
EnsureAgentReady ==
  /\ AtPc("ready")
  /\ \/ /\ agentHost' = IF agentHost = None THEN run.host ELSE agentHost
        /\ runtimeHost' = IF runtimeHost = None THEN agentHost' ELSE runtimeHost
        /\ Goto("register")
        /\ UNCHANGED settled
     \/ UNCHANGED <<agentHost, runtimeHost>> /\ Fail
  /\ UNCHANGED <<fileVars, registered, runs, edits, fresh>>

(* A binding of this workspace in the agent's database is taken as it is,   *)
(* whatever its host; else the runtime registers at the host it runs for.   *)
(* Nothing here unbinds the workspace: that a registration after a clean is *)
(* answered from the record of an earlier one is RpcIdempotency's subject.  *)
RegisterWorkspace ==
  /\ AtPc("register")
  /\ \/ /\ runtimeHost # None
        /\ registered' = IF registered = None THEN runtimeHost ELSE registered
        /\ Goto("project") /\ UNCHANGED settled
     \/ UNCHANGED registered /\ Fail
  /\ UNCHANGED <<fileVars, agentHost, runtimeHost, runs, edits, fresh>>

(* .grepmind.json from what was read when the command began.                *)
WriteProjectConfig ==
  LET next == BuildProjectConfig(run.read, run.host)
      Proceed(wrote) ==
        /\ run' = [run EXCEPT !.pc = "decide", !.read = None, !.wrote = wrote]
        /\ UNCHANGED settled
  IN /\ AtPc("project")
     /\ IF RulesRefused(run.read) THEN Fail /\ UNCHANGED disk
        ELSE IF next = run.read \/ run.inv.dryRun THEN Proceed(FALSE) /\ UNCHANGED disk
        ELSE WriteTextFile("project", next, Proceed(TRUE))
     /\ UNCHANGED <<links, agentVars, runs, edits, fresh>>

ReplaceOnYes(a) == run.inv.force \/ run.inv.yes

(* Flags that stand for the answer to the prompt.                           *)
MayReplace(a) == run.inv.force \/ (run.inv.yes /\ a \in run.inv.explicit)

(* The command to write, given the one the client's file holds.             *)
ResolveWriteDecision(a, cmd) ==
  IF cmd = None THEN run.inv.package
  ELSE IF IsRecognized(cmd) /\ ~run.inv.force THEN PreservedCommand(cmd)
  ELSE IF MayReplace(a) THEN run.inv.package
  ELSE IF ~run.inv.dryRun /\ ~run.inv.yes THEN "ask"
  ELSE "refuse"

Unreadable(a, content) ==
  content = Invalid \/ (a = "codex" /\ AmbiguousBlock(Sections(content)))

(* The client's file is read and the command of its entry decided.          *)
DecideEntry ==
  LET a == Head(run.todo)
      seen == disk[a]
      decision == ResolveWriteDecision(a, EntryCommand(a, seen))
  IN /\ AtPc("decide")
     /\ fresh' = fresh \cup {a}
     /\ IF Unreadable(a, seen) \/ (decision = "refuse" /\ ~run.inv.dryRun) THEN Fail
        ELSE IF decision = "refuse" THEN NextAgent(FALSE)
        ELSE /\ run' = [run EXCEPT !.pc = IF decision = "ask" THEN "askReplace" ELSE "write",
                                   !.seen = seen, !.cmd = decision]
             /\ UNCHANGED settled
     /\ UNCHANGED <<fileVars, agentVars, runs, edits>>

ConfirmReplace ==
  /\ AtPc("askReplace")
  /\ Ask(/\ run' = [run EXCEPT !.pc = "write", !.cmd = run.inv.package,
                                !.consent = TRUE]
         /\ UNCHANGED settled)
  /\ UNCHANGED <<fileVars, agentVars, runs, edits, fresh>>

\* The environment of every entry the command writes.
RunEnv == GeneratedEnv(run.host, run.inv.tuned)

\* Bug: the Codex file is not read again after the prompt.
StaleContent(a) ==
  IF a = "codex"
  THEN ReplaceGrepmindBlock(Sections(run.seen), RenderGrepmindBlock(run.cmd, RunEnv))
  ELSE BuildJsonConfig(run.seen, run.cmd, RunEnv)

(* A JSON file is rebuilt from what was read before the prompt; the Codex   *)
(* file is read again and only its block replaced.                          *)
NextContent(a) ==
  IF a = "codex"
  THEN ReplaceGrepmindBlock(Sections(disk[a]), RenderGrepmindBlock(run.cmd, RunEnv))
  ELSE BuildJsonConfig(run.seen, run.cmd, RunEnv)

WriteEntry ==
  LET a == Head(run.todo)
      base == IF a = "codex" THEN disk[a] ELSE run.seen
      next == NextContent(a)
  IN /\ AtPc("write")
     /\ IF a = "codex" /\ Unreadable(a, disk[a]) THEN Fail /\ UNCHANGED disk
        ELSE IF next = base \/ run.inv.dryRun THEN NextAgent(FALSE) /\ UNCHANGED disk
        ELSE WriteTextFile(a, next, NextAgent(TRUE))
     /\ UNCHANGED <<links, agentVars, runs, edits, fresh>>

(* The operator stops the command. A file is replaced by a rename, so it is *)
(* never half written.                                                      *)
Interrupt ==
  /\ ~AtPc("idle")
  /\ Fail
  /\ UNCHANGED <<fileVars, agentVars, runs, edits, fresh>>

(* The agent runtime ends where that can be noticed: between two commands,  *)
(* or after it answered a ping.                                             *)
StopRuntime ==
  /\ runtimeHost # None /\ run.pc \in {"idle", "register"}
  /\ runtimeHost' = None
  /\ UNCHANGED <<fileVars, agentHost, registered, run, runs, edits, fresh, settled>>

----------------------------------------------------------------------------
(* The user, or a client of its own accord, edits a file: what is none of   *)
(* init's business, or the grepmind entry itself.                           *)
Edited(f, content) ==
  /\ edits < MaxEdits
  /\ edits' = edits + 1
  /\ disk' = [disk EXCEPT ![f] = content]
  /\ fresh' = fresh \ {f}
  /\ settled' = None
  /\ UNCHANGED <<links, agentVars, run, runs>>

EditUnrelated(f) ==
  /\ disk[f] \notin {None, Invalid}
  /\ Edited(f, IF f = "project" THEN [disk[f] EXCEPT !.rules = "edited"]
               ELSE IF f = "codex"
                    THEN Append(disk[f], [name |-> "other", val |-> "edited",
                                          tuned |-> FALSE, tidy |-> TRUE])
               ELSE [disk[f] EXCEPT !.others = "edited"])

EditEntry(a) ==
  /\ disk[a] # Invalid
  /\ EntryCommand(a, disk[a]) \notin {None, "foreign"}
  /\ Edited(a, IF a = "codex"
               THEN [disk[a] EXCEPT ![FindGrepmindBlock(disk[a])[1]].val = "foreign"]
               ELSE [disk[a] EXCEPT !.entry.cmd = "foreign"])

InitStep ==
  \/ \E inv \in Invocations : Start(inv)
  \/ ConfirmHostnameChange \/ SelectAgents
  \/ CheckAuth \/ ConfirmLogin \/ LoginAgent
  \/ EnsureAgentReady \/ RegisterWorkspace
  \/ WriteProjectConfig \/ DecideEntry \/ ConfirmReplace \/ WriteEntry
  \/ Interrupt

Next ==
  \/ InitStep \/ StopRuntime
  \/ \E f \in Files : EditUnrelated(f)
  \/ \E a \in Agents : EditEntry(a)

Spec == Init /\ [][Next]_vars

----------------------------------------------------------------------------
(* Every variable has its type.                                             *)
Steps == {"idle", "confirm", "select", "auth", "askLogin", "login", "ready",
          "register", "project", "decide", "askReplace", "write"}

TypeOK ==
  /\ disk = [f \in Files |-> disk[f]]
  /\ \A f \in Files : disk[f] \in {None, Invalid} \/ disk[f] \in Content(f)
  /\ links \subseteq Files
  /\ {agentHost, runtimeHost, registered} \subseteq Hosts \cup {None}
  /\ run \in [pc : Steps, inv : {None} \cup Invocation, host : {None} \cup Hosts,
             read : {run.read}, todo : Seq(Agents), all : SUBSET Agents,
             seen : {run.seen}, cmd : {None, "ask"} \cup Commands,
             consent : BOOLEAN, wrote : BOOLEAN, moved : BOOLEAN]
  /\ run.read = None \/ run.read \in Project
  /\ runs \in 0 .. MaxRuns /\ edits \in 0 .. MaxEdits
  /\ fresh \subseteq Files
  /\ settled = None \/ settled \in [host : Hosts, agents : SUBSET Agents,
                                   force : BOOLEAN, package : {"gen", "custom"},
                                   tuned : BOOLEAN, moved : BOOLEAN]

(* The sections that are not init's are the same ones in the same order.    *)
Others(toml) == {i \in DOMAIN toml : ~OfGrepmind(toml[i])}
SameOthers(old, new) ==
  \E f \in [Others(old) -> Others(new)] :
    /\ Range(f) = Others(new)
    /\ \A i, j \in Others(old) : i < j => f[i] < f[j]
    /\ \A i \in Others(old) : new[f[i]] = old[i]

(* The part of a file that is not init's stays: the include and exclude     *)
(* lists and the unknown top-level keys of .grepmind.json, the other        *)
(* servers, the other TOML sections.                                        *)
SameUnrelated(f, old, new) ==
  IF f = "project" THEN <<new.rules, new.other>> =
                        IF old = None THEN <<"none", "none">> ELSE <<old.rules, old.other>>
  ELSE IF f = "codex" THEN SameOthers(Sections(old), new)
  ELSE new.others = IF old = None THEN "none" ELSE old.others

Rewritten(f) == edits' = edits /\ disk'[f] # disk[f]

(* Whatever init writes, the parts of the file above survive: in the Codex  *)
(* file even what somebody wrote while a prompt was open, in the others     *)
(* what was there when init read them. Nothing else is promised: $schema,   *)
(* mcp and further keys of a section of .grepmind.json, and comments        *)
(* between the Codex block and the next header, go with the first rewrite.  *)
(* A symbolic link is never written, a dry run writes nothing (writers/*.ts,*)
(* project-config.ts).                                                      *)
UnrelatedKept ==
  [][\A f \in Files : Rewritten(f) =>
       /\ f \notin links /\ ~run.inv.dryRun
       /\ f = "codex" \/ f \in fresh => SameUnrelated(f, disk[f], disk'[f])]_vars

(* An entry that init does not recognise goes only with the operator's      *)
(* word: --force, --yes for a client named on the command line, or the      *)
(* answer to the prompt -- unless it appeared after init had read the file. *)
ConsentedReplacement ==
  [][\A a \in Agents :
       /\ Rewritten(a)
       /\ EntryCommand(a, disk[a]) \notin {None} \cup Recognized
       => \/ run.inv.force \/ run.consent
          \/ run.inv.yes /\ a \in run.inv.explicit
          \/ a \notin fresh]_vars

SameFlags ==
  /\ run.inv.package = settled.package /\ run.inv.tuned = settled.tuned
  /\ run.inv.force => settled.force

(* A command run again leaves every file a successful run configured as it  *)
(* is: nothing is appended twice and nothing is reformatted, whatever the   *)
(* client selection and the prompts, as long as the flags that are written  *)
(* into the entries (--hostname, --mcp-package, --data-dir,                 *)
(* --mcp-startup-timeout-ms) are those of that run, and short of a first    *)
(* --force. .grepmind.json stays whatever the flags but for --hostname.     *)
RerunIsQuiet ==
  [][settled # None /\ run.pc # "idle" /\ run.host = settled.host =>
       /\ ~Rewritten("project")
       /\ SameFlags => \A a \in settled.agents : ~Rewritten(a)]_vars

EntryHost(a) ==
  IF a = "codex" THEN disk[a][FindGrepmindBlock(disk[a])[1] + 1].val
  ELSE disk[a].entry.env.host

(* No file is written before the agent is signed in at the chosen host and  *)
(* the workspace is bound, and after a successful run .grepmind.json, every *)
(* selected client's entry and the agent's credential name one host. The    *)
(* binding and the runtime are of that host as well, unless the command     *)
(* found a binding, or a runtime that runs, of another host: nothing        *)
(* replaces those (command.ts, agent-rpc/bootstrap.ts).                     *)
ConfiguredIsServed ==
  /\ run.wrote => agentHost = run.host /\ registered # None
  /\ settled # None /\ run.pc = "idle" =>
       /\ agentHost = settled.host
       /\ ~settled.moved => registered = settled.host
                            /\ runtimeHost \in {None, settled.host}
       /\ disk["project"].host = settled.host
       /\ \A a \in settled.agents : EntryHost(a) = settled.host
============================================================================
