--------------------------- MODULE DeploymentProofs ---------------------------
(***************************************************************************)
(* The safety properties of Deployment hold for every number of commands   *)
(* and deaths.  They are proved together: what the script brings up is     *)
(* what the commands left in the directory, and that hangs on there being  *)
(* one operator.                                                           *)
(***************************************************************************)
EXTENDS Deployment, TLAPS

Active(c) == command[c].pc \notin Ended \union {"waiting"}

\* One operator.
OneAtATime == \A c, d \in Commands : Active(c) /\ Active(d) => c = d

\* A command under way can be rendered, unless a secret of it is blank: what
\* readDockerNonInteractiveConfig accepts, validateDockerConfig does too.
InputsRender ==
  \A c \in Commands : command[c].pc \notin {"waiting", "refused"} =>
    command[c].input \in Input /\ (command[c].input.renders \/ command[c].input.blank)

\* A command that may be refused for anything but a blank secret has not written.
MayBeRefused(c) ==
  \/ command[c].pc \in {"waiting", "prepare"}
  \/ command[c].pc = "lstat" /\ Job(c)[1] = "secrets"
  \/ command[c].pc = "refused" /\ ~command[c].input.blank
UntouchedYet == \A c \in touched : ~MayBeRefused(c)

\* Until its rendering has been validated, no file is a command's.
NotRenderedYet(c) ==
  command[c].pc \in {"waiting", "prepare", "copy", "copyConfig", "render", "tfvars", "lstat",
                     "refused"}
UnnamedYet ==
  \A c \in Commands : NotRenderedYet(c) => c \notin {env, config, generated, tfvars, tfsecrets}

\* Files, volumes and services name commands that have written.
WritersTouched ==
  {env, config, generated, volumes, up.env, up.config, up.secrets} \intersect Commands
    \subseteq touched

\* A command without --force began in an empty directory, and generate-secrets.sh
\* without it found no secrets.
NewDirectory ==
  \A c \in Commands :
    /\ command[c].pc \in {"copy", "copyConfig", "render"} /\ ~Forced(c) =>
         env = None /\ config \notin Writers
    /\ command[c].pc \in {"copy", "copyConfig", "render", "config", "generated"} /\ ~Forced(c)
         => generated = None

\* config.yml is the template's from the copy until it is rendered: in between,
\* the script refuses to start.
Placeholders ==
  \A c \in Commands :
    /\ command[c].pc \in {"render", "config"} => config = "template"
    /\ command[c].pc = "config" => env = c

\* So a config.yml without placeholders was written by whoever wrote .env.
OneInit == config \in Writers => env = config

\* What the script has checked is still so, unless a forced command has written.
ScriptReads ==
  /\ start.pc # "idle" /\ ~disturbed => env # None /\ start.mode = ModeOf(env)
  /\ start.pc \in {"checkSecrets", "pull", "migrate", "up"} /\ ~disturbed => config \in Writers
  /\ start.pc \in {"pull", "migrate", "up"} /\ start.mode = "bundled" => generated # None

\* Past the migration, the secrets are still the ones that opened the database.
Migrated ==
  start.pc = "up" /\ start.mode = "bundled" /\ ~disturbed => volumes = generated

\* Services that were brought up had an .env.
UpWritten == up # NotUp /\ ~up.disturbed => up.env \in Writers

IInv ==
  /\ TypeOK
  /\ OneAtATime /\ InputsRender /\ UntouchedYet /\ UnnamedYet /\ WritersTouched
  /\ NewDirectory /\ Placeholders /\ OneInit /\ ScriptReads /\ Migrated
  /\ UpWritten /\ StartedFromOneInit /\ SecretsFitVolumes

-----------------------------------------------------------------------------
\* What the validation after the copy refuses, the reading has refused before,
\* but for secrets of white space.
LEMMA ReadingValidates == ASSUME NEW c \in DockerConfig, ReadConfig(c)
                          PROVE  ValidateDockerConfig(c) \/ c.secret = "blank"
  BY DEF DockerConfig, ReadConfig, ValidateDockerConfig, AssertHttpsForTraefik

\* So every configuration the reading accepts gives an input that can be rendered,
\* or has a blank secret.
LEMMA ReadingRenders ==
  ASSUME NEW r \in Readings, r.accepted, NEW force \in BOOLEAN
  PROVE  /\ Rendering(r, force) \in Input
         /\ Rendering(r, force).renders \/ Rendering(r, force).blank
         /\ Rendering(r, force).job = <<"render", "docker">>
         /\ Rendering(r, force).force = force
<1>1. PICK c \in DockerConfig :
        r = [accepted |-> ReadConfig(c), mode |-> c.mode, blank |-> c.secret = "blank",
             renders |-> ValidateDockerConfig(c)]
  BY DEF Readings
<1>2. r.renders \/ r.blank
  BY <1>1, ReadingValidates
<1>3. r.renders \in BOOLEAN /\ r.blank \in BOOLEAN
  BY <1>1 DEF ValidateDockerConfig
<1>4. r.mode \in {"bundled", "external"}
  BY <1>1 DEF DockerConfig
<1>. QED
  BY <1>2, <1>3, <1>4 DEF Rendering, Input, Jobs

\* A configured aws init is well formed, and refused late for a blank secret only.
LEMMA RenderingAwsRenders ==
  ASSUME NEW blank \in BOOLEAN, NEW force \in BOOLEAN
  PROVE  /\ RenderingAws(blank, force) \in Input
         /\ RenderingAws(blank, force).renders \/ RenderingAws(blank, force).blank
  BY DEF RenderingAws, Input, Jobs

\* The other commands' inputs are well formed, and nothing in them is refused late.
LEMMA OtherRenders ==
  ASSUME NEW job \in Jobs, NEW force \in BOOLEAN
  PROVE  Other(job, force) \in Input /\ Other(job, force).renders /\ Other(job, force).job = job
  BY DEF Other, Input

CommandType == [Commands -> [pc : Phases, input : Input \union {None}]]
StartType == [pc : {"idle", "checkConfig", "checkSecrets", "pull", "migrate", "up"},
              mode : {"bundled", "external", None}]

\* Command c has gone on to p; inputs are as they were.
Moves(c, p) ==
  /\ command' \in CommandType /\ command'[c].pc = p
  /\ \A d \in Commands \ {c} : command'[d].pc = command[d].pc
  /\ \A d \in Commands : /\ command'[d].input = command[d].input
                          /\ Forced(d)' = Forced(d) /\ Job(d)' = Job(d)
  /\ \A w \in Writers : ModeOf(w)' = ModeOf(w)

\* Continue moves one command on and leaves every input as it is.
LEMMA ContinueMoves ==
  ASSUME TypeOK, NEW c \in Commands, NEW p \in Phases, Continue(c, p)
  PROVE  Moves(c, p)
<1>1. command \in CommandType
  BY DEF TypeOK, CommandType
<1>2. /\ command' \in CommandType /\ command'[c].pc = p
      /\ \A d \in Commands \ {c} : command'[d].pc = command[d].pc
      /\ \A d \in Commands : command'[d].input = command[d].input
  BY <1>1 DEF CommandType, Continue
<1>. QED
  BY <1>2 DEF Moves, Forced, Job, ModeOf, Writers

\* What a step of a command that has been given does to the directory, for all
\* of its actions together.
Effect(c, p) ==
  /\ Active(c) /\ p \notin {"waiting", "prepare"} /\ Moves(c, p)
  /\ touched' \in {touched, touched \union {c}}
  /\ c \in touched' => /\ p = "refused" => command[c].input.blank
                       /\ p = "lstat" => Job(c)[1] # "secrets"
  /\ p \in {"lstat", "tfvars"} => At(c, "copyConfig")
  /\ p = "refused" => NotRenderedYet(c)
  /\ p = "copy" => At(c, "prepare") /\ (filled => Forced(c))
  /\ p = "copyConfig" => At(c, "copy")
  /\ p = "render" => At(c, "copyConfig") /\ config' = "template"
  /\ p = "config" => At(c, "render") /\ env' = c
  /\ p = "generated" =>
       At(c, "config") \/ (At(c, "lstat") /\ (generated # None => Forced(c)))
  /\ env' = env \/ (At(c, "render") /\ p = "config" /\ c \in touched')
  /\ \/ config' = config
     \/ At(c, "copyConfig") /\ config' = "template"
     \/ At(c, "config") /\ config' = c /\ c \in touched'
  /\ generated' = generated \/ (At(c, "generated") /\ generated' = c /\ c \in touched')
  /\ tfvars' \in {tfvars, "template"} \/ (p = "tfsecrets" /\ tfvars' = c)
  /\ tfsecrets' \in {tfsecrets, "template"} \/ (p = "done" /\ tfsecrets' = c)
  /\ UNCHANGED <<volumes, up, start>>
  /\ disturbed => disturbed'
  /\ (env' # env \/ config' # config \/ generated' # generated) /\ start.pc # "idle"
       /\ Forced(c) => disturbed'

\* The conjuncts about the commands themselves hold after any of their steps.
LEMMA EffectKeepsCommands ==
  ASSUME IInv, NEW c \in Commands, NEW p, Effect(c, p)
  PROVE  OneAtATime' /\ InputsRender' /\ UntouchedYet'
<1>1. OneAtATime'
  BY DEF IInv, OneAtATime, Effect, Moves, Active
<1>2. InputsRender'
  BY DEF IInv, InputsRender, Effect, Moves, Active, Ended
<1>3. UntouchedYet'
  BY DEF IInv, UntouchedYet, TypeOK, Effect, Moves, MayBeRefused
<1>. QED
  BY <1>1, <1>2, <1>3

\* The conjuncts about the files hold after any step of a command: the only one
\* under way does not render config.yml before .env, nor .env before the template.
LEMMA EffectKeepsFiles ==
  ASSUME IInv, NEW c \in Commands, NEW p, Effect(c, p)
  PROVE  UnnamedYet' /\ WritersTouched' /\ NewDirectory' /\ Placeholders' /\ OneInit'
<1>1. \A d \in Commands \ {c} : command[d].pc \in Ended \union {"waiting"}
  BY DEF IInv, OneAtATime, Effect, Active
<1>2. \A d \in Commands \ {c} : command'[d].pc \in Ended \union {"waiting"}
  BY <1>1 DEF Effect, Moves
<1>3. WritersTouched'
  <2>1. /\ (env' = c /\ c \in touched') \/ env' = env
        /\ (config' = c /\ c \in touched') \/ config' \in {config, "template"}
        /\ (generated' = c /\ c \in touched') \/ generated' = generated
        /\ volumes' = volumes /\ up' = up /\ touched \subseteq touched'
    BY DEF Effect
  <2>. QED
    BY <2>1, DeploymentAssumption DEF IInv, WritersTouched, DeploymentAssumption
<1>4. NewDirectory'
  BY <1>2, DeploymentAssumption
     DEF IInv, TypeOK, NewDirectory, Effect, Moves, At, Ended, Writers, DeploymentAssumption
<1>5. Placeholders'
  BY <1>2 DEF IInv, Placeholders, Effect, Moves, At, Ended
<1>6. OneInit'
  BY DeploymentAssumption
     DEF IInv, OneInit, Placeholders, Effect, At, Writers, DeploymentAssumption
<1>7. UnnamedYet'
  <2>1. SUFFICES ASSUME NEW d \in Commands, NotRenderedYet(d)'
                 PROVE  d \notin {env, config, generated, tfvars, tfsecrets}'
    BY DEF UnnamedYet
  <2>2. NotRenderedYet(d)
    BY <2>1 DEF NotRenderedYet, Effect, Moves, At
  <2>3. d \notin {env, config, generated, tfvars, tfsecrets} /\ d # "template"
    BY <2>2, DeploymentAssumption DEF IInv, UnnamedYet, DeploymentAssumption
  <2>4. d = c => p \notin {"config", "generated", "done", "tfsecrets"}
    BY <2>1 DEF NotRenderedYet, Effect, Moves
  <2>5. d = c => ~At(c, "config") /\ ~At(c, "generated")
    BY <2>2 DEF NotRenderedYet, At
  <2>. QED
    BY <2>3, <2>4, <2>5 DEF Effect
<1>. QED
  BY <1>3, <1>4, <1>5, <1>6, <1>7

\* What the script has read and brought up outlives the steps of a command,
\* which writes over either only with --force.
LEMMA EffectKeepsServices ==
  ASSUME IInv, NEW c \in Commands, NEW p, Effect(c, p)
  PROVE  ScriptReads' /\ Migrated' /\ UpWritten' /\ StartedFromOneInit' /\ SecretsFitVolumes'
<1>1. ScriptReads'
  <2>1. CASE env' # env \/ config' # config
    <3>1. start' = start /\ (generated # None => generated' # None)
      BY DeploymentAssumption DEF Effect, DeploymentAssumption
    <3>2. CASE start.pc = "idle" \/ disturbed'
      BY <3>1, <3>2 DEF IInv, ScriptReads
    <3>3. CASE start.pc # "idle" /\ ~disturbed'
      <4>1. ~Forced(c) /\ ~disturbed /\ env # None
        BY <2>1, <3>3 DEF IInv, ScriptReads, Effect
      <4>2. ~At(c, "render") /\ ~At(c, "copyConfig")
        BY <4>1 DEF IInv, NewDirectory, At
      <4>3. env' = env /\ config' \in Writers
        BY <2>1, <4>2 DEF Effect, Writers
      <4>. QED
        BY <3>1, <3>3, <4>1, <4>3, DeploymentAssumption
           DEF IInv, TypeOK, ScriptReads, Effect, Moves, Writers, DeploymentAssumption
    <3>. QED
      BY <3>2, <3>3
  <2>2. CASE env' = env /\ config' = config
    BY <2>2, DeploymentAssumption
       DEF IInv, TypeOK, ScriptReads, Effect, Moves, Writers, DeploymentAssumption
  <2>. QED
    BY <2>1, <2>2
<1>2. Migrated'
  <2>1. SUFFICES ASSUME start.pc = "up", start.mode = "bundled", ~disturbed'
                 PROVE  volumes = generated'
    BY DEF Migrated, Effect
  <2>2. volumes = generated /\ generated # None
    BY <2>1 DEF IInv, Migrated, ScriptReads, Effect
  <2>3. generated' = generated
    BY <2>1, <2>2 DEF IInv, NewDirectory, Effect, At
  <2>. QED
    BY <2>2, <2>3
<1>3. StartedFromOneInit'
  <2>1. SUFFICES ASSUME up # NotUp, ~up.disturbed
                 PROVE  up.env = up.config /\ up.mode = ModeOf(up.env)'
    BY DEF StartedFromOneInit, Effect, NotUp
  <2>2. up.env = up.config /\ up.mode = ModeOf(up.env)
    BY <2>1 DEF IInv, StartedFromOneInit
  <2>3. up' = up /\ up.env \in Writers
    BY <2>1 DEF IInv, UpWritten, Effect
  <2>. QED
    BY <2>2, <2>3 DEF Effect, Moves, ModeOf, Writers
<1>5. UpWritten'
  BY DEF IInv, UpWritten, Effect, NotUp
<1>4. SecretsFitVolumes'
  BY DEF IInv, SecretsFitVolumes, Effect
<1>. QED
  BY <1>1, <1>2, <1>3, <1>4, <1>5

\* A step of a command keeps the inductive invariant.
LEMMA EffectKeepsIInv ==
  ASSUME IInv, TypeOK', NEW c \in Commands, NEW p, Effect(c, p)
  PROVE  IInv'
  BY EffectKeepsCommands, EffectKeepsFiles, EffectKeepsServices DEF IInv

-----------------------------------------------------------------------------
\* The steps of a command.

\* Giving the next command keeps it: the ones before have ended (parseArgs).
LEMMA GivenKeepsIInv ==
  ASSUME IInv, NEW c \in Commands, NEW p \in {"prepare", "refused", "lstat"},
         NEW input \in Input \union {None}, Given(c, p, input),
         p # "refused" => input \in Input /\ (input.renders \/ input.blank),
         p = "lstat" => input.job[1] = "secrets"
  PROVE  IInv'
<1>1. /\ command' \in CommandType
      /\ command'[c].pc = p /\ command'[c].input = input
      /\ \A d \in Commands \ {c} : command'[d] = command[d]
  BY DEF IInv, TypeOK, CommandType, Given, Phases, Ended
<1>2. c \notin touched /\ \A d \in Commands \ {c} : command[d].pc \in Ended \union {"waiting"}
  BY DEF IInv, UntouchedYet, MayBeRefused, Given, At
<1>3. /\ filled' = filled /\ env' = env /\ config' = config /\ generated' = generated
      /\ tfvars' = tfvars /\ tfsecrets' = tfsecrets
      /\ volumes' = volumes /\ up' = up /\ start' = start
      /\ touched' = touched /\ disturbed' = disturbed /\ deaths' = deaths
  BY DEF Given, Keeps, docker, aws, services
<1>4. TypeOK'
  BY <1>1, <1>3 DEF IInv, TypeOK, CommandType
<1>5. OneAtATime' /\ InputsRender'
  BY <1>1, <1>2 DEF IInv, OneAtATime, InputsRender, Active, Ended
<1>6. UntouchedYet' /\ WritersTouched'
  BY <1>1, <1>2, <1>3 DEF IInv, TypeOK, UntouchedYet, MayBeRefused, Job, WritersTouched
<1>13. UnnamedYet'
  <2>1. NotRenderedYet(c)
    BY DEF Given, At, NotRenderedYet
  <2>. QED
    BY <1>1, <1>3, <2>1 DEF IInv, UnnamedYet, NotRenderedYet
<1>7. NewDirectory' /\ Placeholders' /\ OneInit'
  BY <1>1, <1>2, <1>3
     DEF IInv, NewDirectory, Placeholders, OneInit, Forced, Ended, Writers
<1>8. \A w \in touched \union {"hand"} : ModeOf(w)' = ModeOf(w)
  BY <1>1, <1>2 DEF IInv, TypeOK, ModeOf
<1>9. ScriptReads'
  BY <1>1, <1>2, <1>3, DeploymentAssumption
     DEF IInv, TypeOK, ScriptReads, WritersTouched, ModeOf, Writers, DeploymentAssumption
<1>10. Migrated' /\ SecretsFitVolumes'
  BY <1>3 DEF IInv, Migrated, SecretsFitVolumes
<1>11. UpWritten'
  BY <1>3 DEF IInv, UpWritten, NotUp
<1>12. StartedFromOneInit'
  <2>1. SUFFICES ASSUME up # NotUp, ~up.disturbed
                 PROVE  up.env = up.config /\ up.mode = ModeOf(up.env)'
    BY <1>3 DEF StartedFromOneInit, NotUp
  <2>2. up.env = up.config /\ up.mode = ModeOf(up.env) /\ up.env \in Writers
    BY <2>1 DEF IInv, StartedFromOneInit, UpWritten
  <2>. QED
    BY <1>1, <1>2, <1>3, <2>2 DEF IInv, WritersTouched, ModeOf, Writers
<1>. QED
  BY <1>4, <1>5, <1>6, <1>7, <1>9, <1>10, <1>11, <1>12, <1>13 DEF IInv

\* The configured docker init is given or refused (initDockerNonInteractive).
LEMMA InitDockerStep ==
  ASSUME IInv, NEW c \in Commands, InitDocker(c)
  PROVE  IInv'
<1>1. PICK r \in Readings, force \in BOOLEAN :
        IF r.accepted THEN Given(c, "prepare", Rendering(r, force)) ELSE Given(c, "refused", None)
  BY DEF InitDocker
<1>2. CASE r.accepted
  <2>1. /\ Rendering(r, force) \in Input
        /\ Rendering(r, force).renders \/ Rendering(r, force).blank
    BY <1>2, ReadingRenders
  <2>. QED
    BY <1>1, <1>2, <2>1, GivenKeepsIInv
<1>3. CASE ~r.accepted
  BY <1>1, <1>3, GivenKeepsIInv
<1>. QED
  BY <1>2, <1>3

\* The other commands are given (initAwsNonInteractive, copyTemplateCommand).
LEMMA OtherStep ==
  ASSUME IInv, NEW c \in Commands,
         InitAws(c) \/ CopyTemplateCommand(c) \/ RunGenerateSecrets(c)
  PROVE  IInv'
<1>1. CASE InitAws(c)
  BY <1>1, RenderingAwsRenders, GivenKeepsIInv DEF InitAws
<1>2. CASE CopyTemplateCommand(c)
  <2>1. \A platform \in {"docker", "aws", "kubernetes"} : <<"copy", platform>> \in Jobs
    BY DEF Jobs
  <2>. QED
    BY <1>2, <2>1, OtherRenders, GivenKeepsIInv DEF CopyTemplateCommand
<1>3. CASE RunGenerateSecrets(c)
  <2>1. <<"secrets", "docker">> \in Jobs /\ <<"secrets", "docker">>[1] = "secrets"
    BY DEF Jobs
  <2>. QED
    BY <1>3, <2>1, OtherRenders, GivenKeepsIInv DEF RunGenerateSecrets
<1>. QED
  BY <1>1, <1>2, <1>3

\* Steps that do not touch the directory.
LEMMA KeepingStep ==
  ASSUME IInv, NEW c \in Commands, NEW p \in Phases, Continue(c, p), Active(c),
         /\ filled' = filled /\ env' = env /\ config' = config /\ generated' = generated
         /\ tfvars' = tfvars /\ tfsecrets' = tfsecrets
         /\ volumes' = volumes /\ up' = up /\ start' = start
         /\ touched' = touched /\ disturbed' = disturbed /\ deaths' \in 0..MaxDeaths,
         p \in Ended \union {"copy", "generated", "placeholders"},
         p = "refused" => NotRenderedYet(c) /\ (c \in touched => command[c].input.blank),
         p = "copy" => At(c, "prepare") /\ (filled => Forced(c)),
         p = "generated" => At(c, "lstat") /\ (generated # None => Forced(c))
  PROVE  IInv'
<1>1. Moves(c, p)
  BY ContinueMoves DEF IInv
<1>2. TypeOK'
  BY <1>1 DEF IInv, TypeOK, Moves, CommandType
<1>3. Effect(c, p)
  BY <1>1 DEF Effect, Ended
<1>. QED
  BY <1>2, <1>3, EffectKeepsIInv

\* What Keeps leaves alone, variable by variable.
LEMMA KeepsUnchanged ==
  ASSUME IInv, Keeps
  PROVE  /\ filled' = filled /\ env' = env /\ config' = config /\ generated' = generated
         /\ tfvars' = tfvars /\ tfsecrets' = tfsecrets
         /\ volumes' = volumes /\ up' = up /\ start' = start
         /\ touched' = touched /\ disturbed' = disturbed /\ deaths' \in 0..MaxDeaths
  BY DEF IInv, TypeOK, Keeps, docker, aws, services

\* Steps that look at the directory, and deaths (prepareTargetDirectory).
LEMMA CheckingSteps ==
  ASSUME IInv, NEW c \in Commands,
         \/ PrepareTargetDirectory(c) \/ GenerateSecrets(c) \/ NoScript(c)
         \/ LstatAwsSecrets(c) \/ LinkInTheWay(c) \/ Dies(c)
  PROVE  IInv'
<1>1. At(c, "prepare") \/ (At(c, "lstat") /\ Job(c)[1] = "secrets") => c \notin touched
  BY DEF IInv, UntouchedYet, MayBeRefused, At
<1>2. At(c, "prepare") \/ At(c, "lstat") => Active(c) /\ NotRenderedYet(c)
  BY DEF At, Active, Ended, NotRenderedYet
<1>3. CASE PrepareTargetDirectory(c)
  <2>. DEFINE p == IF filled /\ ~Forced(c) THEN "refused" ELSE "copy"
  <2>1. Continue(c, p) /\ Keeps /\ At(c, "prepare")
    BY <1>3 DEF PrepareTargetDirectory
  <2>2. p \in {"refused", "copy"} /\ (p = "copy" => (filled => Forced(c)))
    OBVIOUS
  <2>. HIDE DEF p
  <2>. QED
    BY <1>1, <1>2, <2>1, <2>2, KeepsUnchanged, KeepingStep DEF Phases, Ended
<1>4. CASE GenerateSecrets(c)
  <2>. DEFINE external == env # None /\ ModeOf(env) = "external"
              taken == generated # None /\ ~Forced(c)
              p == IF external \/ taken THEN "refused" ELSE "generated"
  <2>1. Continue(c, p) /\ Keeps /\ At(c, "lstat") /\ Job(c)[1] = "secrets"
    BY <1>4 DEF GenerateSecrets
  <2>2. p \in {"refused", "generated"} /\ (p = "generated" => (generated # None => Forced(c)))
    OBVIOUS
  <2>. HIDE DEF p
  <2>. QED
    BY <1>1, <1>2, <2>1, <2>2, KeepsUnchanged, KeepingStep DEF Phases, Ended
<1>5. CASE NoScript(c)
  BY <1>1, <1>2, <1>5, KeepsUnchanged, KeepingStep DEF NoScript, Phases, Ended
<1>6. CASE LstatAwsSecrets(c)
  <2>1. PICK p \in {"placeholders", "done"} : Continue(c, p)
    BY <1>6 DEF LstatAwsSecrets
  <2>2. Keeps /\ At(c, "lstat")
    BY <1>6 DEF LstatAwsSecrets
  <2>. QED
    BY <1>2, <2>1, <2>2, KeepsUnchanged, KeepingStep DEF Phases, Ended
<1>7. CASE Dies(c)
  <2>1. Active(c) /\ Continue(c, "dead")
    BY <1>7 DEF Dies, Active
  <2>2. /\ filled' = filled /\ env' = env /\ config' = config /\ generated' = generated
        /\ tfvars' = tfvars /\ tfsecrets' = tfsecrets
        /\ volumes' = volumes /\ up' = up /\ start' = start
        /\ touched' = touched /\ disturbed' = disturbed
    BY <1>7 DEF Dies, docker, aws, services
  <2>3. deaths' \in 0..MaxDeaths
    BY <1>7, DeploymentAssumption DEF IInv, TypeOK, Dies, DeploymentAssumption
  <2>. QED
    BY <2>1, <2>2, <2>3, KeepingStep DEF Phases, Ended
<1>8. CASE LinkInTheWay(c)
  <2>1. Active(c) /\ Continue(c, "linked") /\ Keeps
    BY <1>8 DEF LinkInTheWay, Active
  <2>. QED
    BY <2>1, KeepsUnchanged, KeepingStep DEF Phases, Ended
<1>. QED
  BY <1>3, <1>4, <1>5, <1>6, <1>7, <1>8

\* Steps that write: touched by c, and under --force they disturb the script.
LEMMA WritingStep ==
  ASSUME IInv, NEW c \in Commands, NEW p \in Phases, Continue(c, p), Writes(c), Active(c),
         p \notin {"waiting", "prepare", "refused", "copy"},
         p = "lstat" => Job(c)[1] # "secrets",
         p = "copyConfig" => At(c, "copy"),
         p = "render" => At(c, "copyConfig") /\ config' = "template",
         p = "config" => At(c, "render") /\ env' = c,
         p = "generated" => At(c, "config"),
         env' = env \/ (At(c, "render") /\ p = "config"),
         \/ config' = config
         \/ At(c, "copyConfig") /\ config' = "template"
         \/ At(c, "config") /\ config' = c,
         generated' = generated \/ (At(c, "generated") /\ generated' = c),
         p \in {"lstat", "tfvars"} => At(c, "copyConfig"),
         tfvars' \in {tfvars, "template"} \/ (p = "tfsecrets" /\ tfvars' = c),
         tfsecrets' \in {tfsecrets, "template"} \/ (p = "done" /\ tfsecrets' = c)
  PROVE  IInv'
<1>1. Moves(c, p)
  BY ContinueMoves DEF IInv
<1>2. /\ touched' = touched \union {c} /\ filled' = TRUE
      /\ disturbed' = (disturbed \/ (start.pc # "idle" /\ Forced(c)))
      /\ volumes' = volumes /\ up' = up /\ start' = start /\ deaths' = deaths
  BY DEF Writes, services
<1>3. TypeOK'
  <2>1. /\ env' \in Writers \union {None} /\ config' \in File
        /\ generated' \in Commands \union {None}
    BY DEF IInv, TypeOK, Writers, File
  <2>2. disturbed' \in BOOLEAN /\ touched' \subseteq Commands
    BY <1>2 DEF IInv, TypeOK
  <2>. QED
    BY <1>1, <1>2, <2>1, <2>2 DEF IInv, TypeOK, Moves, CommandType
<1>4. Effect(c, p)
  BY <1>1, <1>2 DEF Effect
<1>. QED
  BY <1>3, <1>4, EffectKeepsIInv

\* The template's config.yml is copied (copyDeploymentTemplate).
LEMMA CopyConfigStep ==
  ASSUME IInv, NEW c \in Commands, CopyConfig(c)
  PROVE  IInv'
<1>1. At(c, "copyConfig") /\ Active(c) /\ Job(c) \in Jobs
  BY DEF IInv, InputsRender, CopyConfig, At, Active, Ended, Job, Input
<1>2. Job(c)[1] # "secrets" \/ Job(c)[2] = "docker"
  BY <1>1 DEF Jobs
<1>. DEFINE p == CASE Job(c)[1] = "render" /\ Job(c)[2] = "docker" -> "render"
                   [] Job(c)[1] = "render" /\ Job(c)[2] = "aws" -> "tfvars"
                   [] ~(Job(c)[1] = "render") /\ Job(c)[2] = "aws" -> "lstat"
                   [] OTHER -> "done"
<1>3. /\ p \in {"render", "tfvars", "lstat", "done"}
      /\ p = "render" => Job(c)[2] = "docker"
      /\ p = "lstat" => Job(c)[2] = "aws"
  OBVIOUS
<1>4. Continue(c, p)
  BY DEF CopyConfig
<1>5. /\ Job(c)[2] = "docker" => config' = "template"
      /\ config' \in {config, "template"} /\ tfvars' \in {tfvars, "template"}
      /\ Writes(c) /\ env' = env /\ generated' = generated /\ tfsecrets' = tfsecrets
  BY DEF CopyConfig
<1>. HIDE DEF p
<1>6. /\ p \in Phases \ {"waiting", "prepare", "refused", "copy"}
      /\ p \notin {"copyConfig", "config", "generated"}
  BY <1>3 DEF Phases, Ended
<1>7. /\ p = "lstat" => Job(c)[1] # "secrets"
      /\ p = "render" => config' = "template"
  BY <1>2, <1>3, <1>5
<1>8. /\ config' = config \/ (At(c, "copyConfig") /\ config' = "template")
      /\ tfvars' \in {tfvars, "template"} /\ tfsecrets' \in {tfsecrets, "template"}
  BY <1>1, <1>5
<1>. QED
  BY <1>1, <1>4, <1>5, <1>6, <1>7, <1>8, WritingStep

\* A configuration with a blank secret is refused before it is rendered, and the
\* others are not (validateDockerConfig, validateAwsConfig).
LEMMA LateRefusal ==
  ASSUME IInv, NEW c \in Commands, At(c, "render") \/ At(c, "tfvars"),
         ~command[c].input.renders, Continue(c, "refused"), Keeps
  PROVE  IInv'
<1>1. Active(c) /\ NotRenderedYet(c)
  BY DEF At, Active, Ended, NotRenderedYet
<1>2. command[c].input.blank
  BY DEF IInv, InputsRender, At
<1>. QED
  BY <1>1, <1>2, KeepsUnchanged, KeepingStep DEF Phases, Ended

\* The other files are written (renderDockerConfig, renderAwsConfig).
LEMMA WritingSteps ==
  ASSUME IInv, NEW c \in Commands,
         \/ CopySomeFiles(c) \/ RenderEnv(c) \/ RenderConfig(c) \/ WriteGeneratedSecrets(c)
         \/ RenderTfvars(c) \/ RenderTfsecrets(c) \/ WriteAwsPlaceholders(c)
  PROVE  IInv'
<1>1. Active(c)
  BY DEF CopySomeFiles, RenderEnv, RenderConfig, WriteGeneratedSecrets, RenderTfvars,
         RenderTfsecrets, WriteAwsPlaceholders, At, Active, Ended
<1>2. CASE CopySomeFiles(c)
  BY <1>1, <1>2, WritingStep DEF CopySomeFiles, docker, aws, Phases
<1>3. CASE RenderEnv(c)
  <2>1. At(c, "render")
    BY <1>3 DEF RenderEnv
  <2>2. CASE WriteEnv(c)
    BY <1>1, <2>1, <2>2, WritingStep DEF WriteEnv, aws, Phases
  <2>3. CASE ~command[c].input.renders /\ Continue(c, "refused") /\ Keeps
    BY <2>1, <2>3, LateRefusal
  <2>. QED
    BY <1>3, <2>2, <2>3 DEF RenderEnv
<1>4. CASE RenderConfig(c)
  <2>1. PICK p \in {"generated", "done"} : Continue(c, p)
    BY <1>4 DEF RenderConfig
  <2>2. At(c, "config") /\ config' = c /\ Writes(c) /\ UNCHANGED <<env, generated, aws>>
    BY <1>4 DEF RenderConfig
  <2>. QED
    BY <1>1, <2>1, <2>2, WritingStep DEF aws, Phases, Ended
<1>5. CASE WriteGeneratedSecrets(c)
  BY <1>1, <1>5, WritingStep DEF WriteGeneratedSecrets, aws, Phases, Ended
<1>6. CASE RenderTfvars(c)
  <2>1. At(c, "tfvars")
    BY <1>6 DEF RenderTfvars
  <2>2. CASE tfvars' = c /\ Continue(c, "tfsecrets") /\ Writes(c)
               /\ UNCHANGED <<docker, tfsecrets>>
    BY <1>1, <2>1, <2>2, WritingStep DEF docker, Phases, Ended
  <2>3. CASE ~command[c].input.renders /\ Continue(c, "refused") /\ Keeps
    BY <2>1, <2>3, LateRefusal
  <2>. QED
    BY <1>6, <2>2, <2>3 DEF RenderTfvars
<1>7. CASE RenderTfsecrets(c)
  BY <1>1, <1>7, WritingStep DEF RenderTfsecrets, docker, Phases, Ended
<1>8. CASE WriteAwsPlaceholders(c)
  BY <1>1, <1>8, WritingStep DEF WriteAwsPlaceholders, docker, Phases, Ended
<1>. QED
  BY <1>2, <1>3, <1>4, <1>5, <1>6, <1>7, <1>8

-----------------------------------------------------------------------------
\* The operator's hand and the script.

\* Editing both files by hand is like an init of their own: no command is under
\* way, and the script does not run.
LEMMA EditStep == ASSUME IInv, EditByHand PROVE IInv'
<1>1. /\ env' = "hand" /\ config' = "hand" /\ config = "template" /\ start.pc = "idle"
      /\ \A c \in Commands : command[c].pc \in Ended \union {"waiting"}
      /\ filled' = filled /\ generated' = generated /\ tfvars' = tfvars
      /\ tfsecrets' = tfsecrets /\ volumes' = volumes /\ up' = up /\ start' = start
      /\ command' = command /\ touched' = touched /\ disturbed' = disturbed /\ deaths' = deaths
  BY DEF EditByHand, aws, services
<1>2. TypeOK'
  BY <1>1, DeploymentAssumption DEF IInv, TypeOK, Writers, File, DeploymentAssumption
<1>3. OneAtATime' /\ InputsRender' /\ UntouchedYet'
  BY <1>1 DEF IInv, OneAtATime, InputsRender, UntouchedYet, MayBeRefused, Active, Job
<1>4. WritersTouched' /\ UnnamedYet' /\ OneInit'
  BY <1>1, DeploymentAssumption
     DEF IInv, WritersTouched, UnnamedYet, NotRenderedYet, OneInit, DeploymentAssumption
<1>5. NewDirectory' /\ Placeholders'
  BY <1>1 DEF IInv, NewDirectory, Placeholders, Forced, Ended
<1>6. ScriptReads' /\ Migrated' /\ SecretsFitVolumes'
  BY <1>1 DEF IInv, ScriptReads, Migrated, SecretsFitVolumes
<1>7. UpWritten' /\ StartedFromOneInit'
  BY <1>1 DEF IInv, UpWritten, StartedFromOneInit, NotUp, ModeOf
<1>. QED
  BY <1>2, <1>3, <1>4, <1>5, <1>6, <1>7 DEF IInv

\* The script reads the directory and leaves the commands alone.
LEMMA ScriptKeepsDirectory ==
  ASSUME IInv, Script
  PROVE  /\ filled' = filled /\ env' = env /\ config' = config /\ generated' = generated
         /\ tfvars' = tfvars /\ tfsecrets' = tfsecrets
         /\ command' = command /\ touched' = touched /\ deaths' = deaths
         /\ OneAtATime' /\ InputsRender' /\ UntouchedYet' /\ UnnamedYet'
         /\ NewDirectory' /\ Placeholders' /\ OneInit'
<1>1. /\ filled' = filled /\ env' = env /\ config' = config /\ generated' = generated
      /\ tfvars' = tfvars /\ tfsecrets' = tfsecrets
      /\ command' = command /\ touched' = touched /\ deaths' = deaths
  BY DEF Script, SourceEnv, CheckConfigPlaceholders, SourceSecrets, Pull, Migrate, MakeVolumes,
         ComposeUp, Reads, docker, aws
<1>2. OneAtATime' /\ InputsRender' /\ UntouchedYet' /\ UnnamedYet'
  BY <1>1 DEF IInv, OneAtATime, InputsRender, UntouchedYet, MayBeRefused, Active, Job,
     UnnamedYet, NotRenderedYet
<1>3. NewDirectory' /\ Placeholders' /\ OneInit'
  BY <1>1 DEF IInv, NewDirectory, Placeholders, OneInit, Forced
<1>. QED
  BY <1>1, <1>2, <1>3

\* The script's reading steps keep what the commands have left (start-grepmind.sh,
\* lines 71 to 105).
LEMMA ReadingSteps ==
  ASSUME IInv, SourceEnv \/ CheckConfigPlaceholders \/ SourceSecrets \/ Pull
  PROVE  IInv'
<1>1. /\ filled' = filled /\ env' = env /\ config' = config /\ generated' = generated
      /\ tfvars' = tfvars /\ tfsecrets' = tfsecrets
      /\ command' = command /\ touched' = touched /\ deaths' = deaths
      /\ OneAtATime' /\ InputsRender' /\ UntouchedYet' /\ UnnamedYet'
      /\ NewDirectory' /\ Placeholders' /\ OneInit'
  BY ScriptKeepsDirectory DEF Script
<1>2. volumes' = volumes /\ up' = up
  BY DEF SourceEnv, CheckConfigPlaceholders, SourceSecrets, Pull, Reads
<1>3. env \in Writers => ModeOf(env) \in {"bundled", "external"}
  BY DEF IInv, TypeOK, InputsRender, WritersTouched, UnnamedYet, NotRenderedYet, ModeOf,
     Writers, Input
<1>4. start' \in StartType /\ disturbed' \in BOOLEAN
  <2>. USE DEF IInv, TypeOK, Stop, StartType
  <2>1. CASE SourceEnv
    BY <1>3, <2>1 DEF SourceEnv
  <2>2. CASE CheckConfigPlaceholders
    BY <2>2 DEF CheckConfigPlaceholders
  <2>3. CASE SourceSecrets
    BY <2>3 DEF SourceSecrets
  <2>4. CASE Pull
    BY <2>4 DEF Pull
  <2>. QED
    BY <2>1, <2>2, <2>3, <2>4
<1>5. TypeOK'
  BY <1>1, <1>2, <1>4 DEF IInv, TypeOK, StartType
<1>6. ScriptReads' /\ start'.pc # "up"
  <2>. USE DEF ScriptReads, Stop, ModeOf
  <2>1. CASE SourceEnv
    BY <1>1, <2>1 DEF IInv, TypeOK, SourceEnv
  <2>2. CASE CheckConfigPlaceholders
    BY <1>1, <2>2 DEF IInv, TypeOK, CheckConfigPlaceholders, File
  <2>3. CASE SourceSecrets
    BY <1>1, <2>3 DEF IInv, TypeOK, SourceSecrets
  <2>4. CASE Pull
    BY <1>1, <2>4 DEF IInv, TypeOK, Pull
  <2>. QED
    BY <2>1, <2>2, <2>3, <2>4
<1>7. WritersTouched' /\ Migrated' /\ SecretsFitVolumes'
  BY <1>1, <1>2, <1>6 DEF IInv, WritersTouched, Migrated, SecretsFitVolumes
<1>8. UpWritten' /\ StartedFromOneInit'
  BY <1>1, <1>2 DEF IInv, UpWritten, StartedFromOneInit, NotUp, ModeOf
<1>. QED
  BY <1>1, <1>5, <1>6, <1>7, <1>8 DEF IInv

\* The migration makes the volumes, and the script goes on only with their secrets
\* (docker compose run, line 106).
LEMMA MigrateStep == ASSUME IInv, Migrate PROVE IInv'
<1>1. /\ filled' = filled /\ env' = env /\ config' = config /\ generated' = generated
      /\ tfvars' = tfvars /\ tfsecrets' = tfsecrets
      /\ command' = command /\ touched' = touched /\ deaths' = deaths
      /\ OneAtATime' /\ InputsRender' /\ UntouchedYet' /\ UnnamedYet'
      /\ NewDirectory' /\ Placeholders' /\ OneInit'
  BY ScriptKeepsDirectory DEF Script
<1>2. /\ start.pc = "migrate" /\ up' = up /\ disturbed' = disturbed
      /\ volumes' = IF start.mode = "bundled" /\ volumes = None THEN generated ELSE volumes
  BY DEF Migrate, MakeVolumes
<1>3. \/ start'.pc = "idle" /\ start'.mode = None /\ start' \in StartType
      \/ /\ start'.pc = "up" /\ start'.mode = start.mode /\ start' \in StartType
         /\ start.mode = "bundled" => volumes' = generated
  BY DEF IInv, TypeOK, Migrate, Stop, StartType
<1>4. TypeOK'
  <2>1. volumes' \in Commands \union {None}
    BY <1>2 DEF IInv, TypeOK
  <2>. QED
    BY <1>1, <1>2, <1>3, <2>1 DEF IInv, TypeOK, StartType
<1>5. ScriptReads'
  BY <1>1, <1>2, <1>3 DEF IInv, ScriptReads, ModeOf
<1>6. Migrated'
  BY <1>1, <1>3 DEF Migrated
<1>7. WritersTouched'
  BY <1>1, <1>2, DeploymentAssumption DEF IInv, WritersTouched, DeploymentAssumption
<1>8. SecretsFitVolumes'
  BY <1>2 DEF IInv, SecretsFitVolumes
<1>9. UpWritten' /\ StartedFromOneInit'
  BY <1>1, <1>2 DEF IInv, UpWritten, StartedFromOneInit, NotUp, ModeOf
<1>. QED
  BY <1>1, <1>4, <1>5, <1>6, <1>7, <1>8, <1>9 DEF IInv

\* The services come up with what is in the directory (docker compose up).
LEMMA ComposeUpStep == ASSUME IInv, ComposeUp PROVE IInv'
<1>1. /\ filled' = filled /\ env' = env /\ config' = config /\ generated' = generated
      /\ tfvars' = tfvars /\ tfsecrets' = tfsecrets
      /\ command' = command /\ touched' = touched /\ deaths' = deaths
      /\ OneAtATime' /\ InputsRender' /\ UntouchedYet' /\ UnnamedYet'
      /\ NewDirectory' /\ Placeholders' /\ OneInit'
  BY ScriptKeepsDirectory DEF Script
<1>2. /\ start.pc = "up" /\ start'.pc = "idle" /\ start'.mode = None
      /\ disturbed' = disturbed /\ volumes' = volumes
      /\ up'.mode = start.mode /\ up'.env = env /\ up'.config = config
      /\ up'.disturbed = disturbed
      /\ up'.secrets = IF start.mode = "bundled" THEN generated ELSE None
  BY DEF ComposeUp, Stop, Reads
<1>3. TypeOK'
  <2>1. start' \in StartType
    BY DEF ComposeUp, Stop, StartType
  <2>2. up' \in [mode : {"bundled", "external", None}, env : File, config : File,
                 secrets : Commands \union {None}, disturbed : BOOLEAN]
    BY DEF IInv, TypeOK, ComposeUp, File
  <2>. QED
    BY <1>1, <1>2, <2>1, <2>2 DEF IInv, TypeOK, StartType
<1>4. ScriptReads' /\ Migrated'
  BY <1>2 DEF ScriptReads, Migrated
<1>6. WritersTouched'
  BY <1>1, <1>2, DeploymentAssumption DEF IInv, WritersTouched, DeploymentAssumption
<1>7. SecretsFitVolumes'
  BY <1>1, <1>2 DEF IInv, Migrated, SecretsFitVolumes
<1>8. ~disturbed => /\ config \in Writers /\ env = config
                    /\ start.mode = ModeOf(env) /\ ModeOf(env)' = ModeOf(env)
  BY <1>1, <1>2 DEF IInv, ScriptReads, OneInit, ModeOf
<1>9. UpWritten' /\ StartedFromOneInit'
  BY <1>1, <1>2, <1>8 DEF UpWritten, StartedFromOneInit, ModeOf
<1>. QED
  BY <1>1, <1>3, <1>4, <1>6, <1>7, <1>9 DEF IInv

-----------------------------------------------------------------------------
\* An empty directory satisfies the inductive invariant.
LEMMA InitIInv == ASSUME Init PROVE IInv
<1>1. TypeOK
  <2>1. command \in [Commands -> [pc : Phases, input : Input \union {None}]]
    BY DEF Init, Phases
  <2>2. up \in [mode : {"bundled", "external", None}, env : File, config : File,
               secrets : Commands \union {None}, disturbed : BOOLEAN]
    BY DEF Init, NotUp, File
  <2>3. deaths \in 0..MaxDeaths
    BY DeploymentAssumption DEF Init, DeploymentAssumption
  <2>. QED
    BY <2>1, <2>2, <2>3 DEF Init, TypeOK, File
<1>2. OneAtATime /\ InputsRender /\ UntouchedYet
  BY DEF Init, OneAtATime, InputsRender, UntouchedYet, Active
<1>3. WritersTouched /\ UnnamedYet
  BY DeploymentAssumption DEF Init, WritersTouched, UnnamedYet, NotUp, DeploymentAssumption
<1>4. NewDirectory /\ Placeholders
  BY DEF Init, NewDirectory, Placeholders
<1>5. OneInit /\ ScriptReads /\ Migrated
  BY DEF Init, OneInit, ScriptReads, Migrated, NotUp
<1>6. UpWritten /\ StartedFromOneInit /\ SecretsFitVolumes
  BY DEF Init, UpWritten, StartedFromOneInit, SecretsFitVolumes, NotUp
<1>. QED
  BY <1>1, <1>2, <1>3, <1>4, <1>5, <1>6 DEF IInv

\* Every step keeps the inductive invariant.
LEMMA NextIInv == ASSUME IInv, [Next]_vars PROVE IInv'
<1>1. CASE Next
  <2>1. ASSUME NEW c \in Commands, Step(c) PROVE IInv'
    BY <2>1, InitDockerStep, OtherStep, CheckingSteps, CopyConfigStep, WritingSteps DEF Step
  <2>2. CASE EditByHand
    BY <2>2, EditStep
  <2>3. CASE Script
    BY <2>3, ReadingSteps, MigrateStep, ComposeUpStep DEF Script
  <2>. QED
    BY <1>1, <2>1, <2>2, <2>3 DEF Next
<1>2. CASE UNCHANGED vars
  BY <1>2 DEF vars, docker, aws, services, IInv, TypeOK, OneAtATime, InputsRender, UntouchedYet,
     MayBeRefused, UnnamedYet, NotRenderedYet, WritersTouched, NewDirectory, Placeholders, OneInit,
     ScriptReads, Migrated, UpWritten, StartedFromOneInit, SecretsFitVolumes, Active, Job, Forced,
     ModeOf
<1>. QED
  BY <1>1, <1>2

\* The inductive invariant holds in every reachable state of deploy.ts and
\* start-grepmind.sh.
THEOREM Invariance == Spec => []IInv
  BY InitIInv, NextIInv, PTL DEF Spec

\* Every variable keeps its type (prepareTargetDirectory to start-grepmind.sh).
THEOREM TypeCorrect == Spec => []TypeOK
  BY Invariance, PTL DEF IInv

\* What runs was configured by one command, however many were killed half-way
\* (renderDockerConfig, start-grepmind.sh).
THEOREM StartsFromOneInit == Spec => []StartedFromOneInit
  BY Invariance, PTL DEF IInv

\* Services come up with the secrets of their volumes (start-grepmind.sh).
THEOREM SecretsFit == Spec => []SecretsFitVolumes
  BY Invariance, PTL DEF IInv

\* A refused command has rendered nothing, and has copied the template only for a
\* blank secret (readDockerNonInteractiveConfig, validateDockerConfig).
THEOREM RefusalsChangeNothing == Spec => []RefusedUntouched
<1>1. IInv => RefusedUntouched
  BY DEF IInv, UntouchedYet, MayBeRefused, UnnamedYet, NotRenderedYet, RefusedUntouched
<1>. QED
  BY <1>1, Invariance, PTL
===============================================================================
