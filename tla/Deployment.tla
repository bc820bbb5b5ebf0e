----------------------------- MODULE Deployment -----------------------------
(***************************************************************************)
(* One deployment directory over its life: `grepmind deploy init` writes   *)
(* it (grepmind/src/deploy.ts), bin/generate-secrets.sh writes the secrets *)
(* of the bundled services, and bin/start-grepmind.sh, which an operator   *)
(* or the daily systemd timer runs, reads it and brings the services up.   *)
(*                                                                         *)
(* A file's content is the command that wrote it; a command remembers its  *)
(* input as far as the later steps use it.  An operator gives one command  *)
(* after the other; the timer does not wait for them.                      *)
(***************************************************************************)
EXTENDS Naturals, FiniteSets

CONSTANTS
  Commands,     \* what the operator will run in the directory, each once
  MaxDeaths,    \* bound on commands that are killed or fail in the middle
  None

ASSUME DeploymentAssumption ==
  /\ MaxDeaths \in Nat
  /\ None \notin Commands \union {"hand", "template", "bundled", "external"}
  /\ Commands \intersect {"hand", "template"} = {}

-----------------------------------------------------------------------------
(* What a command can be given.                                            *)

\* publicHost and publicBaseUrl matter only as far as they agree.  option stands
\* for the options that must not be empty, secret for the values named by the
\* -env options: blank ones are white space.
DockerConfig ==
  [mode : {"bundled", "external"}, generateSecrets : BOOLEAN,
   reverseProxy : {"none", "traefik"}, publicHost : {"", "host", "https://host"},
   publicBaseUrl : {"https://host", "http://host"},
   option : {"set", "blank"}, secret : {"set", "blank", "empty"}]

AssertHttpsForTraefik(c) == c.publicBaseUrl = "https://host" /\ c.publicHost = "host"

\* Bug: the public host is looked at only when the files are rendered.
ReadConfigLoosely(c) ==
  c.option = "set" /\ c.secret # "empty" /\ (c.generateSecrets <=> c.mode = "bundled")

\* readDockerNonInteractiveConfig: what is refused before anything is written.
\* requireNonEmpty trims an option, readRequiredEnv takes a secret as it is.
ReadConfig(c) ==
  /\ c.option = "set" /\ c.secret # "empty"
  /\ c.reverseProxy = "traefik" => c.publicHost # "" /\ AssertHttpsForTraefik(c)
  /\ c.generateSecrets <=> c.mode = "bundled"

\* validateDockerConfig: what is refused after the template was copied, where
\* requireNonEmpty trims the secrets too.
ValidateDockerConfig(c) ==
  /\ c.option = "set" /\ c.secret = "set"
  /\ c.reverseProxy = "traefik" => c.publicHost = "host" /\ AssertHttpsForTraefik(c)

\* The configured docker init, with --non-interactive or through the wizard
\* (whose prompts refuse white space at once), and the configured aws one; a
\* bare copy of a template; generate-secrets.sh.  Of a configuration the mode is
\* kept, whether a secret of it is blank, and whether it can be rendered.
Jobs ==
  {<<"render", "docker">>, <<"render", "aws">>, <<"copy", "docker">>, <<"copy", "aws">>,
   <<"copy", "kubernetes">>, <<"secrets", "docker">>}
Input == [job : Jobs, force : BOOLEAN, mode : {"bundled", "external"},
          blank : BOOLEAN, renders : BOOLEAN]
Readings == {[accepted |-> ReadConfig(c), mode |-> c.mode, blank |-> c.secret = "blank",
              renders |-> ValidateDockerConfig(c)] : c \in DockerConfig}
Rendering(r, force) ==
  [job |-> <<"render", "docker">>, force |-> force, mode |-> r.mode,
   blank |-> r.blank, renders |-> r.renders]

\* readAwsNonInteractiveConfig has refused what validateAwsConfig refuses, but
\* for a secret of white space.
RenderingAws(blank, force) ==
  [job |-> <<"render", "aws">>, force |-> force, mode |-> "bundled",
   blank |-> blank, renders |-> ~blank]
Other(job, force) ==
  [job |-> job, force |-> force, mode |-> "bundled", blank |-> FALSE, renders |-> TRUE]

-----------------------------------------------------------------------------
VARIABLES
  \* the directory: who wrote each file, None, or "template" for placeholders
  filled,       \* something has been copied
  env,          \* .env
  config,       \* config.yml
  generated,    \* .env.grepmind-generated
  tfvars, tfsecrets,
  \* docker
  volumes,      \* whose secrets the bundled volumes were made with
  up,           \* what the services were last brought up with
  \* processes
  command,      \* per command: where it is and its input
  start,        \* a run of start-grepmind.sh
  \* history
  touched,      \* commands that changed the directory
  disturbed,    \* a forced command has written during the run of the script
  deaths

docker == <<env, config, generated>>
aws == <<tfvars, tfsecrets>>
services == <<volumes, up, start>>
vars == <<filled, docker, aws, services, command, touched, disturbed, deaths>>

\* "linked": refused half-way, for a symbolic link in the way of a file.
Ended == {"done", "refused", "linked", "dead"}
Phases == {"waiting", "prepare", "copy", "copyConfig", "render", "config", "generated",
           "tfvars", "tfsecrets", "lstat", "placeholders"} \union Ended

\* "hand": the files an operator edited as the README's quick start says.
Writers == Commands \union {"hand"}
File == Writers \union {None, "template"}
NotUp == [mode |-> None, env |-> None, config |-> None, secrets |-> None, disturbed |-> FALSE]

TypeOK ==
  /\ filled \in BOOLEAN
  /\ env \in Writers \union {None} /\ config \in File
  /\ generated \in Commands \union {None}
  /\ tfvars \in Commands \union {None, "template"}
  /\ tfsecrets \in Commands \union {None, "template"}
  /\ (env # None \/ config # None \/ generated # None \/ tfvars # None) => filled
  /\ volumes \in Commands \union {None}
  /\ up \in [mode : {"bundled", "external", None}, env : File, config : File,
             secrets : Commands \union {None}, disturbed : BOOLEAN]
  /\ command \in [Commands -> [pc : Phases, input : Input \union {None}]]
  /\ start \in [pc : {"idle", "checkConfig", "checkSecrets", "pull", "migrate", "up"},
                mode : {"bundled", "external", None}]
  /\ touched \subseteq Commands /\ disturbed \in BOOLEAN /\ deaths \in 0..MaxDeaths

Init ==
  /\ filled = FALSE /\ env = None /\ config = None /\ generated = None
  /\ tfvars = None /\ tfsecrets = None
  /\ volumes = None /\ up = NotUp
  /\ command = [c \in Commands |-> [pc |-> "waiting", input |-> None]]
  /\ start = [pc |-> "idle", mode |-> None]
  /\ touched = {} /\ disturbed = FALSE /\ deaths = 0

ModeOf(w) == IF w = "hand" THEN "bundled" ELSE command[w].input.mode

-----------------------------------------------------------------------------
(* A command.                                                              *)

At(c, p) == command[c].pc = p
Job(c) == command[c].input.job
Forced(c) == command[c].input.force
Bundled(c) == command[c].input.mode = "bundled"
Continue(c, p) == command' = [command EXCEPT ![c].pc = p]

\* Every write of a command.
Writes(c) ==
  /\ touched' = touched \union {c}
  /\ disturbed' = (disturbed \/ (start.pc # "idle" /\ Forced(c)))
  /\ filled' = TRUE
  /\ UNCHANGED <<services, deaths>>

Keeps == UNCHANGED <<filled, docker, aws, services, touched, disturbed, deaths>>

\* One operator: a command is given when the one before has ended.
Given(c, p, input) ==
  /\ At(c, "waiting")
  /\ \A d \in Commands \ {c} : command[d].pc \in Ended \union {"waiting"}
  /\ command' = [command EXCEPT ![c] = [pc |-> p, input |-> input]]
  /\ Keeps

\* parseArgs, assertAllowedOptions and the reading of the options or the answers
\* come before anything is done; the wizard asks first whether to overwrite.
InitDocker(c) ==
  \E r \in Readings, force \in BOOLEAN :
    IF r.accepted
    THEN Given(c, "prepare", Rendering(r, force))
    ELSE Given(c, "refused", None)

InitAws(c) ==
  \/ \E blank \in BOOLEAN, force \in BOOLEAN : Given(c, "prepare", RenderingAws(blank, force))
  \/ Given(c, "refused", None)

CopyTemplateCommand(c) ==
  \E platform \in {"docker", "aws", "kubernetes"}, force \in BOOLEAN :
    Given(c, "prepare", Other(<<"copy", platform>>, force))

RunGenerateSecrets(c) ==
  \E force \in BOOLEAN : Given(c, "lstat", Other(<<"secrets", "docker">>, force))

\* prepareTargetDirectory: without --force the target is new or empty.
PrepareTargetDirectory(c) ==
  /\ At(c, "prepare")
  /\ Continue(c, IF filled /\ ~Forced(c) THEN "refused" ELSE "copy")
  /\ Keeps

\* copyDirectoryContents copies the files in any order, over what is there; a
\* single copyFile is one step.
CopySomeFiles(c) ==
  /\ At(c, "copy")
  /\ Continue(c, "copyConfig")
  /\ Writes(c)
  /\ UNCHANGED <<docker, aws>>

CopyConfig(c) ==
  LET p == Job(c)[2]
      rendered == Job(c)[1] = "render" IN
  /\ At(c, "copyConfig")
  /\ config' = IF p = "docker" THEN "template" ELSE config
  /\ tfvars' = IF p = "aws" THEN "template" ELSE tfvars
  /\ Continue(c, CASE rendered /\ p = "docker" -> "render"
                   [] rendered /\ p = "aws" -> "tfvars"
                   [] ~rendered /\ p = "aws" -> "lstat"
                   [] OTHER -> "done")
  /\ Writes(c)
  /\ UNCHANGED <<env, generated, tfsecrets>>

\* Bug: an .env that is there already is kept.
KeepEnv(c) ==
  /\ env' = IF env = None THEN c ELSE env
  /\ Continue(c, "config")
  /\ Writes(c)
  /\ UNCHANGED <<config, generated, aws>>

\* renderDockerConfig validates, then writes .env.
WriteEnv(c) ==
  /\ env' = c
  /\ Continue(c, "config")
  /\ Writes(c)
  /\ UNCHANGED <<config, generated, aws>>

RenderEnv(c) ==
  /\ At(c, "render")
  /\ IF command[c].input.renders THEN WriteEnv(c) ELSE Continue(c, "refused") /\ Keeps

RenderConfig(c) ==
  /\ At(c, "config")
  /\ config' = c
  /\ Continue(c, IF Bundled(c) THEN "generated" ELSE "done")
  /\ Writes(c)
  /\ UNCHANGED <<env, generated, aws>>

\* renderGeneratedBundledSecrets, or the end of generate-secrets.sh: new random
\* values whatever was there.
WriteGeneratedSecrets(c) ==
  /\ At(c, "generated")
  /\ generated' = c
  /\ Continue(c, "done")
  /\ Writes(c)
  /\ UNCHANGED <<env, config, aws>>

\* generate-secrets.sh: only for a bundled deployment, and an existing file is
\* replaced only with --force.  Without an .env the mode is bundled.
GenerateSecrets(c) ==
  /\ At(c, "lstat") /\ Job(c)[1] = "secrets" /\ filled
  /\ LET external == env # None /\ ModeOf(env) = "external"
         taken == generated # None /\ ~Forced(c) IN
     Continue(c, IF external \/ taken THEN "refused" ELSE "generated")
  /\ Keeps

\* The script is one of the template's files.
NoScript(c) ==
  /\ At(c, "lstat") /\ Job(c)[1] = "secrets" /\ ~filled
  /\ Continue(c, "refused")
  /\ Keeps

\* renderAwsConfig validates, then writes terraform.tfvars.
RenderTfvars(c) ==
  /\ At(c, "tfvars")
  /\ IF command[c].input.renders
     THEN tfvars' = c /\ Continue(c, "tfsecrets") /\ Writes(c) /\ UNCHANGED <<docker, tfsecrets>>
     ELSE Continue(c, "refused") /\ Keeps

RenderTfsecrets(c) ==
  /\ At(c, "tfsecrets")
  /\ tfsecrets' = c
  /\ Continue(c, "done")
  /\ Writes(c)
  /\ UNCHANGED <<docker, tfvars>>

\* writeAwsPlaceholderSecrets: not over a file that is there.
LstatAwsSecrets(c) ==
  /\ At(c, "lstat") /\ Job(c)[1] = "copy"
  /\ Continue(c, IF tfsecrets = None THEN "placeholders" ELSE "done")
  /\ Keeps

WriteAwsPlaceholders(c) ==
  /\ At(c, "placeholders")
  /\ tfsecrets' = "template"
  /\ Continue(c, "done")
  /\ Writes(c)
  /\ UNCHANGED <<docker, tfvars>>

\* Over what is there already, a symbolic link may be in the way of any file of
\* the template or of the rendering; generate-secrets.sh looks for none.
LinkInTheWay(c) ==
  /\ command[c].pc \notin Ended \union {"waiting", "prepare"}
  /\ Forced(c) /\ Job(c)[1] # "secrets"
  /\ command[c].pc \in {"render", "tfvars"} => command[c].input.renders
  /\ Continue(c, "linked")
  /\ Keeps

\* Killed, or a write fails.
Dies(c) ==
  /\ command[c].pc \notin Ended \union {"waiting"} /\ deaths < MaxDeaths
  /\ Continue(c, "dead")
  /\ deaths' = deaths + 1
  /\ UNCHANGED <<filled, docker, aws, services, touched, disturbed>>

Step(c) ==
  \/ InitDocker(c) \/ InitAws(c) \/ CopyTemplateCommand(c) \/ RunGenerateSecrets(c)
  \/ PrepareTargetDirectory(c) \/ CopySomeFiles(c) \/ CopyConfig(c)
  \/ RenderEnv(c) \/ RenderConfig(c) \/ WriteGeneratedSecrets(c)
  \/ GenerateSecrets(c) \/ NoScript(c) \/ RenderTfvars(c) \/ RenderTfsecrets(c)
  \/ LstatAwsSecrets(c) \/ WriteAwsPlaceholders(c) \/ LinkInTheWay(c) \/ Dies(c)

\* The quick start: .env is copied from its example, and both files are edited.
EditByHand ==
  /\ config = "template"
  /\ \A c \in Commands : command[c].pc \in Ended \union {"waiting"}
  /\ start.pc = "idle"
  /\ env' = "hand" /\ config' = "hand"
  /\ UNCHANGED <<filled, generated, aws, services, command, touched, disturbed, deaths>>

-----------------------------------------------------------------------------
(* start-grepmind.sh.                                                      *)

Stop == start' = [pc |-> "idle", mode |-> None]
Reads == UNCHANGED <<filled, docker, aws, volumes, command, touched, deaths>>

\* The mode, the proxy and the keys of .env; without .env the script ends.
SourceEnv ==
  /\ start.pc = "idle" /\ env # None
  /\ start' = [pc |-> "checkConfig", mode |-> ModeOf(env)]
  /\ disturbed' = FALSE
  /\ UNCHANGED up /\ Reads

CheckConfigPlaceholders ==
  /\ start.pc = "checkConfig"
  /\ IF config \in {None, "template"}
     THEN Stop
     ELSE start' = [start EXCEPT !.pc = "checkSecrets"]
  /\ UNCHANGED <<up, disturbed>> /\ Reads

SourceSecrets ==
  /\ start.pc = "checkSecrets"
  /\ IF start.mode = "bundled" /\ generated = None
     THEN Stop
     ELSE start' = [start EXCEPT !.pc = "pull"]
  /\ UNCHANGED <<up, disturbed>> /\ Reads

\* A failure of this or of a later step ends the script (set -e).
Pull ==
  /\ start.pc = "pull"
  /\ Stop \/ start' = [start EXCEPT !.pc = "migrate"]
  /\ UNCHANGED <<up, disturbed>> /\ Reads

\* What the migration depends on is started with it, so the database's volume is
\* made with the secrets there are now, whatever becomes of the migration.
MakeVolumes ==
  /\ start.pc = "migrate"
  /\ volumes' = IF start.mode = "bundled" /\ volumes = None THEN generated ELSE volumes
  /\ UNCHANGED <<filled, docker, aws, up, command, touched, disturbed, deaths>>

\* Bug: the script goes on whatever the migration says.
MigrateAnyway ==
  /\ MakeVolumes
  /\ Stop \/ start' = [start EXCEPT !.pc = "up"]

\* The migration fails, or it has reached the database with its password.
Migrate ==
  /\ MakeVolumes
  /\ \/ Stop
     \/ /\ start.mode = "bundled" => volumes' = generated
        /\ start' = [start EXCEPT !.pc = "up"]

\* The compose files were chosen by the mode, and they name the env files, which
\* are read again, and mount the config.
ComposeUp ==
  /\ start.pc = "up"
  /\ up' = [mode |-> start.mode, env |-> env, config |-> config, disturbed |-> disturbed,
            secrets |-> IF start.mode = "bundled" THEN generated ELSE None]
  /\ Stop
  /\ UNCHANGED disturbed /\ Reads

Script ==
  SourceEnv \/ CheckConfigPlaceholders \/ SourceSecrets \/ Pull \/ Migrate \/ ComposeUp

-----------------------------------------------------------------------------
Next ==
  \/ \E c \in Commands : Step(c)
  \/ EditByHand \/ Script

Spec == Init /\ [][Next]_vars

-----------------------------------------------------------------------------
(* Properties.                                                             *)

\* What runs was configured by one command: whichever commands were killed
\* half-way over an earlier deployment, .env and config.yml of different
\* commands never come up together, unless a forced command was writing while
\* the script ran.
StartedFromOneInit ==
  up # NotUp /\ ~up.disturbed => /\ up.env = up.config
                                 /\ up.mode = ModeOf(up.env)

\* Services come up only with the secrets their database's volume was made with,
\* unless a forced command was writing while the script ran: with secrets that
\* were forced later nothing comes up, because the migration stands before it.
SecretsFitVolumes ==
  up.secrets # None /\ ~up.disturbed => up.secrets = volumes

\* A command that is refused, for its arguments or for the directory, has written
\* none of the files a deployment is made of; and if it has copied the template,
\* it was refused for a secret of white space, which alone is read without a
\* complaint and refused later.
RefusedUntouched ==
  \A c \in Commands : command[c].pc = "refused" =>
    /\ c \notin {env, config, generated, tfvars, tfsecrets}
    /\ c \in touched => command[c].input.blank
=============================================================================
