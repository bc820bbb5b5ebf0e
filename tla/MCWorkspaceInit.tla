-------------------------- MODULE MCWorkspaceInit --------------------------
(* An instance of WorkspaceInit for TLC.                                   *)
EXTENDS WorkspaceInit

CONSTANTS hostA, hostB   \* two backend hosts

Plain == [hostname |-> None, explicit |-> {}, allDetected |-> FALSE, yes |-> FALSE,
          noOpen |-> FALSE, force |-> FALSE, dryRun |-> FALSE, package |-> "gen",
          tuned |-> FALSE, tty |-> TRUE]

MCInvocations ==
  {Plain, [Plain EXCEPT !.tty = FALSE],
   [Plain EXCEPT !.hostname = hostB, !.explicit = {"codex", "claude"}],
   [Plain EXCEPT !.explicit = {"codex", "claude"}, !.tuned = TRUE],
   [Plain EXCEPT !.explicit = {"codex", "claude"}, !.yes = TRUE, !.noOpen = TRUE],
   [Plain EXCEPT !.explicit = {"claude"}, !.force = TRUE, !.tty = FALSE],
   [Plain EXCEPT !.hostname = hostB, !.yes = TRUE, !.package = "custom"],
   [Plain EXCEPT !.allDetected = TRUE, !.dryRun = TRUE]}

ProjectOf(host, rules, tidy) ==
  [host |-> host, rules |-> rules, other |-> "o", extra |-> ~tidy, tidy |-> tidy]

MCProjectFiles ==
  {None, ProjectOf(hostA, "r", TRUE), ProjectOf(None, "r", FALSE), ProjectOf(hostA, "bad", FALSE)}

EnvA == [host |-> hostA, tuned |-> FALSE]

JsonWith(cmd) == [others |-> "o", tidy |-> FALSE,
              entry |-> [cmd |-> cmd, env |-> EnvA, extra |-> TRUE]]

MCJsonFiles ==
  {None, Invalid, JsonWith("array"), JsonWith("foreign"),
   [others |-> "o", tidy |-> FALSE, entry |-> None]}

SectionOf(name, val) == [name |-> name, val |-> val, tuned |-> FALSE, tidy |-> FALSE]
Other(val) == [name |-> "other", val |-> val, tuned |-> FALSE, tidy |-> TRUE]

MCCodexFiles ==
  {None, <<Other("o")>>,
   <<Other("o"), SectionOf("root", "older"), SectionOf("nested", "n"),
     SectionOf("env", hostA), Other("p")>>,
   <<SectionOf("root", "broken"), Other("o")>>,
   <<SectionOf("root", "older"), Other("o"), SectionOf("root", "older")>>}

MCLinks == {{}, {"claude", "project"}}
============================================================================
