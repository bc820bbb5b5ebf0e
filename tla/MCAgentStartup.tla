--------------------------- MODULE MCAgentStartup ---------------------------
(* An instance of AgentStartup for TLC.                                    *)
EXTENDS AgentStartup

\* Two runtimes on one data directory, started by hand or by an MCP server.
MCProcs == {"p1", "p2"}
MCClients == {"m1"}
=============================================================================
