------------------------- MODULE MCRuntimeLifecycle -------------------------
(* An instance of RuntimeLifecycle for TLC.                                *)
EXTENDS RuntimeLifecycle

\* Two processes on one data directory, each launched once.
MCProcs == {"p1", "p2"}
=============================================================================
