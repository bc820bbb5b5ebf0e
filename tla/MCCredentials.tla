---------------------------- MODULE MCCredentials ----------------------------
(* An instance of Credentials for TLC.                                     *)
EXTENDS Credentials

\* A request of the runtime and a process that prepares a runtime.
MCRequests == {"r1"}
MCRefreshers == {"m1"}
=============================================================================
