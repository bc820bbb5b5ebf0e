--------------------------- MODULE MCRealtimeClient ---------------------------
(* An instance of RealtimeClient for TLC.                                  *)
EXTENDS RealtimeClient

\* Two searches, so that one can settle while the other is in flight.
MCRequests == {"q1", "q2"}
=============================================================================
