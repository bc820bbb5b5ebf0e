---------------------------- MODULE MCDeployment ----------------------------
(* An instance of Deployment for TLC.                                      *)
EXTENDS Deployment, TLC

CONSTANTS c1, c2, c3

\* A deployment, a second one over it, and what is done to repair it.
MCCommands == {c1, c2, c3}
MCSymmetry == Permutations(MCCommands)
=============================================================================
