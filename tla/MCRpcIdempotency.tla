--------------------------- MODULE MCRpcIdempotency ---------------------------
EXTENDS RpcIdempotency

CONSTANT w

\* Every caller works on the same workspace.
SameWorkspace == [c \in Callers |-> w]
=============================================================================
