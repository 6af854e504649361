-------------------------- MODULE MCPendingExecutor --------------------------
(* Three calls of two values; the chain changes twice.                     *)
EXTENDS PendingExecutor
=============================================================================
