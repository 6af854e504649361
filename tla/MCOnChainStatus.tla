--------------------------- MODULE MCOnChainStatus ---------------------------
(* One request and the cron in one process, from the last epoch of a vote. *)
EXTENDS OnChainStatus

MCHome == [t \in Tasks |-> "node"]
=============================================================================
