----------------------------- MODULE MCShownVotes -----------------------------
(* Model values: a poll, a provider with a snapshot, and the user's own vote. *)
EXTENDS ShownVotes
=============================================================================
