---------------------------- MODULE MCVotingPower -----------------------------
(* Three snapshots, the user in the first and the last; an entry that is     *)
(* used up in one epoch and below zero in the next.                          *)
EXTENDS VotingPower
Snapshots == <<1, 0, 2>>
=============================================================================
