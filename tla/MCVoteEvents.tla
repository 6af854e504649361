---------------------------- MODULE MCVoteEvents ----------------------------
(* Two voters, in one block or in two, one API process and the notifier.   *)
EXTENDS VoteEvents, TLC

Symmetric == Permutations(Voters)
=============================================================================
