--------------------------- MODULE MCUserVoteTypes ---------------------------
(* Two requests of one process and the handler, two proposals.             *)
EXTENDS UserVoteTypes, TLC

CONSTANTS s1, s2, p, q
SlotSymmetry == Permutations({s1, s2})
=============================================================================
