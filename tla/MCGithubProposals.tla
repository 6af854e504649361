-------------------------- MODULE MCGithubProposals ---------------------------
(* Two calls, of one user or of two, and a page with room for one.            *)
EXTENDS GithubProposals
=============================================================================
