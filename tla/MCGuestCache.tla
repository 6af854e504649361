----------------------------- MODULE MCGuestCache -----------------------------
(* The processes of the requests; requests of one process are alike, and   *)
(* so are the runs of the cron.                                            *)
EXTENDS GuestCache, TLC

CONSTANTS One, Other  \* the requests of each process

MCRequests == One \cup Other
MCHome == [t \in Requests |-> IF t \in One THEN "node" ELSE "other"]
Alike == Permutations(One) \cup Permutations(Runs)
===============================================================================
