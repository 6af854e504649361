----------------------------- MODULE MCPulseLists -----------------------------
(* Bounds: two items, both below the threshold and read one by one by the    *)
(* client, one vote on the first of them, and the cron.                      *)
EXTENDS PulseLists
=============================================================================
