--------------------------- MODULE StaleRegister ---------------------------
(***************************************************************************)
(* The promise of the cache to its clients: an answer is the value the     *)
(* chain had at some instant at most MaxAge ago.  Values are represented *)
(* by the instant at which the chain had them.                             *)
(***************************************************************************)
EXTENDS Integers

CONSTANT MaxAge

VARIABLES
  now,     \* the clock
  served   \* the last answer, and when it was given

Init == now = 0 /\ served = [asOf |-> 0, at |-> 0]

Tick == now' = now + 1 /\ UNCHANGED served

Serve ==
  /\ \E a \in 0 .. now :
       /\ now <= a + MaxAge
       /\ served' = [asOf |-> a, at |-> now]
  /\ UNCHANGED now

Spec == Init /\ [][Tick \/ Serve]_<<now, served>>
============================================================================
