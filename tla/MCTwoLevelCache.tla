-------------------------- MODULE MCTwoLevelCache --------------------------
(* Two processes, of which one (the public API or the cache warmer) listens *)
(* to deleteCacheKeys and the other (an events notifier on its own) does    *)
(* not.                                                                     *)
EXTENDS TwoLevelCache
============================================================================
