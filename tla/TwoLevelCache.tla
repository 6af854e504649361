--------------------------- MODULE TwoLevelCache ---------------------------
(***************************************************************************)
(* One cached contract read of the service, as every resolver, cron and    *)
(* event handler sees it: a Redis entry shared by all processes, a copy in *)
(* the memory of each process, and the chain behind them.                  *)
(*                                                                         *)
(* The chain may change at every instant, so a value is represented by the *)
(* instant at which the chain node was asked for it.  Keys do not interact *)
(* (every operation below touches one key), so one key stands for all.     *)
(*                                                                         *)
(* Tasks are the asynchronous calls under way in a process: a read through *)
(* @GetOrSetCache or GenericGetterService.getData, a refresh by a cron or  *)
(* a handler (raw read, setData, publish) or a delData.  A task is split   *)
(* at every await.                                                         *)
(***************************************************************************)
EXTENDS Integers

CONSTANTS
  Procs,        \* the node processes that share one Redis
  Subscribers,  \* those that called pubSubApp.listen (main.ts)
  Slots,        \* concurrent tasks of one process
  RemoteTtl,    \* life of a Redis entry
  LocalTtl,     \* life of a copy in memory
  MaxStep,      \* longest time between obtaining a value and storing it
  MaxTime       \* bound of the clock, for model checking only

ASSUME ProcsAssumption == Subscribers \subseteq Procs
ASSUME TtlAssumption   == RemoteTtl \in Nat \ {0} /\ LocalTtl \in Nat \ {0}
ASSUME StepAssumption  == MaxStep \in Nat \ {0}
ASSUME TimeAssumption  == MaxTime \in Nat

VARIABLES
  now,      \* the clock
  remote,   \* the Redis entry
  local,    \* local[p]: the copy in the memory of p
  pc,       \* pc[t]: what task t waits for
  val,      \* val[t]: the value t holds, as the instant it was read from the chain
  since,    \* since[t]: when t obtained the value it holds
  inbox,    \* processes a deleteCacheKeys message is under way to
  served    \* the last answer given to a client, and when

vars == <<now, remote, local, pc, val, since, inbox, served>>

Tasks == Procs \X Slots
Home(t) == t[1]

\* An entry lives until exp.  The absent entry is one that never lives.
Entry == [asOf : Nat, exp : Nat]
None == [asOf |-> 0, exp |-> 0]
Live(e) == now < e.exp
Fresh(v, ttl) == [asOf |-> v, exp |-> now + ttl]

Reading    == {"getRemote", "query"}
Holding    == {"fill", "keep", "setLocal", "setRemote"}
PcValues   == {"idle", "raw", "publish", "delRemote", "delLocal"} \cup Reading \cup Holding

Init ==
  /\ now = 0
  /\ remote = None
  /\ local = [p \in Procs |-> None]
  /\ pc = [t \in Tasks |-> "idle"]
  /\ val = [t \in Tasks |-> 0]
  /\ since = [t \in Tasks |-> 0]
  /\ inbox = {}
  /\ served = [asOf |-> 0, at |-> 0]

Goto(t, from, to) ==
  /\ pc[t] = from
  /\ pc' = [pc EXCEPT ![t] = to]

Hold(t, v) ==
  /\ val' = [val EXCEPT ![t] = v]
  /\ since' = [since EXCEPT ![t] = now]

\* A task that has stored its value forgets it.
Drop(t) ==
  /\ val' = [val EXCEPT ![t] = 0]
  /\ since' = [since EXCEPT ![t] = 0]

Answer(v) == served' = [asOf |-> v, at |-> now]

----------------------------------------------------------------------------
(* A read: CacheService.getOrSet behind the decorator and getData.         *)

\* Defect for BoundedAge: a hit writes the copy again and so renews its life.
LocalHitRenews(t) ==
  /\ pc[t] = "idle"
  /\ Live(local[Home(t)])
  /\ Answer(local[Home(t)].asOf)
  /\ local' = [local EXCEPT ![Home(t)] = Fresh(@.asOf, LocalTtl)]
  /\ UNCHANGED <<now, remote, pc, val, since, inbox>>

\* The copy in memory answers at once.
LocalHit(t) ==
  /\ pc[t] = "idle"
  /\ Live(local[Home(t)])
  /\ Answer(local[Home(t)].asOf)
  /\ UNCHANGED <<now, remote, local, pc, val, since, inbox>>

\* No copy in memory: ask Redis.
LocalMiss(t) ==
  /\ ~Live(local[Home(t)])
  /\ Goto(t, "idle", "getRemote")
  /\ UNCHANGED <<now, remote, local, val, since, inbox, served>>

RemoteHit(t) ==
  /\ Live(remote)
  /\ Goto(t, "getRemote", "keep")
  /\ Hold(t, remote.asOf)
  /\ UNCHANGED <<now, remote, local, inbox, served>>

RemoteMiss(t) ==
  /\ ~Live(remote)
  /\ Goto(t, "getRemote", "query")
  /\ UNCHANGED <<now, remote, local, val, since, inbox, served>>

\* The chain node answers the decorated method.
Query(t) ==
  /\ Goto(t, "query", "fill")
  /\ Hold(t, now)
  /\ UNCHANGED <<now, remote, local, inbox, served>>

\* Defect for ImplementsRegister: the two lives are swapped in the call of getOrSet.
KeepSwapped(t) ==
  /\ Goto(t, "keep", "idle")
  /\ local' = [local EXCEPT ![Home(t)] = Fresh(val[t], RemoteTtl)]
  /\ Answer(val[t])
  /\ Drop(t)
  /\ UNCHANGED <<now, remote, inbox>>

\* The fill overwrites whatever the entry has become meanwhile.
Fill(t) ==
  /\ Goto(t, "fill", "keep")
  /\ remote' = Fresh(val[t], RemoteTtl)
  /\ since' = [since EXCEPT ![t] = now]
  /\ UNCHANGED <<now, local, val, inbox, served>>

\* The copy is kept even if a deleteCacheKeys arrived after it was read.
Keep(t) ==
  /\ Goto(t, "keep", "idle")
  /\ local' = [local EXCEPT ![Home(t)] = Fresh(val[t], LocalTtl)]
  /\ Answer(val[t])
  /\ Drop(t)
  /\ UNCHANGED <<now, remote, inbox>>

----------------------------------------------------------------------------
(* A refresh: raw read, GenericSetterService.setData, deleteCacheKeys.     *)

BeginRefresh(t) ==
  /\ Goto(t, "idle", "raw")
  /\ UNCHANGED <<now, remote, local, val, since, inbox, served>>

RawRead(t) ==
  /\ Goto(t, "raw", "setLocal")
  /\ Hold(t, now)
  /\ UNCHANGED <<now, remote, local, inbox, served>>

\* CacheService.set writes the copy in memory while the Redis command is under way.
SetLocal(t) ==
  /\ Goto(t, "setLocal", "setRemote")
  /\ local' = [local EXCEPT ![Home(t)] = Fresh(val[t], LocalTtl)]
  /\ UNCHANGED <<now, remote, val, since, inbox, served>>

SetRemote(t) ==
  /\ Goto(t, "setRemote", "publish")
  /\ remote' = Fresh(val[t], RemoteTtl)
  /\ Drop(t)
  /\ UNCHANGED <<now, local, inbox, served>>

\* GenericSetterService.delData, called with a key that changed.
BeginDelete(t) ==
  /\ Goto(t, "idle", "delRemote")
  /\ UNCHANGED <<now, remote, local, val, since, inbox, served>>

DelRemote(t) ==
  /\ Goto(t, "delRemote", "delLocal")
  /\ remote' = None
  /\ UNCHANGED <<now, local, val, since, inbox, served>>

DelLocal(t) ==
  /\ Goto(t, "delLocal", "publish")
  /\ local' = [local EXCEPT ![Home(t)] = None]
  /\ UNCHANGED <<now, remote, val, since, inbox, served>>

Publish(t) ==
  /\ Goto(t, "publish", "idle")
  /\ inbox' = inbox \cup Subscribers
  /\ UNCHANGED <<now, remote, local, val, since, served>>

\* Redis or the chain node fails: the exception ends the task where it stands.
Abort(t) ==
  /\ pc[t] # "idle"
  /\ pc' = [pc EXCEPT ![t] = "idle"]
  /\ Drop(t)
  /\ UNCHANGED <<now, remote, local, inbox, served>>

----------------------------------------------------------------------------
(* Pub/sub, processes and time.                                            *)

\* CacheController.deleteCacheKey at a subscriber.
DeleteCacheKey(p) ==
  /\ p \in inbox
  /\ inbox' = inbox \ {p}
  /\ local' = [local EXCEPT ![p] = None]
  /\ UNCHANGED <<now, remote, pc, val, since, served>>

\* Redis pub/sub keeps no message for a subscriber that is disconnected.
LoseMessage(p) ==
  /\ p \in inbox
  /\ inbox' = inbox \ {p}
  /\ UNCHANGED <<now, remote, local, pc, val, since, served>>

\* A process restarts with an empty memory; what it wrote to Redis stays.
Restart(p) ==
  /\ local' = [local EXCEPT ![p] = None]
  /\ pc' = [t \in Tasks |-> IF Home(t) = p THEN "idle" ELSE pc[t]]
  /\ val' = [t \in Tasks |-> IF Home(t) = p THEN 0 ELSE val[t]]
  /\ since' = [t \in Tasks |-> IF Home(t) = p THEN 0 ELSE since[t]]
  /\ inbox' = inbox \ {p}
  /\ UNCHANGED <<now, remote, served>>

\* Time passes unless a task is late with a value it holds; entries expire.
Survives(e) == IF now + 1 < e.exp THEN e ELSE None
Tick ==
  /\ now < MaxTime
  /\ \A t \in Tasks : pc[t] \in Holding => now < since[t] + MaxStep
  /\ now' = now + 1
  /\ remote' = Survives(remote)
  /\ local' = [p \in Procs |-> Survives(local[p])]
  /\ UNCHANGED <<pc, val, since, inbox, served>>

Progress(t) ==
  \/ RemoteHit(t) \/ RemoteMiss(t) \/ Query(t) \/ Fill(t) \/ Keep(t)
  \/ RawRead(t) \/ SetLocal(t) \/ SetRemote(t) \/ Publish(t)
  \/ DelRemote(t) \/ DelLocal(t)

Begin(t) == LocalHit(t) \/ LocalMiss(t) \/ BeginRefresh(t) \/ BeginDelete(t)

Next ==
  \/ \E t \in Tasks : Begin(t) \/ Progress(t) \/ Abort(t)
  \/ \E p \in Procs : DeleteCacheKey(p) \/ LoseMessage(p) \/ Restart(p)
  \/ Tick

Spec == Init /\ [][Next]_vars

----------------------------------------------------------------------------
(* Every variable has its type.                                            *)
TypeOK ==
  /\ now \in Nat
  /\ remote \in Entry
  /\ local \in [Procs -> Entry]
  /\ pc \in [Tasks -> PcValues]
  /\ val \in [Tasks -> Nat]
  /\ since \in [Tasks -> Nat]
  /\ inbox \in SUBSET Subscribers
  /\ served \in [asOf : Nat, at : Nat]

\* An entry of life ttl is last read ttl - 1 instants after it was written.  A value
\* waits at most MaxStep before each of the two levels.
MaxAge == (RemoteTtl - 1) + (LocalTtl - 1) + 2 * MaxStep

\* Whatever is lost, late, overlapped or restarted, no client is ever given a value
\* read from the chain more than MaxAge ago: what the lives passed by
\* caching.decorator.ts and generic.setter.service.ts promise together.
BoundedAge == served.at <= served.asOf + MaxAge

\* What the cache promises its clients, without its parts.
Register == INSTANCE StaleRegister WITH now <- now, served <- served, MaxAge <- MaxAge

\* The two levels, their fills, refreshes and messages implement a register that
\* answers with the value of some recent instant.
ImplementsRegister == Register!Spec
============================================================================
