---------------------------- MODULE OnChainStatus ----------------------------
(***************************************************************************)
(* The status of an on-chain proposal, which no contract view returns: it  *)
(* is computed from two cached reads (the proposal, the current epoch),    *)
(* cached itself, and cached once more inside the list of proposals.       *)
(*                                                                         *)
(*     proposal --.                                                        *)
(*                 >-- status ---- list                                    *)
(*     epoch -----'                                                        *)
(*                                                                         *)
(* A request for the status or the list computes what it does not find and *)
(* fills every level on its way back; the cron warmOnChainGovernance reads *)
(* the proposal from the chain, computes the levels above and sets them.   *)
(* So a stale copy of one level can be stored anew, with a new life, one   *)
(* level up, in Redis, over a value that was right.                        *)
(*                                                                         *)
(* One proposal, whose life is a sequence of phases; a value of any key is *)
(* the phase it shows.                                                     *)
(***************************************************************************)
EXTENDS Integers

CONSTANTS
  Requests,   \* requests under way at once
  Warmer,     \* the cron
  Procs,      \* the processes
  Home,       \* Home[t]: the process that runs task t
  FirstPhase  \* the phase the model starts in

Pending      == 1   \* before startVoteEpoch
Active       == 2   \* from startVoteEpoch to endVoteEpoch
PendingClose == 3   \* after endVoteEpoch, not closed
Closed       == 4   \* closed: Succeeded or Defeated
Phases == Pending .. Closed

Tasks == Requests \cup {Warmer}

ASSUME WarmerAssumption == Warmer \notin Requests
ASSUME HomeAssumption   == Home \in [Tasks -> Procs]
ASSUME PhaseAssumption  == FirstPhase \in Phases

VARIABLES
  phase,    \* the phase of the proposal on the chain
  remote,   \* remote[k]: the Redis entry of key k
  local,    \* local[x][k]: the copy in the memory of process x
  at,       \* at[t]: the key task t works on
  stage,    \* stage[t]: what it waits for
  goal,     \* goal[t]: the key whose value t is after
  info,     \* info[t]: the proposal t has read and computes a status, or the list, from
  val       \* val[t]: the value t holds for at[t]

vars == <<phase, remote, local, at, stage, goal, info, val>>

Keys == {"proposal", "epoch", "status", "list"}

\* The keys that tell k whether the proposal is closed.
Below(k) == CASE k = "list"   -> {"status", "proposal"}
              [] k = "status" -> {"proposal"}
              [] OTHER        -> {}

None == 0
Value == Phases \cup {None}

\* Defect for SettledStays: a proposal that was closed without passing is not recognised.
InfoIfPassed(ph) == Pending

\* What the chain answers about the proposal: whether it is closed.
Info(ph) == IF ph = Closed THEN Closed ELSE Pending

\* What it answers about the epoch.
Epoch(ph) == IF ph = Closed THEN PendingClose ELSE ph

Init ==
  /\ phase = FirstPhase
  /\ remote = [k \in Keys |-> None]
  /\ local = [x \in Procs |-> [k \in Keys |-> None]]
  /\ at = [t \in Tasks |-> "list"]
  /\ stage = [t \in Tasks |-> "idle"]
  /\ goal = [t \in Tasks |-> "list"]
  /\ info = [t \in Tasks |-> None]
  /\ val = [t \in Tasks |-> None]

----------------------------------------------------------------------------
(* Tasks.                                                                  *)

Goto(t, k, s, i, v) ==
  /\ at' = [at EXCEPT ![t] = k]
  /\ stage' = [stage EXCEPT ![t] = s]
  /\ info' = [info EXCEPT ![t] = i]
  /\ val' = [val EXCEPT ![t] = v]

End(t) == Goto(t, "list", "idle", None, None) /\ goal' = [goal EXCEPT ![t] = "list"]

\* A value that was computed is on its way to Redis.
Store(t, k, v) == Goto(t, k, "store", None, v)

\* getStatusForProposal with a proposal of state i: a closed one needs no epoch.
StatusFor(t, i) ==
  IF i = Closed THEN Store(t, "status", Closed)
                ELSE Goto(t, "epoch", "lookup", i, None)

\* Defect for NotAhead: the end of the vote is taken for the closing.
StatusAtEnd(t, e) == Store(t, "status", IF e = PendingClose THEN Closed ELSE e)

\* The rest of it, for a proposal that is not closed.
StatusAt(t, e) == Store(t, "status", e)

\* The list is computed from the proposal, then its status, which reads the proposal again.
ForList(t) == goal[t] = "list" /\ info[t] = None

\* Task t has the value v of k: it goes on with the key it needed k for.
Obtain(t, k, v) ==
  \/ /\ k = "proposal" /\ ForList(t)
     /\ Goto(t, "status", "lookup", v, None) /\ UNCHANGED goal
  \/ k = "proposal" /\ ~ForList(t) /\ StatusFor(t, v) /\ UNCHANGED goal
  \/ k = "epoch" /\ StatusAt(t, v) /\ UNCHANGED goal
  \/ k = "status" /\ goal[t] = "list" /\ Store(t, "list", v) /\ UNCHANGED goal
  \/ k = goal[t] /\ End(t)

Remember(t, k, v) == local' = [local EXCEPT ![Home[t]][k] = v]

----------------------------------------------------------------------------
(* A cached read, behind @GetOrSetCache or getData.  The delays between    *)
(* the two levels of one key are the subject of TwoLevelCache.             *)

Lookup(t, k) == at[t] = k /\ stage[t] = "lookup"

LocalHit(t, k) ==
  /\ Lookup(t, k)
  /\ local[Home[t]][k] # None
  /\ Obtain(t, k, local[Home[t]][k])
  /\ UNCHANGED <<phase, remote, local>>

RemoteHit(t, k) ==
  /\ Lookup(t, k)
  /\ local[Home[t]][k] = None /\ remote[k] # None
  /\ Remember(t, k, remote[k])
  /\ Obtain(t, k, remote[k])
  /\ UNCHANGED <<phase, remote>>

\* Neither level has it: the list and the status are computed, from the proposal at first;
\* proposal and epoch are asked for.
Miss(t, k) ==
  /\ Lookup(t, k)
  /\ local[Home[t]][k] = None /\ remote[k] = None
  /\ \/ k \in {"list", "status"} /\ Goto(t, "proposal", "lookup", info[t], None)
     \/ k \in {"proposal", "epoch"} /\ Goto(t, k, "query", info[t], None)
  /\ UNCHANGED <<phase, remote, local, goal>>

Query(t, k) ==
  /\ at[t] = k /\ stage[t] = "query"
  /\ \/ k = "proposal" /\ Goto(t, k, "store", info[t], Info(phase))
     \/ k = "epoch" /\ Goto(t, k, "store", info[t], Epoch(phase))
  /\ UNCHANGED <<phase, remote, local, goal>>

Fill(t, k) ==
  /\ at[t] = k /\ stage[t] = "store" /\ ~(t = Warmer /\ k = goal[t])
  /\ remote' = [remote EXCEPT ![k] = val[t]]
  /\ Remember(t, k, val[t])
  /\ Obtain(t, k, val[t])
  /\ UNCHANGED phase

----------------------------------------------------------------------------
(* Requests: proposalStatus and proposals.                                 *)

Ask(t, k) ==
  /\ t \in Requests /\ stage[t] = "idle" /\ k \in {"status", "list"}
  /\ goal' = [goal EXCEPT ![t] = k]
  /\ Goto(t, k, "lookup", None, None)
  /\ UNCHANGED <<phase, remote, local>>

----------------------------------------------------------------------------
(* warmOnChainGovernance: the proposal, its status, the list.              *)

\* The next run of the cron; Lock leaves it out while one is under way.
Warm ==
  /\ stage[Warmer] = "idle"
  /\ goal' = [goal EXCEPT ![Warmer] = "proposal"]
  /\ Goto(Warmer, "proposal", "raw", None, None)
  /\ UNCHANGED <<phase, remote, local>>

\* Defect for Settles: the cron asks getProposal in place of getProposalRaw.
RawReadCached ==
  /\ stage[Warmer] = "raw"
  /\ LET copy == local[Home[Warmer]]["proposal"]
         v == IF copy # None THEN copy ELSE remote["proposal"]
     IN Store(Warmer, "proposal", IF v # None THEN v ELSE Info(phase))
  /\ UNCHANGED <<phase, remote, local, goal>>

\* getProposalRaw
RawRead ==
  /\ stage[Warmer] = "raw"
  /\ Store(Warmer, "proposal", Info(phase))
  /\ UNCHANGED <<phase, remote, local, goal>>

\* setData and deleteCacheKeys, then the next step: the status of the proposal read at the
\* start, with the cached epoch; the list, from the cached proposal and status.
Set(k) ==
  /\ at[Warmer] = k /\ stage[Warmer] = "store" /\ k = goal[Warmer]
  /\ remote' = [remote EXCEPT ![k] = val[Warmer]]
  /\ Remember(Warmer, k, val[Warmer])
  /\ \/ /\ k = "proposal"
        /\ goal' = [goal EXCEPT ![Warmer] = "status"]
        /\ StatusFor(Warmer, val[Warmer])
     \/ /\ k = "status"
        /\ goal' = [goal EXCEPT ![Warmer] = "list"]
        /\ Goto(Warmer, "proposal", "lookup", None, None)
     \/ /\ k = "list"
        /\ End(Warmer)
  /\ UNCHANGED phase

\* An await rejects: a request fails, the cron logs and waits for its next run.
Fail(t) ==
  /\ stage[t] # "idle"
  /\ End(t)
  /\ UNCHANGED <<phase, remote, local>>

----------------------------------------------------------------------------
(* The chain, Redis and the memories.                                      *)

\* Epochs pass; after the end of the vote anyone may close the proposal.
Advance ==
  /\ phase < Closed
  /\ phase' = phase + 1
  /\ UNCHANGED <<remote, local, at, stage, goal, info, val>>

ExpireRemote(k) ==
  /\ remote[k] # None
  /\ remote' = [remote EXCEPT ![k] = None]
  /\ UNCHANGED <<phase, local, at, stage, goal, info, val>>

\* The ttl of a copy in memory, a deleteCacheKeys message or a restart takes it away.
ExpireLocal(x, k) ==
  /\ local[x][k] # None
  /\ local' = [local EXCEPT ![x][k] = None]
  /\ UNCHANGED <<phase, remote, at, stage, goal, info, val>>

----------------------------------------------------------------------------
Read(t, k) == LocalHit(t, k) \/ RemoteHit(t, k) \/ Miss(t, k) \/ Query(t, k)
                \/ Fill(t, k)

Next ==
  \/ \E k \in Keys, t \in Tasks : Read(t, k) \/ Ask(t, k)
  \/ \E k \in Keys : Set(k) \/ ExpireRemote(k)
  \/ \E k \in Keys, x \in Procs : ExpireLocal(x, k)
  \/ \E t \in Tasks : Fail(t)
  \/ Warm \/ RawRead \/ Advance

Spec == Init /\ [][Next]_vars

\* An await ends; an entry expires, or the cron keeps setting it anew.  Nothing is assumed
\* of the cron beyond its awaits, nor of messages.
FairSpec ==
  /\ Spec
  /\ \A t \in Tasks : WF_vars(Fail(t) \/ \E k \in Keys : Read(t, k))
  /\ WF_vars(RawRead \/ \E k \in Keys : Set(k))
  /\ \A k \in Keys : WF_vars(ExpireRemote(k) \/ Set(k))
  /\ \A x \in Procs, k \in Keys :
       WF_vars(ExpireLocal(x, k) \/ (x = Home[Warmer] /\ Set(k)))

----------------------------------------------------------------------------
Stages == {"idle", "lookup", "query", "raw", "store"}

TypeOK ==
  /\ phase \in Phases
  /\ remote \in [Keys -> Value]
  /\ local \in [Procs -> [Keys -> Value]]
  /\ at \in [Tasks -> Keys]
  /\ stage \in [Tasks -> Stages]
  /\ goal \in [Tasks -> Keys]
  /\ info \in [Tasks -> Value]
  /\ val \in [Tasks -> Value]

\* The values of key k in Redis, in the memories and in the hands of tasks are among S.
Among(k, S) ==
  /\ remote[k] \in S
  /\ \A x \in Procs : local[x][k] \in S
  /\ \A t \in Tasks : at[t] = k => val[t] \in S
  /\ \A t \in Tasks : k = "proposal" => info[t] \in S

\* No client is told of a phase that has not come: whatever instants the proposal and the
\* epoch come from, the status computed from them was true at some time.
NotAhead == \A k \in Keys : Among(k, None .. phase)

\* Every value of key k shows the closing; so does every value of the keys below k.
Shows(k) == phase = Closed /\ Among(k, {None, Closed})
Settled(k) == \A d \in Below(k) \cup {k} : Shows(d)

\* Levels settle from the bottom up and for good: once the copies of a level and of those
\* below it show the closing, no request, cron, expiry or failure brings the past back.
SettledStays ==
  [][\A k \in {"proposal", "status", "list"} : Settled(k) => Settled(k)']_vars

\* Every level settles, even if the cron never runs: a stale value outlives its copies only
\* in the level above, and the list is the last.
Settles == phase = Closed ~> Settled("list")
=============================================================================
