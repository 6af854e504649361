----------------------------- MODULE VoteEvents -----------------------------
(***************************************************************************)
(* The tally of one proposal of an energy or token snapshot contract, as   *)
(* the events notifier keeps it in the cache (GovernanceHandlerService     *)
(* driven by RabbitMqConsumer) while API processes read it through         *)
(* @GetOrSetCache.                                                         *)
(*                                                                         *)
(* A tally is the number of times each voter was counted: totalVotes,      *)
(* quorum, the four counters and the percentages derived from them are all *)
(* sums over it.  The chain counts a voter once.  A message of the queue   *)
(* is the sequence of votes of one block; RabbitMqModule sets              *)
(* prefetchCount 1, so the handler works on one event at a time, and a     *)
(* message whose handler throws is put back at the head of the queue.      *)
(***************************************************************************)
EXTENDS Integers, Sequences, FiniteSets

CONSTANTS
  Voters,
  Apis,      \* processes that read the tally and listen to deleteCacheKeys
  Notifier,  \* the process that consumes the queue; it does not listen
  MaxBlock,  \* most votes in one block
  MaxFails   \* bound of exceptions and crashes of the notifier

ASSUME NotifierAssumption == Notifier \notin Apis
ASSUME BoundAssumption    == MaxBlock \in Nat \ {0} /\ MaxFails \in Nat

VARIABLES
  cast,         \* voters whose vote the chain holds
  queue,        \* unacknowledged messages
  step, idx,    \* where the handler is in the event idx of the head message
  keys,         \* invalidatedKeys of the handler
  remote,       \* the Redis entry of proposalVotes
  mem,          \* mem[p]: the copy in the memory of p
  rpc, rval,    \* the read of proposalVotes under way in each process
  inbox,        \* API processes a deleteCacheKeys message is under way to
  fails,        \* exceptions and crashes so far
  counted,      \* history: how often the handler counted each voter
  exposed,      \* history: voters a chain read may have counted too, or lost
  unannounced   \* history: keys the handler wrote to Redis and did not publish

handlerVars == <<queue, step, idx, keys>>
cacheVars   == <<remote, mem, rpc, rval>>
vars == <<cast, handlerVars, cacheVars, inbox, fails, counted, exposed, unannounced>>

Procs == Apis \cup {Notifier}
Tally == [Voters -> Nat]
None  == [v \in {} |-> 0]
ChainTally == [v \in Voters |-> IF v \in cast THEN 1 ELSE 0]

\* The keys an event of voter v makes the handler write.
VotesKey == <<"votes">>
Key == {VotesKey} \cup ({"voted", "types"} \X Voters)
KeysOf(v) == {VotesKey, <<"voted", v>>, <<"types", v>>}

Steps == {"idle", "voted", "types", "read", "publish", "notify"}
Reads == {"off", "getRemote", "query", "fill", "keep", "done"}

Init ==
  /\ cast = {}
  /\ queue = <<>> /\ step = "idle" /\ idx = 0 /\ keys = {}
  /\ remote \in {None, ChainTally}
  /\ mem = [p \in Procs |-> None]
  /\ rpc = [p \in Procs |-> "off"] /\ rval = [p \in Procs |-> None]
  /\ inbox = {} /\ fails = 0
  /\ counted = [v \in Voters |-> 0]
  /\ exposed = {} /\ unannounced = {}

----------------------------------------------------------------------------
(* The chain: a block with new votes, and the message with its events.     *)

Blocks == {b \in UNION {[1 .. n -> Voters \ cast] : n \in 1 .. MaxBlock} :
             \A i, j \in DOMAIN b : b[i] = b[j] => i = j}

CastBlock(b) ==
  /\ cast' = cast \cup {b[i] : i \in DOMAIN b}
  /\ queue' = Append(queue, b)
  /\ UNCHANGED <<step, idx, keys, cacheVars, inbox, fails, counted, exposed, unannounced>>

----------------------------------------------------------------------------
(* Reads of proposalVotes through CacheService.getOrSet.  The handler      *)
(* reads when it is at step "read", the API processes at any time.         *)

MayRead(p) == rpc[p] = "off" /\ (p = Notifier => step = "read")

Read(p, from, to) ==
  /\ rpc[p] = from
  /\ rpc' = [rpc EXCEPT ![p] = to]
  /\ UNCHANGED <<cast, handlerVars, inbox, fails, counted, unannounced>>

\* An API process that finds a copy answers and goes on; the handler uses it.
LocalHit ==
  /\ MayRead(Notifier)
  /\ mem[Notifier] # None
  /\ Read(Notifier, "off", "done")
  /\ rval' = [rval EXCEPT ![Notifier] = mem[Notifier]]
  /\ UNCHANGED <<remote, mem, exposed>>

LocalMiss(p) ==
  /\ MayRead(p)
  /\ mem[p] = None
  /\ Read(p, "off", "getRemote")
  /\ UNCHANGED <<remote, mem, rval, exposed>>

RemoteHit(p) ==
  /\ remote # None
  /\ Read(p, "getRemote", "keep")
  /\ rval' = [rval EXCEPT ![p] = remote]
  /\ UNCHANGED <<remote, mem, exposed>>

RemoteMiss(p) ==
  /\ remote = None
  /\ Read(p, "getRemote", "query")
  /\ UNCHANGED <<remote, mem, rval, exposed>>

\* proposalVotesRaw: the contract's own tally, which may hold votes whose events
\* the handler has yet to count.
Query(p) ==
  /\ Read(p, "query", "fill")
  /\ rval' = [rval EXCEPT ![p] = ChainTally]
  /\ exposed' = exposed \cup {v \in Voters : ChainTally[v] # counted[v]}
  /\ UNCHANGED <<remote, mem>>

Fill(p) ==
  /\ Read(p, "fill", "keep")
  /\ remote' = rval[p]
  /\ UNCHANGED <<mem, rval, exposed>>

Keep(p) ==
  /\ Read(p, "keep", IF p = Notifier THEN "done" ELSE "off")
  /\ mem' = [mem EXCEPT ![p] = rval[p]]
  /\ rval' = IF p = Notifier THEN rval ELSE [rval EXCEPT ![p] = None]
  /\ UNCHANGED <<remote, exposed>>

\* The chain query of an API process fails; nothing is stored.
QueryFails(p) ==
  /\ p \in Apis
  /\ Read(p, "query", "off")
  /\ UNCHANGED <<remote, mem, rval, exposed>>

----------------------------------------------------------------------------
(* The handler.                                                            *)

Voter == Head(queue)[idx]

Handler(from, to) ==
  /\ step = from
  /\ step' = to

\* RabbitMQ hands over the head message (consumeEvents).
Deliver ==
  /\ queue # <<>>
  /\ Handler("idle", "voted")
  /\ idx' = 1
  /\ UNCHANGED <<cast, queue, keys, cacheVars, inbox, fails, counted, exposed, unannounced>>

Write(key) ==
  /\ keys' = keys \cup {key}
  /\ unannounced' = unannounced \cup {key}

\* userVotedProposals: read, push, remove duplicates, set.  The write is idempotent.
SetVoted ==
  /\ Handler("voted", "types")
  /\ Write(<<"voted", Voter>>)
  /\ UNCHANGED <<cast, queue, idx, cacheVars, inbox, fails, counted, exposed>>

\* userVoteTypesForContract: read, find, push or overwrite, set (see UserVoteTypes).
SetTypes ==
  /\ Handler("types", "read")
  /\ Write(<<"types", Voter>>)
  /\ UNCHANGED <<cast, queue, idx, cacheVars, inbox, fails, counted, exposed>>

\* Defect for NoInventedVotes: a missing break, two cases of the switch add the vote.
IncreasedTwice == [rval[Notifier] EXCEPT ![Voter] = @ + 2]

Increased == [rval[Notifier] EXCEPT ![Voter] = @ + 1]
Spanned == IF \E p \in Apis : rpc[p] = "fill" THEN {Voter} ELSE {}
EndRead ==
  /\ rpc' = [rpc EXCEPT ![Notifier] = "off"]
  /\ rval' = [rval EXCEPT ![Notifier] = None]

\* Defect for TallyExact: setRemote in place of set, the notifier keeps its old copy.
SetVotesRemoteOnly ==
  /\ rpc[Notifier] = "done"
  /\ Handler("read", "publish")
  /\ EndRead
  /\ remote' = Increased
  /\ counted' = [counted EXCEPT ![Voter] = @ + 1]
  /\ exposed' = exposed \cup Spanned
  /\ Write(VotesKey)
  /\ UNCHANGED <<cast, queue, idx, mem, inbox, fails>>

\* increaseProposalVotes and its set.
SetVotes ==
  /\ rpc[Notifier] = "done"
  /\ Handler("read", "publish")
  /\ EndRead
  /\ remote' = Increased
  /\ mem' = [mem EXCEPT ![Notifier] = Increased]
  /\ counted' = [counted EXCEPT ![Voter] = @ + 1]
  /\ exposed' = exposed \cup Spanned
  /\ Write(VotesKey)
  /\ UNCHANGED <<cast, queue, idx, inbox, fails>>

\* Defect for AnnouncedOrRedelivered: cacheKey is overwritten, only the last one is published.
PublishLast ==
  /\ Handler("publish", "notify")
  /\ inbox' = inbox \cup Apis
  /\ unannounced' = unannounced \ {VotesKey}
  /\ keys' = {}
  /\ UNCHANGED <<cast, queue, idx, cacheVars, fails, counted, exposed>>

\* deleteCacheKeys: publish, then forget the keys.
Publish ==
  /\ Handler("publish", "notify")
  /\ inbox' = inbox \cup Apis
  /\ unannounced' = unannounced \ keys
  /\ keys' = {}
  /\ UNCHANGED <<cast, queue, idx, cacheVars, fails, counted, exposed>>

\* The publication of voteType, then the next event of the block or the acknowledgement.
Notify ==
  /\ step = "notify"
  /\ IF idx < Len(Head(queue))
       THEN /\ step' = "voted" /\ idx' = idx + 1
            /\ UNCHANGED queue
       ELSE /\ step' = "idle" /\ idx' = 0
            /\ queue' = Tail(queue)
  /\ UNCHANGED <<cast, keys, cacheVars, inbox, fails, counted, exposed, unannounced>>

----------------------------------------------------------------------------
(* Failures of the handler.                                                *)

\* What a failed set or publish may have done before it threw.
Nothing == UNCHANGED <<remote, mem, inbox, counted, exposed, unannounced>>
WroteKey ==
  /\ \/ step = "voted" /\ unannounced' = unannounced \cup {<<"voted", Voter>>}
     \/ step = "types" /\ unannounced' = unannounced \cup {<<"types", Voter>>}
  /\ UNCHANGED <<remote, mem, inbox, counted, exposed>>
WroteVotes ==
  /\ step = "read" /\ rpc[Notifier] = "done"
  /\ counted' = [counted EXCEPT ![Voter] = @ + 1]
  /\ mem' = [mem EXCEPT ![Notifier] = Increased]
  /\ \/ /\ remote' = Increased
        /\ unannounced' = unannounced \cup {VotesKey}
        /\ exposed' = exposed \cup Spanned
     \/ /\ exposed' = exposed \cup {Voter}
        /\ UNCHANGED <<remote, unannounced>>
  /\ UNCHANGED inbox
Published ==
  /\ step = "publish"
  /\ inbox' = inbox \cup Apis
  /\ UNCHANGED <<remote, mem, counted, exposed, unannounced>>

\* Defect for EveryVoteCounted: a message whose handler throws is acknowledged.
RequeueAcked ==
  /\ step # "idle" /\ fails < MaxFails
  /\ fails' = fails + 1
  /\ step' = "idle" /\ idx' = 0
  /\ EndRead
  /\ queue' = Tail(queue)
  /\ UNCHANGED cast

Requeue ==
  /\ step # "idle" /\ fails < MaxFails
  /\ fails' = fails + 1
  /\ step' = "idle" /\ idx' = 0
  /\ EndRead
  /\ UNCHANGED <<cast, queue>>

\* An exception leaves the handler: the message is put back, the keys pushed so far
\* stay in the instance.
Throw ==
  /\ Requeue
  /\ Nothing \/ WroteKey \/ WroteVotes \/ Published
  /\ UNCHANGED keys

\* The notifier dies: the broker puts the unacknowledged message back.
Crash ==
  /\ Requeue
  /\ keys' = {}
  /\ mem' = [mem EXCEPT ![Notifier] = None]
  /\ UNCHANGED <<remote, inbox, counted, exposed, unannounced>>

----------------------------------------------------------------------------
(* Pub/sub and expiry.                                                     *)

Others == <<cast, handlerVars, rpc, rval, fails, counted, exposed, unannounced>>

DeleteCacheKey(p) ==
  /\ p \in inbox
  /\ inbox' = inbox \ {p}
  /\ mem' = [mem EXCEPT ![p] = None]
  /\ UNCHANGED <<remote, Others>>

LoseMessage(p) ==
  /\ p \in inbox
  /\ inbox' = inbox \ {p}
  /\ UNCHANGED <<remote, mem, Others>>

\* Defect for Converges: the handler's set has no ttl.
ExpireUnlessSet ==
  /\ remote # None
  /\ \A v \in Voters : counted[v] = 0
  /\ remote' = None
  /\ UNCHANGED <<mem, inbox, Others>>

ExpireRemote ==
  /\ remote # None
  /\ remote' = None
  /\ UNCHANGED <<mem, inbox, Others>>

ExpireLocal(p) ==
  /\ mem[p] # None
  /\ mem' = [mem EXCEPT ![p] = None]
  /\ UNCHANGED <<remote, inbox, Others>>

----------------------------------------------------------------------------
ReadStep(p) == RemoteHit(p) \/ RemoteMiss(p) \/ Query(p) \/ Fill(p) \/ Keep(p)

HandlerStep ==
  \/ Deliver \/ SetVoted \/ SetTypes
  \/ LocalHit \/ LocalMiss(Notifier) \/ ReadStep(Notifier)
  \/ SetVotes \/ Publish \/ Notify

Next ==
  \/ \E b \in Blocks : CastBlock(b)
  \/ HandlerStep \/ Throw \/ Crash
  \/ \E p \in Apis : \/ LocalMiss(p) \/ ReadStep(p) \/ QueryFails(p)
                     \/ DeleteCacheKey(p) \/ LoseMessage(p)
  \/ ExpireRemote
  \/ \E p \in Procs : ExpireLocal(p)

Spec == Init /\ [][Next]_vars

\* The broker delivers, awaited calls return, and every entry expires: it is written
\* anew only by a vote event, and there are finitely many.
FairSpec ==
  /\ Spec
  /\ WF_vars(HandlerStep)
  /\ \A p \in Apis : WF_vars(ReadStep(p))
  /\ WF_vars(ExpireRemote)
  /\ \A p \in Procs : WF_vars(ExpireLocal(p))

----------------------------------------------------------------------------
TypeOK ==
  /\ cast \in SUBSET Voters
  /\ queue \in Seq(Seq(Voters) \ {<<>>})
  /\ step \in Steps /\ idx \in Nat
  /\ keys \in SUBSET Key /\ unannounced \in SUBSET Key
  /\ remote \in Tally \cup {None}
  /\ mem \in [Procs -> Tally \cup {None}]
  /\ rpc \in [Procs -> Reads]
  /\ rval \in [Procs -> Tally \cup {None}]
  /\ inbox \in SUBSET Apis
  /\ fails \in Nat
  /\ counted \in Tally
  /\ exposed \in SUBSET Voters

\* A voter appears in a tally at most once for the chain read it started from and
\* once for every delivery of its event, and only if the chain holds the vote.
Plausible(t) == \A v \in Voters : t[v] <= counted[v] + (IF v \in cast THEN 1 ELSE 0)
NoInventedVotes ==
  /\ remote # None => Plausible(remote)
  /\ \A p \in Procs : mem[p] # None => Plausible(mem[p])

\* increaseProposalVotes on a cached tally and proposalVotesRaw agree: unless a chain
\* read overlapped the time between a vote and its event, the tally in Redis counts
\* its voter exactly as often as the handler did.
TallyExact ==
  remote # None => \A v \in Voters \ exposed : remote[v] = counted[v]

\* deleteCacheKeys and invalidatedKeys: a key written to Redis and not published belongs
\* to the message under way, whose redelivery writes and publishes it again.
AnnouncedOrRedelivered ==
  unannounced # {} =>
    /\ queue # <<>>
    /\ unannounced \subseteq UNION {KeysOf(Head(queue)[i]) : i \in DOMAIN Head(queue)}

\* consumeEvents behind a queue that redelivers: every vote is counted.
EveryVoteCounted == \A v \in Voters : v \in cast ~> counted[v] > 0

\* Whatever the handler did to it, the tally shown everywhere is the contract's own once
\* the votes are over and the entries have lived their lives.
Converges ==
  <>[](/\ remote \in {None, ChainTally}
       /\ \A p \in Apis : mem[p] \in {None, ChainTally})
=============================================================================
