---------------------------- MODULE UserVoteTypes ----------------------------
(***************************************************************************)
(* The list of the votes of one user at one contract, the cache entry      *)
(* behind hasVoted.  Two writers share it without a lock:                  *)
(*                                                                         *)
(*   - a request for a proposal (userVotedProposalsWithVoteType) reads the *)
(*     list, looks the vote up in elastic if the list lacks it, appends    *)
(*     what it found, NotVoted included, and stores the list;              *)
(*   - the handler of a vote event reads the list, sets the vote, stores   *)
(*     the list and, unlike the request, announces the key.                *)
(*                                                                         *)
(* Both are split at their awaits.  The rest of the handler is modelled in *)
(* VoteEvents, the bounds of time in TwoLevelCache.                        *)
(***************************************************************************)
EXTENDS Integers

CONSTANTS
  Apis,       \* the processes that answer requests and listen to deleteCacheKeys
  Notifier,   \* the process of the handler, which does not listen
  Slots,      \* concurrent requests of one process
  Proposals,  \* the proposals of the contract
  Voting,     \* those the user may come to vote on
  None,       \* no proposal
  MaxFails    \* bound of the failures of the handler, for model checking only

ASSUME ProcsAssumption == Notifier \notin Apis /\ 0 \notin Slots
ASSUME VotingAssumption == Voting \subseteq Proposals
ASSUME NoneAssumption  == None \notin Proposals
ASSUME FailsAssumption == MaxFails \in Nat

VARIABLES
  chain,   \* chain[p]: no vote on p, a vote, or a vote that elastic has indexed
  queue,   \* proposals with a vote event to handle
  remote,  \* the Redis entry: at most one list
  local,   \* local[x]: the copy in the memory of x, at most one list
  pc,      \* pc[t]: what task t waits for
  asked,   \* asked[t]: the proposal t works on, None if it is idle
  held,    \* held[t]: the list t holds
  inbox,   \* processes a deleteCacheKeys message is under way to
  fails    \* failures of the handler so far

vars == <<chain, queue, remote, local, pc, asked, held, inbox, fails>>

Procs    == Apis \cup {Notifier}
Requests == Apis \X Slots
Handler  == <<Notifier, 0>>
Tasks    == Requests \cup {Handler}
Home(t)  == t[1]

Votes == {"NotVoted", "Voted"}
List  == [Proposals -> Votes \cup {"unknown"}]   \* unknown: not in the list
EmptyList == [p \in Proposals |-> "unknown"]
PcValues == {"idle", "getRemote", "fill", "keep", "query", "setRemote", "publish"}
Entry == {{}} \cup {{L} : L \in List}

Init ==
  /\ chain = [p \in Proposals |-> "open"]
  /\ queue = {}
  /\ remote = {}
  /\ local = [x \in Procs |-> {}]
  /\ pc = [t \in Tasks |-> "idle"]
  /\ asked = [t \in Tasks |-> None]
  /\ held = [t \in Tasks |-> EmptyList]
  /\ inbox = {}
  /\ fails = 0

Goto(t, from, to) == pc[t] = from /\ pc' = [pc EXCEPT ![t] = to]

\* A task that is done, well or badly, forgets what it had.
End(t) ==
  /\ pc' = [pc EXCEPT ![t] = "idle"]
  /\ asked' = [asked EXCEPT ![t] = None]
  /\ held' = [held EXCEPT ![t] = EmptyList]

\* Task t goes on to an await with the list L in hand.
Hold(t, to, p, L) ==
  /\ pc' = [pc EXCEPT ![t] = to]
  /\ asked' = [asked EXCEPT ![t] = p]
  /\ held' = [held EXCEPT ![t] = L]

Copy(t, L) == local' = [local EXCEPT ![Home(t)] = {L}]

----------------------------------------------------------------------------
(* What a task does with the list L it has read; L stays in memory.        *)

\* CacheService.set: the copy in memory is written while the Redis command is under way.
Store(t, p, L) == Hold(t, "setRemote", p, L) /\ Copy(t, L)

\* Defect for Heals: the list is stored again when it has the vote, which renews its life.
FoundRenews(t, p, L) == L[p] # "unknown" /\ Store(t, p, L)

\* The list has the vote of the proposal asked for: it is the answer.
Found(t, p, L) == L[p] # "unknown" /\ End(t) /\ Copy(t, L)

\* It has not: elastic is asked.
Missing(t, p, L) == L[p] = "unknown" /\ Hold(t, "query", p, L) /\ Copy(t, L)

\* The handler pushes the vote, or replaces the one in the list.
SetVote(t, p, L) == Store(t, p, [L EXCEPT ![p] = "Voted"])

Use(t, p, L) == IF t = Handler THEN SetVote(t, p, L)
                               ELSE Found(t, p, L) \/ Missing(t, p, L)

----------------------------------------------------------------------------
(* The cached read of the list, behind @GetOrSetCache.                     *)

Read(t, p) ==
  /\ pc[t] = "idle"
  /\ \/ \E L \in local[Home(t)] : Use(t, p, L)
     \/ /\ local[Home(t)] = {}
        /\ Hold(t, "getRemote", p, EmptyList)
        /\ UNCHANGED local

\* A client asks whether it has voted on p.
Ask(t, p) ==
  /\ t \in Requests
  /\ Read(t, p)
  /\ UNCHANGED <<chain, queue, remote, inbox, fails>>

\* RabbitMQ hands the event of a vote on p to the handler.
Deliver(p) ==
  /\ p \in queue
  /\ Read(Handler, p)
  /\ queue' = queue \ {p}
  /\ UNCHANGED <<chain, remote, inbox, fails>>

RemoteHit(t) ==
  /\ pc[t] = "getRemote"
  /\ \E L \in remote : Hold(t, "keep", asked[t], L)
  /\ UNCHANGED <<chain, queue, remote, local, inbox, fails>>

\* userVoteTypesForContract itself: the empty list.
RemoteMiss(t) ==
  /\ remote = {}
  /\ Goto(t, "getRemote", "fill")
  /\ UNCHANGED <<chain, queue, remote, local, asked, held, inbox, fails>>

Fill(t) ==
  /\ Goto(t, "fill", "keep")
  /\ remote' = {held[t]}
  /\ UNCHANGED <<chain, queue, local, asked, held, inbox, fails>>

Keep(t) ==
  /\ pc[t] = "keep"
  /\ Use(t, asked[t], held[t])
  /\ UNCHANGED <<chain, queue, remote, inbox, fails>>

----------------------------------------------------------------------------
(* The write.                                                              *)

\* Defect for NoInvention: the events elastic returns are not filtered by proposal.
QueryUnfiltered(t) ==
  /\ pc[t] = "query"
  /\ LET vote == IF \E p \in Proposals : chain[p] = "indexed" THEN "Voted" ELSE "NotVoted" IN
     Store(t, asked[t], [held[t] EXCEPT ![asked[t]] = vote])
  /\ UNCHANGED <<chain, queue, remote, inbox, fails>>

\* Defect for HealedStaysHealed: a failure of elastic is taken for no event.
QueryDefaults(t) ==
  /\ pc[t] = "query"
  /\ \E vote \in {"NotVoted"} \cup {v \in {"Voted"} : chain[asked[t]] = "indexed"} :
       Store(t, asked[t], [held[t] EXCEPT ![asked[t]] = vote])
  /\ UNCHANGED <<chain, queue, remote, inbox, fails>>

\* getVoteEvent: elastic knows the votes it has indexed.
Query(t) ==
  /\ pc[t] = "query"
  /\ LET vote == IF chain[asked[t]] = "indexed" THEN "Voted" ELSE "NotVoted" IN
     Store(t, asked[t], [held[t] EXCEPT ![asked[t]] = vote])
  /\ UNCHANGED <<chain, queue, remote, inbox, fails>>

\* The request answers what it stored; the handler goes on to announce the key.
SetRemote(t) ==
  /\ pc[t] = "setRemote"
  /\ remote' = {held[t]}
  /\ IF t = Handler THEN Hold(t, "publish", asked[t], EmptyList) ELSE End(t)
  /\ UNCHANGED <<chain, queue, local, inbox, fails>>

\* deleteCacheKeys, the end of the handler.
Publish ==
  /\ pc[Handler] = "publish"
  /\ End(Handler)
  /\ inbox' = Apis
  /\ UNCHANGED <<chain, queue, remote, local, fails>>

----------------------------------------------------------------------------
(* Failures.                                                               *)

\* An await of a request rejects, and the request with it.
Fail(t) ==
  /\ t \in Requests /\ pc[t] # "idle"
  /\ End(t)
  /\ UNCHANGED <<chain, queue, remote, local, inbox, fails>>

\* An await of the handler rejects, or the notifier stops, which also costs it its memory
\* (ExpireLocal): the event is delivered again.
HandlerFails ==
  /\ pc[Handler] # "idle" /\ fails < MaxFails
  /\ End(Handler)
  /\ queue' = queue \cup {asked[Handler]}
  /\ fails' = fails + 1
  /\ UNCHANGED <<chain, remote, local, inbox>>

----------------------------------------------------------------------------
(* The chain, elastic, Redis and the memories.                             *)

\* A contract accepts one vote of a user on a proposal.
Cast(p) ==
  /\ p \in Voting /\ chain[p] = "open"
  /\ chain' = [chain EXCEPT ![p] = "cast"]
  /\ queue' = queue \cup {p}
  /\ UNCHANGED <<remote, local, pc, asked, held, inbox, fails>>

Index(p) ==
  /\ chain[p] = "cast"
  /\ chain' = [chain EXCEPT ![p] = "indexed"]
  /\ UNCHANGED <<queue, remote, local, pc, asked, held, inbox, fails>>

DeleteCacheKey(x) ==
  /\ x \in inbox
  /\ inbox' = inbox \ {x}
  /\ local' = [local EXCEPT ![x] = {}]
  /\ UNCHANGED <<chain, queue, remote, pc, asked, held, fails>>

LoseMessage(x) ==
  /\ x \in inbox
  /\ inbox' = inbox \ {x}
  /\ UNCHANGED <<chain, queue, remote, local, pc, asked, held, fails>>

ExpireRemote ==
  /\ remote # {}
  /\ remote' = {}
  /\ UNCHANGED <<chain, queue, local, pc, asked, held, inbox, fails>>

ExpireLocal(x) ==
  /\ local[x] # {}
  /\ local' = [local EXCEPT ![x] = {}]
  /\ UNCHANGED <<chain, queue, remote, pc, asked, held, inbox, fails>>

----------------------------------------------------------------------------
Progress(t) ==
  RemoteHit(t) \/ RemoteMiss(t) \/ Fill(t) \/ Keep(t) \/ Query(t) \/ SetRemote(t)

Next ==
  \/ \E t \in Tasks : Progress(t) \/ Fail(t) \/ \E p \in Proposals : Ask(t, p)
  \/ \E p \in Proposals : Deliver(p) \/ Cast(p) \/ Index(p)
  \/ Publish \/ HandlerFails
  \/ \E x \in Procs : DeleteCacheKey(x) \/ LoseMessage(x) \/ ExpireLocal(x)
  \/ ExpireRemote

Spec == Init /\ [][Next]_vars

\* An await ends, by an answer or a failure.  An entry expires, unless it is written anew
\* again and again.
FairSpec ==
  /\ Spec
  /\ \A t \in Tasks : WF_vars(Progress(t))
  /\ WF_vars(ExpireRemote \/ \E t \in Tasks : Fill(t) \/ SetRemote(t))
  /\ \A x \in Procs :
       WF_vars(ExpireLocal(x) \/ \E t \in Tasks : Home(t) = x /\ (Keep(t) \/ Query(t)))
  /\ WF_vars(Publish)

----------------------------------------------------------------------------
TypeOK ==
  /\ chain \in [Proposals -> {"open", "cast", "indexed"}]
  /\ queue \in SUBSET Proposals
  /\ remote \in Entry
  /\ local \in [Procs -> Entry]
  /\ pc \in [Tasks -> PcValues]
  /\ asked \in [Tasks -> Proposals \cup {None}]
  /\ held \in [Tasks -> List]
  /\ inbox \in SUBSET Apis
  /\ fails \in Nat

\* The lists that may yet reach a client: in Redis, in a memory, in the hands of a task.
Lists == {L \in List : \/ L \in remote
                       \/ \E x \in Procs : L \in local[x]
                       \/ \E t \in Tasks : L = held[t]}

\* No list claims a vote that was not cast, however the lists of requests and of the
\* handler overwrite each other.
NoInvention ==
  \A p \in Proposals, L \in Lists : L[p] = "Voted" => chain[p] # "open"

\* The vote on p is visible: elastic has it and nothing remembers NotVoted for it.
Healed(p) == chain[p] = "indexed" /\ \A L \in Lists : L[p] # "NotVoted"

\* Once a vote is visible it stays visible, whatever overlaps, fails or expires: hasVoted,
\* which is taken from these lists, never turns false again.
HealedStaysHealed == [][\A p \in Proposals : Healed(p) => Healed(p)']_vars

\* A NotVoted cached before elastic had the vote is passed on by lists that are stored
\* for other proposals, and renewed each time; it still disappears, because each list
\* that carries it has one proposal more than the one it comes from.
Heals == \A p \in Proposals : chain[p] = "indexed" ~> Healed(p)
=============================================================================
