------------------------------ MODULE ShownVotes ------------------------------
(***************************************************************************)
(* Where a user is told that he has voted: on pulse polls and ideas, on an *)
(* on-chain proposal directly, and on it through the staking providers he  *)
(* delegates to.  Each of these channels has a cache key.  A request that  *)
(* misses asks an index of the chain, which learns of a vote later than    *)
(* the chain and than the event that the notifier handles.                 *)
(*                                                                         *)
(* The call vote of an on-chain proposal reads every channel and offers a  *)
(* transaction for each power that has not voted; the user signs what he   *)
(* is offered.                                                             *)
(*                                                                         *)
(* One user and one proposal; Redis and one memory of requests, from which *)
(* a deleteCacheKeys message, a ttl and a restart take copies alike.       *)
(***************************************************************************)
EXTENDS Integers, FiniteSets

CONSTANTS
  Polls,      \* channels of pulse: found on a page of transactions of the API
  Liquid,     \* providers with a snapshot of balances, a file that arrives later
  Legacy,     \* providers whose contract tells the power
  Direct,     \* the vote of the user's own stake
  Enabled,    \* the providers that are enabled
  Requests,   \* requests under way at once
  None,       \* no entry, no event
  MaxVotes,   \* bound: votes cast
  MaxFails    \* bound: awaits that reject

Providers == Liquid \cup Legacy
OnChain   == Providers \cup {Direct}
Channels  == Polls \cup OnChain

ASSUME ChannelAssumption ==
  /\ Polls \cap OnChain = {} /\ Liquid \cap Legacy = {} /\ Direct \notin Providers
  /\ Enabled \subseteq Providers /\ None \notin Channels \cup {"voted", "not"}
ASSUME BoundAssumption == MaxVotes \in Nat /\ MaxFails \in Nat

VARIABLES
  cast,     \* the chain: the channels the user has voted on
  indexed,  \* the index: the votes it knows
  fallen,   \* the votes that later transactions have pushed off the page
  files,    \* the snapshots that are there
  queue,    \* the events not acknowledged
  busy,     \* what the notifier does: [event, step]
  remote,   \* remote[c]: the Redis entry of channel c
  local,    \* local[c]: the copy in the memory of the requests
  req,      \* req[r]: what request r does
  fails     \* rejections so far

chain == <<cast, indexed, fallen, files>>
vars == <<chain, queue, busy, remote, local, req, fails>>

Answers == {"voted", "not"}
Idle == [event |-> None, step |-> "idle"]

\* A request: the channels yet to read, the one whose answer from the index it holds, the
\* power it found when it began, the transactions it offers, and the power that was there
\* when it began and was not voted with since.
NoRequest == [stage |-> "idle", todo |-> {}, at |-> None, val |-> None,
              power |-> {}, offers |-> {}, owed |-> {}]

Init ==
  /\ cast = {} /\ indexed = {} /\ fallen = {} /\ files = {}
  /\ queue = {} /\ busy = Idle
  /\ remote = [c \in Channels |-> None]
  /\ local = [c \in Channels |-> None]
  /\ req = [r \in Requests |-> NoRequest]
  /\ fails = 0

\* The power of a disabled provider is VOTE_POWER_FOR_NOT_IMPL; a missing snapshot is '-1',
\* which counts as that too.
Powered == {Direct} \cup (Enabled \cap (Legacy \cup files))

----------------------------------------------------------------------------
(* Requests: hasVoted of one channel, or vote of the on-chain proposal.    *)

Begin(r, cs, ps) ==
  /\ req[r].stage = "idle"
  /\ req' = [req EXCEPT ![r] = [NoRequest EXCEPT !.stage = "read", !.todo = cs,
                                                  !.power = ps, !.owed = ps \ cast]]
  /\ UNCHANGED <<chain, queue, busy, remote, local, fails>>

Show(r, c) == Begin(r, {c}, {})

\* The powers of all providers are asked for first.
Vote(r) == Begin(r, (Enabled \cap Providers) \cup {Direct}, Powered)

\* A transaction is offered when there is power and no vote.
Answer(r, c, v) ==
  LET left == req[r].todo \ {c}
      more == IF v = "not" THEN req[r].power \cap {c} ELSE {}
  IN req' = [req EXCEPT ![r].stage = IF left = {} THEN "done" ELSE "read",
                        ![r].todo = left, ![r].at = None, ![r].val = None,
                        ![r].offers = @ \cup more]

\* Channel c is read next; the user's own vote comes after those of the providers.
Reads(r, c) ==
  /\ req[r].stage = "read" /\ c \in req[r].todo
  /\ c = Direct => req[r].todo = {Direct}

LocalHit(r, c) ==
  /\ Reads(r, c) /\ local[c] # None
  /\ Answer(r, c, local[c])
  /\ UNCHANGED <<chain, queue, busy, remote, local, fails>>

RemoteHit(r, c) ==
  /\ Reads(r, c) /\ local[c] = None /\ remote[c] # None
  /\ local' = [local EXCEPT ![c] = remote[c]]
  /\ Answer(r, c, remote[c])
  /\ UNCHANGED <<chain, queue, busy, remote, fails>>

\* Neither level has an answer, and the index gives answer v.
Holds(r, c, v) ==
  /\ Reads(r, c) /\ local[c] = None /\ remote[c] = None
  /\ req' = [req EXCEPT ![r] = [@ EXCEPT !.stage = "store", !.at = c, !.val = v]]
  /\ UNCHANGED <<chain, queue, busy, remote, local>>

\* Defect for EveryVoteShown: the event vote is asked for, whatever the channel.
FoundVote(c) == c \in (indexed \ fallen) \ Providers

Found(c) == c \in indexed \ fallen

\* Defect for NoInventedVote: a vote of the user on another poll is taken for this one.
QueryAny(r, c) ==
  /\ Holds(r, c, IF Found(c) \/ (c \in Polls /\ indexed # {}) THEN "voted" ELSE "not")
  /\ UNCHANGED fails

Query(r, c) ==
  /\ Holds(r, c, IF Found(c) THEN "voted" ELSE "not")
  /\ UNCHANGED fails

\* The API rejects: that is no vote, for as long as any other answer.
QueryFails(r, c) ==
  /\ c \in Polls /\ fails < MaxFails
  /\ Holds(r, c, "not")
  /\ fails' = fails + 1

Fill(r) ==
  /\ req[r].stage = "store"
  /\ LET c == req[r].at
         v == req[r].val
     IN /\ remote' = [remote EXCEPT ![c] = v]
        /\ local' = [local EXCEPT ![c] = v]
        /\ Answer(r, c, v)
  /\ UNCHANGED <<chain, queue, busy, fails>>

\* Defect for NothingForgotten: the error of one channel is logged, and the answer has the rest.
RejectPartly(r) ==
  /\ req[r].stage = "read" /\ fails < MaxFails
  /\ fails' = fails + 1
  /\ req' = [req EXCEPT ![r].stage = "done", ![r].todo = {}]
  /\ UNCHANGED <<chain, queue, busy, remote, local>>

\* Another await rejects, and with it the request.
Reject(r) ==
  /\ req[r].stage = "read" /\ fails < MaxFails
  /\ fails' = fails + 1
  /\ req' = [req EXCEPT ![r] = NoRequest]
  /\ UNCHANGED <<chain, queue, busy, remote, local>>

\* The answer arrives; what the user does with it is Sign.
Return(r) ==
  /\ req[r].stage = "done"
  /\ req' = [req EXCEPT ![r] = NoRequest]
  /\ UNCHANGED <<chain, queue, busy, remote, local, fails>>

----------------------------------------------------------------------------
(* The notifier: pulse events and on-chain vote events.                    *)

Deliver(c) ==
  /\ busy = Idle /\ c \in queue
  /\ busy' = [event |-> c, step |-> "set"]
  /\ UNCHANGED <<chain, queue, remote, local, req, fails>>

\* The vote is set in Redis; the message that follows is an ExpireLocal.
Handle ==
  /\ busy.step = "set"
  /\ remote' = [remote EXCEPT ![busy.event] = "voted"]
  /\ busy' = [busy EXCEPT !.step = "after"]
  /\ UNCHANGED <<chain, queue, local, req, fails>>

\* The powers of the on-chain contract are computed and stored where nothing reads them;
\* then the event is acknowledged.
Acknowledge ==
  /\ busy.step = "after"
  /\ queue' = queue \ {busy.event}
  /\ busy' = Idle
  /\ UNCHANGED <<chain, remote, local, req, fails>>

\* That computation, or a set, rejects: the event is delivered again.
Requeue ==
  /\ busy # Idle /\ fails < MaxFails
  /\ fails' = fails + 1
  /\ busy' = Idle
  /\ UNCHANGED <<chain, queue, remote, local, req>>

----------------------------------------------------------------------------
(* The chain, its index, Redis and the memory.                             *)

\* The contracts take one vote of a power; a request no longer owes what was voted with.
Sign(c) ==
  /\ c \notin cast /\ c \in Polls \cup Powered /\ Cardinality(cast) < MaxVotes
  /\ cast' = cast \cup {c}
  /\ queue' = queue \cup {c}
  /\ req' = [r \in Requests |-> [req[r] EXCEPT !.owed = @ \ {c}]]
  /\ UNCHANGED <<indexed, fallen, files, busy, remote, local, fails>>

Index(c) ==
  /\ c \in cast \ indexed
  /\ indexed' = indexed \cup {c}
  /\ UNCHANGED <<cast, fallen, files, queue, busy, remote, local, req, fails>>

Fall(c) ==
  /\ c \in (indexed \cap Polls) \ fallen
  /\ fallen' = fallen \cup {c}
  /\ UNCHANGED <<cast, indexed, files, queue, busy, remote, local, req, fails>>

\* A pull brings the snapshot of a provider.
Snapshot(c) ==
  /\ c \in Liquid \ files
  /\ files' = files \cup {c}
  /\ UNCHANGED <<cast, indexed, fallen, queue, busy, remote, local, req, fails>>

ExpireRemote(c) ==
  /\ remote[c] # None
  /\ remote' = [remote EXCEPT ![c] = None]
  /\ UNCHANGED <<chain, queue, busy, local, req, fails>>

ExpireLocal(c) ==
  /\ local[c] # None
  /\ local' = [local EXCEPT ![c] = None]
  /\ UNCHANGED <<chain, queue, busy, remote, req, fails>>

----------------------------------------------------------------------------
Step(r) ==
  \/ Fill(r)
  \/ \E c \in Channels : LocalHit(r, c) \/ RemoteHit(r, c) \/ Query(r, c) \/ QueryFails(r, c)
Notifier == Handle \/ Acknowledge \/ Requeue \/ \E c \in Channels : Deliver(c)

Next ==
  \/ \E r \in Requests : Vote(r) \/ Step(r) \/ Reject(r) \/ Return(r)
                           \/ \E c \in Channels : Show(r, c)
  \/ Notifier
  \/ \E c \in Channels : Sign(c) \/ Index(c) \/ Fall(c) \/ Snapshot(c)
                           \/ ExpireRemote(c) \/ ExpireLocal(c)

Spec == Init /\ [][Next]_vars

\* Awaits end, votes are indexed, events are handled, and entries expire unless set anew.
FairSpec ==
  /\ Spec
  /\ \A r \in Requests : WF_vars(Step(r))
  /\ WF_vars(Notifier)
  /\ \A c \in Channels :
       /\ WF_vars(Index(c))
       /\ WF_vars(ExpireRemote(c) \/ (busy.event = c /\ Handle))
       /\ WF_vars(ExpireLocal(c))

----------------------------------------------------------------------------
\* What a request can be.
Request == [stage : {"idle", "read", "store", "done"}, todo : SUBSET Channels,
            at : Channels \cup {None}, val : Answers \cup {None},
            power : SUBSET Channels, offers : SUBSET Channels, owed : SUBSET Channels]

TypeOK ==
  /\ {cast, indexed, fallen, queue} \subseteq SUBSET Channels
  /\ files \subseteq Liquid
  /\ busy \in [event : Channels \cup {None}, step : {"idle", "set", "after"}]
  /\ remote \in [Channels -> Answers \cup {None}]
  /\ local \in [Channels -> Answers \cup {None}]
  /\ req \in [Requests -> Request]

\* No answer, in a cache or on its way, says that the user voted where he did not, even
\* while events are delivered again and the index is behind.
NoInventedVote ==
  \A c \in Channels :
    "voted" \in {remote[c], local[c]} \cup {req[r].val : r \in {q \in Requests : req[q].at = c}}
      => c \in cast

\* A user who signs what he is offered has voted with all the power he had when he asked:
\* no cached answer, missing snapshot or vote signed meanwhile hides a power from him.
NothingForgotten ==
  \A r \in Requests : req[r].stage = "done" => req[r].owed \subseteq req[r].offers

\* In the end a vote is shown, and stays so, wherever it can be found: an answer from before
\* the index or the handler knew the vote, or from an API that rejected, is stored at most
\* until it expires.  A vote on a poll can fall off the page that is read.
EveryVoteShown ==
  \A c \in Channels :
    c \in cast ~> [](c \in fallen \/ "not" \notin {remote[c], local[c]})
=============================================================================
