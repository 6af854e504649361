------------------------------ MODULE PulseLists ------------------------------
(***************************************************************************)
(* The polls or the ideas of a pulse contract: how many there are, and     *)
(* what was voted on each, cached under keys of their own.  A request      *)
(* reads the number, asks for as many items, and returns a page of them    *)
(* counted from the end; a cron reads the chain and sets every key.        *)
(*                                                                         *)
(* The code has this twice: ideas come in pages, polls have results with   *)
(* counts for each option; what is below is the same for both.             *)
(*                                                                         *)
(* The chain only adds items and votes, and its answers never go back.     *)
(* What does go back is the cache: an answer on its way is stored over a   *)
(* newer one, and then the list is shorter than it was.                    *)
(*                                                                         *)
(* Redis and one memory of requests; a deleteCacheKeys message, a ttl and  *)
(* a restart all take a copy from that memory.                             *)
(***************************************************************************)
EXTENDS Integers

CONSTANTS
  Client,     \* a request that reads a list page by page
  Others,     \* other requests under way
  Warmer,     \* the cron
  None,       \* no value
  MaxItems,   \* bound: items ever made
  MaxVotes,   \* bound: votes cast on an item
  Voted,      \* bound: the items votes are cast on
  Threshold,  \* POLLS_THRESHOLD, IDEAS_THRESHOLD: no list is longer
  Limit       \* pagination.limit of the client

Requests == Others \cup {Client}
Tasks == Requests \cup {Warmer}
Items == 0 .. MaxItems - 1
Keys  == Items \cup {MaxItems}

Total == MaxItems             \* the key of the number of items

ASSUME TaskAssumption  == Client \notin Others /\ Warmer \notin Requests
ASSUME BoundAssumption == MaxItems \in Nat /\ MaxVotes \in Nat /\ Voted \subseteq Items
ASSUME PageAssumption  == Threshold \in Nat \ {0} /\ Limit \in Nat \ {0}

VARIABLES
  made,     \* the chain: how many items there are
  cast,     \* the chain: cast[i] votes on item i
  remote,   \* remote[k]: the Redis entry of key k
  local,    \* local[k]: the copy in the memory of the requests
  at,       \* at[t]: the key task t works on
  stage,    \* stage[t]: what t waits for
  val,      \* val[t]: the value t holds
  total,    \* the number of items the cron goes by
  page      \* the pages the client has read

vars == <<made, cast, remote, local, at, stage, val, total, page>>

\* What is known of an item: the votes behind its score and the votes counted.
Result(s, c) == [score |-> s, count |-> c]
Unread == Result(None, None)

\* No list read yet: the list of the first page, its items seen so far, the offset of the
\* next page, the last length, and whether a list was shorter than the one before.
NoPage == [first |-> {}, seen |-> {}, offset |-> 0, length |-> 0,
           shrunk |-> FALSE, over |-> FALSE]

Init ==
  /\ made = 0
  /\ cast = [i \in Items |-> 0]
  /\ remote = [k \in Keys |-> None]
  /\ local = [k \in Keys |-> None]
  /\ at = [t \in Tasks |-> Total]
  /\ stage = [t \in Tasks |-> "idle"]
  /\ val = [t \in Tasks |-> None]
  /\ total = 0
  /\ page = NoPage

Goto(t, k, s, v) ==
  /\ at' = [at EXCEPT ![t] = k]
  /\ stage' = [stage EXCEPT ![t] = s]
  /\ val' = [val EXCEPT ![t] = v]

End(t) == Goto(t, Total, "idle", None)

Least(x, y) == IF x < y THEN x ELSE y

----------------------------------------------------------------------------
(* Lists and pages.                                                        *)

\* Defect for AsksForExisting: one item more than there are.
ListBeyond(n) == 0 .. Least(n, Threshold)

\* The items of a list when there are n of them.
List(n) == 0 .. Least(n, Threshold) - 1

\* Defect for PagesSkipNothing: the oldest item of a page is cut off.
SliceShort(m, offset) == {i \in 0 .. m - offset - 1 : i > m - offset - Limit}

\* The page of a list of m items: counted from the end, cut at the front.
Slice(m, offset) == {i \in 0 .. m - offset - 1 : i >= m - offset - Limit}

\* The pages after one more, of a list of n items; an empty page is the last one.
Turn(pg, n) ==
  LET m == Least(n, Threshold)
      now == Slice(m, pg.offset)
  IN [first  |-> IF pg.offset = 0 THEN List(n) ELSE pg.first,
      seen   |-> pg.seen \cup now,
      offset |-> pg.offset + Limit,
      length |-> m,
      shrunk |-> pg.shrunk \/ m < pg.length,
      over   |-> now = {}]

----------------------------------------------------------------------------
(* Requests.                                                               *)

\* A client that has seen the last page starts over.
Ask(r) ==
  /\ stage[r] = "idle"
  /\ Goto(r, Total, "lookup", None)
  /\ page' = IF r = Client /\ page.over THEN NoPage ELSE page
  /\ UNCHANGED <<made, cast, remote, local, total>>

\* A value for the key of r: with the number of items it goes on to an item, or is done
\* when the others are in its memory; a client that fails later asks for its page again.
Answer(r, v) ==
  IF at[r] = Total
  THEN /\ page' = IF r = Client THEN Turn(page, v) ELSE page
       /\ \/ End(r)
          \/ \E i \in List(v) : Goto(r, i, "lookup", None)
  ELSE End(r) /\ page' = page

\* Defect for EveryItemListed: what is found in memory is stored in Redis again.
LocalHitRenews(r) ==
  /\ stage[r] = "lookup" /\ local[at[r]] # None
  /\ remote' = [remote EXCEPT ![at[r]] = local[at[r]]]
  /\ Answer(r, local[at[r]])
  /\ UNCHANGED <<made, cast, local, total>>

LocalHit(r) ==
  /\ stage[r] = "lookup" /\ local[at[r]] # None
  /\ Answer(r, local[at[r]])
  /\ UNCHANGED <<made, cast, remote, local, total>>

RemoteHit(r) ==
  /\ stage[r] = "lookup" /\ local[at[r]] = None /\ remote[at[r]] # None
  /\ local' = [local EXCEPT ![at[r]] = remote[at[r]]]
  /\ Answer(r, remote[at[r]])
  /\ UNCHANGED <<made, cast, remote, total>>

Miss(r) ==
  /\ stage[r] = "lookup" /\ local[at[r]] = None /\ remote[at[r]] = None
  /\ Goto(r, at[r], "query", IF at[r] = Total THEN None ELSE Unread)
  /\ UNCHANGED <<made, cast, remote, local, total, page>>

\* The value is stored in Redis, then in memory, and returned.
Fill(r) ==
  /\ r \in Requests /\ stage[r] = "store"
  /\ remote' = [remote EXCEPT ![at[r]] = val[r]]
  /\ local' = [local EXCEPT ![at[r]] = val[r]]
  /\ Answer(r, val[r])
  /\ UNCHANGED <<made, cast, total>>

----------------------------------------------------------------------------
(* Queries of the contract, the same for requests and the cron.            *)

ReadTotal(t) ==
  /\ stage[t] = "query" /\ at[t] = Total
  /\ Goto(t, Total, "store", made)
  /\ UNCHANGED <<made, cast, remote, local, total, page>>

\* The value of t when one of its parts is read; it is stored when both are.
Read(t, v) ==
  /\ Goto(t, at[t], IF None \in {v.score, v.count} THEN "query" ELSE "store", v)
  /\ UNCHANGED <<made, cast, remote, local, total, page>>

Querying(t) == stage[t] = "query" /\ at[t] # Total

ReadScore(t) ==
  /\ Querying(t) /\ val[t].score = None
  /\ Read(t, [val[t] EXCEPT !.score = cast[at[t]]])

\* Defect for CountsBehindScores: the counts are asked for along with the poll.
ReadCountEarly(t) ==
  /\ Querying(t) /\ val[t].count = None
  /\ Read(t, [val[t] EXCEPT !.count = cast[at[t]]])

\* The options are needed first, and come with the score.
ReadCount(t) ==
  /\ Querying(t) /\ val[t].count = None
  /\ val[t].score # None
  /\ Read(t, [val[t] EXCEPT !.count = cast[at[t]]])

----------------------------------------------------------------------------
(* The cron: the number, then item after item, without a threshold.        *)

Warm ==
  /\ stage[Warmer] = "idle"
  /\ Goto(Warmer, Total, "query", None)
  /\ UNCHANGED <<made, cast, remote, local, total, page>>

\* Item i of the pass, or the end of it.
WarmNext(i, n) ==
  IF i < n THEN Goto(Warmer, i, "query", Unread) ELSE End(Warmer)

Set ==
  /\ stage[Warmer] = "store"
  /\ remote' = [remote EXCEPT ![at[Warmer]] = val[Warmer]]
  /\ IF at[Warmer] = Total
     THEN /\ total' = val[Warmer]
          /\ WarmNext(0, val[Warmer])
     ELSE /\ WarmNext(at[Warmer] + 1, total)
          /\ UNCHANGED total
  /\ UNCHANGED <<made, cast, local, page>>

\* An await rejects: the request fails as a whole, the pass ends.
Fail(t) ==
  /\ stage[t] # "idle"
  /\ End(t)
  /\ UNCHANGED <<made, cast, remote, local, total, page>>

----------------------------------------------------------------------------
(* The chain, Redis and the memory.                                        *)

New ==
  /\ made < MaxItems
  /\ made' = made + 1
  /\ UNCHANGED <<cast, remote, local, at, stage, val, total, page>>

Vote(i) ==
  /\ i \in Voted /\ i < made /\ cast[i] < MaxVotes
  /\ cast' = [cast EXCEPT ![i] = @ + 1]
  /\ UNCHANGED <<made, remote, local, at, stage, val, total, page>>

ExpireRemote(k) ==
  /\ remote[k] # None
  /\ remote' = [remote EXCEPT ![k] = None]
  /\ UNCHANGED <<made, cast, local, at, stage, val, total, page>>

ExpireLocal(k) ==
  /\ local[k] # None
  /\ local' = [local EXCEPT ![k] = None]
  /\ UNCHANGED <<made, cast, remote, at, stage, val, total, page>>

----------------------------------------------------------------------------
Query(t) == ReadTotal(t) \/ ReadScore(t) \/ ReadCount(t)
Step(r) == LocalHit(r) \/ RemoteHit(r) \/ Miss(r) \/ Fill(r) \/ Query(r)

Next ==
  \/ \E r \in Requests : Ask(r) \/ Step(r)
  \/ Warm \/ Set \/ Query(Warmer)
  \/ \E t \in Tasks : Fail(t)
  \/ New \/ \E i \in Items : Vote(i)
  \/ \E k \in Keys : ExpireRemote(k) \/ ExpireLocal(k)

Spec == Init /\ [][Next]_vars

\* An await ends; an entry expires, or is set anew.  Nothing is assumed of the cron beyond
\* the end of its awaits.
FairSpec ==
  /\ Spec
  /\ \A r \in Requests : WF_vars(Step(r) \/ Fail(r))
  /\ WF_vars(Set \/ Query(Warmer) \/ Fail(Warmer))
  /\ WF_vars(ExpireRemote(Total) \/ (Set /\ at[Warmer] = Total))
  /\ WF_vars(ExpireLocal(Total))

----------------------------------------------------------------------------
Stages == {"idle", "lookup", "query", "store"}

Whole == [score : Nat, count : Nat]
Values(k) == IF k = Total THEN Nat ELSE Whole

TypeOK ==
  /\ made \in Nat
  /\ cast \in [Items -> Nat]
  /\ \A k \in Keys : {remote[k], local[k]} \subseteq Values(k) \cup {None}
  /\ at \in [Tasks -> Keys]
  /\ stage \in [Tasks -> Stages]
  /\ total \in Nat
  /\ \A t \in Tasks : stage[t] = "store" => val[t] \in Values(at[t])

\* getPollResults asks for the poll first and for the counts of its options after: whatever
\* votes are cast meanwhile, no result, in a cache or in flight, has power without the votes
\* that brought it.
CountsBehindScores ==
  LET Sound(v) == v \notin {None, Unread} /\ None \notin {v.score, v.count}
                    => v.score <= v.count
  IN /\ \A i \in Items : Sound(remote[i]) /\ Sound(local[i])
     /\ \A t \in Tasks : at[t] # Total => Sound(val[t])

\* Promise.all of a list rejects as a whole when one item is missing.  No number of items,
\* however old its copy, is beyond the chain's, so no item is asked for that does not exist.
AsksForExisting == \A t \in Tasks : at[t] # Total => at[t] < made

\* Pages are counted from the end, so items that arrive between two requests move the older
\* ones to later pages: a client that reads on to an empty page has seen every item of the
\* list it started with, unless a late fill made a list shorter than the one before.
PagesSkipNothing == page.over => page.first \subseteq page.seen \/ page.shrunk

\* Once the number of items stays the same every list ends up complete, and stays so, for
\* all items below the threshold.
EveryItemListed ==
  made = MaxItems ~>
    [](\A n \in {remote[Total], local[Total]} \ {None}, i \in Items :
         i < Threshold => i \in List(n))
=============================================================================
