----------------------------- MODULE GuestCache -----------------------------
(***************************************************************************)
(* The cache of guest queries.  GuestCachingMiddleware counts the queries  *)
(* without a user and adds them, in batches, to a ranking in Redis that    *)
(* belongs to a minute.  cacheGuest, a cron of the cache warmer, computes  *)
(* the responses of the queries ranked high in this minute or the last,    *)
(* and the middleware answers with them.                                   *)
(*                                                                         *)
(* The clock counts half minutes.  A response is represented by the        *)
(* instant it was computed, a query by its md5.  A request and a run of    *)
(* the cron are split at their awaits.                                     *)
(***************************************************************************)
EXTENDS Integers, Functions

CONSTANTS
  Procs,        \* the processes with a public API
  Requests,     \* guest requests that may be under way at once
  Home,         \* Home[t]: the process that handles request t
  WarmerHome,   \* the process of the cron
  Runs,         \* runs of cacheGuest that may overlap
  Queries,      \* the bodies of the requests
  NoQuery,
  Batch,        \* GUEST_CACHE_REDIS_BATCH_SIZE
  Threshold,    \* ENABLE_CACHE_GUEST_RATE_THRESHOLD
  RankTtl,      \* life of a ranking
  ResponseTtl,  \* life of a response
  MaxAwait,     \* longest life of a request, and of a response on its way to Redis
  Start,        \* the clock at first
  MaxTime,      \* bound of the clock, for model checking only
  MaxAsked      \* bound of the requests counted, for model checking only

ASSUME HomeAssumption  == Home \in [Requests -> Procs]
ASSUME QueryAssumption == NoQuery \notin Queries
ASSUME BatchAssumption == Batch \in Nat \ {0} /\ Threshold \in Nat \ {0}
ASSUME TtlAssumption   == ResponseTtl \in Nat \ {0} /\ RankTtl \in Nat
ASSUME AwaitAssumption == MaxAwait \in Nat /\ MaxAwait + 1 < RankTtl
ASSUME BoundAssumption == MaxTime \in Nat /\ Start \in 0..MaxTime /\ MaxAsked \in Nat

VARIABLES
  now,      \* the clock
  kept,     \* kept[p]: the minutes cacheHitsCounter of p has counters of
  hits,     \* hits[p][m][q]: the counter
  score,    \* score[m][q]: the ranking of minute m
  expires,  \* expires[m]: when it expires
  remote,   \* remote[q]: the response in Redis, at most one
  local,    \* local[q]: the copy in the memory of the cron's process
  req,      \* req[t]: where request t is
  run,      \* run[w]: where run w of the cron is
  warm,     \* warm[w][q]: where w is with query q
  asked,    \* history. asked[m][q]: the requests counted
  adds,     \* history. adds[m][q]: the batches added to the ranking
  broken,   \* history: minutes whose first request in some process ended early
  cleaned   \* history. cleaned[p]: minutes with a request that reached its end

web  == <<kept, hits, req, asked, broken, cleaned>>
rank == <<score, expires, adds>>
cron == <<run, warm, remote, local>>
vars == <<now, web, rank, cron>>

Minute(i) == i \div 2
Minutes == 0..Minute(MaxTime)

Gone  == -1   \* the ranking does not exist
Never == -2   \* it exists and has no ttl

NoRequest == [pc |-> "idle", at |-> 0, query |-> NoQuery, first |-> FALSE]
NoRun  == [pc |-> "idle", at |-> 0, keys |-> {}]
NoWarm == [pc |-> "idle", val |-> 0]

Init ==
  /\ now = Start
  /\ kept = [p \in Procs |-> {}]
  /\ hits = [p \in Procs |-> [m \in Minutes |-> [q \in Queries |-> 0]]]
  /\ score = [m \in Minutes |-> [q \in Queries |-> 0]]
  /\ expires = [m \in Minutes |-> Gone]
  /\ remote = [q \in Queries |-> {}]
  /\ local = [q \in Queries |-> {}]
  /\ req = [t \in Requests |-> NoRequest]
  /\ run = [w \in Runs |-> NoRun]
  /\ warm = [w \in Runs |-> [q \in Queries |-> NoWarm]]
  /\ asked = score
  /\ adds = score
  /\ broken = {}
  /\ cleaned = [p \in Procs |-> {}]

----------------------------------------------------------------------------
(* The middleware.                                                         *)

At(t, pc) == req[t].pc = pc
Goto(t, pc) == req' = [req EXCEPT ![t].pc = pc]
MinuteOf(t) == Minute(req[t].at)

\* What comes after the batch: the first request of a minute opens its ranking.
AfterBatch(first) == IF first THEN "open" ELSE "respond"

Counted == FoldFunction(LAMBDA f, n : FoldFunction(+, n, f), 0, asked)

\* Request t begins as the n-th of its batch.
Begin(t, q, n) ==
  LET p == Home[t]
      m == Minute(now)
      first == m \notin kept[p]
  IN /\ At(t, "idle")
     /\ Counted < MaxAsked
     /\ kept' = [kept EXCEPT ![p] = @ \cup {m}]
     /\ hits' = IF first THEN [hits EXCEPT ![p][m] = [r \in Queries |-> IF r = q THEN n ELSE 0]]
                ELSE [hits EXCEPT ![p][m][q] = n]
     /\ req' = [req EXCEPT ![t] =
          [pc |-> IF n >= Batch THEN "body" ELSE AfterBatch(first),
           at |-> now, query |-> q, first |-> first]]
     /\ asked' = [asked EXCEPT ![m][q] = @ + 1]
     /\ UNCHANGED <<now, rank, cron, broken, cleaned>>

\* The counter request t finds.
Found(t, q) ==
  IF Minute(now) \in kept[Home[t]] THEN hits[Home[t]][Minute(now)][q] ELSE 0

\* Defect for WarmedIsAsked: the counter stays at the batch size once it is reached.
CountOn(t, q) ==
  Begin(t, q, IF Found(t, q) < Batch THEN Found(t, q) + 1 ELSE Batch)

\* Defect for RankedAsAsked: a new batch starts from 0.
CountFromZero(t, q) ==
  Begin(t, q, IF Found(t, q) < Batch THEN Found(t, q) + 1 ELSE 0)

\* Up to the first await: find the counters of the minute and count.
Count(t, q) ==
  Begin(t, q, IF Found(t, q) < Batch THEN Found(t, q) + 1 ELSE 1)

\* The batch is full: getOrSet of the body.
CacheBody(t) ==
  /\ At(t, "body")
  /\ Goto(t, "add")
  /\ UNCHANGED <<now, rank, cron, kept, hits, asked, broken, cleaned>>

\* ZINCRBY creates the ranking it does not find.
ZIncrement(m, q, n) ==
  /\ score' = [score EXCEPT ![m][q] = @ + n]
  /\ expires' = [expires EXCEPT ![m] = IF @ = Gone THEN Never ELSE @]

\* The batch is added, as much of it as the counter says after the await.
Add(t) ==
  /\ At(t, "add")
  /\ Goto(t, AfterBatch(req[t].first))
  /\ ZIncrement(MinuteOf(t), req[t].query, hits[Home[t]][MinuteOf(t)][req[t].query])
  /\ adds' = [adds EXCEPT ![MinuteOf(t)][req[t].query] = @ + 1]
  /\ UNCHANGED <<now, cron, kept, hits, asked, broken, cleaned>>

Open(t) ==
  /\ At(t, "open")
  /\ Goto(t, "ttl")
  /\ ZIncrement(MinuteOf(t), req[t].query, 0)
  /\ UNCHANGED <<now, cron, adds, kept, hits, asked, broken, cleaned>>

\* Defect for NoTtlExplained: the ranking lives for the time of a minute.
SetTtlShort(t) ==
  /\ At(t, "ttl")
  /\ Goto(t, "respond")
  /\ expires' = [expires EXCEPT ![MinuteOf(t)] = IF @ = Gone THEN Gone ELSE now + 2]
  /\ UNCHANGED <<now, cron, score, adds, kept, hits, asked, broken, cleaned>>

SetTtl(t) ==
  /\ At(t, "ttl")
  /\ Goto(t, "respond")
  /\ expires' = [expires EXCEPT ![MinuteOf(t)] = IF @ = Gone THEN Gone ELSE now + RankTtl]
  /\ UNCHANGED <<now, cron, score, adds, kept, hits, asked, broken, cleaned>>

\* The request forgets the counters of minute m and ends.
Finish(t, m) ==
  /\ At(t, "respond")
  /\ req' = [req EXCEPT ![t] = NoRequest]
  /\ kept' = [kept EXCEPT ![Home[t]] = @ \ {m}]
  /\ cleaned' = [cleaned EXCEPT ![Home[t]] = @ \cup {MinuteOf(t)}]
  /\ UNCHANGED <<now, rank, cron, hits, asked, broken>>

\* Defect for KeptAfterSilence: the minute before the response, not before the request.
RespondLate(t) == Finish(t, Minute(now) - 1)

\* The response is read, and sent if there is one; the last minute's counters are dropped.
Respond(t) == Finish(t, MinuteOf(t) - 1)

\* The first request of a minute that has yet to give the ranking its ttl.
Opening(t) == req[t].first /\ req[t].pc \in {"body", "add", "open", "ttl"}

\* The requests in T end before their time.
Break(T) ==
  /\ req' = [t \in Requests |-> IF t \in T THEN NoRequest ELSE req[t]]
  /\ broken' = broken \cup {MinuteOf(t) : t \in {u \in T : Opening(u)}}

\* An await rejects, and the request with it.
Fail(t) ==
  /\ req[t].pc # "idle"
  /\ Break({t})
  /\ UNCHANGED <<now, rank, cron, kept, hits, asked, cleaned>>

----------------------------------------------------------------------------
(* cacheGuest.                                                             *)

\* zRangeByScoreRemote(guestCache.minute, threshold, infinity)
Ranked(m) == {q \in Queries : m \in Minutes /\ expires[m] # Gone /\ score[m][q] >= Threshold}

Idle(w) == run[w].pc = "idle" /\ \A q \in Queries : warm[w][q].pc = "idle"
Locked(q) == \E w \in Runs : warm[w][q].pc # "idle"

\* The cron fires, whether or not its last run has ended, and reads this minute's ranking.
RangeCurrent(w) ==
  /\ Idle(w)
  /\ run' = [run EXCEPT ![w] = [pc |-> "range", at |-> now, keys |-> Ranked(Minute(now))]]
  /\ UNCHANGED <<now, web, rank, remote, local, warm>>

\* Run w has read the ranking of the minute before and starts on the queries in K.
Launch(w, K) ==
  /\ warm' = [warm EXCEPT ![w] =
       [q \in Queries |-> IF q \in K THEN [pc |-> "body", val |-> 0] ELSE NoWarm]]
  /\ run' = [run EXCEPT ![w] = NoRun]
  /\ UNCHANGED <<now, web, rank, remote, local>>

KeysToCompute(w) == run[w].keys \cup Ranked(Minute(run[w].at) - 1)

\* Defect for ResponsesAdvance: no lock.
RangePreviousUnlocked(w) ==
  /\ run[w].pc = "range"
  /\ Launch(w, KeysToCompute(w))

\* Queries another run has locked are left to it.
RangePrevious(w) ==
  /\ run[w].pc = "range"
  /\ Launch(w, {q \in KeysToCompute(w) : ~Locked(q)})

Warming(w, q, pc) == warm[w][q].pc = pc
EndWarm(w, q) == warm' = [warm EXCEPT ![w][q] = NoWarm]

\* The body of the query is read.  If it has expired the query is left, see WarmEnds.
GetBody(w, q) ==
  /\ Warming(w, q, "body")
  /\ warm' = [warm EXCEPT ![w][q].pc = "post"]
  /\ UNCHANGED <<now, web, rank, remote, local, run>>

\* The API answers the request of the cron with a response computed at v.
Answer(w, q, v) ==
  /\ Warming(w, q, "post")
  /\ warm' = [warm EXCEPT ![w][q] = [pc |-> "answered", val |-> v]]
  /\ UNCHANGED <<now, web, rank, remote, local, run>>

\* Defect for FreshResponses: the request of the cron lacks the header and is a guest's.
ServeCached(w, q) ==
  \/ \E e \in remote[q] : Answer(w, q, e.val)
  \/ remote[q] = {} /\ Answer(w, q, now)

\* The header no-cache leads past the cache.
Serve(w, q) == Answer(w, q, now)

\* CacheService.set: the copy in memory first.
Keep(w, q) ==
  /\ Warming(w, q, "answered")
  /\ local' = [local EXCEPT ![q] = {[val |-> warm[w][q].val, expires |-> now + ResponseTtl]}]
  /\ warm' = [warm EXCEPT ![w][q].pc = "store"]
  /\ UNCHANGED <<now, web, rank, remote, run>>

Store(w, q) ==
  /\ Warming(w, q, "store")
  /\ remote' = [remote EXCEPT ![q] = {[val |-> warm[w][q].val, expires |-> now + ResponseTtl]}]
  /\ EndWarm(w, q)
  /\ UNCHANGED <<now, web, rank, local, run>>

\* There is no body, or an await rejects.  If it is the post, its error is logged and the
\* length of the missing response throws; nothing is stored, and Locker gives the lock back.
WarmEnds(w, q) ==
  /\ warm[w][q].pc # "idle"
  /\ EndWarm(w, q)
  /\ UNCHANGED <<now, web, rank, remote, local, run>>

RunFails(w) ==
  /\ run[w].pc = "range"
  /\ run' = [run EXCEPT ![w] = NoRun]
  /\ UNCHANGED <<now, web, rank, remote, local, warm>>

----------------------------------------------------------------------------
(* Time, Redis and crashes.                                                *)

Live(S) == {e \in S : e.expires > now'}

\* Requests end, and responses reach Redis, within MaxAwait.
Tick ==
  /\ now < MaxTime
  /\ \A t \in Requests : req[t].pc # "idle" => now - req[t].at < MaxAwait
  /\ \A w \in Runs, q \in Queries :
       warm[w][q].pc \in {"answered", "store"} => now - warm[w][q].val < MaxAwait
  /\ now' = now + 1
  /\ LET out == {m \in Minutes : expires[m] = now'}
         Erase(f) == [m \in Minutes |-> IF m \in out THEN [q \in Queries |-> 0] ELSE f[m]]
     IN /\ expires' = [m \in Minutes |-> IF m \in out THEN Gone ELSE expires[m]]
        /\ score' = Erase(score)
        /\ adds' = Erase(adds)
  /\ remote' = [q \in Queries |-> Live(remote[q])]
  /\ local' = [q \in Queries |-> Live(local[q])]
  /\ UNCHANGED <<web, run, warm>>

\* Process p stops and starts again with nothing in its memory.
Crash(p) ==
  /\ Break({t \in Requests : Home[t] = p /\ req[t].pc # "idle"})
  /\ kept' = [kept EXCEPT ![p] = {}]
  /\ hits' = [hits EXCEPT ![p] = [m \in Minutes |-> [q \in Queries |-> 0]]]
  /\ IF p = WarmerHome
       THEN /\ run' = [w \in Runs |-> NoRun]
            /\ warm' = [w \in Runs |-> [q \in Queries |-> NoWarm]]
            /\ local' = [q \in Queries |-> {}]
       ELSE UNCHANGED <<run, warm, local>>
  /\ UNCHANGED <<now, rank, remote, asked, cleaned>>

----------------------------------------------------------------------------
Next ==
  \/ \E t \in Requests :
       \/ CacheBody(t) \/ Add(t) \/ Open(t) \/ SetTtl(t) \/ Respond(t) \/ Fail(t)
       \/ \E q \in Queries : Count(t, q)
  \/ \E w \in Runs :
       \/ RangeCurrent(w) \/ RangePrevious(w) \/ RunFails(w)
       \/ \E q \in Queries : \/ GetBody(w, q) \/ Serve(w, q) \/ Keep(w, q)
                             \/ Store(w, q) \/ WarmEnds(w, q)
  \/ Tick
  \/ \E p \in Procs \cup {WarmerHome} : Crash(p)

Spec == Init /\ [][Next]_vars

----------------------------------------------------------------------------
Response == [val : Nat, expires : Nat]
RequestState == [pc : {"idle", "body", "add", "open", "ttl", "respond"}, at : Nat,
                 query : Queries \cup {NoQuery}, first : BOOLEAN]
WarmState == [pc : {"idle", "body", "post", "answered", "store"}, val : Nat]

TypeOK ==
  /\ now \in Nat
  /\ kept \in [Procs -> SUBSET Minutes]
  /\ hits \in [Procs -> [Minutes -> [Queries -> 0..Batch]]]
  /\ score \in [Minutes -> [Queries -> Nat]]
  /\ expires \in [Minutes -> Nat \cup {Gone, Never}]
  /\ remote \in [Queries -> SUBSET Response]
  /\ local \in [Queries -> SUBSET Response]
  /\ req \in [Requests -> RequestState]
  /\ run \in [Runs -> [pc : {"idle", "range"}, at : Nat, keys : SUBSET Queries]]
  /\ warm \in [Runs -> [Queries -> WarmState]]
  /\ asked \in [Minutes -> [Queries -> Nat]]
  /\ adds \in [Minutes -> [Queries -> Nat]]
  /\ broken \in SUBSET Minutes
  /\ cleaned \in [Procs -> SUBSET Minutes]

\* Requests that wait for the same batch read a counter that others have changed, so a
\* batch may count for less than its size; it never counts for nothing, and a ranking
\* never says more than was asked.
RankedAsAsked ==
  \A m \in Minutes, q \in Queries :
    adds[m][q] <= score[m][q] /\ score[m][q] <= asked[m][q]

\* From end to end: a response is in the cache only if guests asked for it Threshold times
\* within one minute, whatever counters were lost, shared or read late.
WarmedIsAsked ==
  \A q \in Queries : remote[q] \cup local[q] # {} =>
    \E m \in Minutes : asked[m][q] >= Threshold

\* A ranking without a ttl stays for ever.  There is one only while the first request of
\* its minute is about to set it, or if such a request was cut short; late requests
\* do not bring an expired ranking back.
NoTtlExplained ==
  \A m \in Minutes : expires[m] = Never =>
    m \in broken \/ \E t \in Requests : Opening(t) /\ MinuteOf(t) = m

\* Counters of an old minute remain in memory only if no request of the minute after it
\* came to its end: that is the one leak of cacheHitsCounter.
KeptAfterSilence ==
  \A p \in Procs : \A m \in kept[p] : m + 1 \notin cleaned[p]

\* A guest never gets a response computed longer ago than its ttl and one await, however
\* often the cron renews it.
FreshResponses ==
  \A q \in Queries : \A e \in remote[q] \cup local[q] : now - e.val < ResponseTtl + MaxAwait

\* Runs of the cron overlap, and yet a response never gives way to an older one.
ResponsesAdvance ==
  [][\A q \in Queries : \A e \in remote[q], f \in remote'[q] : e.val <= f.val]_vars
=============================================================================
