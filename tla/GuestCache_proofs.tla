-------------------------- MODULE GuestCache_proofs --------------------------
(***************************************************************************)
(* Proofs about GuestCache, for any processes, requests, runs, queries and *)
(* ttls.                                                                   *)
(***************************************************************************)
EXTENDS GuestCache, FiniteSetTheorems, TLAPS

USE DEF Gone, Never

----------------------------------------------------------------------------
LEMMA MinuteFacts ==
  \A i \in Nat : /\ Minute(i) \in Nat
                 /\ 2 * Minute(i) <= i /\ i <= 2 * Minute(i) + 1
BY DEF Minute

LEMMA MinuteGrows == \A i, j \in Nat : i <= j => Minute(i) <= Minute(j)
BY MinuteFacts

LEMMA MinuteIsTimely == \A i \in 0..MaxTime : Minute(i) \in Minutes
BY MinuteFacts, MinuteGrows, BoundAssumption DEF Minutes

LEMMA MinutesNat == Minutes \subseteq Nat
BY MinuteFacts, BoundAssumption DEF Minutes

\* The clock stays in its bound; a request that is under way has a query and a past.
Timely ==
  /\ now <= MaxTime
  /\ \A t \in Requests : req[t].pc # "idle" => req[t].query \in Queries /\ req[t].at <= now

TypeInv == TypeOK /\ Timely

----------------------------------------------------------------------------
(* Types.                                                                  *)

LEMMA RequestTypes ==
  ASSUME TypeInv, NEW t \in Requests
  PROVE  /\ req[t] \in RequestState
         /\ req[t].pc # "idle" => MinuteOf(t) \in Minutes /\ MinuteOf(t) <= Minute(now)
         /\ Home[t] \in Procs
<1>1. req[t] \in RequestState
  BY DEF TypeInv, TypeOK
<1>2. ASSUME req[t].pc # "idle" PROVE MinuteOf(t) \in Minutes /\ MinuteOf(t) <= Minute(now)
  <2>1. req[t].at \in Nat /\ req[t].at <= now /\ now \in Nat /\ now <= MaxTime
    BY <1>1, <1>2 DEF RequestState, TypeInv, TypeOK, Timely
  <2> QED BY <2>1, MinuteIsTimely, MinuteGrows, BoundAssumption DEF MinuteOf
<1> QED BY <1>1, <1>2, HomeAssumption

LEMMA NowTypes ==
  ASSUME TypeInv
  PROVE  now \in Nat /\ now <= MaxTime /\ Minute(now) \in Minutes /\ Minute(now) \in Nat
BY MinuteIsTimely, MinuteFacts, BoundAssumption DEF TypeInv, TypeOK, Timely

LEMMA TypeInit == Init => TypeInv
<1> SUFFICES ASSUME Init PROVE TypeInv
  OBVIOUS
<1>1. TypeOK
  BY BoundAssumption, BatchAssumption
  DEF Init, TypeOK, NoRequest, NoRun, NoWarm, Response, RequestState, WarmState
<1>2. Timely
  BY BoundAssumption DEF Init, Timely, NoRequest
<1> QED BY <1>1, <1>2 DEF TypeInv

\* What a step of the requests leaves to be shown.
LEMMA WebTypes ==
  ASSUME TypeInv, UNCHANGED <<now, cron>>,
         kept' \in [Procs -> SUBSET Minutes],
         hits' \in [Procs -> [Minutes -> [Queries -> 0..Batch]]],
         score' \in [Minutes -> [Queries -> Nat]],
         expires' \in [Minutes -> Nat \cup {Gone, Never}],
         NEW T \in SUBSET Requests,
         req' \in [Requests -> RequestState],
         \A t \in Requests : req'[t].pc # "idle" =>
           req'[t].query \in Queries /\ req'[t].at <= now,
         asked' \in [Minutes -> [Queries -> Nat]],
         adds' \in [Minutes -> [Queries -> Nat]],
         broken' \in SUBSET Minutes,
         cleaned' \in [Procs -> SUBSET Minutes]
  PROVE  TypeInv'
BY DEF TypeInv, TypeOK, Timely, cron, Response

LEMMA CountTypes ==
  ASSUME TypeInv, NEW t \in Requests, NEW q \in Queries, Count(t, q)
  PROVE  TypeInv'
<1> DEFINE n == IF Found(t, q) < Batch THEN Found(t, q) + 1 ELSE 1
           m == Minute(now)
<1>1. m \in Minutes /\ Home[t] \in Procs
  BY NowTypes, RequestTypes
<1>2. n \in 0..Batch
  <2>1. Found(t, q) \in 0..Batch
    BY <1>1, BatchAssumption DEF Found, TypeInv, TypeOK
  <2> QED BY <2>1, BatchAssumption
<1>3. Begin(t, q, n)
  BY DEF Count
<1> HIDE DEF n
<1>4. kept' \in [Procs -> SUBSET Minutes]
  BY <1>1, <1>3 DEF Begin, TypeInv, TypeOK
<1>5. hits' \in [Procs -> [Minutes -> [Queries -> 0..Batch]]]
  <2>1. [r \in Queries |-> IF r = q THEN n ELSE 0] \in [Queries -> 0..Batch]
    BY <1>2, BatchAssumption
  <2>2. hits \in [Procs -> [Minutes -> [Queries -> 0..Batch]]]
    BY DEF TypeInv, TypeOK
  <2>3. CASE m \notin kept[Home[t]]
    <3>1. hits' = [hits EXCEPT ![Home[t]][m] = [r \in Queries |-> IF r = q THEN n ELSE 0]]
      BY <1>3, <2>3 DEF Begin
    <3> QED BY <1>1, <2>1, <2>2, <3>1
  <2>4. CASE m \in kept[Home[t]]
    <3>1. hits' = [hits EXCEPT ![Home[t]][m][q] = n]
      BY <1>3, <2>4 DEF Begin
    <3> QED BY <1>1, <1>2, <2>2, <3>1
  <2> QED BY <2>3, <2>4
<1>6. asked' \in [Minutes -> [Queries -> Nat]]
  BY <1>1, <1>3 DEF Begin, TypeInv, TypeOK
<1>7. /\ req' \in [Requests -> RequestState]
      /\ \A u \in Requests : req'[u].pc # "idle" => req'[u].query \in Queries /\ req'[u].at <= now
  BY <1>3, NowTypes DEF Begin, AfterBatch, RequestState, TypeInv, TypeOK, Timely
<1>8. UNCHANGED <<now, cron, rank, broken, cleaned>>
  BY <1>3 DEF Begin
<1> QED BY <1>4, <1>5, <1>6, <1>7, <1>8, WebTypes DEF TypeInv, TypeOK, rank

\* A request goes on to another await.
LEMMA GotoTypes ==
  ASSUME TypeInv, NEW t \in Requests, req[t].pc # "idle",
         NEW pc \in {"body", "add", "open", "ttl", "respond"}, Goto(t, pc)
  PROVE  /\ req' \in [Requests -> RequestState]
         /\ \A u \in Requests : req'[u].pc # "idle" => req'[u].query \in Queries /\ req'[u].at <= now
<1>1. req' = [req EXCEPT ![t].pc = pc] /\ req \in [Requests -> RequestState]
  BY DEF Goto, TypeInv, TypeOK
<1>2. [req[t] EXCEPT !.pc = pc] \in RequestState
  BY <1>1 DEF RequestState
<1>3. req' = [req EXCEPT ![t] = [req[t] EXCEPT !.pc = pc]]
  BY <1>1
<1>4. req' \in [Requests -> RequestState]
  BY <1>1, <1>2, <1>3
<1>5. \A u \in Requests : /\ req'[u].query = req[u].query /\ req'[u].at = req[u].at
                          /\ req'[u].pc = IF u = t THEN pc ELSE req[u].pc
  BY <1>1 DEF RequestState
<1> QED BY <1>4, <1>5 DEF TypeInv, Timely

LEMMA RankTypes ==
  ASSUME TypeInv, NEW m \in Minutes, NEW q \in Queries, NEW n \in Nat, ZIncrement(m, q, n)
  PROVE  /\ score' \in [Minutes -> [Queries -> Nat]]
         /\ expires' \in [Minutes -> Nat \cup {Gone, Never}]
BY DEF ZIncrement, TypeInv, TypeOK

LEMMA AwaitTypes ==
  ASSUME TypeInv, NEW t \in Requests, CacheBody(t) \/ Add(t) \/ Open(t) \/ SetTtl(t)
  PROVE  TypeInv'
<1>1. req[t].pc # "idle"
  BY DEF CacheBody, Add, Open, SetTtl, At
<1>2. MinuteOf(t) \in Minutes /\ req[t].query \in Queries /\ Home[t] \in Procs
  BY <1>1, RequestTypes DEF TypeInv, Timely
<1>3. AfterBatch(req[t].first) \in {"open", "respond"}
  BY DEF AfterBatch
<1>4. PICK pc \in {"body", "add", "open", "ttl", "respond"} : Goto(t, pc)
  BY <1>3 DEF CacheBody, Add, Open, SetTtl
<1>5. /\ req' \in [Requests -> RequestState]
      /\ \A u \in Requests : req'[u].pc # "idle" => req'[u].query \in Queries /\ req'[u].at <= now
  BY <1>1, <1>4, GotoTypes
<1>6. UNCHANGED <<now, cron, kept, hits, asked, broken, cleaned>>
  BY DEF CacheBody, Add, Open, SetTtl
<1>7. /\ score' \in [Minutes -> [Queries -> Nat]]
      /\ expires' \in [Minutes -> Nat \cup {Gone, Never}]
      /\ adds' \in [Minutes -> [Queries -> Nat]]
  <2>1. CASE CacheBody(t)
    BY <2>1 DEF CacheBody, rank, TypeInv, TypeOK
  <2>2. CASE Add(t)
    <3> DEFINE n == hits[Home[t]][MinuteOf(t)][req[t].query]
    <3>1. n \in Nat
      BY <1>2, BatchAssumption DEF TypeInv, TypeOK
    <3>2. ZIncrement(MinuteOf(t), req[t].query, n)
      BY <2>2 DEF Add
    <3>3. adds' \in [Minutes -> [Queries -> Nat]]
      BY <2>2, <1>2 DEF Add, TypeInv, TypeOK
    <3> HIDE DEF n
    <3> QED BY <1>2, <3>1, <3>2, <3>3, RankTypes
  <2>3. CASE Open(t)
    BY <2>3, <1>2, RankTypes DEF Open, TypeInv, TypeOK
  <2>4. CASE SetTtl(t)
    BY <2>4, <1>2, NowTypes, TtlAssumption DEF SetTtl, TypeInv, TypeOK
  <2> QED BY <2>1, <2>2, <2>3, <2>4
<1> QED BY <1>5, <1>6, <1>7, WebTypes DEF TypeInv, TypeOK

\* Requests that end, in one way or another.
LEMMA BreakTypes ==
  ASSUME TypeInv, NEW T \in SUBSET Requests, Break(T), \A t \in T : req[t].pc # "idle"
  PROVE  /\ req' \in [Requests -> RequestState]
         /\ \A u \in Requests : req'[u].pc # "idle" => req'[u].query \in Queries /\ req'[u].at <= now
         /\ broken' \in SUBSET Minutes
<1>1. NoRequest \in RequestState
  BY DEF NoRequest, RequestState
<1>2. \A t \in T : MinuteOf(t) \in Minutes
  BY RequestTypes
<1>3. broken' \in SUBSET Minutes
  BY <1>2 DEF Break, TypeInv, TypeOK
<1> QED BY <1>1, <1>3 DEF Break, NoRequest, TypeInv, TypeOK, Timely

LEMMA EndTypes ==
  ASSUME TypeInv, NEW t \in Requests, Respond(t) \/ Fail(t)
  PROVE  TypeInv'
<1>1. CASE Respond(t)
  <2>1. req[t].pc # "idle" /\ Home[t] \in Procs /\ MinuteOf(t) \in Minutes
    BY <1>1, RequestTypes DEF Respond, Finish, At
  <2>2. NoRequest \in RequestState
    BY DEF NoRequest, RequestState
  <2>3. /\ req' \in [Requests -> RequestState]
        /\ \A u \in Requests : req'[u].pc # "idle" => req'[u].query \in Queries /\ req'[u].at <= now
    BY <1>1, <2>2 DEF Respond, Finish, NoRequest, TypeInv, TypeOK, Timely
  <2>4. /\ kept' \in [Procs -> SUBSET Minutes]
        /\ cleaned' \in [Procs -> SUBSET Minutes]
    BY <1>1, <2>1 DEF Respond, Finish, TypeInv, TypeOK
  <2>5. UNCHANGED <<now, rank, cron, hits, asked, broken>>
    BY <1>1 DEF Respond, Finish
  <2> QED BY <2>3, <2>4, <2>5, WebTypes DEF rank, TypeInv, TypeOK
<1>2. CASE Fail(t)
  <2>1. Break({t}) /\ \A u \in {t} : req[u].pc # "idle"
    BY <1>2 DEF Fail
  <2>2. UNCHANGED <<now, rank, cron, kept, hits, asked, cleaned>>
    BY <1>2 DEF Fail
  <2> QED BY <2>1, <2>2, BreakTypes, WebTypes DEF rank, TypeInv, TypeOK
<1> QED BY <1>1, <1>2

\* What a step of the cron leaves to be shown.
LEMMA CronTypes ==
  ASSUME TypeInv, UNCHANGED <<now, web, rank>>,
         remote' \in [Queries -> SUBSET Response],
         local' \in [Queries -> SUBSET Response],
         run' \in [Runs -> [pc : {"idle", "range"}, at : Nat, keys : SUBSET Queries]],
         warm' \in [Runs -> [Queries -> WarmState]]
  PROVE  TypeInv'
BY DEF TypeInv, TypeOK, Timely, web, rank

LEMMA RunTypes ==
  ASSUME TypeInv, NEW w \in Runs, RangeCurrent(w) \/ RangePrevious(w) \/ RunFails(w)
  PROVE  TypeInv'
<1>1. UNCHANGED <<now, web, rank, remote, local>>
  BY DEF RangeCurrent, RangePrevious, Launch, RunFails
<1>2. run' \in [Runs -> [pc : {"idle", "range"}, at : Nat, keys : SUBSET Queries]]
  <2>1. Ranked(Minute(now)) \in SUBSET Queries
    BY DEF Ranked
  <2>2. \E r \in [pc : {"idle", "range"}, at : Nat, keys : SUBSET Queries] :
          run' = [run EXCEPT ![w] = r]
    BY <2>1 DEF RangeCurrent, RangePrevious, Launch, RunFails, NoRun, TypeInv, TypeOK
  <2> QED BY <2>2 DEF TypeInv, TypeOK
<1>3. warm' \in [Runs -> [Queries -> WarmState]]
  <2>1. ASSUME NEW K, Launch(w, K) PROVE warm' \in [Runs -> [Queries -> WarmState]]
    <3>1. [q \in Queries |-> IF q \in K THEN [pc |-> "body", val |-> 0] ELSE NoWarm]
             \in [Queries -> WarmState]
      BY DEF NoWarm, WarmState
    <3> QED BY <2>1, <3>1 DEF Launch, TypeInv, TypeOK
  <2> QED BY <2>1 DEF RangeCurrent, RangePrevious, RunFails, TypeInv, TypeOK
<1> QED BY <1>1, <1>2, <1>3, CronTypes DEF TypeInv, TypeOK

LEMMA WarmTypes ==
  ASSUME TypeInv, NEW w \in Runs, NEW q \in Queries,
         GetBody(w, q) \/ Serve(w, q) \/ Keep(w, q) \/ Store(w, q) \/ WarmEnds(w, q)
  PROVE  TypeInv'
<1>1. UNCHANGED <<now, web, rank, run>>
  BY DEF GetBody, Serve, Answer, Keep, Store, WarmEnds
<1>2. warm[w][q] \in WarmState /\ warm[w][q].val \in Nat /\ now + ResponseTtl \in Nat /\ now \in Nat
  BY TtlAssumption DEF TypeInv, TypeOK, WarmState
<1>3. /\ remote' = remote \/ remote' = [remote EXCEPT ![q] = {[val |-> warm[w][q].val, expires |-> now + ResponseTtl]}]
      /\ local' = local \/ local' = [local EXCEPT ![q] = {[val |-> warm[w][q].val, expires |-> now + ResponseTtl]}]
  BY DEF GetBody, Serve, Answer, Keep, Store, WarmEnds
<1>4. \E e \in WarmState : warm' = [warm EXCEPT ![w][q] = e]
  <2>1. CASE GetBody(w, q)
    BY <2>1, <1>2 DEF GetBody, WarmState, TypeInv, TypeOK
  <2>2. CASE Serve(w, q)
    BY <2>2, <1>2 DEF Serve, Answer, WarmState
  <2>3. CASE Keep(w, q)
    BY <2>3, <1>2 DEF Keep, WarmState, TypeInv, TypeOK
  <2>4. CASE Store(w, q) \/ WarmEnds(w, q)
    BY <2>4 DEF Store, WarmEnds, EndWarm, NoWarm, WarmState
  <2> QED BY <2>1, <2>2, <2>3, <2>4
<1>5. remote' \in [Queries -> SUBSET Response] /\ local' \in [Queries -> SUBSET Response]
  <2> DEFINE e == [val |-> warm[w][q].val, expires |-> now + ResponseTtl]
  <2>1. {e} \in SUBSET Response
    BY <1>2 DEF Response
  <2>2. /\ remote \in [Queries -> SUBSET Response]
        /\ local \in [Queries -> SUBSET Response]
    BY DEF TypeInv, TypeOK
  <2>3. /\ remote' = remote \/ remote' = [remote EXCEPT ![q] = {e}]
        /\ local' = local \/ local' = [local EXCEPT ![q] = {e}]
    BY <1>3
  <2> HIDE DEF e
  <2> QED BY <2>1, <2>2, <2>3
<1>6. warm' \in [Runs -> [Queries -> WarmState]]
  BY <1>4 DEF TypeInv, TypeOK
<1> QED BY <1>1, <1>5, <1>6, CronTypes DEF TypeInv, TypeOK

LEMMA TickTypes ==
  ASSUME TypeInv, Tick
  PROVE  TypeInv'
<1>1. now' \in Nat /\ now' <= MaxTime /\ now <= now'
  BY BoundAssumption DEF Tick, TypeInv, TypeOK
<1>2. /\ score' \in [Minutes -> [Queries -> Nat]]
      /\ adds' \in [Minutes -> [Queries -> Nat]]
      /\ expires' \in [Minutes -> Nat \cup {Gone, Never}]
  BY DEF Tick, TypeInv, TypeOK
<1>3. remote' \in [Queries -> SUBSET Response] /\ local' \in [Queries -> SUBSET Response]
  BY DEF Tick, Live, TypeInv, TypeOK
<1>4. UNCHANGED <<web, run, warm>>
  BY DEF Tick
<1>5. Timely'
  BY <1>1, <1>4 DEF web, RequestState, TypeInv, TypeOK, Timely
<1>6. TypeOK'
  BY <1>1, <1>2, <1>3, <1>4 DEF web, TypeInv, TypeOK
<1> QED BY <1>5, <1>6 DEF TypeInv

LEMMA CrashTypes ==
  ASSUME TypeInv, NEW p \in Procs \cup {WarmerHome}, Crash(p)
  PROVE  TypeInv'
<1> DEFINE T == {t \in Requests : Home[t] = p /\ req[t].pc # "idle"}
<1>1. /\ req' \in [Requests -> RequestState]
      /\ \A u \in Requests : req'[u].pc # "idle" => req'[u].query \in Queries /\ req'[u].at <= now
      /\ broken' \in SUBSET Minutes
  <2>1. Break(T) /\ T \in SUBSET Requests /\ \A t \in T : req[t].pc # "idle"
    BY DEF Crash
  <2> QED BY <2>1, BreakTypes
<1>2. /\ kept' \in [Procs -> SUBSET Minutes]
      /\ hits' \in [Procs -> [Minutes -> [Queries -> 0..Batch]]]
  <2>1. [m \in Minutes |-> [q \in Queries |-> 0]] \in [Minutes -> [Queries -> 0..Batch]]
    BY BatchAssumption
  <2> QED BY <2>1 DEF Crash, TypeInv, TypeOK
<1>3. UNCHANGED <<now, rank, remote, asked, cleaned>>
  BY DEF Crash
<1>4. /\ run' \in [Runs -> [pc : {"idle", "range"}, at : Nat, keys : SUBSET Queries]]
      /\ warm' \in [Runs -> [Queries -> WarmState]]
      /\ local' \in [Queries -> SUBSET Response]
  BY DEF Crash, NoRun, NoWarm, WarmState, TypeInv, TypeOK
<1>5. Timely'
  BY <1>1, <1>3 DEF TypeInv, Timely
<1>6. TypeOK'
  BY <1>1, <1>2, <1>3, <1>4 DEF rank, TypeInv, TypeOK
<1> QED BY <1>5, <1>6 DEF TypeInv

LEMMA TypeStep == TypeInv /\ [Next]_vars => TypeInv'
<1> SUFFICES ASSUME TypeInv, [Next]_vars PROVE TypeInv'
  OBVIOUS
<1>1. CASE UNCHANGED vars
  BY <1>1 DEF vars, web, rank, cron, TypeInv, TypeOK, Timely
<1>2. CASE Next
  BY <1>2, CountTypes, AwaitTypes, EndTypes, RunTypes, WarmTypes, TickTypes, CrashTypes DEF Next
<1> QED BY <1>1, <1>2

\* GuestCache keeps its types: a response is always one that was computed, never what a
\* failed request left.
THEOREM TypeCorrect == Spec => []TypeOK
<1>1. Spec => []TypeInv
  BY TypeInit, TypeStep, PTL DEF Spec
<1>2. TypeInv => TypeOK
  BY DEF TypeInv
<1> QED BY <1>1, <1>2, PTL

----------------------------------------------------------------------------
(* The counters.                                                           *)

\* No minute is kept or cleaned before its time.
KeptInv ==
  \A p \in Procs :
    /\ \A m \in kept[p] : m <= Minute(now) /\ m + 1 \notin cleaned[p]
    /\ \A m \in cleaned[p] : m <= Minute(now)

LEMMA KeptStep == TypeInv /\ KeptInv /\ [Next]_vars => KeptInv'
<1> SUFFICES ASSUME TypeInv, KeptInv, [Next]_vars PROVE KeptInv'
  OBVIOUS
<1>t. /\ kept \in [Procs -> SUBSET Minutes]
      /\ cleaned \in [Procs -> SUBSET Minutes]
      /\ Minute(now) \in Nat /\ Minute(now) \in Minutes
  BY NowTypes DEF TypeInv, TypeOK
<1>1. ASSUME UNCHANGED <<now, kept, cleaned>> PROVE KeptInv'
  BY <1>1 DEF KeptInv
<1>2. ASSUME NEW t \in Requests, NEW q \in Queries, Count(t, q) PROVE KeptInv'
  <2>1. /\ kept' = [kept EXCEPT ![Home[t]] = @ \cup {Minute(now)}]
        /\ UNCHANGED <<now, cleaned>>
    BY <1>2 DEF Count, Begin
  <2>2. \A p \in Procs : Minute(now) + 1 \notin cleaned[p]
    BY <1>t DEF KeptInv
  <2>3. \A p \in Procs : kept'[p] \subseteq kept[p] \cup {Minute(now)}
    BY <2>1, <1>t
  <2>5. ASSUME NEW p \in Procs PROVE \A m \in kept'[p] : m <= Minute(now') /\ m + 1 \notin cleaned'[p]
    BY <2>1, <2>2, <2>3, <1>t DEF KeptInv
  <2>6. \A p \in Procs : \A m \in cleaned'[p] : m <= Minute(now')
    BY <2>1 DEF KeptInv
  <2> QED BY <2>5, <2>6 DEF KeptInv
<1>3. ASSUME NEW t \in Requests, Respond(t) PROVE KeptInv'
  <2>1. /\ kept' = [kept EXCEPT ![Home[t]] = @ \ {MinuteOf(t) - 1}]
        /\ cleaned' = [cleaned EXCEPT ![Home[t]] = @ \cup {MinuteOf(t)}]
        /\ now' = now
    BY <1>3 DEF Respond, Finish
  <2>2. MinuteOf(t) \in Minutes /\ MinuteOf(t) <= Minute(now)
    BY <1>3, RequestTypes DEF Respond, Finish, At
  <2> QED BY <2>1, <2>2, <1>t, MinutesNat, HomeAssumption DEF KeptInv
<1>4. ASSUME Tick PROVE KeptInv'
  <2>0. now \in Nat /\ now' \in Nat /\ now <= now'
    BY <1>4 DEF Tick, TypeInv, TypeOK
  <2>1. Minute(now) <= Minute(now') /\ Minute(now') \in Nat
    BY <2>0, MinuteGrows, MinuteFacts
  <2>2. UNCHANGED <<kept, cleaned>>
    BY <1>4 DEF Tick, web
  <2> QED BY <2>1, <2>2, <1>t, MinutesNat DEF KeptInv
<1>5. ASSUME NEW p \in Procs \cup {WarmerHome}, Crash(p) PROVE KeptInv'
  <2>1. kept' = [kept EXCEPT ![p] = {}] /\ UNCHANGED <<now, cleaned>>
    BY <1>5 DEF Crash
  <2> QED BY <2>1, <1>t DEF KeptInv
<1>6. ASSUME NEW t \in Requests, CacheBody(t) \/ Add(t) \/ Open(t) \/ SetTtl(t) \/ Fail(t)
      PROVE KeptInv'
  BY <1>1, <1>6 DEF CacheBody, Add, Open, SetTtl, Fail
<1>7. ASSUME NEW w \in Runs, RangeCurrent(w) \/ RangePrevious(w) \/ RunFails(w) PROVE KeptInv'
  BY <1>1, <1>7 DEF RangeCurrent, RangePrevious, Launch, RunFails, web
<1>8. ASSUME NEW w \in Runs, NEW q \in Queries,
             GetBody(w, q) \/ Serve(w, q) \/ Keep(w, q) \/ Store(w, q) \/ WarmEnds(w, q)
      PROVE KeptInv'
  BY <1>1, <1>8 DEF GetBody, Serve, Answer, Keep, Store, WarmEnds, web
<1>9. CASE UNCHANGED vars
  BY <1>1, <1>9 DEF vars, web
<1> QED BY <1>2, <1>3, <1>4, <1>5, <1>6, <1>7, <1>8, <1>9 DEF Next

\* cacheHitsCounter keeps an old minute only if no request of the minute after it came to
\* its end.
THEOREM KeptAfterSilenceHolds == Spec => []KeptAfterSilence
<1>1. Init => KeptInv
  BY DEF Init, KeptInv
<1>2. KeptInv => KeptAfterSilence
  BY DEF KeptInv, KeptAfterSilence
<1> QED BY <1>1, <1>2, TypeInit, TypeStep, KeptStep, PTL DEF Spec

----------------------------------------------------------------------------
(* The rankings.                                                           *)

AboutToOpen(m) == \E t \in Requests : Opening(t) /\ MinuteOf(t) = m

\* The ranking of m has its ttl, is about to get it, or is known to lack it.
Handled(m) == m \in broken \/ AboutToOpen(m) \/ expires[m] \in Nat

Over(m) == 2 * m + RankTtl <= now

\* While anything of a minute is left, its ranking is handled; it expires only when all
\* the requests of the minute are over.
HandledInv ==
  /\ \A p \in Procs : \A m \in kept[p] : Handled(m) \/ Over(m)
  /\ \A t \in Requests : req[t].pc # "idle" =>
       /\ Handled(MinuteOf(t)) \/ Over(MinuteOf(t))
       /\ now - req[t].at <= MaxAwait
       /\ req[t].pc \in {"open", "ttl"} => req[t].first
       /\ req[t].pc = "ttl" => expires[MinuteOf(t)] # Gone
  /\ \A m \in Minutes : expires[m] \in Nat => now < expires[m] /\ 2 * m + RankTtl <= expires[m]
  /\ NoTtlExplained

\* The ranking of a request under way has not expired.
LEMMA NotOver ==
  ASSUME TypeInv, NEW t \in Requests, req[t].pc # "idle", now - req[t].at <= MaxAwait
  PROVE  /\ ~Over(MinuteOf(t))
         /\ now - req[t].at < MaxAwait => now + 1 < 2 * MinuteOf(t) + RankTtl
         /\ 2 * MinuteOf(t) <= now
<1>1. req[t].at \in Nat /\ req[t].at <= now /\ now \in Nat
  BY RequestTypes DEF RequestState, TypeInv, TypeOK, Timely
<1>2. /\ MinuteOf(t) \in Nat
      /\ 2 * MinuteOf(t) <= req[t].at /\ req[t].at <= 2 * MinuteOf(t) + 1
  BY <1>1, MinuteFacts DEF MinuteOf
<1>3. PICK m \in Nat, i \in Nat, n \in Nat : m = MinuteOf(t) /\ i = req[t].at /\ n = now
  BY <1>1, <1>2
<1>4. 2 * m <= i /\ i <= 2 * m + 1 /\ i <= n /\ n - i <= MaxAwait
  BY <1>1, <1>2, <1>3
<1>5. /\ n - i < MaxAwait => n + 1 < 2 * m + RankTtl
      /\ 2 * m <= n /\ ~(2 * m + RankTtl <= n)
  BY <1>4, AwaitAssumption, TtlAssumption
<1> QED BY <1>3, <1>5 DEF Over

\* Neither requests nor rankings disappear unnoticed.
Noticed ==
  /\ broken \subseteq broken'
  /\ \A t \in Requests : Opening(t) =>
       \/ Opening(t)' /\ MinuteOf(t)' = MinuteOf(t)
       \/ MinuteOf(t) \in broken'
       \/ expires'[MinuteOf(t)] \in Nat
  /\ \A m \in Minutes : expires[m] \in Nat => expires'[m] \in Nat

LEMMA HandledStays ==
  ASSUME Noticed, NEW m \in Minutes, Handled(m)
  PROVE  Handled(m)'
BY DEF Noticed, Handled, AboutToOpen

\* A step that leaves the clock alone and lets no request or ranking disappear unnoticed.
LEMMA HandledFrame ==
  ASSUME TypeInv, HandledInv, Noticed, now' = now,
         \A p \in Procs : \A m \in kept'[p] : m \in kept[p] \/ Handled(m)' \/ Over(m),
         \A t \in Requests : req'[t].pc # "idle" =>
           /\ \/ req[t].pc # "idle" /\ req'[t].at = req[t].at
              \/ req'[t].at = now /\ (Handled(Minute(now))' \/ Over(Minute(now)))
           /\ req'[t].pc \in {"open", "ttl"} => req'[t].first
           /\ req'[t].pc = "ttl" => expires'[Minute(req'[t].at)] # Gone,
         \A m \in Minutes : expires'[m] \in Nat =>
           expires'[m] = expires[m] \/ (now < expires'[m] /\ 2 * m + RankTtl <= expires'[m]),
         \A m \in Minutes : expires'[m] = Never =>
           expires[m] = Never \/ m \in broken' \/ AboutToOpen(m)'
  PROVE  HandledInv'
<1>1. \A m \in Minutes : Handled(m) => Handled(m)'
  BY HandledStays
<1>2. \A m \in Minutes : Over(m)' <=> Over(m)
  BY DEF Over
<1>3. ASSUME NEW p \in Procs, NEW m \in kept'[p] PROVE Handled(m)' \/ Over(m)'
  <2>1. CASE m \in kept[p]
    <3>1. m \in Minutes
      BY <2>1 DEF TypeInv, TypeOK
    <3> QED BY <2>1, <3>1, <1>1, <1>2 DEF HandledInv
  <2>2. CASE Over(m)
    BY <2>2 DEF Over
  <2> QED BY <1>3, <2>1, <2>2
<1>4. ASSUME NEW t \in Requests, req'[t].pc # "idle"
      PROVE  /\ (Handled(MinuteOf(t)) \/ Over(MinuteOf(t)))'
             /\ now' - req'[t].at <= MaxAwait
  <2>1. CASE req[t].pc # "idle" /\ req'[t].at = req[t].at
    <3>1. MinuteOf(t)' = MinuteOf(t) /\ MinuteOf(t) \in Minutes
      BY <2>1, RequestTypes DEF MinuteOf
    <3>2. Handled(MinuteOf(t)) \/ Over(MinuteOf(t))
      BY <2>1 DEF HandledInv
    <3>3. PICK m \in Minutes : m = MinuteOf(t)
      BY <3>1
    <3>4. Handled(m)' \/ Over(m)'
      BY <3>2, <3>3, <1>1, <1>2
    <3>5. (Handled(MinuteOf(t)) \/ Over(MinuteOf(t)))'
      BY <3>1, <3>3, <3>4 DEF Handled, AboutToOpen, Over
    <3>6. now' - req'[t].at <= MaxAwait
      BY <2>1 DEF HandledInv
    <3> QED BY <3>5, <3>6
  <2>2. CASE req'[t].at = now /\ (Handled(Minute(now))' \/ Over(Minute(now)))
    <3>1. MinuteOf(t)' = Minute(now') /\ now' = now /\ now \in Nat
      BY <2>2, NowTypes DEF MinuteOf
    <3>2. (Handled(MinuteOf(t)) \/ Over(MinuteOf(t)))'
      BY <2>2, <3>1 DEF Handled, AboutToOpen, Over
    <3> QED BY <2>2, <3>1, <3>2, AwaitAssumption
  <2> QED BY <1>4, <2>1, <2>2
<1>5. NoTtlExplained'
  <2> SUFFICES ASSUME NEW m \in Minutes, expires'[m] = Never PROVE m \in broken' \/ AboutToOpen(m)'
    BY DEF NoTtlExplained, AboutToOpen
  <2>1. CASE expires[m] = Never
    <3>1. m \in broken \/ AboutToOpen(m)
      BY <2>1 DEF HandledInv, NoTtlExplained, AboutToOpen
    <3> QED BY <3>1 DEF Noticed, AboutToOpen
  <2> QED BY <2>1
<1>6. \A m \in Minutes : expires'[m] \in Nat => now' < expires'[m] /\ 2 * m + RankTtl <= expires'[m]
  BY DEF HandledInv
<1>7. \A t \in Requests : req'[t].pc # "idle" =>
        /\ req'[t].pc \in {"open", "ttl"} => req'[t].first
        /\ req'[t].pc = "ttl" => expires'[MinuteOf(t)'] # Gone
  BY DEF MinuteOf
<1> QED BY <1>3, <1>4, <1>5, <1>6, <1>7 DEF HandledInv

LEMMA HandledCount ==
  ASSUME TypeInv, HandledInv, NEW t \in Requests, NEW q \in Queries, Count(t, q)
  PROVE  HandledInv'
<1>1. PICK m \in Minutes : m = Minute(now)
  BY NowTypes
<1>2. PICK pc \in {"body", "open", "respond"}, first \in BOOLEAN :
        /\ req' = [req EXCEPT ![t] = [pc |-> pc, at |-> now, query |-> q, first |-> first]]
        /\ first <=> m \notin kept[Home[t]]
        /\ pc = "open" => first
        /\ first => pc \in {"body", "open"}
  BY <1>1 DEF Count, Begin, AfterBatch
<1>3. /\ req[t].pc = "idle"
      /\ kept' = [kept EXCEPT ![Home[t]] = @ \cup {m}]
      /\ UNCHANGED <<now, expires, broken>>
  BY <1>1 DEF Count, Begin, At, rank
<1>4. /\ req \in [Requests -> RequestState]
      /\ kept \in [Procs -> SUBSET Minutes]
      /\ Home[t] \in Procs
  BY RequestTypes DEF TypeInv, TypeOK
<1>5. /\ req'[t].pc = pc /\ req'[t].at = now /\ req'[t].first = first
      /\ \A u \in Requests : u # t => req'[u] = req[u]
  BY <1>2, <1>4
<1>6. Noticed
  BY <1>3, <1>5 DEF Noticed, Opening, MinuteOf
<1>7. Handled(m)' \/ Over(m)
  <2>1. CASE first
    <3>1. Opening(t)'
      BY <1>2, <1>5, <2>1 DEF Opening
    <3>2. MinuteOf(t)' = m
      BY <1>1, <1>5 DEF MinuteOf
    <3> QED BY <3>1, <3>2 DEF Handled, AboutToOpen
  <2>2. CASE ~first
    <3>1. Handled(m) \/ Over(m)
      BY <1>2, <1>4, <2>2 DEF HandledInv
    <3> QED BY <1>6, <3>1, HandledStays
  <2> QED BY <2>1, <2>2
<1>8. \A p \in Procs : \A n \in kept'[p] : n \in kept[p] \/ n = m
  BY <1>3, <1>4
<1>9. \A p \in Procs : \A n \in kept'[p] : n \in kept[p] \/ Handled(n)' \/ Over(n)
  BY <1>7, <1>8
<1>10. Handled(Minute(now))' \/ Over(Minute(now))
  BY <1>1, <1>3, <1>7 DEF Handled, AboutToOpen
<1>11. ASSUME NEW u \in Requests, req'[u].pc # "idle"
       PROVE  /\ \/ req[u].pc # "idle" /\ req'[u].at = req[u].at
                 \/ req'[u].at = now /\ (Handled(Minute(now))' \/ Over(Minute(now)))
              /\ req'[u].pc \in {"open", "ttl"} => req'[u].first
              /\ req'[u].pc = "ttl" => expires'[Minute(req'[u].at)] # Gone
  <2>1. CASE u = t
    BY <1>2, <1>5, <1>10, <2>1
  <2>2. CASE u # t
    BY <1>3, <1>5, <1>11, <2>2 DEF HandledInv, MinuteOf
  <2> QED BY <2>1, <2>2
<1> QED BY <1>3, <1>6, <1>9, <1>11, HandledFrame

\* A request goes on; if it is the first of its minute it does so until the ttl is set.
LEMMA HandledGoto ==
  ASSUME TypeInv, HandledInv, NEW t \in Requests, req[t].pc # "idle",
         NEW pc \in {"add", "open", "ttl", "respond"}, Goto(t, pc),
         UNCHANGED <<now, kept, broken>>,
         NEW x, expires' = [expires EXCEPT ![MinuteOf(t)] = x],
         x = expires[MinuteOf(t)]
           \/ (x = Never /\ expires[MinuteOf(t)] = Gone)
           \/ (x \in Nat /\ x = now + RankTtl),
         pc \in {"open", "ttl"} => req[t].first,
         pc = "ttl" => x # Gone,
         Opening(t) => pc # "respond" \/ x \in Nat
  PROVE  HandledInv'
<1> DEFINE m == MinuteOf(t)
<1>1. /\ req \in [Requests -> RequestState]
      /\ expires \in [Minutes -> Nat \cup {Gone, Never}]
      /\ m \in Minutes
      /\ req' = [req EXCEPT ![t].pc = pc]
  BY RequestTypes DEF Goto, TypeInv, TypeOK
<1>2. now - req[t].at <= MaxAwait /\ (Handled(m) \/ Over(m))
  BY DEF HandledInv
<1>3. /\ ~Over(m)
      /\ 2 * m <= now
      /\ m \in Nat /\ now \in Nat
  BY <1>1, <1>2, NotOver, NowTypes, MinutesNat
<1>4. Handled(m)
  BY <1>2, <1>3
<1>5. \A u \in Requests : /\ req'[u].at = req[u].at /\ req'[u].first = req[u].first
                          /\ req'[u].pc = IF u = t THEN pc ELSE req[u].pc
  BY <1>1 DEF RequestState
<1>6. \A n \in Minutes : expires'[n] = IF n = m THEN x ELSE expires[n]
  BY <1>1
<1>7. \A u \in Requests : MinuteOf(u)' = MinuteOf(u)
  BY <1>5 DEF MinuteOf
<1>8. \A u \in Requests : Opening(u) => Opening(u)' \/ (u = t /\ x \in Nat)
  BY <1>5 DEF Opening
<1> HIDE DEF m
<1>9. Noticed
  <2>1. \A n \in Minutes : expires[n] \in Nat => expires'[n] \in Nat
    BY <1>6 DEF m
  <2>2. m = MinuteOf(t)
    BY DEF m
  <2> QED BY <1>1, <1>6, <1>7, <1>8, <2>1, <2>2 DEF Noticed
<1>10. \A u \in Requests : req'[u].pc # "idle" =>
         /\ req[u].pc # "idle" /\ req'[u].at = req[u].at
         /\ req'[u].pc \in {"open", "ttl"} => req'[u].first
  BY <1>5 DEF HandledInv
<1>11. ASSUME NEW u \in Requests, req'[u].pc = "ttl" PROVE expires'[Minute(req'[u].at)] # Gone
  <2>1. req[u].pc # "idle" /\ MinuteOf(u) \in Minutes /\ Minute(req'[u].at) = MinuteOf(u)
    BY <1>11, <1>10, <1>5, RequestTypes DEF MinuteOf
  <2>2. CASE u = t
    BY <1>5, <1>6, <1>11, <2>1, <2>2 DEF m
  <2>3. CASE u # t
    <3>1. expires[MinuteOf(u)] # Gone
      BY <1>5, <1>11, <2>3 DEF HandledInv
    <3> QED BY <1>6, <2>1, <3>1 DEF m
  <2> QED BY <2>2, <2>3
<1>12. ASSUME NEW n \in Minutes, expires'[n] \in Nat
       PROVE expires'[n] = expires[n] \/ (now < expires'[n] /\ 2 * n + RankTtl <= expires'[n])
  BY <1>3, <1>6, <1>12, AwaitAssumption, TtlAssumption DEF m
<1>13. ASSUME NEW n \in Minutes, expires'[n] = Never
       PROVE expires[n] = Never \/ n \in broken' \/ AboutToOpen(n)'
  <2>1. CASE n # m
    BY <1>6, <1>13, <2>1
  <2>2. CASE n = m /\ expires[m] = Gone
    <3>1. m \in broken \/ AboutToOpen(m)
      BY <1>4, <1>6, <1>13, <2>2 DEF Handled
    <3>2. x = Never
      BY <1>6, <1>13, <2>2
    <3>3. ASSUME NEW u \in Requests, Opening(u), MinuteOf(u) = m PROVE AboutToOpen(n)'
      BY <3>2, <3>3, <1>7, <1>8, <2>2 DEF AboutToOpen
    <3> QED BY <3>1, <3>3, <2>2 DEF AboutToOpen
  <2>3. CASE n = m /\ expires[m] # Gone
    BY <1>6, <1>13, <2>3 DEF m
  <2> QED BY <2>1, <2>2, <2>3
<1> QED BY <1>9, <1>10, <1>11, <1>12, <1>13, HandledFrame

LEMMA HandledAwait ==
  ASSUME TypeInv, HandledInv, NEW t \in Requests,
         CacheBody(t) \/ Add(t) \/ Open(t) \/ SetTtl(t)
  PROVE  HandledInv'
<1>1. /\ expires \in [Minutes -> Nat \cup {Gone, Never}]
      /\ req[t].pc # "idle"
      /\ MinuteOf(t) \in Minutes
      /\ UNCHANGED <<now, kept, broken>>
      /\ now \in Nat
  BY RequestTypes, NowTypes DEF CacheBody, Add, Open, SetTtl, At, TypeInv, TypeOK
<1>2. CASE CacheBody(t)
  <2>1. Goto(t, "add") /\ expires' = [expires EXCEPT ![MinuteOf(t)] = expires[MinuteOf(t)]]
    BY <1>1, <1>2 DEF CacheBody, rank
  <2> QED BY <1>1, <2>1, HandledGoto
<1>3. PICK x : x = IF expires[MinuteOf(t)] = Gone THEN Never ELSE expires[MinuteOf(t)]
  OBVIOUS
<1>a. /\ x = expires[MinuteOf(t)] \/ (x = Never /\ expires[MinuteOf(t)] = Gone)
      /\ x # Gone
  BY <1>3
<1>b. ASSUME NEW q, NEW n, ZIncrement(MinuteOf(t), q, n)
      PROVE  expires' = [expires EXCEPT ![MinuteOf(t)] = x]
  BY <1>3, <1>b DEF ZIncrement
<1>4. CASE Add(t)
  <2>1. PICK pc \in {"open", "respond"} : /\ Goto(t, pc)
                                          /\ (pc = "open" <=> req[t].first)
    BY <1>4 DEF Add, AfterBatch
  <2>2. expires' = [expires EXCEPT ![MinuteOf(t)] = x]
    BY <1>b, <1>4 DEF Add
  <2> QED BY <1>1, <1>a, <2>1, <2>2, HandledGoto DEF Opening
<1>5. CASE Open(t)
  <2>1. Goto(t, "ttl") /\ req[t].first
    BY <1>5 DEF Open, At, HandledInv
  <2>2. expires' = [expires EXCEPT ![MinuteOf(t)] = x]
    BY <1>b, <1>5 DEF Open
  <2> QED BY <1>1, <1>a, <2>1, <2>2, HandledGoto
<1>6. CASE SetTtl(t)
  <2>1. expires[MinuteOf(t)] # Gone
    BY <1>6 DEF SetTtl, At, HandledInv
  <2>2. Goto(t, "respond") /\ expires' = [expires EXCEPT ![MinuteOf(t)] = now + RankTtl]
    BY <1>6, <2>1 DEF SetTtl
  <2>3. now + RankTtl \in Nat
    BY <1>1, TtlAssumption
  <2> QED BY <1>1, <2>2, <2>3, HandledGoto
<1> QED BY <1>2, <1>4, <1>5, <1>6

\* Requests end: the first of a minute leaves word in broken if it had yet to set the ttl.
LEMMA HandledEnd ==
  ASSUME TypeInv, HandledInv, NEW T \in SUBSET Requests,
         \A t \in Requests : req'[t] = IF t \in T THEN NoRequest ELSE req[t],
         broken \subseteq broken',
         \A t \in T : Opening(t) => MinuteOf(t) \in broken',
         \A p \in Procs : kept'[p] \subseteq kept[p],
         UNCHANGED <<now, expires>>
  PROVE  HandledInv'
<1>1. \A t \in Requests : req'[t].pc # "idle" => t \notin T /\ req'[t] = req[t]
  BY DEF NoRequest
<1>2. Noticed
  BY DEF Noticed, Opening, MinuteOf
<1>3. ASSUME NEW t \in Requests, req'[t].pc # "idle"
      PROVE  /\ req[t].pc # "idle" /\ req'[t].at = req[t].at
             /\ req'[t].pc \in {"open", "ttl"} => req'[t].first
             /\ req'[t].pc = "ttl" => expires'[Minute(req'[t].at)] # Gone
  BY <1>1, <1>3 DEF HandledInv, MinuteOf
<1> QED BY <1>2, <1>3, HandledFrame

LEMMA HandledTick ==
  ASSUME TypeInv, HandledInv, Tick
  PROVE  HandledInv'
<1>1. /\ now \in Nat /\ now' = now + 1
      /\ expires \in [Minutes -> Nat \cup {Gone, Never}]
      /\ kept \in [Procs -> SUBSET Minutes]
      /\ UNCHANGED <<kept, req, broken>>
      /\ \A m \in Minutes : expires'[m] = IF expires[m] = now' THEN Gone ELSE expires[m]
  BY DEF Tick, web, TypeInv, TypeOK
<1>2. \A m \in Minutes : m \in Nat
  BY MinutesNat
<1>3. ASSUME NEW m \in Minutes, Handled(m) \/ Over(m) PROVE Handled(m)' \/ Over(m)'
  <2>1. AboutToOpen(m)' <=> AboutToOpen(m)
    BY <1>1 DEF AboutToOpen, Opening, MinuteOf
  <2>2. CASE Over(m)
    BY <1>1, <1>2, <2>2, TtlAssumption DEF Over
  <2>3. CASE m \in broken \/ AboutToOpen(m)
    BY <1>1, <2>1, <2>3 DEF Handled
  <2>4. CASE expires[m] \in Nat
    <3>1. 2 * m + RankTtl <= expires[m]
      BY <2>4 DEF HandledInv
    <3> QED BY <1>1, <2>4, <3>1 DEF Handled, Over
  <2> QED BY <1>3, <2>2, <2>3, <2>4 DEF Handled
<1>4. ASSUME NEW t \in Requests, req[t].pc # "idle"
      PROVE  /\ (Handled(MinuteOf(t)) \/ Over(MinuteOf(t)))'
             /\ now' - req[t].at <= MaxAwait
             /\ req[t].pc = "ttl" => expires'[MinuteOf(t)] # Gone
  <2>1. MinuteOf(t)' = MinuteOf(t) /\ MinuteOf(t) \in Minutes /\ req[t].at \in Nat
    BY <1>1, <1>4, RequestTypes DEF MinuteOf, RequestState
  <2>2. now - req[t].at <= MaxAwait /\ now - req[t].at < MaxAwait
    BY <1>4 DEF Tick, HandledInv
  <2>3. PICK m \in Minutes : m = MinuteOf(t)
    BY <2>1
  <2>4. Handled(m)' \/ Over(m)'
    BY <1>3, <1>4, <2>3 DEF HandledInv
  <2>5. (Handled(MinuteOf(t)) \/ Over(MinuteOf(t)))'
    BY <2>1, <2>3, <2>4 DEF Handled, AboutToOpen, Over
  <2>6. now' - req[t].at <= MaxAwait
    BY <1>1, <2>1, <2>2, AwaitAssumption
  <2>7. ASSUME req[t].pc = "ttl" PROVE expires'[m] # Gone
    <3>1. expires[m] # Gone
      BY <1>4, <2>3, <2>7 DEF HandledInv
    <3>2. now + 1 < 2 * m + RankTtl
      BY <1>4, <2>2, <2>3, NotOver
    <3>3. expires[m] \in Nat => 2 * m + RankTtl <= expires[m]
      BY DEF HandledInv
    <3>4. expires[m] # now'
      BY <1>1, <1>2, <3>2, <3>3, TtlAssumption
    <3> QED BY <1>1, <3>1, <3>4
  <2> QED BY <2>3, <2>5, <2>6, <2>7
<1>5. ASSUME NEW p \in Procs, NEW m \in kept[p] PROVE Handled(m)' \/ Over(m)'
  <2>1. m \in Minutes
    BY <1>1
  <2> QED BY <1>3, <1>5, <2>1 DEF HandledInv
<1>6. ASSUME NEW m \in Minutes, expires'[m] \in Nat PROVE now' < expires'[m] /\ 2 * m + RankTtl <= expires'[m]
  <2>1. expires'[m] = expires[m] /\ expires[m] # now'
    BY <1>1, <1>6
  <2>2. now < expires[m] /\ 2 * m + RankTtl <= expires[m]
    BY <1>6, <2>1 DEF HandledInv
  <2> QED BY <1>1, <1>6, <2>1, <2>2
<1>7. NoTtlExplained'
  BY <1>1 DEF HandledInv, NoTtlExplained, Opening, MinuteOf
<1>8. \A t \in Requests : req[t].pc \in {"open", "ttl"} => req[t].first
  BY DEF HandledInv
<1>9. \A t \in Requests : MinuteOf(t)' = MinuteOf(t)
  BY <1>1 DEF MinuteOf
<1> QED BY <1>1, <1>4, <1>5, <1>6, <1>7, <1>8, <1>9 DEF HandledInv

LEMMA HandledStep == TypeInv /\ HandledInv /\ [Next]_vars => HandledInv'
<1> SUFFICES ASSUME TypeInv, HandledInv, [Next]_vars PROVE HandledInv'
  OBVIOUS
<1>t. /\ req \in [Requests -> RequestState]
      /\ kept \in [Procs -> SUBSET Minutes]
  BY DEF TypeInv, TypeOK
<1>1. ASSUME UNCHANGED <<now, web, rank>> PROVE HandledInv'
  BY <1>1 DEF web, rank, HandledInv, Handled, AboutToOpen, Over, NoTtlExplained, Opening, MinuteOf
<1>2. ASSUME NEW t \in Requests, Respond(t) PROVE HandledInv'
  <2>1. \A u \in Requests : req'[u] = IF u \in {t} THEN NoRequest ELSE req[u]
    BY <1>2, <1>t DEF Respond, Finish
  <2>2. \A p \in Procs : kept'[p] \subseteq kept[p]
    BY <1>2, <1>t DEF Respond, Finish
  <2>3. UNCHANGED <<now, expires, broken>> /\ ~Opening(t)
    BY <1>2 DEF Respond, Finish, rank, At, Opening
  <2> QED BY <2>1, <2>2, <2>3, HandledEnd
<1>3. ASSUME NEW T \in SUBSET Requests, Break(T), UNCHANGED <<now, expires>>,
             \A p \in Procs : kept'[p] \subseteq kept[p]
      PROVE  HandledInv'
  BY <1>3, HandledEnd DEF Break
<1>4. ASSUME NEW t \in Requests, Fail(t) PROVE HandledInv'
  <2>1. Break({t}) /\ UNCHANGED <<now, expires, kept>>
    BY <1>4 DEF Fail, rank
  <2> QED BY <1>3, <2>1
<1>5. ASSUME NEW p \in Procs \cup {WarmerHome}, Crash(p) PROVE HandledInv'
  <2> DEFINE T == {t \in Requests : Home[t] = p /\ req[t].pc # "idle"}
  <2>1. Break(T) /\ UNCHANGED <<now, expires>> /\ kept' = [kept EXCEPT ![p] = {}]
    BY <1>5 DEF Crash, rank
  <2>2. T \in SUBSET Requests /\ \A r \in Procs : kept'[r] \subseteq kept[r]
    BY <1>t, <2>1
  <2> QED BY <1>3, <2>1, <2>2
<1>6. ASSUME NEW w \in Runs, RangeCurrent(w) \/ RangePrevious(w) \/ RunFails(w) PROVE HandledInv'
  BY <1>1, <1>6 DEF RangeCurrent, RangePrevious, Launch, RunFails
<1>7. ASSUME NEW w \in Runs, NEW q \in Queries,
             GetBody(w, q) \/ Serve(w, q) \/ Keep(w, q) \/ Store(w, q) \/ WarmEnds(w, q)
      PROVE HandledInv'
  BY <1>1, <1>7 DEF GetBody, Serve, Answer, Keep, Store, WarmEnds
<1>8. CASE UNCHANGED vars
  BY <1>1, <1>8 DEF vars
<1> QED BY <1>2, <1>4, <1>5, <1>6, <1>7, <1>8, HandledCount, HandledAwait, HandledTick DEF Next

\* A ranking without a ttl has one cause: the first request of its minute was cut short.
THEOREM NoTtlExplainedHolds == Spec => []NoTtlExplained
<1>1. Init => HandledInv
  BY BoundAssumption DEF Init, HandledInv, NoTtlExplained, NoRequest
<1>2. HandledInv => NoTtlExplained
  BY DEF HandledInv
<1> QED BY <1>1, <1>2, TypeInit, TypeStep, HandledStep, PTL DEF Spec

----------------------------------------------------------------------------
(* The responses.                                                          *)

Carried(w, q) == warm[w][q].pc \in {"answered", "store"}

\* A response lives for its ttl from when it was stored, MaxAwait after it was computed at
\* the latest.
FreshInv ==
  /\ \A w \in Runs, q \in Queries :
       Carried(w, q) => warm[w][q].val <= now /\ now - warm[w][q].val <= MaxAwait
  /\ \A q \in Queries : \A e \in remote[q] \cup local[q] :
       now < e.expires /\ e.expires <= e.val + MaxAwait + ResponseTtl

\* One run at a time works on a query, and its response is newer than the one in Redis.
OrderInv ==
  \A q \in Queries :
    /\ \A w, v \in Runs : warm[w][q].pc # "idle" /\ warm[v][q].pc # "idle" => w = v
    /\ \A e, f \in remote[q] : e = f
    /\ \A e \in remote[q] : /\ e.val <= now
                           /\ \A w \in Runs : Carried(w, q) => e.val <= warm[w][q].val

ResponseInv == FreshInv /\ OrderInv

\* The types these proofs need.
ResponseTypes ==
  /\ now \in Nat
  /\ remote \in [Queries -> SUBSET Response]
  /\ local \in [Queries -> SUBSET Response]
  /\ warm \in [Runs -> [Queries -> WarmState]]

LEMMA KeepsTypes == TypeInv => ResponseTypes
BY DEF TypeInv, TypeOK, ResponseTypes

Advance(q) == \A e \in remote[q], f \in remote'[q] : e.val <= f.val

LEMMA NotIdle == \A w \in Runs, q \in Queries : Carried(w, q) => warm[w][q].pc # "idle"
BY DEF Carried

\* Nothing is stored, and no warm-up comes by a response.
LEMMA QuietStep ==
  ASSUME ResponseTypes, ResponseTypes', ResponseInv, UNCHANGED <<now, remote>>,
         \A q \in Queries : local'[q] \subseteq local[q],
         \A w \in Runs, q \in Queries :
           \/ warm'[w][q] = warm[w][q]
           \/ warm'[w][q].pc = "idle"
           \/ warm'[w][q].pc \in {"body", "post"} /\ warm[w][q].pc # "idle"
  PROVE  ResponseInv' /\ \A q \in Queries : Advance(q)
<1>1. FreshInv'
  BY DEF ResponseInv, FreshInv, Carried, ResponseTypes
<1>2. OrderInv'
  <2> SUFFICES ASSUME NEW q \in Queries
               PROVE  /\ \A w, v \in Runs : warm'[w][q].pc # "idle" /\ warm'[v][q].pc # "idle" => w = v
                      /\ \A e, f \in remote'[q] : e = f
                      /\ \A e \in remote'[q] :
                           /\ e.val <= now'
                           /\ \A w \in Runs : Carried(w, q)' => e.val <= warm'[w][q].val
    BY DEF OrderInv
  <2>1. \A w \in Runs : warm'[w][q].pc # "idle" => warm[w][q].pc # "idle"
    OBVIOUS
  <2>2. \A w \in Runs : Carried(w, q)' => Carried(w, q) /\ warm'[w][q] = warm[w][q]
    BY DEF Carried
  <2> QED BY <2>1, <2>2 DEF ResponseInv, OrderInv
<1>3. ASSUME NEW q \in Queries, NEW e \in remote[q], NEW f \in remote'[q]
      PROVE e.val <= f.val
  <2>1. e = f
    BY <1>3 DEF ResponseInv, OrderInv
  <2>2. e.val \in Nat
    BY <1>3 DEF ResponseTypes, Response
  <2> QED BY <2>1, <2>2
<1>4. \A q \in Queries : Advance(q)
  BY <1>3 DEF Advance
<1> QED BY <1>1, <1>2, <1>4 DEF ResponseInv

\* A run takes the queries no run works on.
LEMMA LaunchStep ==
  ASSUME ResponseTypes, ResponseTypes', ResponseInv, NEW w \in Runs, RangePrevious(w)
  PROVE  ResponseInv' /\ \A q \in Queries : Advance(q)
<1> DEFINE K == {q \in KeysToCompute(w) : ~Locked(q)}
<1>1. /\ UNCHANGED <<now, remote, local>>
      /\ warm' = [warm EXCEPT ![w] =
           [q \in Queries |-> IF q \in K THEN [pc |-> "body", val |-> 0] ELSE NoWarm]]
  BY DEF RangePrevious, Launch
<1>2. \A q \in K : \A v \in Runs : warm[v][q].pc = "idle"
  BY DEF Locked
<1> HIDE DEF K
<1>3. \A v \in Runs, q \in Queries :
        /\ ~Carried(v, q)' \/ warm'[v][q] = warm[v][q]
        /\ warm'[v][q].pc # "idle" =>
             (warm[v][q].pc # "idle" /\ q \notin K) \/ (v = w /\ q \in K)
  BY <1>1, <1>2 DEF Carried, NoWarm, ResponseTypes
<1>4. FreshInv'
  BY <1>1, <1>3 DEF ResponseInv, FreshInv, Carried
<1>5. OrderInv'
  <2> SUFFICES ASSUME NEW q \in Queries
               PROVE  /\ \A u, v \in Runs : warm'[u][q].pc # "idle" /\ warm'[v][q].pc # "idle" => u = v
                      /\ \A e, f \in remote'[q] : e = f
                      /\ \A e \in remote'[q] :
                           /\ e.val <= now'
                           /\ \A v \in Runs : Carried(v, q)' => e.val <= warm'[v][q].val
    BY DEF OrderInv
  <2>1. \A u, v \in Runs : warm'[u][q].pc # "idle" /\ warm'[v][q].pc # "idle" => u = v
    BY <1>3 DEF ResponseInv, OrderInv
  <2>2. \A v \in Runs : Carried(v, q)' => Carried(v, q) /\ warm'[v][q] = warm[v][q]
    BY <1>3 DEF Carried
  <2> QED BY <1>1, <2>1, <2>2 DEF ResponseInv, OrderInv
<1>6. ASSUME NEW q \in Queries, NEW e \in remote[q], NEW f \in remote'[q]
      PROVE e.val <= f.val
  <2>1. e = f
    BY <1>1, <1>6 DEF ResponseInv, OrderInv
  <2>2. e.val \in Nat
    BY <1>6 DEF ResponseTypes, Response
  <2> QED BY <2>1, <2>2
<1>7. \A q \in Queries : Advance(q)
  BY <1>6 DEF Advance
<1> QED BY <1>4, <1>5, <1>7 DEF ResponseInv

\* What is served now is newer than anything stored.
LEMMA ServeStep ==
  ASSUME ResponseTypes, ResponseTypes', ResponseInv, NEW w \in Runs, NEW q \in Queries,
         Serve(w, q) \/ Keep(w, q)
  PROVE  ResponseInv' /\ \A r \in Queries : Advance(r)
<1> DEFINE e0 == [val |-> warm[w][q].val, expires |-> now + ResponseTtl]
<1>1. UNCHANGED <<now, remote>>
  BY DEF Serve, Answer, Keep
<1>2. \A v \in Runs, r \in Queries :
        \/ warm'[v][r] = warm[v][r]
        \/ /\ v = w /\ r = q
           /\ warm[v][r].pc # "idle"
           /\ warm'[v][r].val = now \/ (Carried(v, r) /\ warm'[v][r].val = warm[v][r].val)
  BY DEF Serve, Answer, Keep, Warming, Carried, ResponseTypes, WarmState
<1>3. \A r \in Queries : local'[r] \subseteq local[r] \/ (local'[r] = {e0} /\ Carried(w, q) /\ r = q)
  BY DEF Serve, Answer, Keep, Warming, Carried, ResponseTypes
<1>4. /\ now \in Nat /\ warm[w][q].val \in Nat /\ ResponseTtl \in Nat \ {0} /\ MaxAwait \in Nat
      /\ e0.val = warm[w][q].val /\ e0.expires = now + ResponseTtl
  BY TtlAssumption, AwaitAssumption DEF ResponseTypes, WarmState
<1> HIDE DEF e0
<1>5. FreshInv'
  <2>1. \A v \in Runs, r \in Queries :
          Carried(v, r)' => warm'[v][r].val <= now' /\ now' - warm'[v][r].val <= MaxAwait
    BY <1>1, <1>2, <1>4 DEF ResponseInv, FreshInv, Carried
  <2>2. Carried(w, q) => now < e0.expires /\ e0.expires <= e0.val + MaxAwait + ResponseTtl
    BY <1>4 DEF ResponseInv, FreshInv
  <2>3. \A r \in Queries : \A e \in remote'[r] \cup local'[r] :
          now' < e.expires /\ e.expires <= e.val + MaxAwait + ResponseTtl
    BY <1>1, <1>3, <2>2 DEF ResponseInv, FreshInv
  <2> QED BY <2>1, <2>3 DEF FreshInv
<1>6. OrderInv'
  <2> SUFFICES ASSUME NEW r \in Queries
               PROVE  /\ \A u, v \in Runs : warm'[u][r].pc # "idle" /\ warm'[v][r].pc # "idle" => u = v
                      /\ \A e, f \in remote'[r] : e = f
                      /\ \A e \in remote'[r] :
                           /\ e.val <= now'
                           /\ \A v \in Runs : Carried(v, r)' => e.val <= warm'[v][r].val
    BY DEF OrderInv
  <2>1. \A u, v \in Runs : warm'[u][r].pc # "idle" /\ warm'[v][r].pc # "idle" => u = v
    BY <1>2 DEF ResponseInv, OrderInv
  <2>2. \A v \in Runs : Carried(v, r)' =>
          warm'[v][r].val = now \/ (Carried(v, r) /\ warm'[v][r].val = warm[v][r].val)
    BY <1>2 DEF Carried
  <2> QED BY <1>1, <2>1, <2>2 DEF ResponseInv, OrderInv
<1>7. ASSUME NEW r \in Queries, NEW e \in remote[r], NEW f \in remote'[r]
      PROVE e.val <= f.val
  <2>1. e = f
    BY <1>1, <1>7 DEF ResponseInv, OrderInv
  <2>2. e.val \in Nat
    BY <1>7 DEF ResponseTypes, Response
  <2> QED BY <2>1, <2>2
<1>8. \A r \in Queries : Advance(r)
  BY <1>7 DEF Advance
<1> QED BY <1>5, <1>6, <1>8 DEF ResponseInv

LEMMA StoreStep ==
  ASSUME ResponseTypes, ResponseTypes', ResponseInv, NEW w \in Runs, NEW q \in Queries, Store(w, q)
  PROVE  ResponseInv' /\ \A r \in Queries : Advance(r)
<1> DEFINE e0 == [val |-> warm[w][q].val, expires |-> now + ResponseTtl]
<1>1. /\ UNCHANGED <<now, local>>
      /\ remote' = [remote EXCEPT ![q] = {e0}]
      /\ warm' = [warm EXCEPT ![w][q] = NoWarm]
      /\ Carried(w, q)
  BY DEF Store, Warming, Carried, EndWarm
<1>2. /\ now \in Nat /\ warm[w][q].val \in Nat /\ ResponseTtl \in Nat \ {0} /\ MaxAwait \in Nat
      /\ e0.val = warm[w][q].val /\ e0.expires = now + ResponseTtl
  BY TtlAssumption, AwaitAssumption DEF ResponseTypes, WarmState
<1> HIDE DEF e0
<1>3. \A r \in Queries : remote'[r] = IF r = q THEN {e0} ELSE remote[r]
  BY <1>1 DEF ResponseTypes
<1>4. \A v \in Runs, r \in Queries :
        warm'[v][r] = warm[v][r] \/ (v = w /\ r = q /\ warm'[v][r].pc = "idle")
  BY <1>1 DEF NoWarm, ResponseTypes
<1>5. warm'[w][q].pc = "idle"
  BY <1>1 DEF NoWarm, ResponseTypes
<1>6. FreshInv'
  <2>1. \A v \in Runs, r \in Queries :
          Carried(v, r)' => warm'[v][r].val <= now' /\ now' - warm'[v][r].val <= MaxAwait
    BY <1>1, <1>4 DEF ResponseInv, FreshInv, Carried
  <2>2. now < e0.expires /\ e0.expires <= e0.val + MaxAwait + ResponseTtl
    BY <1>1, <1>2 DEF ResponseInv, FreshInv
  <2>3. \A r \in Queries : \A e \in remote'[r] \cup local'[r] :
          now' < e.expires /\ e.expires <= e.val + MaxAwait + ResponseTtl
    BY <1>1, <1>3, <2>2 DEF ResponseInv, FreshInv
  <2> QED BY <2>1, <2>3 DEF FreshInv
<1>7. OrderInv'
  <2> SUFFICES ASSUME NEW r \in Queries
               PROVE  /\ \A u, v \in Runs : warm'[u][r].pc # "idle" /\ warm'[v][r].pc # "idle" => u = v
                      /\ \A e, f \in remote'[r] : e = f
                      /\ \A e \in remote'[r] :
                           /\ e.val <= now'
                           /\ \A v \in Runs : Carried(v, r)' => e.val <= warm'[v][r].val
    BY DEF OrderInv
  <2>1. \A u, v \in Runs : warm'[u][r].pc # "idle" /\ warm'[v][r].pc # "idle" => u = v
    BY <1>4 DEF ResponseInv, OrderInv
  <2>2. \A v \in Runs : Carried(v, r)' => Carried(v, r) /\ warm'[v][r] = warm[v][r]
    BY <1>4 DEF Carried
  <2>3. e0.val <= now
    BY <1>1, <1>2 DEF ResponseInv, FreshInv
  <2>4. r = q => \A v \in Runs : ~Carried(v, r)'
    <3>1. \A v \in Runs : warm[v][q].pc # "idle" => v = w
      BY <1>1 DEF ResponseInv, OrderInv, Carried
    <3> QED BY <1>4, <1>5, <3>1 DEF Carried
  <2> QED BY <1>1, <1>3, <2>1, <2>2, <2>3, <2>4 DEF ResponseInv, OrderInv
<1>8. ASSUME NEW r \in Queries, NEW e \in remote[r], NEW f \in remote'[r]
      PROVE e.val <= f.val
  <2>1. CASE r = q
    BY <1>1, <1>2, <1>3, <1>8, <2>1 DEF ResponseInv, OrderInv
  <2>2. CASE r # q
    <3>1. e = f
      BY <1>3, <1>8, <2>2 DEF ResponseInv, OrderInv
    <3>2. e.val \in Nat
      BY <1>8 DEF ResponseTypes, Response
    <3> QED BY <3>1, <3>2
  <2> QED BY <2>1, <2>2
<1>9. \A r \in Queries : Advance(r)
  BY <1>8 DEF Advance
<1> QED BY <1>6, <1>7, <1>9 DEF ResponseInv

LEMMA TickStep ==
  ASSUME ResponseTypes, ResponseTypes', ResponseInv, Tick
  PROVE  ResponseInv' /\ \A q \in Queries : Advance(q)
<1>1. /\ now' = now + 1 /\ warm' = warm /\ now \in Nat
      /\ \A w \in Runs, q \in Queries : Carried(w, q) => now - warm[w][q].val < MaxAwait
      /\ \A q \in Queries : remote'[q] = Live(remote[q]) /\ local'[q] = Live(local[q])
  BY DEF Tick, Carried, ResponseTypes
<1>2. FreshInv'
  <2>1. \A w \in Runs, q \in Queries :
          Carried(w, q)' => warm'[w][q].val <= now' /\ now' - warm'[w][q].val <= MaxAwait
    BY <1>1, AwaitAssumption DEF ResponseInv, FreshInv, Carried, ResponseTypes, WarmState
  <2>2. ASSUME NEW q \in Queries, NEW e \in remote'[q] \cup local'[q]
        PROVE  now' < e.expires /\ e.expires <= e.val + MaxAwait + ResponseTtl
    <3>1. e \in remote[q] \cup local[q] /\ e.expires > now'
      BY <1>1, <2>2 DEF Live
    <3>2. e.expires \in Nat
      BY <3>1 DEF ResponseTypes, Response
    <3> QED BY <1>1, <3>1, <3>2 DEF ResponseInv, FreshInv
  <2> QED BY <2>1, <2>2 DEF FreshInv
<1>3. \A q \in Queries : remote'[q] \subseteq remote[q]
  BY <1>1 DEF Live
<1>4. OrderInv'
  <2> SUFFICES ASSUME NEW q \in Queries
               PROVE  /\ \A u, v \in Runs : warm'[u][q].pc # "idle" /\ warm'[v][q].pc # "idle" => u = v
                      /\ \A e, f \in remote'[q] : e = f
                      /\ \A e \in remote'[q] :
                           /\ e.val <= now'
                           /\ \A v \in Runs : Carried(v, q)' => e.val <= warm'[v][q].val
    BY DEF OrderInv
  <2>1. \A e \in remote'[q] : e.val \in Nat
    BY <1>3 DEF ResponseTypes, Response
  <2> QED BY <1>1, <1>3, <2>1 DEF ResponseInv, OrderInv, Carried
<1>5. ASSUME NEW q \in Queries, NEW e \in remote[q], NEW f \in remote'[q]
      PROVE e.val <= f.val
  <2>1. e = f
    BY <1>3, <1>5 DEF ResponseInv, OrderInv
  <2>2. e.val \in Nat
    BY <1>5 DEF ResponseTypes, Response
  <2> QED BY <2>1, <2>2
<1>6. \A q \in Queries : Advance(q)
  BY <1>5 DEF Advance
<1> QED BY <1>2, <1>4, <1>6 DEF ResponseInv

LEMMA ResponseStep ==
  TypeInv /\ ResponseInv /\ [Next]_vars => ResponseInv' /\ \A q \in Queries : Advance(q)
<1> SUFFICES ASSUME TypeInv, ResponseInv, [Next]_vars
             PROVE  ResponseInv' /\ \A q \in Queries : Advance(q)
  OBVIOUS
<1>t. ResponseTypes /\ ResponseTypes'
  BY KeepsTypes, TypeStep, PTL
<1>1. ASSUME UNCHANGED <<now, remote, local, warm>>
      PROVE  ResponseInv' /\ \A q \in Queries : Advance(q)
  BY <1>t, <1>1, QuietStep
<1>2. ASSUME NEW t \in Requests,
             \/ CacheBody(t) \/ Add(t) \/ Open(t) \/ SetTtl(t) \/ Respond(t) \/ Fail(t)
             \/ \E q \in Queries : Count(t, q)
      PROVE  ResponseInv' /\ \A q \in Queries : Advance(q)
  BY <1>1, <1>2 DEF CacheBody, Add, Open, SetTtl, Respond, Finish, Fail, Count, Begin, cron
<1>3. ASSUME NEW w \in Runs, RangeCurrent(w) \/ RunFails(w)
      PROVE  ResponseInv' /\ \A q \in Queries : Advance(q)
  BY <1>1, <1>3 DEF RangeCurrent, RunFails
<1>4. ASSUME NEW w \in Runs, NEW q \in Queries, GetBody(w, q) \/ WarmEnds(w, q)
      PROVE  ResponseInv' /\ \A r \in Queries : Advance(r)
  <2>1. UNCHANGED <<now, remote, local>>
    BY <1>4 DEF GetBody, WarmEnds
  <2>2. ASSUME NEW v \in Runs, NEW r \in Queries
        PROVE  \/ warm'[v][r] = warm[v][r]
               \/ warm'[v][r].pc = "idle"
               \/ warm'[v][r].pc \in {"body", "post"} /\ warm[v][r].pc # "idle"
    <3>1. warm \in [Runs -> [Queries -> WarmState]]
      BY <1>t DEF ResponseTypes
    <3>2. warm[w] \in [Queries -> WarmState] /\ warm[w][q] \in WarmState
      BY <3>1
    <3>3. ASSUME GetBody(w, q)
          PROVE  \/ warm'[v][r] = warm[v][r]
                 \/ warm'[v][r].pc \in {"body", "post"} /\ warm[v][r].pc # "idle"
      <4>1. warm[w][q].pc = "body" /\ warm' = [warm EXCEPT ![w][q].pc = "post"]
        BY <3>3 DEF GetBody, Warming
      <4>2. [warm[w][q] EXCEPT !.pc = "post"].pc = "post"
        BY <3>2 DEF WarmState
      <4>3. CASE v = w /\ r = q
        BY <3>1, <3>2, <4>1, <4>2, <4>3
      <4>4. CASE ~(v = w /\ r = q)
        BY <3>1, <3>2, <4>1, <4>4
      <4> QED BY <4>3, <4>4
    <3>4. ASSUME WarmEnds(w, q)
          PROVE  warm'[v][r] = warm[v][r] \/ warm'[v][r].pc = "idle"
      <4>1. warm' = [warm EXCEPT ![w][q] = NoWarm]
        BY <3>4 DEF WarmEnds, EndWarm
      <4>2. CASE v = w /\ r = q
        BY <3>1, <3>2, <4>1, <4>2 DEF NoWarm
      <4>3. CASE ~(v = w /\ r = q)
        BY <3>1, <3>2, <4>1, <4>3
      <4> QED BY <4>2, <4>3
    <3> QED BY <1>4, <3>3, <3>4
  <2> QED BY <1>t, <2>1, <2>2, QuietStep
<1>5. ASSUME NEW p \in Procs \cup {WarmerHome}, Crash(p)
      PROVE  ResponseInv' /\ \A q \in Queries : Advance(q)
  <2>1. UNCHANGED <<now, remote>>
    BY <1>5 DEF Crash
  <2>2. \A q \in Queries : local'[q] \subseteq local[q]
    BY <1>5 DEF Crash
  <2>3. \A v \in Runs, r \in Queries : warm'[v][r] = warm[v][r] \/ warm'[v][r].pc = "idle"
    BY <1>5 DEF Crash, NoWarm
  <2> QED BY <1>t, <2>1, <2>2, <2>3, QuietStep
<1>6. CASE UNCHANGED vars
  BY <1>1, <1>6 DEF vars, cron
<1> QED BY <1>t, <1>2, <1>3, <1>4, <1>5, <1>6, LaunchStep, ServeStep, StoreStep, TickStep DEF Next

\* What the cache of responses starts with and what follows from its invariant.
LEMMA ResponseBase ==
  /\ Init => ResponseInv
  /\ TypeInv /\ ResponseInv => FreshResponses
<1>1. ASSUME Init PROVE ResponseInv
  BY <1>1 DEF Init, NoWarm, ResponseInv, FreshInv, OrderInv, Carried
<1>2. ASSUME TypeInv, ResponseInv PROVE FreshResponses
  <2> SUFFICES ASSUME NEW q \in Queries, NEW e \in remote[q] \cup local[q]
               PROVE  now - e.val < ResponseTtl + MaxAwait
    BY DEF FreshResponses
  <2>0. now \in Nat /\ e \in Response
    BY <1>2 DEF TypeInv, TypeOK
  <2>1. e.val \in Nat /\ e.expires \in Nat
    BY <2>0 DEF Response
  <2>2. now < e.expires /\ e.expires <= e.val + MaxAwait + ResponseTtl
    BY <1>2 DEF ResponseInv, FreshInv
  <2> QED BY <2>0, <2>1, <2>2, TtlAssumption, AwaitAssumption
<1> QED BY <1>1, <1>2

\* The age of a response is bounded by its ttl and one await.
THEOREM FreshResponsesHold == Spec => []FreshResponses
BY TypeInit, TypeStep, ResponseStep, ResponseBase, PTL DEF Spec

\* Overlapping runs of the cron never replace a response by an older one.
THEOREM ResponsesAdvanceHolds == Spec => ResponsesAdvance
<1>1. TypeInv /\ ResponseInv /\ [Next]_vars
        => [\A q \in Queries : \A e \in remote[q], f \in remote'[q] : e.val <= f.val]_vars
  BY ResponseStep DEF Advance
<1> QED BY <1>1, TypeInit, TypeStep, ResponseStep, ResponseBase, PTL DEF Spec, ResponsesAdvance
----------------------------------------------------------------------------
(* Counts.                                                                 *)

\* What requests with a full batch are about to add, a unit for each request counted.
InBatch(m, q) ==
  {u \in Requests \X (1..Batch) :
     req[u[1]].pc \in {"body", "add"} /\ MinuteOf(u[1]) = m /\ req[u[1]].query = q}

\* What counters hold towards a batch.
InCounter(m, q) ==
  {u \in Procs \X (1..Batch) : hits[u[1]][m][q] < Batch /\ u[2] <= hits[u[1]][m][q]}

\* A request is counted once: in the ranking, in a batch on its way there, or in a counter.
Ledger(m, q) ==
  /\ IsFiniteSet(InBatch(m, q)) /\ IsFiniteSet(InCounter(m, q))
  /\ score[m][q] + Cardinality(InBatch(m, q)) + Cardinality(InCounter(m, q)) <= asked[m][q]

LedgerInv == \A m \in Minutes, q \in Queries : Ledger(m, q)

\* A batch on its way is worth something: its counter is not reset before it is read.
AddedInv ==
  /\ \A m \in Minutes, q \in Queries : adds[m][q] <= score[m][q]
  /\ \A t \in Requests : req[t].pc \in {"body", "add"} =>
       /\ hits[Home[t]][MinuteOf(t)][req[t].query] >= 1
       /\ MinuteOf(t) = Minute(now) => MinuteOf(t) \in kept[Home[t]]

LEMMA Smaller ==
  ASSUME NEW S, IsFiniteSet(S), NEW T, T \subseteq S
  PROVE  IsFiniteSet(T) /\ Cardinality(T) <= Cardinality(S)
BY FS_Subset

LEMMA Taken ==
  ASSUME NEW S, IsFiniteSet(S), NEW A, A \subseteq S, NEW T, T \subseteq S \ A
  PROVE  IsFiniteSet(T) /\ Cardinality(T) <= Cardinality(S) - Cardinality(A)
<1>1. S \cap A = A
  OBVIOUS
<1>2. IsFiniteSet(S \ A) /\ Cardinality(S \ A) = Cardinality(S) - Cardinality(A)
  BY <1>1, FS_Difference
<1> QED BY <1>2, Smaller

LEMMA Given ==
  ASSUME NEW S, IsFiniteSet(S), NEW B, IsFiniteSet(B), NEW T, T \subseteq S \cup B
  PROVE  IsFiniteSet(T) /\ Cardinality(T) <= Cardinality(S) + Cardinality(B)
<1>1. /\ IsFiniteSet(S \cup B)
      /\ Cardinality(S \cup B) = Cardinality(S) + Cardinality(B) - Cardinality(S \cap B)
  BY FS_Union
<1>2. IsFiniteSet(S \cap B)
  BY FS_Intersection
<1>3. /\ Cardinality(S \cap B) \in Nat /\ Cardinality(S) \in Nat /\ Cardinality(B) \in Nat
  BY <1>2, FS_CardinalityType
<1>4. IsFiniteSet(T) /\ Cardinality(T) <= Cardinality(S \cup B) /\ Cardinality(T) \in Nat
  BY <1>1, Smaller, FS_CardinalityType
<1> QED BY <1>1, <1>3, <1>4

LEMMA BlockSize ==
  ASSUME NEW x, NEW n \in Nat
  PROVE  IsFiniteSet({x} \X (1..n)) /\ Cardinality({x} \X (1..n)) = n
<1>1. IsFiniteSet(1..n) /\ Cardinality(1..n) = n
  BY FS_Interval
<1>2. IsFiniteSet({x}) /\ Cardinality({x}) = 1
  BY FS_Singleton
<1>3. /\ IsFiniteSet({x} \X (1..n))
      /\ Cardinality({x} \X (1..n)) = Cardinality({x}) * Cardinality(1..n)
  BY <1>1, <1>2, FS_Product
<1> QED BY <1>1, <1>2, <1>3

\* What is known of one entry of the ledger.
LEMMA LedgerTypes ==
  ASSUME TypeInv, LedgerInv, NEW m \in Minutes, NEW q \in Queries
  PROVE  /\ IsFiniteSet(InBatch(m, q)) /\ Cardinality(InBatch(m, q)) \in Nat
         /\ IsFiniteSet(InCounter(m, q)) /\ Cardinality(InCounter(m, q)) \in Nat
         /\ score[m][q] \in Nat /\ asked[m][q] \in Nat /\ adds[m][q] \in Nat
         /\ score[m][q] + Cardinality(InBatch(m, q)) + Cardinality(InCounter(m, q)) <= asked[m][q]
         /\ score[m][q] <= asked[m][q]
<1>1. /\ IsFiniteSet(InBatch(m, q)) /\ IsFiniteSet(InCounter(m, q))
      /\ score[m][q] + Cardinality(InBatch(m, q)) + Cardinality(InCounter(m, q)) <= asked[m][q]
  BY DEF LedgerInv, Ledger
<1>2. /\ Cardinality(InBatch(m, q)) \in Nat /\ Cardinality(InCounter(m, q)) \in Nat
  BY <1>1, FS_CardinalityType
<1>3. score[m][q] \in Nat /\ asked[m][q] \in Nat /\ adds[m][q] \in Nat
  BY DEF TypeInv, TypeOK
<1> QED BY <1>1, <1>2, <1>3

\* An entry that only loses units.
LEMMA LedgerShrinks ==
  ASSUME TypeInv, LedgerInv, NEW m \in Minutes, NEW q \in Queries,
         InBatch(m, q)' \subseteq InBatch(m, q), InCounter(m, q)' \subseteq InCounter(m, q),
         score'[m][q] \in Nat, score'[m][q] <= score[m][q], asked'[m][q] = asked[m][q]
  PROVE  Ledger(m, q)'
<1> DEFINE b == InBatch(m, q)
           c == InCounter(m, q)
<1>1. /\ IsFiniteSet(b') /\ Cardinality(b') <= Cardinality(b)
      /\ IsFiniteSet(c') /\ Cardinality(c') <= Cardinality(c)
  BY LedgerTypes, Smaller
<1>2. Cardinality(b') \in Nat /\ Cardinality(c') \in Nat
  BY <1>1, FS_CardinalityType
<1>3. PICK i \in Nat, j \in Nat : i = Cardinality(b') /\ j = Cardinality(c')
  BY <1>2
<1>4. score'[m][q] + i + j <= asked'[m][q]
  <2>1. /\ Cardinality(b) \in Nat /\ Cardinality(c) \in Nat
        /\ score[m][q] \in Nat /\ asked[m][q] \in Nat
        /\ score[m][q] + Cardinality(b) + Cardinality(c) <= asked[m][q]
    BY LedgerTypes
  <2>2. PICK s \in Nat : s = score'[m][q]
    OBVIOUS
  <2> HIDE DEF b, c
  <2> QED BY <1>1, <1>3, <2>1, <2>2
<1> QED BY <1>1, <1>3, <1>4 DEF Ledger

\* Request t is counted as the n-th of its batch.
LEMMA LedgerCount ==
  ASSUME TypeInv, LedgerInv, NEW t \in Requests, NEW q \in Queries, Count(t, q)
  PROVE  LedgerInv'
<1>0. /\ Minute(now) \in Minutes /\ Home[t] \in Procs /\ Batch \in Nat \ {0}
      /\ hits \in [Procs -> [Minutes -> [Queries -> 0..Batch]]]
      /\ req \in [Requests -> RequestState]
      /\ asked \in [Minutes -> [Queries -> Nat]]
  BY NowTypes, RequestTypes, BatchAssumption DEF TypeInv, TypeOK
<1>1. PICK m \in Minutes, p \in Procs : m = Minute(now) /\ p = Home[t]
  BY <1>0
<1>2. PICK f \in 0..Batch, n \in 1..Batch :
        /\ f = Found(t, q) /\ n = IF f < Batch THEN f + 1 ELSE 1
        /\ f = IF m \in kept[p] THEN hits[p][m][q] ELSE 0
  <2>1. Found(t, q) \in 0..Batch
    BY <1>0, <1>1 DEF Found
  <2>2. Found(t, q) = IF m \in kept[p] THEN hits[p][m][q] ELSE 0
    BY <1>1 DEF Found
  <2>3. PICK f \in 0..Batch : f = Found(t, q)
    BY <2>1
  <2>4. (IF f < Batch THEN f + 1 ELSE 1) \in 1..Batch
    BY <1>0
  <2> QED BY <2>2, <2>3, <2>4
<1>3. /\ req[t].pc = "idle"
      /\ hits' = IF m \notin kept[p] THEN [hits EXCEPT ![p][m] = [r \in Queries |-> IF r = q THEN n ELSE 0]]
                 ELSE [hits EXCEPT ![p][m][q] = n]
      /\ asked' = [asked EXCEPT ![m][q] = @ + 1]
      /\ UNCHANGED score
      /\ \E pc \in {"body", "open", "respond"}, first \in BOOLEAN :
           /\ pc = "body" <=> n >= Batch
           /\ req' = [req EXCEPT ![t] = [pc |-> pc, at |-> now, query |-> q, first |-> first]]
  BY <1>1, <1>2 DEF Count, Begin, At, rank, AfterBatch
<1>20. Batch \in Nat \ {0} /\ n = IF f < Batch THEN f + 1 ELSE 1
  BY BatchAssumption, <1>2
<1>4. n >= Batch => n = Batch /\ (f < Batch => f = Batch - 1) /\ (f = Batch => Batch = 1)
  BY <1>20
<1>5. n < Batch => (f < Batch => n = f + 1) /\ (f = Batch => n = 1)
  BY <1>20
<1>6. \A s \in Procs, i \in Minutes, r \in Queries :
        \/ s = p /\ i = m /\ r = q /\ hits'[s][i][r] = n
        \/ ~(s = p /\ i = m /\ r = q) /\ hits'[s][i][r] \in {0, hits[s][i][r]}
  BY <1>0, <1>1, <1>3
<1>7. /\ asked'[m][q] = asked[m][q] + 1
      /\ \A i \in Minutes, r \in Queries : ~(i = m /\ r = q) => asked'[i][r] = asked[i][r]
  BY <1>0, <1>1, <1>3
<1>8. /\ \A u \in Requests : u # t => req'[u] = req[u] /\ MinuteOf(u)' = MinuteOf(u)
      /\ req'[t].pc = "body" <=> n >= Batch
      /\ req'[t].pc # "add" /\ req'[t].query = q /\ MinuteOf(t)' = m
  BY <1>0, <1>1, <1>3 DEF MinuteOf
<1>9. ASSUME NEW i \in Minutes, NEW r \in Queries, ~(i = m /\ r = q) PROVE Ledger(i, r)'
  <2>1. InBatch(i, r)' \subseteq InBatch(i, r)
    <3> SUFFICES ASSUME NEW u \in InBatch(i, r)' PROVE u \in InBatch(i, r)
      OBVIOUS
    <3>1. u \in Requests \X (1..Batch) /\ u[1] \in Requests
      BY DEF InBatch
    <3>2. u[1] # t
      BY <1>8, <1>9 DEF InBatch
    <3> QED BY <1>8, <3>1, <3>2 DEF InBatch
  <2>2. InCounter(i, r)' \subseteq InCounter(i, r)
    <3> SUFFICES ASSUME NEW u \in InCounter(i, r)' PROVE u \in InCounter(i, r)
      OBVIOUS
    <3>1. u \in Procs \X (1..Batch) /\ u[1] \in Procs /\ u[2] \in 1..Batch
          /\ hits'[u[1]][i][r] < Batch /\ u[2] <= hits'[u[1]][i][r]
      BY DEF InCounter
    <3>2. hits'[u[1]][i][r] = hits[u[1]][i][r]
      BY <1>6, <1>9, <3>1
    <3> QED BY <3>1, <3>2 DEF InCounter
  <2>3. score'[i][r] \in Nat /\ score'[i][r] <= score[i][r] /\ asked'[i][r] = asked[i][r]
    BY <1>3, <1>7, <1>9, LedgerTypes
  <2> QED BY <2>1, <2>2, <2>3, LedgerShrinks
<1> DEFINE b == InBatch(m, q)
           c == InCounter(m, q)
<1>10. /\ IsFiniteSet(b) /\ IsFiniteSet(c) /\ Cardinality(b) \in Nat /\ Cardinality(c) \in Nat
       /\ score[m][q] \in Nat /\ asked[m][q] \in Nat
       /\ score[m][q] + Cardinality(b) + Cardinality(c) <= asked[m][q]
  BY <1>0, <1>1, LedgerTypes
<1>11. ASSUME IsFiniteSet(b'), IsFiniteSet(c'),
              Cardinality(b') + Cardinality(c') <= Cardinality(b) + Cardinality(c) + 1
       PROVE  Ledger(m, q)'
  <2>1. Cardinality(b') \in Nat /\ Cardinality(c') \in Nat
    BY <1>11, FS_CardinalityType
  <2>2. PICK i \in Nat, j \in Nat : i = Cardinality(b') /\ j = Cardinality(c')
    BY <2>1
  <2>3. score'[m][q] + i + j <= asked'[m][q]
    <3> HIDE DEF b, c
    <3> QED BY <1>3, <1>7, <1>10, <1>11, <2>2
  <2> QED BY <1>11, <2>2, <2>3 DEF Ledger
<1>12. ASSUME n < Batch PROVE Ledger(m, q)'
  <2>1. b' \subseteq b
    <3> SUFFICES ASSUME NEW u \in InBatch(m, q)' PROVE u \in InBatch(m, q)
      OBVIOUS
    <3>1. u \in Requests \X (1..Batch) /\ u[1] \in Requests /\ u[1] # t
      BY <1>0, <1>1, <1>2, <1>8, <1>12 DEF InBatch
    <3> QED BY <1>8, <3>1 DEF InBatch
  <2>2. c' \subseteq c \cup {<<p, n>>}
    <3> SUFFICES ASSUME NEW u \in InCounter(m, q)', u # <<p, n>> PROVE u \in InCounter(m, q)
      OBVIOUS
    <3>1. u \in Procs \X (1..Batch) /\ u[1] \in Procs /\ u[2] \in 1..Batch /\ u = <<u[1], u[2]>>
          /\ hits'[u[1]][m][q] < Batch /\ u[2] <= hits'[u[1]][m][q]
      BY DEF InCounter
    <3>2. CASE u[1] = p
      <4>1. u[2] <= n /\ u[2] # n
        BY <1>0, <1>1, <1>6, <3>1, <3>2
      <4>2. u[2] <= f /\ f < Batch /\ f = hits[p][m][q]
        <5>1. PICK i \in 1..Batch : i = u[2]
          BY <3>1
        <5>2. i <= n /\ i # n
          BY <4>1, <5>1
        <5>3. i <= f /\ f < Batch /\ f # 0
          BY <1>5, <1>12, <5>2, BatchAssumption
        <5> QED BY <1>2, <5>1, <5>3
      <4> QED BY <3>1, <3>2, <4>2 DEF InCounter
    <3>3. CASE u[1] # p
      <4>1. hits'[u[1]][m][q] = hits[u[1]][m][q]
        BY <1>0, <1>1, <1>6, <3>1, <3>3
      <4> QED BY <3>1, <4>1 DEF InCounter
    <3> QED BY <3>2, <3>3
  <2>3. IsFiniteSet({<<p, n>>}) /\ Cardinality({<<p, n>>}) = 1
    BY FS_Singleton
  <2> HIDE DEF b, c
  <2>4. /\ IsFiniteSet(b') /\ Cardinality(b') <= Cardinality(b)
        /\ IsFiniteSet(c') /\ Cardinality(c') <= Cardinality(c) + 1
    BY <1>10, <2>1, <2>2, <2>3, Smaller, Given
  <2>5. Cardinality(b') \in Nat /\ Cardinality(c') \in Nat
    BY <2>4, FS_CardinalityType
  <2>6. Cardinality(b') + Cardinality(c') <= Cardinality(b) + Cardinality(c) + 1
    BY <1>10, <2>4, <2>5
  <2> QED BY <1>11, <2>4, <2>6
<1>13. ASSUME n >= Batch PROVE Ledger(m, q)'
  <2> DEFINE A == {p} \X (1..(Batch - 1))
             B == {t} \X (1..Batch)
  <2>1. b' \subseteq b \cup B
    <3> SUFFICES ASSUME NEW u \in InBatch(m, q)', u \notin B PROVE u \in InBatch(m, q)
      OBVIOUS
    <3>1. u \in Requests \X (1..Batch) /\ u[1] \in Requests /\ u[1] # t
      BY DEF InBatch
    <3> QED BY <1>8, <3>1 DEF InBatch
  <2>2. A \subseteq c
    <3> SUFFICES ASSUME NEW u \in A PROVE u \in InCounter(m, q)
      OBVIOUS
    <3>1. u[1] = p /\ u[2] \in 1..(Batch - 1) /\ u = <<u[1], u[2]>>
      OBVIOUS
    <3>2. u \in Procs \X (1..Batch)
      BY <1>0, <1>1, <3>1
    <3>3. f = Batch - 1 /\ f = hits[p][m][q]
      BY <1>0, <1>1, <1>2, <1>4, <1>13, <3>1
    <3> QED BY <1>0, <1>1, <3>1, <3>2, <3>3 DEF InCounter
  <2>3. c' \subseteq c \ A
    <3> SUFFICES ASSUME NEW u \in InCounter(m, q)' PROVE u \in InCounter(m, q) /\ u \notin A
      OBVIOUS
    <3>1. u \in Procs \X (1..Batch) /\ u[1] \in Procs /\ u[2] \in 1..Batch
          /\ hits'[u[1]][m][q] < Batch /\ u[2] <= hits'[u[1]][m][q]
      BY DEF InCounter
    <3>2. u[1] # p
      BY <1>0, <1>1, <1>4, <1>6, <1>13, <3>1
    <3>3. hits'[u[1]][m][q] = hits[u[1]][m][q]
      BY <1>0, <1>1, <1>6, <3>1, <3>2
    <3> QED BY <3>1, <3>2, <3>3 DEF InCounter
  <2>4. /\ IsFiniteSet(A) /\ Cardinality(A) = Batch - 1
        /\ IsFiniteSet(B) /\ Cardinality(B) = Batch
    <3>1. Batch \in Nat /\ Batch - 1 \in Nat
      BY <1>0
    <3> QED BY <3>1, BlockSize
  <2> HIDE DEF b, c, A, B
  <2>5. /\ IsFiniteSet(b') /\ Cardinality(b') <= Cardinality(b) + Batch
        /\ IsFiniteSet(c') /\ Cardinality(c') <= Cardinality(c) - (Batch - 1)
    BY <1>10, <2>1, <2>2, <2>3, <2>4, Taken, Given
  <2>6. Cardinality(b') \in Nat /\ Cardinality(c') \in Nat
    BY <2>5, FS_CardinalityType
  <2>7. Cardinality(b') + Cardinality(c') <= Cardinality(b) + Cardinality(c) + 1
    BY <1>0, <1>10, <2>5, <2>6
  <2> QED BY <1>11, <2>5, <2>7
<1>14. Ledger(m, q)'
  BY <1>0, <1>12, <1>13
<1> QED BY <1>9, <1>14 DEF LedgerInv

\* A batch reaches the ranking, with what its counter says by then.
LEMMA LedgerAdd ==
  ASSUME TypeInv, LedgerInv, NEW t \in Requests, Add(t)
  PROVE  LedgerInv'
<1>1. /\ req[t].pc = "add" /\ MinuteOf(t) \in Minutes /\ req[t].query \in Queries
      /\ Home[t] \in Procs /\ Batch \in Nat \ {0}
      /\ hits \in [Procs -> [Minutes -> [Queries -> 0..Batch]]]
      /\ req \in [Requests -> RequestState]
      /\ score \in [Minutes -> [Queries -> Nat]]
  BY RequestTypes, BatchAssumption DEF Add, At, TypeInv, TypeOK, Timely
<1>2. PICK m \in Minutes, q \in Queries, h \in 0..Batch :
        /\ m = MinuteOf(t) /\ q = req[t].query /\ h = hits[Home[t]][MinuteOf(t)][req[t].query]
  BY <1>1
<1>3. /\ score' = [score EXCEPT ![m][q] = @ + h]
      /\ UNCHANGED <<hits, asked>>
      /\ \E pc \in {"open", "respond"} : req' = [req EXCEPT ![t].pc = pc]
  BY <1>2 DEF Add, ZIncrement, Goto, AfterBatch
<1>4. /\ score'[m][q] = score[m][q] + h
      /\ \A i \in Minutes, r \in Queries : ~(i = m /\ r = q) => score'[i][r] = score[i][r]
  BY <1>1, <1>3
<1>5. /\ \A u \in Requests : u # t => req'[u] = req[u] /\ MinuteOf(u)' = MinuteOf(u)
      /\ req'[t].pc \in {"open", "respond"}
  BY <1>1, <1>3 DEF MinuteOf, RequestState
<1>6. ASSUME NEW i \in Minutes, NEW r \in Queries
      PROVE  /\ \A u \in InBatch(i, r)' : u \in InBatch(i, r) /\ u[1] # t
             /\ InCounter(i, r)' = InCounter(i, r)
  <2>1. ASSUME NEW u \in InBatch(i, r)' PROVE u \in InBatch(i, r) /\ u[1] # t
    <3>1. u \in Requests \X (1..Batch) /\ u[1] \in Requests /\ u[1] # t
      BY <1>5 DEF InBatch
    <3> QED BY <1>5, <3>1 DEF InBatch
  <2> QED BY <1>3, <2>1 DEF InCounter
<1>7. ASSUME NEW i \in Minutes, NEW r \in Queries, ~(i = m /\ r = q) PROVE Ledger(i, r)'
  <2>1. InBatch(i, r)' \subseteq InBatch(i, r) /\ InCounter(i, r)' \subseteq InCounter(i, r)
    BY <1>6
  <2>2. score'[i][r] \in Nat /\ score'[i][r] <= score[i][r] /\ asked'[i][r] = asked[i][r]
    BY <1>3, <1>4, <1>7, LedgerTypes
  <2> QED BY <2>1, <2>2, LedgerShrinks
<1>8. Ledger(m, q)'
  <2> DEFINE b == InBatch(m, q)
             c == InCounter(m, q)
             A == {t} \X (1..Batch)
  <2>1. A \subseteq b
    <3> SUFFICES ASSUME NEW u \in A PROVE u \in InBatch(m, q)
      OBVIOUS
    <3> QED BY <1>1, <1>2 DEF InBatch
  <2>2. b' \subseteq b \ A
    <3> SUFFICES ASSUME NEW u \in InBatch(m, q)' PROVE u \in InBatch(m, q) /\ u \notin A
      OBVIOUS
    <3> QED BY <1>6
  <2>3. IsFiniteSet(A) /\ Cardinality(A) = Batch
    BY <1>1, BlockSize
  <2>4. /\ IsFiniteSet(b) /\ IsFiniteSet(c) /\ Cardinality(b) \in Nat /\ Cardinality(c) \in Nat
        /\ score[m][q] \in Nat /\ asked[m][q] \in Nat
        /\ score[m][q] + Cardinality(b) + Cardinality(c) <= asked[m][q]
    BY LedgerTypes
  <2>5. c' = c
    BY <1>6
  <2> HIDE DEF A, b, c
  <2>6. IsFiniteSet(b') /\ Cardinality(b') <= Cardinality(b) - Batch
    BY <2>1, <2>2, <2>3, <2>4, Taken
  <2>7. Cardinality(b') \in Nat
    BY <2>6, FS_CardinalityType
  <2>8. score'[m][q] + Cardinality(b') + Cardinality(c') <= asked'[m][q]
    BY <1>1, <1>3, <1>4, <2>4, <2>5, <2>6, <2>7
  <2>9. IsFiniteSet(c')
    BY <2>4, <2>5
  <2> QED BY <2>6, <2>8, <2>9 DEF Ledger, b, c
<1> QED BY <1>7, <1>8 DEF LedgerInv

\* Nothing but a count or a batch added lets an entry grow.
LEMMA LedgerQuiet ==
  ASSUME TypeInv, TypeInv', LedgerInv,
         UNCHANGED asked,
         \A m \in Minutes, q \in Queries : score'[m][q] <= score[m][q],
         \A t \in Requests :
           \/ req'[t].at = req[t].at /\ req'[t].query = req[t].query
              /\ (req'[t].pc \in {"body", "add"} => req[t].pc \in {"body", "add"})
           \/ req'[t].pc = "idle",
         \A p \in Procs, m \in Minutes, q \in Queries : hits'[p][m][q] \in {0, hits[p][m][q]}
  PROVE  LedgerInv'
<1> SUFFICES ASSUME NEW m \in Minutes, NEW q \in Queries PROVE Ledger(m, q)'
  BY DEF LedgerInv
<1>1. InBatch(m, q)' \subseteq InBatch(m, q)
  <2> SUFFICES ASSUME NEW u \in InBatch(m, q)' PROVE u \in InBatch(m, q)
    OBVIOUS
  <2>1. u \in Requests \X (1..Batch) /\ u[1] \in Requests
    BY DEF InBatch
  <2> QED BY <2>1 DEF InBatch, MinuteOf
<1>2. InCounter(m, q)' \subseteq InCounter(m, q)
  <2> SUFFICES ASSUME NEW u \in InCounter(m, q)' PROVE u \in InCounter(m, q)
    OBVIOUS
  <2>1. u \in Procs \X (1..Batch) /\ u[1] \in Procs /\ u[2] \in 1..Batch
        /\ hits'[u[1]][m][q] < Batch /\ u[2] <= hits'[u[1]][m][q]
    BY DEF InCounter
  <2>2. hits'[u[1]][m][q] = hits[u[1]][m][q]
    BY <2>1
  <2> QED BY <2>1, <2>2 DEF InCounter
<1>3. score'[m][q] \in Nat
  BY DEF TypeInv, TypeOK
<1> QED BY <1>1, <1>2, <1>3, LedgerShrinks

LEMMA LedgerStep == TypeInv /\ LedgerInv /\ [Next]_vars => LedgerInv'
<1> SUFFICES ASSUME TypeInv, LedgerInv, [Next]_vars PROVE LedgerInv'
  OBVIOUS
<1>t. /\ TypeInv'
      /\ req \in [Requests -> RequestState]
      /\ score \in [Minutes -> [Queries -> Nat]]
      /\ score' \in [Minutes -> [Queries -> Nat]]
      /\ hits \in [Procs -> [Minutes -> [Queries -> 0..Batch]]]
  BY TypeStep DEF TypeInv, TypeOK
<1>1. ASSUME UNCHANGED <<asked, score, req, hits>> PROVE LedgerInv'
  <2>1. \A m \in Minutes, q \in Queries : score'[m][q] <= score[m][q]
    BY <1>1, <1>t
  <2> QED BY <1>t, <1>1, <2>1, LedgerQuiet
<1>2. ASSUME NEW t \in Requests, NEW q \in Queries, Count(t, q) PROVE LedgerInv'
  BY <1>2, LedgerCount
<1>3. ASSUME NEW t \in Requests, Add(t) PROVE LedgerInv'
  BY <1>3, LedgerAdd
<1>4. ASSUME NEW t \in Requests, CacheBody(t) \/ Open(t) \/ SetTtl(t) PROVE LedgerInv'
  <2>1. UNCHANGED <<asked, hits>>
    BY <1>4 DEF CacheBody, Open, SetTtl
  <2>2. \A m \in Minutes, q \in Queries : score'[m][q] <= score[m][q]
    <3>1. CASE Open(t)
      <4>1. PICK m, q : score' = [score EXCEPT ![m][q] = score[m][q] + 0]
        BY <3>1 DEF Open, ZIncrement
      <4> QED BY <1>t, <4>1
    <3>2. CASE CacheBody(t) \/ SetTtl(t)
      <4>1. score' = score
        BY <3>2 DEF CacheBody, SetTtl, rank
      <4> QED BY <1>t, <4>1
    <3> QED BY <1>4, <3>1, <3>2
  <2>3. \E pc \in {"add", "ttl", "respond"} :
           /\ req' = [req EXCEPT ![t].pc = pc]
           /\ pc = "add" => req[t].pc = "body"
    BY <1>4 DEF CacheBody, Open, SetTtl, Goto, At
  <2>4. \A u \in Requests :
          /\ req'[u].at = req[u].at /\ req'[u].query = req[u].query
          /\ req'[u].pc \in {"body", "add"} => req[u].pc \in {"body", "add"}
    BY <1>t, <2>3 DEF RequestState
  <2> QED BY <1>t, <2>1, <2>2, <2>4, LedgerQuiet
<1>5. ASSUME NEW t \in Requests, Respond(t) \/ Fail(t) PROVE LedgerInv'
  <2>1. UNCHANGED <<asked, hits, score>>
    BY <1>5 DEF Respond, Finish, Fail, rank
  <2>2. \A u \in Requests : req'[u] = req[u] \/ req'[u].pc = "idle"
    BY <1>5, <1>t DEF Respond, Finish, Fail, Break, NoRequest
  <2>3. \A m \in Minutes, q \in Queries : score'[m][q] <= score[m][q]
    BY <2>1, <1>t
  <2> QED BY <1>t, <2>1, <2>2, <2>3, LedgerQuiet
<1>6. ASSUME Tick PROVE LedgerInv'
  <2>1. UNCHANGED <<asked, hits, req>>
    BY <1>6 DEF Tick, web
  <2>2. \A m \in Minutes, q \in Queries : score'[m][q] \in {0, score[m][q]}
    BY <1>6, <1>t DEF Tick
  <2>3. \A m \in Minutes, q \in Queries : score'[m][q] <= score[m][q]
    BY <2>2, <1>t
  <2> QED BY <1>t, <2>1, <2>3, LedgerQuiet
<1>7. ASSUME NEW p \in Procs \cup {WarmerHome}, Crash(p) PROVE LedgerInv'
  <2>1. UNCHANGED <<asked, score>>
    BY <1>7 DEF Crash, rank
  <2>2. \A u \in Requests : req'[u] = req[u] \/ req'[u].pc = "idle"
    BY <1>7, <1>t DEF Crash, Break, NoRequest
  <2>3. \A m \in Minutes, q \in Queries : score'[m][q] <= score[m][q]
    BY <2>1, <1>t
  <2>4. hits' = [hits EXCEPT ![p] = [m \in Minutes |-> [q \in Queries |-> 0]]]
    BY <1>7 DEF Crash
  <2>5. \A s \in Procs, m \in Minutes, q \in Queries : hits'[s][m][q] \in {0, hits[s][m][q]}
    BY <2>4, <1>t
  <2> QED BY <1>t, <2>1, <2>2, <2>3, <2>5, LedgerQuiet
<1>8. ASSUME NEW w \in Runs,
             \/ RangeCurrent(w) \/ RangePrevious(w) \/ RunFails(w)
             \/ \E q \in Queries : GetBody(w, q) \/ Serve(w, q) \/ Keep(w, q)
                                     \/ Store(w, q) \/ WarmEnds(w, q)
      PROVE  LedgerInv'
  BY <1>1, <1>8 DEF RangeCurrent, RangePrevious, Launch, RunFails, GetBody, Serve, Answer,
                    Keep, Store, WarmEnds, web, rank
<1>9. CASE UNCHANGED vars
  BY <1>1, <1>9 DEF vars, web, rank
<1> QED BY <1>2, <1>3, <1>4, <1>5, <1>6, <1>7, <1>8, <1>9 DEF Next

----------------------------------------------------------------------------
\* A batch on its way stays worth something when the counters change as they do.
LEMMA WorthStays ==
  ASSUME TypeInv, AddedInv, NEW t \in Requests, req'[t].pc \in {"body", "add"},
         req[t].pc \in {"body", "add"}, req'[t].at = req[t].at, req'[t].query = req[t].query,
         hits'[Home[t]][MinuteOf(t)][req[t].query] >= hits[Home[t]][MinuteOf(t)][req[t].query]
           \/ hits'[Home[t]][MinuteOf(t)][req[t].query] >= 1,
         now' \in Nat, now <= now',
         MinuteOf(t) = Minute(now) /\ MinuteOf(t) \in kept[Home[t]] =>
           MinuteOf(t) \in kept'[Home[t]],
         hits'[Home[t]][MinuteOf(t)][req[t].query] \in Nat
  PROVE  /\ hits'[Home[t]][MinuteOf(t)'][req'[t].query] >= 1
         /\ MinuteOf(t)' = Minute(now') => MinuteOf(t)' \in kept'[Home[t]]
<1>1. MinuteOf(t)' = MinuteOf(t) /\ MinuteOf(t) \in Minutes /\ MinuteOf(t) <= Minute(now)
      /\ req[t].query \in Queries /\ Home[t] \in Procs
  BY RequestTypes DEF MinuteOf, TypeInv, Timely
<1>2. /\ hits[Home[t]][MinuteOf(t)][req[t].query] >= 1
      /\ MinuteOf(t) = Minute(now) => MinuteOf(t) \in kept[Home[t]]
  BY DEF AddedInv
<1>3. hits[Home[t]][MinuteOf(t)][req[t].query] \in Nat
  BY <1>1, BatchAssumption DEF TypeInv, TypeOK
<1>4. PICK h \in Nat, k \in Nat :
        /\ h = hits[Home[t]][MinuteOf(t)][req[t].query]
        /\ k = hits'[Home[t]][MinuteOf(t)][req[t].query]
  BY <1>3
<1>5. k >= 1
  BY <1>2, <1>4
<1>6. now \in Nat /\ Minute(now) \in Nat /\ Minute(now') \in Nat /\ Minute(now) <= Minute(now')
  BY NowTypes, MinuteFacts, MinuteGrows
<1>7. MinuteOf(t) = Minute(now') => MinuteOf(t) = Minute(now)
  <2>1. MinuteOf(t) \in Nat
    BY <1>1, MinutesNat
  <2> QED BY <1>1, <1>6, <2>1
<1> QED BY <1>1, <1>2, <1>4, <1>5, <1>7

LEMMA AddedCount ==
  ASSUME TypeInv, TypeInv', AddedInv, NEW t \in Requests, NEW q \in Queries, Count(t, q)
  PROVE  AddedInv'
<1>0. /\ hits \in [Procs -> [Minutes -> [Queries -> 0..Batch]]]
      /\ req \in [Requests -> RequestState] /\ kept \in [Procs -> SUBSET Minutes]
      /\ now \in Nat /\ Batch \in Nat
      /\ hits' \in [Procs -> [Minutes -> [Queries -> 0..Batch]]]
  BY BatchAssumption DEF TypeInv, TypeOK
<1>1. PICK m \in Minutes, p \in Procs : m = Minute(now) /\ p = Home[t]
  BY NowTypes, RequestTypes
<1>2. PICK n \in Nat : n = IF Found(t, q) < Batch THEN Found(t, q) + 1 ELSE 1
  <2>1. Found(t, q) \in Nat
    BY <1>0, <1>1 DEF Found
  <2> QED BY <2>1
<1>3. n >= 1
  <2>1. Found(t, q) \in Nat
    BY <1>0, <1>1 DEF Found
  <2>2. PICK f \in Nat : f = Found(t, q)
    BY <2>1
  <2> QED BY <1>2, <2>2
<1>4. /\ hits' = IF m \notin kept[p] THEN [hits EXCEPT ![p][m] = [r \in Queries |-> IF r = q THEN n ELSE 0]]
                 ELSE [hits EXCEPT ![p][m][q] = n]
      /\ kept' = [kept EXCEPT ![p] = @ \cup {m}]
      /\ \E pc, first : req' = [req EXCEPT ![t] = [pc |-> pc, at |-> now, query |-> q, first |-> first]]
      /\ UNCHANGED <<now, score, adds>>
  BY <1>1, <1>2 DEF Count, Begin, rank
<1>5. ASSUME NEW u \in Requests, req'[u].pc \in {"body", "add"}
      PROVE  /\ hits'[Home[u]][MinuteOf(u)'][req'[u].query] >= 1
             /\ MinuteOf(u)' = Minute(now') => MinuteOf(u)' \in kept'[Home[u]]
  <2>1. CASE u = t
    <3>1. MinuteOf(u)' = m /\ req'[u].query = q /\ Home[u] = p
      BY <1>0, <1>1, <1>4, <2>1 DEF MinuteOf
    <3>2. hits'[p][m][q] = n
      BY <1>0, <1>4
    <3>3. m \in kept'[p]
      BY <1>0, <1>4
    <3> QED BY <1>3, <3>1, <3>2, <3>3
  <2>2. CASE u # t
    <3>1. req'[u] = req[u]
      BY <1>0, <1>4, <2>2
    <3>2. PICK i \in Minutes, s \in Procs, r \in Queries :
            i = MinuteOf(u) /\ s = Home[u] /\ r = req[u].query
      BY <1>5, <3>1, RequestTypes DEF TypeInv, Timely
    <3>3. hits[s][i][r] \in Nat /\ hits'[s][i][r] \in Nat
      BY <1>0
    <3>4. hits'[s][i][r] = hits[s][i][r] \/ hits'[s][i][r] >= 1
      <4>1. CASE s = p /\ i = m
        <5>1. m \in kept[p]
          BY <1>1, <1>5, <3>1, <3>2, <4>1 DEF AddedInv
        <5> QED BY <1>0, <1>3, <1>4, <4>1, <5>1
      <4>2. CASE ~(s = p /\ i = m)
        BY <1>0, <1>4, <4>2
      <4> QED BY <4>1, <4>2
    <3>5. kept[s] \subseteq kept'[s]
      BY <1>0, <1>4
    <3>6. hits'[s][i][r] >= hits[s][i][r] \/ hits'[s][i][r] >= 1
      BY <3>3, <3>4
    <3>7. now' \in Nat /\ now <= now'
      BY <1>0, <1>4
    <3> QED BY <1>5, <3>1, <3>2, <3>3, <3>5, <3>6, <3>7, WorthStays
  <2> QED BY <2>1, <2>2
<1>6. \A i \in Minutes, r \in Queries : adds'[i][r] <= score'[i][r]
  BY <1>4 DEF AddedInv
<1> QED BY <1>5, <1>6 DEF AddedInv

\* A step that leaves the counters and the minutes kept alone.
LEMMA AddedFrame ==
  ASSUME TypeInv, AddedInv, UNCHANGED <<hits, kept>>, now' \in Nat, now <= now',
         \A m \in Minutes, q \in Queries : adds'[m][q] <= score'[m][q],
         \A t \in Requests : req'[t].pc \in {"body", "add"} =>
           /\ req[t].pc \in {"body", "add"}
           /\ req'[t].at = req[t].at /\ req'[t].query = req[t].query
  PROVE  AddedInv'
<1>1. ASSUME NEW t \in Requests, req'[t].pc \in {"body", "add"}
      PROVE  /\ hits'[Home[t]][MinuteOf(t)'][req'[t].query] >= 1
             /\ MinuteOf(t)' = Minute(now') => MinuteOf(t)' \in kept'[Home[t]]
  <2>1. PICK i \in Minutes, s \in Procs, r \in Queries :
          i = MinuteOf(t) /\ s = Home[t] /\ r = req[t].query
    BY <1>1, RequestTypes DEF TypeInv, Timely
  <2>2. hits[s][i][r] \in Nat
    BY BatchAssumption DEF TypeInv, TypeOK
  <2>3. hits'[s][i][r] >= hits[s][i][r]
    BY <2>2
  <2> QED BY <1>1, <2>1, <2>2, <2>3, WorthStays
<1> QED BY <1>1 DEF AddedInv

\* A batch added counts once among the batches and at least once in the ranking.
LEMMA AddedAdd ==
  ASSUME TypeInv, AddedInv, NEW t \in Requests, Add(t)
  PROVE  AddedInv'
<1>1. /\ req[t].pc = "add" /\ MinuteOf(t) \in Minutes /\ req[t].query \in Queries
      /\ Home[t] \in Procs /\ Batch \in Nat /\ now \in Nat
      /\ hits \in [Procs -> [Minutes -> [Queries -> 0..Batch]]]
      /\ req \in [Requests -> RequestState]
      /\ score \in [Minutes -> [Queries -> Nat]]
      /\ adds \in [Minutes -> [Queries -> Nat]]
  BY RequestTypes, BatchAssumption DEF Add, At, TypeInv, TypeOK, Timely
<1>2. PICK m \in Minutes, q \in Queries, h \in 0..Batch :
        /\ m = MinuteOf(t) /\ q = req[t].query /\ h = hits[Home[t]][MinuteOf(t)][req[t].query]
  BY <1>1
<1>3. /\ score' = [score EXCEPT ![m][q] = @ + h]
      /\ adds' = [adds EXCEPT ![m][q] = @ + 1]
      /\ UNCHANGED <<hits, kept, now>>
      /\ \E pc \in {"open", "respond"} : req' = [req EXCEPT ![t].pc = pc]
  BY <1>2 DEF Add, ZIncrement, Goto, AfterBatch
<1>4. h >= 1
  BY <1>1, <1>2 DEF AddedInv
<1>5. ASSUME NEW i \in Minutes, NEW r \in Queries PROVE adds'[i][r] <= score'[i][r]
  <2>1. adds[i][r] \in Nat /\ score[i][r] \in Nat /\ adds[i][r] <= score[i][r]
    BY <1>1 DEF AddedInv
  <2>2. CASE i = m /\ r = q
    <3>1. adds'[i][r] = adds[i][r] + 1 /\ score'[i][r] = score[i][r] + h
      BY <1>1, <1>3, <2>2
    <3> QED BY <1>1, <1>4, <2>1, <3>1
  <2>3. CASE ~(i = m /\ r = q)
    <3>1. adds'[i][r] = adds[i][r] /\ score'[i][r] = score[i][r]
      BY <1>1, <1>3, <2>3
    <3> QED BY <2>1, <3>1
  <2> QED BY <2>2, <2>3
<1>6. \A u \in Requests : req'[u].pc \in {"body", "add"} => req'[u] = req[u]
  BY <1>1, <1>3 DEF RequestState
<1>7. now' \in Nat /\ now <= now'
  BY <1>1, <1>3
<1> QED BY <1>3, <1>5, <1>6, <1>7, AddedFrame

LEMMA AddedStep == TypeInv /\ AddedInv /\ [Next]_vars => AddedInv'
<1> SUFFICES ASSUME TypeInv, AddedInv, [Next]_vars PROVE AddedInv'
  OBVIOUS
<1>t. /\ TypeInv'
      /\ req \in [Requests -> RequestState]
      /\ score \in [Minutes -> [Queries -> Nat]]
      /\ adds \in [Minutes -> [Queries -> Nat]]
      /\ kept \in [Procs -> SUBSET Minutes]
      /\ now \in Nat /\ now' \in Nat
  BY TypeStep DEF TypeInv, TypeOK
<1>1. ASSUME UNCHANGED <<now, kept, hits, req, score, adds>> PROVE AddedInv'
  BY <1>1 DEF AddedInv, MinuteOf
<1>2. ASSUME NEW t \in Requests, NEW q \in Queries, Count(t, q) PROVE AddedInv'
  BY <1>t, <1>2, AddedCount
<1>3. ASSUME NEW t \in Requests, Add(t) PROVE AddedInv'
  BY <1>3, AddedAdd
<1>4. ASSUME NEW t \in Requests, CacheBody(t) \/ Open(t) \/ SetTtl(t) PROVE AddedInv'
  <2>1. UNCHANGED <<now, kept, hits, adds>>
    BY <1>4 DEF CacheBody, Open, SetTtl, rank
  <2>2. score' = score
    <3>1. CASE Open(t)
      <4>1. PICK m, q : score' = [score EXCEPT ![m][q] = score[m][q] + 0]
        BY <3>1 DEF Open, ZIncrement
      <4>2. \A i \in Minutes, r \in Queries : score'[i][r] = score[i][r]
        BY <1>t, <4>1
      <4>3. score' \in [Minutes -> [Queries -> Nat]]
        BY <1>t DEF TypeInv, TypeOK
      <4>4. \A i \in Minutes : score'[i] = score[i]
        BY <1>t, <4>2, <4>3
      <4> QED BY <1>t, <4>3, <4>4
    <3>2. CASE CacheBody(t) \/ SetTtl(t)
      BY <3>2 DEF CacheBody, SetTtl, rank
    <3> QED BY <1>4, <3>1, <3>2
  <2>3. \E pc \in {"add", "ttl", "respond"} :
           /\ req' = [req EXCEPT ![t].pc = pc]
           /\ pc = "add" => req[t].pc = "body"
    BY <1>4 DEF CacheBody, Open, SetTtl, Goto, At
  <2>4. \A u \in Requests :
          /\ req'[u].at = req[u].at /\ req'[u].query = req[u].query
          /\ req'[u].pc \in {"body", "add"} => req[u].pc \in {"body", "add"}
    BY <1>t, <2>3 DEF RequestState
  <2>5. now <= now' /\ \A m \in Minutes, q \in Queries : adds'[m][q] <= score'[m][q]
    BY <1>t, <2>1, <2>2 DEF AddedInv
  <2> QED BY <1>t, <2>1, <2>4, <2>5, AddedFrame
<1>5. ASSUME NEW t \in Requests, Respond(t) PROVE AddedInv'
  <2>1. UNCHANGED <<now, hits, score, adds>>
    BY <1>5 DEF Respond, Finish, rank
  <2>2. /\ req' = [req EXCEPT ![t] = NoRequest]
        /\ kept' = [kept EXCEPT ![Home[t]] = @ \ {MinuteOf(t) - 1}]
    BY <1>5 DEF Respond, Finish
  <2>3. \A u \in Requests : req'[u].pc \in {"body", "add"} => req'[u] = req[u]
    BY <1>t, <2>2 DEF NoRequest
  <2>4. Minute(now) # MinuteOf(t) - 1
    <3>1. MinuteOf(t) \in Minutes /\ MinuteOf(t) <= Minute(now) /\ Minute(now) \in Nat
      BY <1>5, RequestTypes, NowTypes DEF Respond, Finish, At
    <3>2. PICK i \in Nat, j \in Nat : i = MinuteOf(t) /\ j = Minute(now)
      BY <3>1, MinutesNat
    <3>3. j # i - 1
      BY <3>1, <3>2
    <3> QED BY <3>2, <3>3
  <2>5. \A p \in Procs : Minute(now) \in kept[p] => Minute(now) \in kept'[p]
    BY <1>t, <2>2, <2>4
  <2>6. ASSUME NEW u \in Requests, req'[u].pc \in {"body", "add"}
        PROVE  /\ hits'[Home[u]][MinuteOf(u)'][req'[u].query] >= 1
               /\ MinuteOf(u)' = Minute(now') => MinuteOf(u)' \in kept'[Home[u]]
    <3>1. req'[u] = req[u] /\ MinuteOf(u)' = MinuteOf(u) /\ now' = now
      BY <2>1, <2>3, <2>6 DEF MinuteOf
    <3> QED BY <2>1, <2>5, <2>6, <3>1, RequestTypes DEF AddedInv
  <2> QED BY <2>1, <2>6 DEF AddedInv
<1>6. ASSUME NEW t \in Requests, Fail(t) PROVE AddedInv'
  <2>1. UNCHANGED <<now, kept, hits, score, adds>>
    BY <1>6 DEF Fail, rank
  <2>2. \A u \in Requests : req'[u].pc \in {"body", "add"} => req'[u] = req[u]
    BY <1>6, <1>t DEF Fail, Break, NoRequest
  <2>3. now <= now' /\ \A m \in Minutes, q \in Queries : adds'[m][q] <= score'[m][q]
    BY <1>t, <2>1 DEF AddedInv
  <2> QED BY <1>t, <2>1, <2>2, <2>3, AddedFrame
<1>7. ASSUME Tick PROVE AddedInv'
  <2>1. UNCHANGED <<kept, hits, req>>
    BY <1>7 DEF Tick, web
  <2>2. now <= now'
    BY <1>7, <1>t DEF Tick
  <2>3. \A m \in Minutes, q \in Queries : adds'[m][q] <= score'[m][q]
    BY <1>7, <1>t DEF Tick, AddedInv
  <2> QED BY <1>t, <2>1, <2>2, <2>3, AddedFrame
<1>8. ASSUME NEW p \in Procs \cup {WarmerHome}, Crash(p) PROVE AddedInv'
  <2>1. UNCHANGED <<now, score, adds>>
    BY <1>8 DEF Crash, rank
  <2>2. \A u \in Requests : req'[u].pc \in {"body", "add"} => req'[u] = req[u] /\ Home[u] # p
    BY <1>8, <1>t DEF Crash, Break, NoRequest
  <2>3. /\ hits' = [hits EXCEPT ![p] = [m \in Minutes |-> [q \in Queries |-> 0]]]
        /\ kept' = [kept EXCEPT ![p] = {}]
    BY <1>8 DEF Crash
  <2>4. \A s \in Procs : s # p => hits'[s] = hits[s] /\ kept'[s] = kept[s]
    BY <2>3 DEF TypeInv, TypeOK
  <2>5. ASSUME NEW u \in Requests, req'[u].pc \in {"body", "add"}
        PROVE  /\ hits'[Home[u]][MinuteOf(u)'][req'[u].query] >= 1
               /\ MinuteOf(u)' = Minute(now') => MinuteOf(u)' \in kept'[Home[u]]
    <3>1. req'[u] = req[u] /\ MinuteOf(u)' = MinuteOf(u) /\ now' = now
      BY <2>1, <2>2, <2>5 DEF MinuteOf
    <3>2. hits'[Home[u]] = hits[Home[u]] /\ kept'[Home[u]] = kept[Home[u]]
      BY <2>2, <2>4, <2>5, HomeAssumption
    <3> QED BY <2>5, <3>1, <3>2 DEF AddedInv
  <2> QED BY <2>1, <2>5 DEF AddedInv
<1>9. ASSUME NEW w \in Runs,
             \/ RangeCurrent(w) \/ RangePrevious(w) \/ RunFails(w)
             \/ \E q \in Queries : GetBody(w, q) \/ Serve(w, q) \/ Keep(w, q)
                                     \/ Store(w, q) \/ WarmEnds(w, q)
      PROVE  AddedInv'
  BY <1>1, <1>9 DEF RangeCurrent, RangePrevious, Launch, RunFails, GetBody, Serve, Answer,
                    Keep, Store, WarmEnds, web, rank
<1>10. CASE UNCHANGED vars
  BY <1>1, <1>10 DEF vars, web, rank
<1> QED BY <1>2, <1>3, <1>4, <1>5, <1>6, <1>7, <1>8, <1>9, <1>10 DEF Next

LEMMA CountsInvariant == Spec => [](TypeInv /\ LedgerInv /\ AddedInv)
<1>1. Init => LedgerInv
  <2> SUFFICES ASSUME Init, NEW m \in Minutes, NEW q \in Queries PROVE Ledger(m, q)
    BY DEF LedgerInv
  <2>1. InBatch(m, q) = {}
    BY DEF Init, InBatch, NoRequest
  <2>2. InCounter(m, q) = {}
    BY DEF Init, InCounter
  <2>3. score[m][q] = 0 /\ asked[m][q] = 0
    BY DEF Init
  <2> QED BY <2>1, <2>2, <2>3, FS_EmptySet DEF Ledger
<1>2. Init => AddedInv
  BY DEF Init, AddedInv, NoRequest
<1> QED BY <1>1, <1>2, TypeInit, TypeStep, LedgerStep, AddedStep, PTL DEF Spec

\* The ranking in Redis never says more than guests asked, whatever batches share a counter,
\* fail or are lost in a crash, and no batch added to it counts for nothing.
THEOREM RankedAsAskedHolds == Spec => []RankedAsAsked
<1>1. TypeInv /\ LedgerInv /\ AddedInv => RankedAsAsked
  BY LedgerTypes DEF AddedInv, RankedAsAsked
<1> QED BY <1>1, CountsInvariant, PTL

----------------------------------------------------------------------------
(* From the requests to the responses.                                     *)

AskedEnough(q) == \E m \in Minutes : asked[m][q] >= Threshold

\* Whatever the cron holds, computes or has stored was asked for often enough.
AskedInv ==
  \A q \in Queries :
    \/ remote[q] \cup local[q] # {}
    \/ \E w \in Runs : q \in run[w].keys \/ warm[w][q].pc # "idle"
    => AskedEnough(q)

\* Requests counted are never forgotten.
LEMMA AskedGrows ==
  ASSUME TypeInv, [Next]_vars, NEW m \in Minutes, NEW q \in Queries
  PROVE  asked'[m][q] \in Nat /\ asked'[m][q] >= asked[m][q]
<1>1. asked \in [Minutes -> [Queries -> Nat]] /\ asked' \in [Minutes -> [Queries -> Nat]]
  BY TypeStep DEF TypeInv, TypeOK
<1>2. ASSUME NEW t \in Requests, NEW r \in Queries, Count(t, r)
      PROVE  asked'[m][q] >= asked[m][q]
  <2>1. asked' = [asked EXCEPT ![Minute(now)][r] = @ + 1] /\ Minute(now) \in Minutes
    BY <1>2, NowTypes DEF Count, Begin
  <2>2. asked'[m][q] = asked[m][q] \/ asked'[m][q] = asked[m][q] + 1
    BY <1>1, <2>1
  <2>3. asked[m][q] \in Nat
    BY <1>1
  <2> QED BY <2>2, <2>3
<1>3. ASSUME UNCHANGED asked PROVE asked'[m][q] >= asked[m][q]
  BY <1>1, <1>3
<1>4. ASSUME NEW t \in Requests,
             CacheBody(t) \/ Add(t) \/ Open(t) \/ SetTtl(t) \/ Respond(t) \/ Fail(t)
      PROVE  UNCHANGED asked
  BY <1>4 DEF CacheBody, Add, Open, SetTtl, Respond, Finish, Fail
<1>5. ASSUME NEW w \in Runs,
             \/ RangeCurrent(w) \/ RangePrevious(w) \/ RunFails(w)
             \/ \E r \in Queries : GetBody(w, r) \/ Serve(w, r) \/ Keep(w, r)
                                     \/ Store(w, r) \/ WarmEnds(w, r)
      PROVE  UNCHANGED asked
  BY <1>5 DEF RangeCurrent, RangePrevious, Launch, RunFails, GetBody, Serve, Answer,
              Keep, Store, WarmEnds, web
<1>6. ASSUME Tick \/ (\E p \in Procs \cup {WarmerHome} : Crash(p)) \/ UNCHANGED vars
      PROVE  UNCHANGED asked
  BY <1>6 DEF Tick, Crash, vars, web
<1>7. asked'[m][q] >= asked[m][q]
  BY <1>2, <1>3, <1>4, <1>5, <1>6 DEF Next
<1> QED BY <1>1, <1>7

LEMMA RankedEnough ==
  ASSUME TypeInv, LedgerInv, NEW m, NEW q \in Ranked(m)
  PROVE  q \in Queries /\ AskedEnough(q)
<1>1. q \in Queries /\ m \in Minutes /\ score[m][q] >= Threshold
  BY DEF Ranked
<1>2. score[m][q] \in Nat /\ asked[m][q] \in Nat /\ score[m][q] <= asked[m][q]
  BY <1>1, LedgerTypes
<1>3. asked[m][q] >= Threshold
  BY <1>1, <1>2, BatchAssumption
<1> QED BY <1>1, <1>3 DEF AskedEnough

\* A step that holds nothing of a query it did not hold before, or that was not asked for.
LEMMA AskedFrame ==
  ASSUME TypeInv, AskedInv, [Next]_vars,
         \A q \in Queries, w \in Runs :
           /\ q \in run'[w].keys => q \in run[w].keys \/ AskedEnough(q)
           /\ warm'[w][q].pc # "idle" =>
                warm[w][q].pc # "idle" \/ q \in run[w].keys \/ AskedEnough(q),
         \A q \in Queries : remote'[q] \cup local'[q] # {} =>
           remote[q] \cup local[q] # {} \/ \E w \in Runs : warm[w][q].pc # "idle"
  PROVE  AskedInv'
<1> SUFFICES ASSUME NEW q \in Queries,
                    \/ remote'[q] \cup local'[q] # {}
                    \/ \E w \in Runs : q \in run'[w].keys \/ warm'[w][q].pc # "idle"
             PROVE  AskedEnough(q)'
  BY DEF AskedInv
<1>1. AskedEnough(q)
  <2>1. CASE remote'[q] \cup local'[q] # {}
    BY <2>1 DEF AskedInv
  <2>2. CASE \E w \in Runs : q \in run'[w].keys \/ warm'[w][q].pc # "idle"
    BY <2>2 DEF AskedInv
  <2> QED BY <2>1, <2>2
<1>2. PICK m \in Minutes : asked[m][q] >= Threshold
  BY <1>1 DEF AskedEnough
<1>3. /\ asked'[m][q] \in Nat /\ asked'[m][q] >= asked[m][q]
      /\ asked[m][q] \in Nat
  BY AskedGrows DEF TypeInv, TypeOK
<1>4. asked'[m][q] >= Threshold
  BY <1>2, <1>3, BatchAssumption
<1> QED BY <1>4 DEF AskedEnough

LEMMA AskedStep == TypeInv /\ LedgerInv /\ AskedInv /\ [Next]_vars => AskedInv'
<1> SUFFICES ASSUME TypeInv, LedgerInv, AskedInv, [Next]_vars PROVE AskedInv'
  OBVIOUS
<1>t. /\ run \in [Runs -> [pc : {"idle", "range"}, at : Nat, keys : SUBSET Queries]]
      /\ warm \in [Runs -> [Queries -> WarmState]]
      /\ remote \in [Queries -> SUBSET Response] /\ local \in [Queries -> SUBSET Response]
  BY DEF TypeInv, TypeOK
<1>1. ASSUME UNCHANGED cron PROVE AskedInv'
  BY <1>1, AskedFrame DEF cron
<1>2. ASSUME NEW t \in Requests,
             \/ CacheBody(t) \/ Add(t) \/ Open(t) \/ SetTtl(t) \/ Respond(t) \/ Fail(t)
             \/ \E q \in Queries : Count(t, q)
      PROVE  AskedInv'
  BY <1>1, <1>2 DEF CacheBody, Add, Open, SetTtl, Respond, Finish, Fail, Count, Begin
<1>3. ASSUME NEW w \in Runs, RangeCurrent(w) \/ RunFails(w) PROVE AskedInv'
  <2>1. UNCHANGED <<remote, local, warm>>
    BY <1>3 DEF RangeCurrent, RunFails
  <2>2. PICK pc, at, keys : /\ run' = [run EXCEPT ![w] = [pc |-> pc, at |-> at, keys |-> keys]]
                            /\ keys \in {{}, Ranked(Minute(now))}
    <3>1. CASE RangeCurrent(w)
      BY <3>1 DEF RangeCurrent
    <3>2. CASE RunFails(w)
      BY <3>2 DEF RunFails, NoRun
    <3> QED BY <1>3, <3>1, <3>2
  <2>3. \A q \in Queries, v \in Runs : q \in run'[v].keys => q \in run[v].keys \/ AskedEnough(q)
    BY <1>t, <2>2, RankedEnough
  <2> QED BY <2>1, <2>3, AskedFrame
<1>4. ASSUME NEW w \in Runs, RangePrevious(w) PROVE AskedInv'
  <2>1. PICK K : /\ K \subseteq KeysToCompute(w)
                 /\ warm' = [warm EXCEPT ![w] =
                      [q \in Queries |-> IF q \in K THEN [pc |-> "body", val |-> 0] ELSE NoWarm]]
                 /\ run' = [run EXCEPT ![w] = NoRun]
                 /\ UNCHANGED <<remote, local>>
    BY <1>4 DEF RangePrevious, Launch
  <2>2. \A q \in Queries, v \in Runs : q \in run'[v].keys => q \in run[v].keys
    BY <1>t, <2>1 DEF NoRun
  <2>3. ASSUME NEW q \in Queries, NEW v \in Runs, warm'[v][q].pc # "idle"
        PROVE  warm[v][q].pc # "idle" \/ q \in run[v].keys \/ AskedEnough(q)
    <3>1. CASE v = w
      <4>1. warm'[v][q] = IF q \in K THEN [pc |-> "body", val |-> 0] ELSE NoWarm
        BY <1>t, <2>1, <3>1
      <4>2. q \in K
        BY <2>3, <4>1 DEF NoWarm
      <4> QED BY <2>1, <3>1, <4>2, RankedEnough DEF KeysToCompute
    <3>2. CASE v # w
      BY <1>t, <2>1, <2>3, <3>2
    <3> QED BY <3>1, <3>2
  <2> QED BY <2>1, <2>2, <2>3, AskedFrame
<1>5. ASSUME NEW w \in Runs, NEW q \in Queries,
             GetBody(w, q) \/ Serve(w, q) \/ Keep(w, q) \/ Store(w, q) \/ WarmEnds(w, q)
      PROVE  AskedInv'
  <2>1. warm[w][q].pc # "idle" /\ UNCHANGED run
    BY <1>5 DEF GetBody, Serve, Answer, Keep, Store, WarmEnds, Warming
  <2>2. \E e : warm' = [warm EXCEPT ![w][q] = e]
    BY <1>5 DEF GetBody, Serve, Answer, Keep, Store, WarmEnds, EndWarm
  <2>3. \A r \in Queries, v \in Runs : warm'[v][r].pc # "idle" => warm[v][r].pc # "idle"
    BY <1>t, <2>1, <2>2
  <2>4. /\ remote' = remote \/ \E S : remote' = [remote EXCEPT ![q] = S]
        /\ local' = local \/ \E S : local' = [local EXCEPT ![q] = S]
    BY <1>5 DEF GetBody, Serve, Answer, Keep, Store, WarmEnds
  <2>5. \A r \in Queries : r # q => remote'[r] = remote[r] /\ local'[r] = local[r]
    BY <1>t, <2>4
  <2> QED BY <2>1, <2>3, <2>5, AskedFrame
<1>6. ASSUME Tick PROVE AskedInv'
  <2>1. UNCHANGED <<run, warm>>
    BY <1>6 DEF Tick
  <2>2. \A q \in Queries : remote'[q] \subseteq remote[q] /\ local'[q] \subseteq local[q]
    BY <1>6 DEF Tick, Live
  <2> QED BY <2>1, <2>2, AskedFrame
<1>7. ASSUME NEW p \in Procs \cup {WarmerHome}, Crash(p) PROVE AskedInv'
  <2>1. CASE p = WarmerHome
    BY <1>7, <2>1, AskedFrame DEF Crash, NoRun, NoWarm
  <2>2. CASE p # WarmerHome
    BY <1>1, <1>7, <2>2 DEF Crash, cron
  <2> QED BY <2>1, <2>2
<1>8. CASE UNCHANGED vars
  BY <1>1, <1>8 DEF vars
<1> QED BY <1>2, <1>3, <1>4, <1>5, <1>6, <1>7, <1>8 DEF Next

\* A response is computed and cached only for a query that guests asked for Threshold times
\* within one minute, through counters, batches, the ranking, and overlapping runs of the cron.
THEOREM WarmedIsAskedHolds == Spec => []WarmedIsAsked
<1>1. Init => AskedInv
  BY DEF Init, AskedInv, NoRun, NoWarm
<1>2. AskedInv => WarmedIsAsked
  BY DEF AskedInv, AskedEnough, WarmedIsAsked
<1> QED BY <1>1, <1>2, CountsInvariant, AskedStep, PTL DEF Spec

=============================================================================
