-------------------------- MODULE PulseLists_proofs ---------------------------
(***************************************************************************)
(* Proofs about PulseLists, for any requests, number of items and page.    *)
(***************************************************************************)
EXTENDS PulseLists, TLAPS

----------------------------------------------------------------------------
\* What a task holds, whole or in part.
Part == [score : Nat \cup {None}, count : Nat \cup {None}]
Stored(k) == Values(k) \cup {None}

Typed ==
  /\ made \in 0 .. MaxItems /\ total \in Nat
  /\ cast \in [Items -> Nat]
  /\ remote \in [Keys -> Nat \cup Whole \cup {None}]
  /\ local \in [Keys -> Nat \cup Whole \cup {None}]
  /\ \A k \in Keys : {remote[k], local[k]} \subseteq Stored(k)
  /\ at \in [Tasks -> Keys] /\ stage \in [Tasks -> Stages]
  /\ val \in [Tasks -> Nat \cup Part \cup {None}]

\* A task that queries an item holds a part of it, and one that stores a value all of it.
Holds ==
  \A t \in Tasks :
    /\ stage[t] = "store" => val[t] \in Values(at[t])
    /\ stage[t] = "query" /\ at[t] # Total => val[t] \in Part
    /\ stage[t] \in {"idle", "lookup"} => val[t] = None

\* No number of items, wherever it is kept, is beyond the chain's.
Behind ==
  /\ total <= made
  /\ {remote[Total], local[Total]} \ {None} \subseteq 0 .. made
  /\ \A t \in Tasks : stage[t] = "store" /\ at[t] = Total => val[t] <= made
  /\ AsksForExisting

\* The counts come after the score they belong to, and the votes of the chain after both.
Ordered(v, n) ==
  /\ v.score # None => v.score <= n
  /\ v.count # None => v.score # None /\ v.score <= v.count

Counted ==
  /\ \A i \in Items : \A v \in {remote[i], local[i]} \ {None} : v.score <= v.count
  /\ \A t \in Tasks : stage[t] = "query" /\ at[t] # Total => Ordered(val[t], cast[at[t]])
  /\ \A t \in Tasks : stage[t] = "store" /\ at[t] # Total => val[t].score <= val[t].count

IInv == Typed /\ Holds /\ Behind /\ Counted

USE TaskAssumption, BoundAssumption, PageAssumption

----------------------------------------------------------------------------
LEMMA KeyTypes ==
  /\ Total \in Keys /\ Total \notin Items /\ MaxItems \in Nat
  /\ Keys = Items \cup {Total} /\ Items \subseteq Nat
  /\ \A i \in Keys : i # Total <=> i \in Items
  BY DEF Keys, Items, Total

\* A list of n items, n not beyond the chain, names items that exist.
LEMMA ListExists ==
  ASSUME Typed, NEW n \in Nat, n <= made PROVE List(n) \subseteq {i \in Items : i < made}
  BY DEF Typed, List, Least, Items

LEMMA InitIInv == Init => IInv
<1> SUFFICES ASSUME Init PROVE IInv  OBVIOUS
<1> USE KeyTypes DEF Init
<1>1. Typed  BY DEF Typed, Stored, Stages
<1>2. Holds  BY DEF Holds
<1>3. Behind  BY DEF Behind, AsksForExisting
<1>4. Counted  BY DEF Counted
<1> QED  BY <1>1, <1>2, <1>3, <1>4 DEF IInv

\* Task t turns to key k, in stage s with value v, and the rest stays as it is.
LEMMA GotoStep ==
  ASSUME IInv, NEW t \in Tasks, NEW k \in Keys, NEW s \in Stages,
         NEW v \in Nat \cup Part \cup {None}, Goto(t, k, s, v),
         s = "store" => v \in Values(k),
         s = "query" /\ k # Total => v \in Part,
         s \in {"idle", "lookup"} => v = None,
         s = "store" /\ k = Total => v <= made,
         k # Total => k < made,
         s = "query" /\ k # Total => Ordered(v, cast[k]),
         s = "store" /\ k # Total => v.score <= v.count,
         UNCHANGED <<made, cast>>, total' \in Nat, total' <= made,
         remote' \in [Keys -> Nat \cup Whole \cup {None}],
         local' \in [Keys -> Nat \cup Whole \cup {None}],
         \A j \in Keys : {remote'[j], local'[j]} \subseteq Stored(j),
         {remote'[Total], local'[Total]} \ {None} \subseteq 0 .. made,
         \A i \in Items : \A w \in {remote'[i], local'[i]} \ {None} : w.score <= w.count
  PROVE  IInv'
<1>0. /\ at' \in [Tasks -> Keys] /\ stage' \in [Tasks -> Stages]
      /\ val' \in [Tasks -> Nat \cup Part \cup {None}]
      /\ at'[t] = k /\ stage'[t] = s /\ val'[t] = v
      /\ \A u \in Tasks \ {t} : at'[u] = at[u] /\ stage'[u] = stage[u] /\ val'[u] = val[u]
  BY DEF Goto, IInv, Typed
<1>1. Typed'  BY <1>0 DEF IInv, Typed, Stored, Values
<1>2. Holds'
  <2> SUFFICES ASSUME NEW u \in Tasks
               PROVE  /\ stage'[u] = "store" => val'[u] \in Values(at'[u])
                      /\ stage'[u] = "query" /\ at'[u] # Total => val'[u] \in Part
                      /\ stage'[u] \in {"idle", "lookup"} => val'[u] = None
    BY DEF Holds, Values
  <2> QED  BY <1>0 DEF IInv, Holds
<1>3. Behind'  BY <1>0 DEF IInv, Behind, AsksForExisting
<1>4. Counted'
  <2>1. \A u \in Tasks : /\ stage'[u] = "query" /\ at'[u] # Total => Ordered(val'[u], cast[at'[u]])
                         /\ stage'[u] = "store" /\ at'[u] # Total => val'[u].score <= val'[u].count
    BY <1>0 DEF IInv, Counted
  <2> QED  BY <2>1 DEF Counted, Ordered
<1> QED  BY <1>1, <1>2, <1>3, <1>4 DEF IInv

\* What a request does with value v of its key, which is in a cache or about to be.
LEMMA AnswerStep ==
  ASSUME IInv, NEW r \in Requests, NEW v \in Values(at[r]), Answer(r, v),
         at[r] = Total => v <= made,
         UNCHANGED <<made, cast, total>>,
         remote' \in [Keys -> Nat \cup Whole \cup {None}],
         local' \in [Keys -> Nat \cup Whole \cup {None}],
         \A j \in Keys : {remote'[j], local'[j]} \subseteq Stored(j),
         {remote'[Total], local'[Total]} \ {None} \subseteq 0 .. made,
         \A i \in Items : \A w \in {remote'[i], local'[i]} \ {None} : w.score <= w.count
  PROVE  IInv'
<1>0. r \in Tasks /\ total' \in Nat /\ total' <= made /\ {"idle", "lookup"} \subseteq Stages
  BY DEF Tasks, IInv, Typed, Behind, Stages
<1>1. CASE End(r)  BY <1>0, <1>1, KeyTypes, GotoStep DEF End
<1>2. CASE at[r] = Total /\ \E i \in List(v) : Goto(r, i, "lookup", None)
  <2>1. PICK i \in List(v) : Goto(r, i, "lookup", None)  BY <1>2
  <2>2. i \in Keys /\ i < made
    BY <1>2, ListExists, KeyTypes DEF Values, IInv
  <2> QED  BY <1>0, <2>1, <2>2, GotoStep
<1> QED  BY <1>1, <1>2 DEF Answer

----------------------------------------------------------------------------
\* The caches, when they do not change.
LEMMA CachesKept ==
  ASSUME IInv, UNCHANGED <<remote, local>>
  PROVE  /\ {remote', local'} \subseteq [Keys -> Nat \cup Whole \cup {None}]
         /\ \A j \in Keys : {remote'[j], local'[j]} \subseteq Stored(j)
         /\ {remote'[Total], local'[Total]} \ {None} \subseteq 0 .. made
         /\ \A i \in Items : \A w \in {remote'[i], local'[i]} \ {None} : w.score <= w.count
  BY DEF IInv, Typed, Behind, Counted

LEMMA AskStep == ASSUME IInv, NEW r \in Requests, Ask(r) PROVE IInv'
<1>1. r \in Tasks /\ "lookup" \in Stages  BY DEF Tasks, Stages
<1>2. UNCHANGED <<made, cast, remote, local, total>> /\ total \in Nat /\ total <= made
      /\ Goto(r, Total, "lookup", None)
  BY DEF Ask, IInv, Typed, Behind
<1> QED  BY <1>1, <1>2, KeyTypes, CachesKept, GotoStep

\* A value in a cache is one of its key, and behind the chain.
LEMMA CacheSound ==
  ASSUME IInv, NEW k \in Keys, NEW v \in {remote[k], local[k]}, v # None
  PROVE  v \in Values(k) /\ (k = Total => v <= made) /\ (k # Total => v.score <= v.count)
  BY KeyTypes DEF IInv, Typed, Behind, Counted, Stored

LEMMA LocalHitStep == ASSUME IInv, NEW r \in Requests, LocalHit(r) PROVE IInv'
<1>1. at[r] \in Keys  BY DEF IInv, Typed, Tasks
<1>2. local[at[r]] \in Values(at[r]) /\ (at[r] = Total => local[at[r]] <= made)
  BY <1>1, CacheSound DEF LocalHit
<1> QED  BY <1>2, AnswerStep DEF LocalHit, IInv, Typed, Behind, Counted

\* Storing a sound value of key k in the memory.
LEMMA StoreSound ==
  ASSUME IInv, NEW k \in Keys, NEW v \in Values(k), k = Total => v <= made,
         k # Total => v.score <= v.count, NEW m, m \in {remote, local}
  PROVE  LET n == [m EXCEPT ![k] = v] IN
         /\ n \in [Keys -> Nat \cup Whole \cup {None}]
         /\ \A j \in Keys : n[j] \in Stored(j)
         /\ {n[Total]} \ {None} \subseteq 0 .. made
         /\ \A i \in Items : \A w \in {n[i]} \ {None} : w.score <= w.count
<1> DEFINE n == [m EXCEPT ![k] = v]
<1>1. /\ m \in [Keys -> Nat \cup Whole \cup {None}]
      /\ \A j \in Keys : m[j] \in Stored(j)
      /\ {m[Total]} \ {None} \subseteq 0 .. made
      /\ \A i \in Items : \A w \in {m[i]} \ {None} : w.score <= w.count
  BY DEF IInv, Typed, Behind, Counted
<1>2. n[k] = v /\ \A j \in Keys \ {k} : n[j] = m[j]  BY <1>1
<1>3. v \in Nat \cup Whole  BY DEF Values
<1>4. n \in [Keys -> Nat \cup Whole \cup {None}]  BY <1>1, <1>3
<1> HIDE DEF n
<1>5. \A j \in Keys : n[j] \in Stored(j)  BY <1>1, <1>2 DEF Stored
<1>6. {n[Total]} \ {None} \subseteq 0 .. made
  BY <1>1, <1>2, KeyTypes DEF Values, IInv, Typed
<1>7. \A i \in Items : \A w \in {n[i]} \ {None} : w.score <= w.count
  BY <1>1, <1>2, KeyTypes
<1> QED  BY <1>4, <1>5, <1>6, <1>7 DEF n

LEMMA RemoteHitStep == ASSUME IInv, NEW r \in Requests, RemoteHit(r) PROVE IInv'
<1> DEFINE k == at[r]
           v == remote[k]
<1>1. k \in Keys  BY DEF IInv, Typed, Tasks
<1>2. v \in Values(k) /\ (k = Total => v <= made) /\ (k # Total => v.score <= v.count)
  BY <1>1, CacheSound DEF RemoteHit
<1>3. local' = [local EXCEPT ![k] = v] /\ UNCHANGED <<made, cast, remote, total>> /\ Answer(r, v)
  BY DEF RemoteHit
<1>4. /\ local' \in [Keys -> Nat \cup Whole \cup {None}]
      /\ \A j \in Keys : local'[j] \in Stored(j)
      /\ {local'[Total]} \ {None} \subseteq 0 .. made
      /\ \A i \in Items : \A w \in {local'[i]} \ {None} : w.score <= w.count
  <2> HIDE DEF k, v
  <2> QED  BY <1>1, <1>2, <1>3, StoreSound
<1> QED  BY <1>2, <1>3, <1>4, AnswerStep DEF IInv, Typed, Behind, Counted

LEMMA FillStep == ASSUME IInv, NEW r \in Requests, Fill(r) PROVE IInv'
<1> DEFINE k == at[r]
           v == val[r]
<1>0. r \in Tasks /\ stage[r] = "store"  BY DEF Fill, Tasks
<1>1. k \in Keys  BY <1>0 DEF IInv, Typed
<1>2. v \in Values(k) /\ (k = Total => v <= made)  BY <1>0 DEF IInv, Holds, Behind
<1>3. k # Total => v.score <= v.count  BY <1>0 DEF IInv, Counted
<1>4. /\ remote' = [remote EXCEPT ![k] = v] /\ local' = [local EXCEPT ![k] = v]
      /\ UNCHANGED <<made, cast, total>> /\ Answer(r, v)
  BY DEF Fill
<1>5. /\ {remote', local'} \subseteq [Keys -> Nat \cup Whole \cup {None}]
      /\ \A j \in Keys : {remote'[j], local'[j]} \subseteq Stored(j)
      /\ {remote'[Total], local'[Total]} \ {None} \subseteq 0 .. made
      /\ \A i \in Items : \A w \in {remote'[i], local'[i]} \ {None} : w.score <= w.count
  <2> HIDE DEF k, v
  <2> QED  BY <1>1, <1>2, <1>3, <1>4, StoreSound
<1> QED  BY <1>2, <1>4, <1>5, AnswerStep

LEMMA MissStep == ASSUME IInv, NEW r \in Requests, Miss(r) PROVE IInv'
<1>1. r \in Tasks /\ "query" \in Stages /\ at[r] \in Keys  BY DEF Tasks, Stages, IInv, Typed
<1>2. /\ UNCHANGED <<made, cast, remote, local, total>> /\ total \in Nat /\ total <= made
      /\ Goto(r, at[r], "query", IF at[r] = Total THEN None ELSE Unread)
      /\ at[r] # Total => at[r] < made
  BY <1>1 DEF Miss, IInv, Typed, Behind, AsksForExisting
<1>3. Unread \in Part /\ \A n : Ordered(Unread, n)  BY DEF Unread, Result, Part, Ordered
<1> QED  BY <1>1, <1>2, <1>3, CachesKept, GotoStep

LEMMA FailStep == ASSUME IInv, NEW t \in Tasks, Fail(t) PROVE IInv'
<1>1. "idle" \in Stages  BY DEF Stages
<1>2. UNCHANGED <<made, cast, remote, local, total>> /\ total \in Nat /\ total <= made
      /\ Goto(t, Total, "idle", None)
  BY DEF Fail, End, IInv, Typed, Behind
<1> QED  BY <1>1, <1>2, KeyTypes, CachesKept, GotoStep

\* The queries: a number is the chain's, a score is what was cast, a count is not less.
LEMMA QueryStep == ASSUME IInv, NEW t \in Tasks, Query(t) PROVE IInv'
<1>1. {"query", "store"} \subseteq Stages  BY DEF Stages
<1>2. UNCHANGED <<made, cast, remote, local, total>> /\ total \in Nat /\ total <= made
  BY DEF Query, ReadTotal, ReadScore, ReadCount, Read, IInv, Typed, Behind
<1>3. made \in Nat  BY DEF IInv, Typed
<1>4. CASE ReadTotal(t)
  <2>1. Goto(t, Total, "store", made)  BY <1>4 DEF ReadTotal
  <2> QED  BY <1>1, <1>2, <1>3, <2>1, KeyTypes, CachesKept, GotoStep DEF Values
<1>5. ASSUME Querying(t)
      PROVE  /\ at[t] \in Items /\ at[t] < made /\ val[t] \in Part
             /\ cast[at[t]] \in Nat /\ Ordered(val[t], cast[at[t]])
  BY <1>5, KeyTypes DEF Querying, IInv, Typed, Holds, Behind, AsksForExisting, Counted
<1>6. ASSUME NEW v \in Part, Querying(t), Read(t, v), Ordered(v, cast[at[t]])
      PROVE  IInv'
  <2> DEFINE s == IF None \in {v.score, v.count} THEN "query" ELSE "store"
  <2>1. Goto(t, at[t], s, v) /\ at[t] \in Keys  BY <1>5, <1>6, KeyTypes DEF Read
  <2>2. s = "store" => v \in Values(at[t]) /\ v.score <= v.count
    BY <1>5, <1>6, KeyTypes DEF Part, Whole, Values, Ordered
  <2>3. s \in {"query", "store"}  OBVIOUS
  <2> HIDE DEF s
  <2> QED  BY <1>1, <1>2, <1>5, <1>6, <2>1, <2>2, <2>3, KeyTypes, CachesKept, GotoStep
<1>7. CASE ReadScore(t)
  <2> DEFINE v == [val[t] EXCEPT !.score = cast[at[t]]]
  <2>1. Querying(t) /\ Read(t, v) /\ val[t].score = None  BY <1>7 DEF ReadScore
  <2>2. v \in Part /\ v.score = cast[at[t]] /\ v.count = val[t].count
    BY <2>1, <1>5 DEF Part
  <2>3. Ordered(v, cast[at[t]])  BY <2>1, <2>2, <1>5 DEF Ordered
  <2> HIDE DEF v
  <2> QED  BY <2>1, <2>2, <2>3, <1>6
<1>8. CASE ReadCount(t)
  <2> DEFINE v == [val[t] EXCEPT !.count = cast[at[t]]]
  <2>1. Querying(t) /\ Read(t, v) /\ val[t].score # None  BY <1>8 DEF ReadCount
  <2>2. v \in Part /\ v.count = cast[at[t]] /\ v.score = val[t].score
    BY <2>1, <1>5 DEF Part
  <2>3. Ordered(v, cast[at[t]])  BY <2>1, <2>2, <1>5 DEF Ordered
  <2> HIDE DEF v
  <2> QED  BY <2>1, <2>2, <2>3, <1>6
<1> QED  BY <1>4, <1>7, <1>8 DEF Query

\* The cron: it starts a pass; it sets a key, and turns to the next item or ends the pass.
LEMMA WarmStep == ASSUME IInv, Warm PROVE IInv'
<1>1. Warmer \in Tasks /\ "query" \in Stages  BY DEF Tasks, Stages
<1>2. UNCHANGED <<made, cast, remote, local, total>> /\ total \in Nat /\ total <= made
      /\ Goto(Warmer, Total, "query", None)
  BY DEF Warm, IInv, Typed, Behind
<1> QED  BY <1>1, <1>2, KeyTypes, CachesKept, GotoStep

LEMMA SetStep == ASSUME IInv, Set PROVE IInv'
<1> DEFINE k == at[Warmer]
           v == val[Warmer]
<1>0. Warmer \in Tasks /\ stage[Warmer] = "store" /\ {"query", "idle"} \subseteq Stages
  BY DEF Set, Tasks, Stages
<1>1. k \in Keys  BY <1>0 DEF IInv, Typed
<1>2. v \in Values(k) /\ (k = Total => v <= made) /\ (k # Total => v.score <= v.count)
  BY <1>0 DEF IInv, Holds, Behind, Counted
<1>3. remote' = [remote EXCEPT ![k] = v] /\ UNCHANGED <<made, cast, local>>  BY DEF Set
<1>4. /\ {remote', local'} \subseteq [Keys -> Nat \cup Whole \cup {None}]
      /\ \A j \in Keys : {remote'[j], local'[j]} \subseteq Stored(j)
      /\ {remote'[Total], local'[Total]} \ {None} \subseteq 0 .. made
      /\ \A i \in Items : \A w \in {remote'[i], local'[i]} \ {None} : w.score <= w.count
  <2>1. \A j \in Keys : local[j] \in Stored(j)  BY DEF IInv, Typed
  <2>2. /\ local \in [Keys -> Nat \cup Whole \cup {None}]
        /\ {local[Total]} \ {None} \subseteq 0 .. made
        /\ \A i \in Items : \A w \in {local[i]} \ {None} : w.score <= w.count
    BY DEF IInv, Typed, Behind, Counted
  <2> HIDE DEF k, v
  <2> QED  BY <1>1, <1>2, <1>3, <2>1, <2>2, StoreSound
<1>5. ASSUME NEW i \in Nat, NEW n \in Nat, n <= made, WarmNext(i, n), total' \in Nat, total' <= made
      PROVE  IInv'
  <2>1. CASE i < n
    <3>1. Goto(Warmer, i, "query", Unread)  BY <1>5, <2>1 DEF WarmNext
    <3>2. i \in Items /\ i < made  BY <1>5, <2>1 DEF IInv, Typed, Items
    <3>3. Unread \in Part /\ Ordered(Unread, cast[i])  BY DEF Unread, Result, Part, Ordered
    <3> QED  BY <1>0, <1>3, <1>4, <1>5, <3>1, <3>2, <3>3, KeyTypes, GotoStep
  <2>2. CASE ~ i < n
    <3>1. Goto(Warmer, Total, "idle", None)  BY <1>5, <2>2 DEF WarmNext, End
    <3> QED  BY <1>0, <1>3, <1>4, <1>5, <3>1, KeyTypes, GotoStep
  <2> QED  BY <2>1, <2>2
<1>6. CASE k = Total
  <2>1. v \in Nat /\ v <= made /\ total' = v /\ WarmNext(0, v)
    BY <1>2, <1>6 DEF Set, Values
  <2> QED  BY <2>1, <1>5
<1>7. CASE k # Total
  <2>0. k \in Items /\ Items \subseteq Nat  BY <1>1, <1>7, KeyTypes
  <2>1. k + 1 \in Nat
    <3> HIDE DEF k
    <3> QED  BY <2>0
  <2>2. total' = total /\ WarmNext(k + 1, total) /\ total \in Nat /\ total <= made
    BY <1>7 DEF Set, IInv, Typed, Behind
  <2> QED  BY <2>1, <2>2, <1>5
<1> QED  BY <1>6, <1>7

----------------------------------------------------------------------------
\* Items and votes are only added.
LEMMA NewStep == ASSUME IInv, New PROVE IInv'
<1> USE DEF IInv, New
<1>1. Typed'  BY DEF Typed, Stored, Values
<1>2. Holds'  BY DEF Holds
<1>3. Behind'
  <2>1. made \in Nat /\ total \in Nat /\ made' = made + 1  BY DEF Typed
  <2>2. total' <= made'  BY <2>1 DEF Behind
  <2>3. {remote'[Total], local'[Total]} \ {None} \subseteq 0 .. made'  BY <2>1 DEF Behind
  <2>4. ASSUME NEW t \in Tasks, stage[t] = "store", at[t] = Total PROVE val[t] <= made'
    <3>1. val[t] \in Nat /\ val[t] <= made  BY <2>4 DEF Holds, Values, Behind
    <3> QED  BY <2>1, <3>1
  <2>5. ASSUME NEW t \in Tasks, at[t] # Total PROVE at[t] < made'
    <3>1. at[t] \in Nat /\ at[t] < made
      BY <2>5, KeyTypes DEF Typed, Behind, AsksForExisting
    <3> QED  BY <2>1, <3>1
  <2> QED  BY <2>2, <2>3, <2>4, <2>5 DEF Behind, AsksForExisting
<1>4. Counted'  BY DEF Counted, Ordered
<1> QED  BY <1>1, <1>2, <1>3, <1>4

LEMMA VoteStep == ASSUME IInv, NEW i \in Items, Vote(i) PROVE IInv'
<1> USE DEF IInv, Vote
<1>1. /\ cast' \in [Items -> Nat] /\ cast \in [Items -> Nat]
      /\ \A j \in Items : cast[j] <= cast'[j]
  BY DEF Typed
<1>2. Typed'  BY <1>1 DEF Typed, Stored, Values
<1>3. Holds'  BY DEF Holds
<1>4. Behind'  BY DEF Behind, AsksForExisting
<1>5. Counted'
  <2> SUFFICES ASSUME NEW t \in Tasks, stage[t] = "query", at[t] # Total
               PROVE  Ordered(val[t], cast'[at[t]])
    BY DEF Counted, Ordered
  <2>1. /\ at[t] \in Items /\ Ordered(val[t], cast[at[t]]) /\ val[t] \in Part
        /\ cast[at[t]] \in Nat /\ cast'[at[t]] \in Nat /\ cast[at[t]] <= cast'[at[t]]
    BY <1>1, KeyTypes DEF Typed, Counted, Holds
  <2>2. val[t].score # None => val[t].score \in Nat  BY <2>1 DEF Part
  <2> QED  BY <2>1, <2>2 DEF Ordered
<1> QED  BY <1>2, <1>3, <1>4, <1>5

LEMMA ExpireStep ==
  ASSUME IInv, NEW k \in Keys, ExpireRemote(k) \/ ExpireLocal(k) PROVE IInv'
<1> USE DEF IInv, ExpireRemote, ExpireLocal
<1>1. Typed'  BY DEF Typed, Stored, Values
<1>2. Holds'  BY DEF Holds
<1>3. Behind'  BY KeyTypes DEF Typed, Behind, AsksForExisting
<1>4. Counted'  BY KeyTypes DEF Typed, Counted, Ordered
<1> QED  BY <1>1, <1>2, <1>3, <1>4

LEMMA NextIInv == IInv /\ [Next]_vars => IInv'
<1> SUFFICES ASSUME IInv, [Next]_vars PROVE IInv'  OBVIOUS
<1>1. \A t \in Requests \cup {Warmer} : t \in Tasks  BY DEF Tasks
<1>2. ASSUME NEW r \in Requests, Ask(r) \/ Step(r) PROVE IInv'
  BY <1>1, <1>2, AskStep, LocalHitStep, RemoteHitStep, MissStep, FillStep, QueryStep DEF Step
<1>3. CASE Warm \/ Set \/ Query(Warmer)  BY <1>1, <1>3, WarmStep, SetStep, QueryStep
<1>4. ASSUME NEW t \in Tasks, Fail(t) PROVE IInv'  BY <1>4, FailStep
<1>5. CASE New  BY <1>5, NewStep
<1>6. ASSUME NEW i \in Items, Vote(i) PROVE IInv'  BY <1>6, VoteStep
<1>7. ASSUME NEW k \in Keys, ExpireRemote(k) \/ ExpireLocal(k) PROVE IInv'  BY <1>7, ExpireStep
<1>8. CASE UNCHANGED vars
  BY <1>8 DEF vars, IInv, Typed, Holds, Behind, AsksForExisting, Counted, Ordered
<1> QED  BY <1>2, <1>3, <1>4, <1>5, <1>6, <1>7, <1>8 DEF Next

LEMMA Invariance == Spec => []IInv
  BY InitIInv, NextIInv, PTL DEF Spec

----------------------------------------------------------------------------
\* The types of the model, for any number of requests and of items.
THEOREM TypeCorrect == Spec => []TypeOK
<1>1. IInv => TypeOK  BY DEF IInv, Typed, Holds, TypeOK, Stored
<1> QED  BY <1>1, Invariance, PTL

\* getPollsRaw and getIdeasRaw never ask for an item that does not exist, whatever copy of the
\* number they go by.
THEOREM AsksForExistingHolds == Spec => []AsksForExisting
<1>1. IInv => AsksForExisting  BY DEF IInv, Behind
<1> QED  BY <1>1, Invariance, PTL

\* No poll result, in a cache or in flight, has power without the votes that brought it.
THEOREM CountsBehindScoresHolds == Spec => []CountsBehindScores
<1>1. ASSUME IInv PROVE CountsBehindScores
  <2>1. \A i \in Items : \A v \in {remote[i], local[i]} : v # None => v.score <= v.count
    BY <1>1 DEF IInv, Counted
  <2>2. ASSUME NEW t \in Tasks, at[t] # Total, val[t] # None, None \notin {val[t].score, val[t].count}
        PROVE  val[t].score <= val[t].count
    <3>1. stage[t] \in {"query", "store"}  BY <1>1, <2>2 DEF IInv, Typed, Holds, Stages
    <3> QED  BY <1>1, <2>2, <3>1 DEF IInv, Counted, Ordered
  <2> QED  BY <2>1, <2>2 DEF CountsBehindScores
<1> QED  BY <1>1, Invariance, PTL

----------------------------------------------------------------------------
\* Pages.  What was on the first page's list and lies at or above the place the next page
\* ends at has been seen, if no list was shorter than the one before; after an empty page
\* that place is below every item.
PageTyped(pg) ==
  /\ pg.offset \in Nat /\ pg.length \in Nat
  /\ pg.first \subseteq Nat /\ pg.shrunk \in BOOLEAN

PageSound(pg) ==
  ~ pg.shrunk =>
    /\ \A i \in pg.first : i >= pg.length - pg.offset => i \in pg.seen
    /\ pg.over => pg.first \subseteq pg.seen

PageInv == PageTyped(page) /\ PageSound(page)

\* A page is what lies between its two ends.
LEMMA SliceBounds ==
  ASSUME NEW m \in Nat, NEW offset \in Nat
  PROVE  /\ \A i \in Nat : i < m - offset /\ i >= m - offset - Limit => i \in Slice(m, offset)
         /\ Slice(m, offset) = {} => m <= offset
<1>1. \A i \in Nat : i < m - offset /\ i >= m - offset - Limit => i \in Slice(m, offset)
  BY DEF Slice
<1>2. ASSUME ~ m <= offset PROVE m - offset - 1 \in Slice(m, offset)
  BY <1>2 DEF Slice
<1> QED  BY <1>1, <1>2

\* One more page of a list that is not shorter leaves nothing out.
LEMMA TurnSound ==
  ASSUME NEW pg, PageTyped(pg), PageSound(pg), NEW n \in Nat
  PROVE  PageTyped(Turn(pg, n)) /\ PageSound(Turn(pg, n))
<1> DEFINE m == Least(n, Threshold)
           now == Slice(m, pg.offset)
           nxt == Turn(pg, n)
<1>1. m \in Nat /\ List(n) = 0 .. m - 1  BY DEF Least, List
<1>2. /\ nxt.first = IF pg.offset = 0 THEN List(n) ELSE pg.first
      /\ nxt.seen = pg.seen \cup now
      /\ nxt.offset = pg.offset + Limit /\ nxt.length = m
      /\ nxt.shrunk <=> (pg.shrunk \/ m < pg.length)
      /\ nxt.over <=> now = {}
      /\ nxt.shrunk \in BOOLEAN
  BY DEF Turn
<1> HIDE DEF m, nxt
<1>3. /\ \A i \in Nat : i < m - pg.offset /\ i >= m - pg.offset - Limit => i \in now
      /\ now = {} => m <= pg.offset
  BY <1>1, SliceBounds DEF PageTyped
<1> HIDE DEF now
<1>4. PageTyped(nxt)  BY <1>1, <1>2 DEF PageTyped
<1>5. ASSUME ~ nxt.shrunk PROVE m >= pg.length /\ ~ pg.shrunk
  BY <1>1, <1>2, <1>5 DEF PageTyped
<1>6. ASSUME ~ nxt.shrunk, NEW i \in nxt.first, i >= m - pg.offset - Limit
      PROVE  i \in nxt.seen
  <2>1. i \in Nat  BY <1>4 DEF PageTyped
  <2>2. CASE i < m - pg.offset  BY <1>2, <1>3, <1>6, <2>1, <2>2
  <2>3. CASE i >= m - pg.offset /\ pg.offset = 0
    BY <1>1, <1>2, <2>1, <2>3
  <2>4. CASE i >= m - pg.offset /\ pg.offset # 0
    <3>1. i \in pg.first  BY <1>2, <2>4
    <3>2. i >= pg.length - pg.offset
      BY <1>1, <1>5, <1>6, <2>1, <2>4 DEF PageTyped
    <3> QED  BY <1>2, <1>5, <1>6, <3>1, <3>2 DEF PageSound
  <2> QED  BY <1>1, <2>1, <2>2, <2>3, <2>4 DEF PageTyped
<1>7. ASSUME nxt.over, NEW i \in nxt.first PROVE i >= m - pg.offset - Limit
  <2>1. m <= pg.offset /\ i \in Nat  BY <1>2, <1>3, <1>4, <1>7 DEF PageTyped
  <2> QED  BY <1>1, <2>1 DEF PageTyped
<1>8. ASSUME ~ nxt.shrunk, NEW i \in nxt.first, i >= nxt.length - nxt.offset
      PROVE  i \in nxt.seen
  <2>1. i \in Nat /\ i >= m - (pg.offset + Limit)
    BY <1>2, <1>4, <1>8 DEF PageTyped
  <2> QED  BY <1>1, <1>6, <1>8, <2>1 DEF PageTyped
<1>9. nxt = Turn(pg, n)  BY DEF nxt
<1> QED  BY <1>4, <1>6, <1>7, <1>8, <1>9 DEF PageSound, PageTyped

\* A step leaves the pages alone, turns one, or starts over.
LEMMA NextPageInv == ASSUME IInv, PageInv, [Next]_vars PROVE PageInv'
<1>1. PageTyped(NoPage) /\ PageSound(NoPage)  BY DEF NoPage, PageTyped, PageSound
<1>2. ASSUME page' \in {page, NoPage} PROVE PageInv'  BY <1>1, <1>2 DEF PageInv
<1>3. ASSUME NEW r \in Requests, NEW v, v \in Values(at[r]), Answer(r, v) PROVE PageInv'
  <2>1. CASE at[r] = Total /\ r = Client
    <3>1. v \in Nat /\ page' = Turn(page, v)  BY <1>3, <2>1 DEF Answer, Values
    <3> QED  BY <3>1, TurnSound DEF PageInv
  <2>2. CASE ~ (at[r] = Total /\ r = Client)  BY <1>2, <1>3, <2>2 DEF Answer
  <2> QED  BY <2>1, <2>2
<1>4. ASSUME NEW r \in Requests, Ask(r) PROVE PageInv'  BY <1>2, <1>4 DEF Ask
<1>5. ASSUME NEW r \in Requests, LocalHit(r) \/ RemoteHit(r) \/ Fill(r) PROVE PageInv'
  <2>1. r \in Tasks /\ at[r] \in Keys  BY DEF Tasks, IInv, Typed
  <2>2. CASE LocalHit(r)  BY <1>3, <2>1, <2>2, CacheSound DEF LocalHit
  <2>3. CASE RemoteHit(r)  BY <1>3, <2>1, <2>3, CacheSound DEF RemoteHit
  <2>4. CASE Fill(r)  BY <1>3, <2>1, <2>4 DEF Fill, IInv, Holds
  <2> QED  BY <1>5, <2>2, <2>3, <2>4
<1>6. ASSUME UNCHANGED page PROVE PageInv'  BY <1>2, <1>6
<1>7. ASSUME NEW t, Query(t) PROVE UNCHANGED page
  BY <1>7 DEF Query, ReadTotal, ReadScore, ReadCount, Read
<1>8. ASSUME NEW r \in Requests, Step(r) PROVE PageInv'
  BY <1>5, <1>6, <1>7, <1>8 DEF Step, Miss
<1>9. CASE Warm \/ Set \/ Query(Warmer)  BY <1>6, <1>7, <1>9 DEF Warm, Set
<1>10. CASE \/ \E t \in Tasks : Fail(t)
            \/ New \/ \E i \in Items : Vote(i)
            \/ \E k \in Keys : ExpireRemote(k) \/ ExpireLocal(k)
            \/ UNCHANGED vars
  BY <1>6, <1>10 DEF Fail, New, Vote, ExpireRemote, ExpireLocal, vars
<1> QED  BY <1>4, <1>8, <1>9, <1>10 DEF Next

\* A client of getIdeas that reads on to an empty page has seen all of the list it started
\* with, however long the list grows meanwhile, unless one was shorter than the one before.
THEOREM PagesSkipNothingHolds == Spec => []PagesSkipNothing
<1>1. Init => PageInv  BY DEF Init, NoPage, PageInv, PageTyped, PageSound
<1>2. PageInv => PagesSkipNothing
  BY DEF PageInv, PageTyped, PageSound, PagesSkipNothing
<1> QED  BY <1>1, <1>2, NextPageInv, Invariance, PTL DEF Spec
=============================================================================
