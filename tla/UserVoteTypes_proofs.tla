------------------------ MODULE UserVoteTypes_proofs ------------------------
(***************************************************************************)
(* Proofs about UserVoteTypes, for any processes, requests and proposals.  *)
(*                                                                         *)
(* Every list that appears in a step comes from a list that was there, or  *)
(* is empty, or adds one vote to a list that was there (Derived).  Both    *)
(* NoInvention and HealedStaysHealed follow from that.                     *)
(***************************************************************************)
EXTENDS UserVoteTypes, TLAPS

----------------------------------------------------------------------------
\* A task that is not idle works on a proposal.
Busy == \A t \in Tasks : pc[t] # "idle" => asked[t] \in Proposals

\* The handler works on votes that were cast.
Events ==
  /\ \A p \in queue : chain[p] # "open"
  /\ pc[Handler] # "idle" => chain[asked[Handler]] # "open"

\* K is a list of the present state with the vote v on p added.
Adds(K, L, p, v) ==
  /\ L = [K EXCEPT ![p] = v]
  /\ v = "Voted" => chain[p] # "open"
  /\ v = "NotVoted" => chain[p] # "indexed"

\* The lists a step can lead to from the present state.
Derived(L) ==
  \/ L \in Lists
  \/ L = EmptyList
  \/ \E K \in Lists, p \in Proposals, v \in Votes : Adds(K, L, p, v)

ChainGrows ==
  \A p \in Proposals : /\ chain[p] # "open" => chain'[p] # "open"
                       /\ chain[p] = "indexed" => chain'[p] = "indexed"

Derivation == ChainGrows /\ \A L \in Lists' : Derived(L)

StepOK == TypeOK' /\ Busy' /\ Events' /\ Derivation

Inv == TypeOK /\ Busy /\ Events
IInv == Inv /\ NoInvention

----------------------------------------------------------------------------
LEMMA TaskFacts ==
  /\ Handler \in Tasks
  /\ \A t \in Tasks : Home(t) \in Procs
  /\ EmptyList \in List
  /\ \A L \in List, p \in Proposals, v \in Votes : [L EXCEPT ![p] = v] \in List
<1>1. Handler \in Tasks  BY DEF Tasks
<1>2. \A t \in Tasks : Home(t) \in Procs  BY DEF Handler, Tasks, Requests, Home, Procs
<1>3. EmptyList \in List  BY DEF EmptyList, List
<1>4. \A L \in List, p \in Proposals, v \in Votes : [L EXCEPT ![p] = v] \in List
  BY DEF List, Votes
<1> QED  BY <1>1, <1>2, <1>3, <1>4

\* The lists of the present state are lists.
LEMMA ListsTyped == ASSUME TypeOK PROVE Lists \subseteq List
BY DEF TypeOK, Lists, Entry

LEMMA ListsIntro ==
  ASSUME TypeOK
  PROVE  /\ \A L \in remote : L \in Lists
         /\ \A x \in Procs : \A L \in local[x] : L \in Lists
         /\ \A t \in Tasks : held[t] \in Lists
BY DEF TypeOK, Entry, Lists

\* It is enough to look at the three places of the next state.
LEMMA DerivedPlaces ==
  ASSUME \A L \in remote' : Derived(L),
         \A x \in Procs : \A L \in local'[x] : Derived(L),
         \A t \in Tasks : Derived(held'[t])
  PROVE  \A L \in Lists' : Derived(L)
BY DEF Lists

\* Nothing changes in the places a step leaves alone.
LEMMA DerivedKept ==
  ASSUME TypeOK
  PROVE  /\ remote' = remote => \A L \in remote' : Derived(L)
         /\ local' = local => \A x \in Procs : \A L \in local'[x] : Derived(L)
         /\ held' = held => \A t \in Tasks : Derived(held'[t])
BY ListsIntro DEF Derived

----------------------------------------------------------------------------
\* A task t goes on, holding a derived list.
LEMMA HoldStep ==
  ASSUME Inv, NEW t \in Tasks, NEW to \in PcValues, NEW p \in Proposals, NEW L \in List,
         Derived(L), Hold(t, to, p, L)
  PROVE  /\ pc' \in [Tasks -> PcValues]
         /\ asked' \in [Tasks -> Proposals \cup {None}]
         /\ held' \in [Tasks -> List]
         /\ Busy'
         /\ \A u \in Tasks : Derived(held'[u])
<1>1. \A u \in Tasks : Derived(held[u])  BY DerivedKept, ListsIntro DEF Inv, Derived
<1> QED  BY <1>1 DEF Inv, TypeOK, Busy, Hold, PcValues

\* A task t ends.
LEMMA EndStep ==
  ASSUME Inv, NEW t \in Tasks, End(t)
  PROVE  /\ pc' \in [Tasks -> PcValues]
         /\ asked' \in [Tasks -> Proposals \cup {None}]
         /\ held' \in [Tasks -> List]
         /\ Busy'
         /\ \A u \in Tasks : Derived(held'[u])
<1>1. \A u \in Tasks : Derived(held[u])  BY ListsIntro DEF Inv, Derived
<1>2. Derived(EmptyList)  BY DEF Derived
<1> QED  BY <1>1, <1>2, TaskFacts DEF Inv, TypeOK, Busy, End, PcValues

\* A derived list stays in the memory of the process of t.
LEMMA CopyStep ==
  ASSUME Inv, NEW t \in Tasks, NEW L \in List, Derived(L), Copy(t, L)
  PROVE  /\ local' \in [Procs -> Entry]
         /\ \A x \in Procs : \A K \in local'[x] : Derived(K)
<1>1. \A x \in Procs : \A K \in local[x] : Derived(K)  BY ListsIntro DEF Inv, Derived
<1>2. Home(t) \in Procs  BY TaskFacts
<1>3. local' = [local EXCEPT ![Home(t)] = {L}]  BY DEF Copy
<1>4. {L} \in Entry  BY DEF Entry
<1> QED  BY <1>1, <1>2, <1>3, <1>4 DEF Inv, TypeOK

\* What a task does with a list it has read.
LEMMA UseStep ==
  ASSUME Inv, NEW t \in Tasks, NEW p \in Proposals, NEW L \in Lists, Use(t, p, L),
         t = Handler => chain[p] # "open"
  PROVE  /\ pc' \in [Tasks -> PcValues]
         /\ asked' \in [Tasks -> Proposals \cup {None}]
         /\ held' \in [Tasks -> List]
         /\ Busy'
         /\ \A u \in Tasks : Derived(held'[u])
         /\ local' \in [Procs -> Entry]
         /\ \A x \in Procs : \A K \in local'[x] : Derived(K)
         /\ pc'[Handler] # "idle" /\ t # Handler =>
              pc'[Handler] = pc[Handler] /\ asked'[Handler] = asked[Handler]
         /\ t = Handler => asked'[Handler] = p
<1>1. L \in List /\ Derived(L)  BY ListsTyped DEF Inv, Derived
<1>2. CASE t = Handler
  <2> DEFINE K == [L EXCEPT ![p] = "Voted"]
  <2>1. K \in List  BY <1>1, TaskFacts DEF Votes
  <2>2. Derived(K)  BY <1>2 DEF Derived, Adds, Votes
  <2>3. Hold(t, "setRemote", p, K) /\ Copy(t, K)  BY <1>2 DEF Use, SetVote, Store
  <2> HIDE DEF K
  <2>4. asked'[Handler] = p  BY <1>2, <2>3 DEF Hold, Inv, TypeOK
  <2> QED  BY <1>2, <2>1, <2>2, <2>3, <2>4, HoldStep, CopyStep DEF PcValues
<1>3. CASE t # Handler /\ Found(t, p, L)
  <2>1. End(t) /\ Copy(t, L)  BY <1>3 DEF Found
  <2>2. pc'[Handler] = pc[Handler] /\ asked'[Handler] = asked[Handler]
    BY <1>3, <2>1, TaskFacts DEF End, Inv, TypeOK
  <2> QED  BY <1>1, <1>3, <2>1, <2>2, EndStep, CopyStep
<1>4. CASE t # Handler /\ Missing(t, p, L)
  <2>1. Hold(t, "query", p, L) /\ Copy(t, L)  BY <1>4 DEF Missing
  <2>2. pc'[Handler] = pc[Handler] /\ asked'[Handler] = asked[Handler]
    BY <1>4, <2>1, TaskFacts DEF Hold, Inv, TypeOK
  <2> QED  BY <1>1, <1>4, <2>1, <2>2, HoldStep, CopyStep DEF PcValues
<1> QED  BY <1>2, <1>3, <1>4 DEF Use

----------------------------------------------------------------------------
\* The events of a step that changes neither the chain nor the queue.
LEMMA EventsKept ==
  ASSUME Events, chain' = chain, queue' = queue,
         pc'[Handler] # "idle" => pc[Handler] # "idle" /\ asked'[Handler] = asked[Handler]
  PROVE  Events' /\ ChainGrows
BY DEF Events, ChainGrows

LEMMA ReadStep ==
  ASSUME Inv, NEW t \in Tasks, NEW p \in Proposals, Read(t, p),
         t = Handler => chain[p] # "open"
  PROVE  /\ pc' \in [Tasks -> PcValues]
         /\ asked' \in [Tasks -> Proposals \cup {None}]
         /\ held' \in [Tasks -> List]
         /\ Busy'
         /\ \A u \in Tasks : Derived(held'[u])
         /\ local' \in [Procs -> Entry]
         /\ \A x \in Procs : \A K \in local'[x] : Derived(K)
         /\ pc'[Handler] # "idle" /\ t # Handler =>
              pc'[Handler] = pc[Handler] /\ asked'[Handler] = asked[Handler]
         /\ t = Handler => asked'[Handler] = p
<1>1. CASE \E L \in local[Home(t)] : Use(t, p, L)
  <2>1. PICK L \in local[Home(t)] : Use(t, p, L)  BY <1>1
  <2>2. L \in Lists  BY ListsIntro, TaskFacts DEF Inv
  <2> QED  BY <2>1, <2>2, UseStep
<1>2. CASE Hold(t, "getRemote", p, EmptyList) /\ UNCHANGED local
  <2>1. Derived(EmptyList)  BY DEF Derived
  <2>2. t # Handler => pc'[Handler] = pc[Handler] /\ asked'[Handler] = asked[Handler]
    BY <1>2, TaskFacts DEF Hold, Inv, TypeOK
  <2>3. t = Handler => asked'[Handler] = p  BY <1>2 DEF Hold, Inv, TypeOK
  <2>4. \A x \in Procs : \A K \in local'[x] : Derived(K)  BY <1>2, DerivedKept DEF Inv
  <2>5. local' \in [Procs -> Entry]  BY <1>2 DEF Inv, TypeOK
  <2> QED  BY <1>2, <2>1, <2>2, <2>3, <2>4, <2>5, HoldStep, TaskFacts DEF PcValues
<1> QED  BY <1>1, <1>2 DEF Read

LEMMA AskStep == ASSUME Inv, NEW t \in Tasks, NEW p \in Proposals, Ask(t, p) PROVE StepOK
<1>1. t # Handler
  BY ProcsAssumption DEF Ask, Requests, Handler
<1>2. UNCHANGED <<chain, queue, remote, inbox, fails>> /\ Read(t, p)  BY DEF Ask
<1>3. \A L \in remote' : Derived(L)  BY <1>2, DerivedKept DEF Inv
<1>4. pc'[Handler] # "idle" =>
        pc'[Handler] = pc[Handler] /\ asked'[Handler] = asked[Handler]
  BY <1>1, <1>2, ReadStep
<1>5. Events' /\ ChainGrows  BY <1>2, <1>4, EventsKept DEF Inv
<1>6. TypeOK'  BY <1>1, <1>2, ReadStep DEF Inv, TypeOK
<1>7. Busy'  BY <1>1, <1>2, ReadStep
<1>8. \A L \in Lists' : Derived(L)  BY <1>1, <1>2, <1>3, ReadStep, DerivedPlaces
<1> QED  BY <1>5, <1>6, <1>7, <1>8 DEF StepOK, Derivation

LEMMA DeliverStep == ASSUME Inv, NEW p \in Proposals, Deliver(p) PROVE StepOK
<1>1. chain[p] # "open"  BY DEF Deliver, Inv, Events
<1>2. UNCHANGED <<chain, remote, inbox, fails>> /\ Read(Handler, p) /\ queue' = queue \ {p}
  BY DEF Deliver
<1>3. \A L \in remote' : Derived(L)  BY <1>2, DerivedKept DEF Inv
<1>4. Handler \in Tasks  BY TaskFacts
<1>5. asked'[Handler] = p  BY <1>1, <1>2, <1>4, ReadStep
<1>6. Events' /\ ChainGrows  BY <1>1, <1>2, <1>5 DEF Inv, Events, ChainGrows
<1>7. TypeOK'  BY <1>1, <1>2, <1>4, ReadStep DEF Inv, TypeOK
<1>8. Busy'  BY <1>1, <1>2, <1>4, ReadStep
<1>9. \A L \in Lists' : Derived(L)  BY <1>1, <1>2, <1>3, <1>4, ReadStep, DerivedPlaces
<1> QED  BY <1>6, <1>7, <1>8, <1>9 DEF StepOK, Derivation

LEMMA RemoteHitStep == ASSUME Inv, NEW t \in Tasks, RemoteHit(t) PROVE StepOK
<1>1. PICK L \in remote : Hold(t, "keep", asked[t], L)  BY DEF RemoteHit
<1>2. L \in List /\ Derived(L)  BY ListsIntro, ListsTyped DEF Inv, Derived
<1>3. asked[t] \in Proposals  BY DEF RemoteHit, Inv, Busy
<1>4. UNCHANGED <<chain, queue, remote, local, inbox, fails>>  BY DEF RemoteHit
<1>5. Events' /\ ChainGrows
  <2>1. pc'[Handler] # "idle" => pc[Handler] # "idle" /\ asked'[Handler] = asked[Handler]
    BY <1>1, TaskFacts DEF RemoteHit, Hold, Inv, TypeOK
  <2> QED  BY <1>4, <2>1, EventsKept DEF Inv
<1>6. TypeOK' /\ Busy'
  BY <1>1, <1>2, <1>3, <1>4, HoldStep DEF PcValues, Inv, TypeOK
<1>7. \A u \in Tasks : Derived(held'[u])
  BY <1>1, <1>2, <1>3, HoldStep DEF PcValues
<1>8. \A K \in Lists' : Derived(K)  BY <1>4, <1>7, DerivedKept, DerivedPlaces DEF Inv
<1> QED  BY <1>5, <1>6, <1>8 DEF StepOK, Derivation

LEMMA RemoteMissStep == ASSUME Inv, NEW t \in Tasks, RemoteMiss(t) PROVE StepOK
<1>1. UNCHANGED <<chain, queue, remote, local, asked, held, inbox, fails>>
  BY DEF RemoteMiss
<1>2. TypeOK' /\ Busy' /\ Events' /\ ChainGrows
  BY <1>1 DEF RemoteMiss, Goto, Inv, TypeOK, Busy, Events, ChainGrows, PcValues
<1>3. \A K \in Lists' : Derived(K)  BY <1>1, DerivedKept, DerivedPlaces DEF Inv
<1> QED  BY <1>2, <1>3 DEF StepOK, Derivation

LEMMA FillStep == ASSUME Inv, NEW t \in Tasks, Fill(t) PROVE StepOK
<1>1. UNCHANGED <<chain, queue, local, asked, held, inbox, fails>> /\ remote' = {held[t]}
  BY DEF Fill
<1>2. Busy' /\ Events' /\ ChainGrows
  BY <1>1 DEF Fill, Goto, Inv, TypeOK, Busy, Events, ChainGrows
<1>3. TypeOK'  BY <1>1 DEF Fill, Goto, Inv, TypeOK, PcValues, Entry
<1>4. \A K \in remote' : Derived(K)  BY <1>1, ListsIntro DEF Inv, Derived
<1>5. \A K \in Lists' : Derived(K)  BY <1>1, <1>4, DerivedKept, DerivedPlaces DEF Inv
<1> QED  BY <1>2, <1>3, <1>5 DEF StepOK, Derivation

LEMMA KeepStep == ASSUME Inv, NEW t \in Tasks, Keep(t) PROVE StepOK
<1>1. UNCHANGED <<chain, queue, remote, inbox, fails>> /\ Use(t, asked[t], held[t])
  BY DEF Keep
<1>2. asked[t] \in Proposals /\ held[t] \in Lists  BY ListsIntro DEF Keep, Inv, Busy
<1>3. t = Handler => chain[asked[t]] # "open"  BY DEF Keep, Inv, Events
<1>4. pc'[Handler] # "idle" => pc[Handler] # "idle" /\ asked'[Handler] = asked[Handler]
  BY <1>1, <1>2, <1>3, UseStep DEF Keep
<1>5. Events' /\ ChainGrows  BY <1>1, <1>4, EventsKept DEF Inv
<1>6. TypeOK' /\ Busy'  BY <1>1, <1>2, <1>3, UseStep DEF Inv, TypeOK
<1>7. \A u \in Tasks : Derived(held'[u])  BY <1>1, <1>2, <1>3, UseStep
<1>8. \A x \in Procs : \A K \in local'[x] : Derived(K)  BY <1>1, <1>2, <1>3, UseStep
<1>9. \A K \in Lists' : Derived(K)  BY <1>1, <1>7, <1>8, DerivedKept, DerivedPlaces DEF Inv
<1> QED  BY <1>5, <1>6, <1>9 DEF StepOK, Derivation

LEMMA QueryStep == ASSUME Inv, NEW t \in Tasks, Query(t) PROVE StepOK
<1> DEFINE vote == IF chain[asked[t]] = "indexed" THEN "Voted" ELSE "NotVoted"
           K == [held[t] EXCEPT ![asked[t]] = vote]
<1>1. UNCHANGED <<chain, queue, remote, inbox, fails>> /\ Store(t, asked[t], K)
  BY DEF Query
<1>2. asked[t] \in Proposals /\ held[t] \in Lists  BY ListsIntro DEF Query, Inv, Busy
<1>3. vote \in Votes  BY DEF Votes
<1>4. K \in List  BY <1>2, <1>3, TaskFacts, ListsTyped DEF Inv
<1>5. Derived(K)
  <2>1. Adds(held[t], K, asked[t], vote)  BY DEF Adds
  <2> HIDE DEF K, vote
  <2> QED  BY <1>2, <1>3, <2>1 DEF Derived
<1> HIDE DEF K
<1>6. Hold(t, "setRemote", asked[t], K) /\ Copy(t, K)  BY <1>1 DEF Store
<1>7. pc'[Handler] # "idle" => pc[Handler] # "idle" /\ asked'[Handler] = asked[Handler]
  BY <1>6, TaskFacts DEF Query, Hold, Inv, TypeOK
<1>8. Events' /\ ChainGrows  BY <1>1, <1>7, EventsKept DEF Inv
<1>9. TypeOK' /\ Busy'
  BY <1>1, <1>2, <1>4, <1>5, <1>6, HoldStep, CopyStep DEF PcValues, Inv, TypeOK
<1>10. \A u \in Tasks : Derived(held'[u])
  BY <1>2, <1>4, <1>5, <1>6, HoldStep DEF PcValues
<1>11. \A x \in Procs : \A L \in local'[x] : Derived(L)  BY <1>4, <1>5, <1>6, CopyStep
<1>12. \A L \in Lists' : Derived(L)  BY <1>1, <1>10, <1>11, DerivedKept, DerivedPlaces DEF Inv
<1> QED  BY <1>8, <1>9, <1>12 DEF StepOK, Derivation
LEMMA SetRemoteStep == ASSUME Inv, NEW t \in Tasks, SetRemote(t) PROVE StepOK
<1>1. UNCHANGED <<chain, queue, local, inbox, fails>> /\ remote' = {held[t]}
  BY DEF SetRemote
<1>2. held[t] \in List /\ held[t] \in Lists /\ asked[t] \in Proposals
  BY ListsIntro DEF SetRemote, Inv, TypeOK, Busy
<1>3. \A K \in remote' : Derived(K)  BY <1>1, <1>2 DEF Derived
<1>4. remote' \in Entry  BY <1>1, <1>2 DEF Entry
<1>5. CASE t = Handler /\ Hold(t, "publish", asked[t], EmptyList)
  <2>1. Derived(EmptyList)  BY DEF Derived
  <2>2. pc'[Handler] # "idle" => pc[Handler] # "idle" /\ asked'[Handler] = asked[Handler]
    BY <1>5 DEF SetRemote, Hold, Inv, TypeOK
  <2>3. Events' /\ ChainGrows  BY <1>1, <2>2, EventsKept DEF Inv
  <2>4. TypeOK' /\ Busy'
    BY <1>1, <1>2, <1>4, <1>5, <2>1, HoldStep, TaskFacts DEF PcValues, Inv, TypeOK
  <2>5. \A u \in Tasks : Derived(held'[u])
    BY <1>2, <1>5, <2>1, HoldStep, TaskFacts DEF PcValues
  <2>6. \A K \in Lists' : Derived(K)
    BY <1>1, <1>3, <2>5, DerivedKept, DerivedPlaces DEF Inv
  <2> QED  BY <2>3, <2>4, <2>6 DEF StepOK, Derivation
<1>6. CASE t # Handler /\ End(t)
  <2>1. pc'[Handler] # "idle" => pc[Handler] # "idle" /\ asked'[Handler] = asked[Handler]
    BY <1>6, TaskFacts DEF End, Inv, TypeOK
  <2>2. Events' /\ ChainGrows  BY <1>1, <2>1, EventsKept DEF Inv
  <2>3. TypeOK' /\ Busy'  BY <1>1, <1>4, <1>6, EndStep DEF Inv, TypeOK
  <2>4. \A u \in Tasks : Derived(held'[u])  BY <1>6, EndStep
  <2>5. \A K \in Lists' : Derived(K)
    BY <1>1, <1>3, <2>4, DerivedKept, DerivedPlaces DEF Inv
  <2> QED  BY <2>2, <2>3, <2>5 DEF StepOK, Derivation
<1> QED  BY <1>5, <1>6 DEF SetRemote

LEMMA PublishStep == ASSUME Inv, Publish PROVE StepOK
<1>1. UNCHANGED <<chain, queue, remote, local, fails>> /\ End(Handler) /\ inbox' = Apis
  BY DEF Publish
<1>2. pc'[Handler] = "idle"  BY <1>1, TaskFacts DEF End, Inv, TypeOK
<1>3. Events' /\ ChainGrows  BY <1>1, <1>2, EventsKept DEF Inv
<1>4. TypeOK' /\ Busy'  BY <1>1, EndStep, TaskFacts DEF Inv, TypeOK
<1>5. \A K \in Lists' : Derived(K)
  BY <1>1, EndStep, TaskFacts, DerivedKept, DerivedPlaces DEF Inv
<1> QED  BY <1>3, <1>4, <1>5 DEF StepOK, Derivation

LEMMA FailStep == ASSUME Inv, NEW t \in Tasks, Fail(t) PROVE StepOK
<1>1. UNCHANGED <<chain, queue, remote, local, inbox, fails>> /\ End(t)  BY DEF Fail
<1>2. pc'[Handler] # "idle" => pc[Handler] # "idle" /\ asked'[Handler] = asked[Handler]
  BY <1>1, TaskFacts DEF End, Inv, TypeOK
<1>3. Events' /\ ChainGrows  BY <1>1, <1>2, EventsKept DEF Inv
<1>4. TypeOK' /\ Busy'  BY <1>1, EndStep DEF Inv, TypeOK
<1>5. \A K \in Lists' : Derived(K)  BY <1>1, EndStep, DerivedKept, DerivedPlaces DEF Inv
<1> QED  BY <1>3, <1>4, <1>5 DEF StepOK, Derivation

LEMMA HandlerFailsStep == ASSUME Inv, HandlerFails PROVE StepOK
<1>1. /\ UNCHANGED <<chain, remote, local, inbox>> /\ End(Handler)
      /\ queue' = queue \cup {asked[Handler]} /\ fails' = fails + 1
  BY DEF HandlerFails
<1>2. asked[Handler] \in Proposals /\ chain[asked[Handler]] # "open"
  BY TaskFacts DEF HandlerFails, Inv, Busy, Events
<1>3. pc'[Handler] = "idle"  BY <1>1, TaskFacts DEF End, Inv, TypeOK
<1>4. Events' /\ ChainGrows  BY <1>1, <1>2, <1>3 DEF Inv, Events, ChainGrows
<1>5. TypeOK' /\ Busy'  BY <1>1, <1>2, EndStep, TaskFacts DEF Inv, TypeOK
<1>6. \A K \in Lists' : Derived(K)
  BY <1>1, EndStep, TaskFacts, DerivedKept, DerivedPlaces DEF Inv
<1> QED  BY <1>4, <1>5, <1>6 DEF StepOK, Derivation

LEMMA ChainStep ==
  ASSUME Inv, NEW p \in Proposals, Cast(p) \/ Index(p) PROVE StepOK
<1>1. UNCHANGED <<remote, local, pc, asked, held, inbox, fails>>  BY DEF Cast, Index
<1>2. TypeOK' /\ Busy'  BY <1>1 DEF Cast, Index, Inv, TypeOK, Busy
<1>3. ChainGrows  BY DEF Cast, Index, ChainGrows, Inv, TypeOK
<1>4. \A q \in queue' : chain'[q] # "open"
  BY DEF Cast, Index, Inv, TypeOK, Events
<1>5. Events'
  BY <1>1, <1>3, <1>4, TaskFacts DEF ChainGrows, Events, Inv, Busy
<1>6. \A K \in Lists' : Derived(K)  BY <1>1, DerivedKept, DerivedPlaces DEF Inv
<1> QED  BY <1>2, <1>3, <1>5, <1>6 DEF StepOK, Derivation

\* The memories and Redis only lose lists.
LEMMA ForgetStep ==
  ASSUME Inv,
         UNCHANGED <<chain, queue, pc, asked, held, fails>>,
         inbox' \in SUBSET Apis,
         remote' = remote \/ remote' = {},
         local' = local \/ \E x \in Procs : local' = [local EXCEPT ![x] = {}]
  PROVE  StepOK
<1>1. TypeOK'  BY DEF Inv, TypeOK, Entry
<1>2. Busy' /\ Events' /\ ChainGrows  BY DEF Inv, Busy, Events, ChainGrows
<1>3. \A K \in remote' : Derived(K)  BY DerivedKept DEF Inv
<1>4. \A x \in Procs : local'[x] = local[x] \/ local'[x] = {}  BY DEF Inv, TypeOK
<1>5. \A x \in Procs : \A K \in local'[x] : Derived(K)
  BY <1>4, ListsIntro DEF Inv, Derived
<1>6. \A K \in Lists' : Derived(K)
  BY <1>3, <1>5, DerivedKept, DerivedPlaces DEF Inv
<1> QED  BY <1>1, <1>2, <1>6 DEF StepOK, Derivation

LEMMA NextStep == ASSUME Inv, [Next]_vars PROVE StepOK
<1>1. ASSUME NEW t \in Tasks, Progress(t) PROVE StepOK
  BY <1>1, RemoteHitStep, RemoteMissStep, FillStep, KeepStep, QueryStep, SetRemoteStep
  DEF Progress
<1>2. ASSUME NEW t \in Tasks, NEW p \in Proposals, Ask(t, p) PROVE StepOK
  BY <1>2, AskStep
<1>3. ASSUME NEW p \in Proposals, Deliver(p) PROVE StepOK  BY <1>3, DeliverStep
<1>4. ASSUME NEW p \in Proposals, Cast(p) \/ Index(p) PROVE StepOK  BY <1>4, ChainStep
<1>5. ASSUME NEW x \in Procs, DeleteCacheKey(x) \/ LoseMessage(x) \/ ExpireLocal(x)
      PROVE StepOK
  BY <1>5, ForgetStep DEF DeleteCacheKey, LoseMessage, ExpireLocal, Inv, TypeOK
<1>6. CASE ExpireRemote  BY <1>6, ForgetStep DEF ExpireRemote, Inv, TypeOK
<1>7. CASE UNCHANGED vars  BY <1>7, ForgetStep DEF vars, Inv, TypeOK
<1>8. ASSUME NEW t \in Tasks, Fail(t) PROVE StepOK  BY <1>8, FailStep
<1> QED
  BY <1>1, <1>2, <1>3, <1>4, <1>5, <1>6, <1>7, <1>8, PublishStep, HandlerFailsStep DEF Next

----------------------------------------------------------------------------
LEMMA InitIInv == Init => IInv
<1> SUFFICES ASSUME Init PROVE IInv  OBVIOUS
<1>1. TypeOK
  BY TaskFacts, FailsAssumption DEF Init, TypeOK, PcValues, Entry
<1>2. Busy /\ Events  BY TaskFacts DEF Init, Busy, Events
<1>3. \A L \in Lists : L = EmptyList  BY DEF Init, Lists
<1>4. NoInvention  BY <1>3 DEF NoInvention, EmptyList
<1> QED  BY <1>1, <1>2, <1>4 DEF IInv, Inv

\* A list derived from lists without invented votes has none.
LEMMA InventionStep ==
  ASSUME TypeOK, NoInvention, Derivation PROVE NoInvention'
<1> SUFFICES ASSUME NEW p \in Proposals, NEW L \in Lists', L[p] = "Voted"
             PROVE  chain'[p] # "open"
  BY DEF NoInvention
<1>1. Derived(L)  BY DEF Derivation
<1>2. chain[p] # "open" => chain'[p] # "open"  BY DEF Derivation, ChainGrows
<1>3. CASE L \in Lists  BY <1>2, <1>3 DEF NoInvention
<1>4. CASE L = EmptyList  BY <1>4 DEF EmptyList
<1>5. CASE \E K \in Lists, q \in Proposals, v \in Votes : Adds(K, L, q, v)
  <2>1. PICK K \in Lists, q \in Proposals, v \in Votes : Adds(K, L, q, v)  BY <1>5
  <2>2. K \in List  BY ListsTyped
  <2>3. CASE q = p  BY <1>2, <2>1, <2>2, <2>3 DEF Adds, List
  <2>4. CASE q # p  BY <1>2, <2>1, <2>2, <2>4 DEF Adds, List, NoInvention
  <2> QED  BY <2>3, <2>4
<1> QED  BY <1>1, <1>3, <1>4, <1>5 DEF Derived

\* A list derived from lists that know the vote, once elastic has it, knows it.
LEMMA HealedStep ==
  ASSUME TypeOK, Derivation, NEW p \in Proposals, Healed(p) PROVE Healed(p)'
<1>1. chain'[p] = "indexed"  BY DEF Healed, Derivation, ChainGrows
<1>2. ASSUME NEW L \in Lists' PROVE L[p] # "NotVoted"
  <2>1. Derived(L)  BY DEF Derivation
  <2>2. CASE L \in Lists  BY <2>2 DEF Healed
  <2>3. CASE L = EmptyList  BY <2>3 DEF EmptyList
  <2>4. CASE \E K \in Lists, q \in Proposals, v \in Votes : Adds(K, L, q, v)
    <3>1. PICK K \in Lists, q \in Proposals, v \in Votes : Adds(K, L, q, v)  BY <2>4
    <3>2. K \in List  BY ListsTyped
    <3>3. CASE q = p  BY <3>1, <3>2, <3>3 DEF Adds, List, Healed
    <3>4. CASE q # p  BY <3>1, <3>2, <3>4 DEF Adds, List, Healed
    <3> QED  BY <3>3, <3>4
  <2> QED  BY <2>1, <2>2, <2>3, <2>4 DEF Derived
<1> QED  BY <1>1, <1>2 DEF Healed

LEMMA IInvHolds == Spec => []IInv
<1>1. IInv /\ [Next]_vars => IInv'
  BY NextStep, InventionStep DEF IInv, Inv, StepOK
<1> QED  BY InitIInv, <1>1, PTL DEF Spec

----------------------------------------------------------------------------
\* Every variable of the two writers keeps its type.
THEOREM TypeCorrect == Spec => []TypeOK
<1>1. IInv => TypeOK  BY DEF IInv, Inv
<1> QED  BY IInvHolds, <1>1, PTL

\* No cached list of a user's votes claims a vote the user has not cast.
THEOREM NoInventionHolds == Spec => []NoInvention
<1>1. IInv => NoInvention  BY DEF IInv
<1> QED  BY IInvHolds, <1>1, PTL

\* hasVoted never turns false again once elastic has the vote and the lists that said
\* NotVoted are gone.
THEOREM HealedStaysHealedHolds == Spec => HealedStaysHealed
<1>1. IInv /\ [Next]_vars => [\A p \in Proposals : Healed(p) => Healed(p)']_vars
  BY NextStep, HealedStep DEF IInv, Inv, StepOK
<1> QED  BY IInvHolds, <1>1, PTL DEF Spec, HealedStaysHealed
=============================================================================
