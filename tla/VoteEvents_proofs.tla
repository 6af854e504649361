------------------------- MODULE VoteEvents_proofs --------------------------
(***************************************************************************)
(* For any voters, API processes and bounds: the safety properties of      *)
(* VoteEvents.  Each of them speaks of the tally in Redis or in a memory;  *)
(* its strengthening adds what a read under way and the handler's position *)
(* in the head message must satisfy for the next write to keep it.         *)
(***************************************************************************)
EXTENDS VoteEvents, SequenceTheorems, TLAPS

USE NotifierAssumption, BoundAssumption

\* The handler works on an event of the head message.
AtEvent == step # "idle" => queue # <<>> /\ idx \in 1 .. Len(Head(queue))

\* A read that has an answer has a tally.
HasTally ==
  /\ \A p \in Procs : rpc[p] \in {"fill", "keep", "done"} => rval[p] \in Tally
  /\ \A p \in Apis : rpc[p] # "done"

TypeInv == TypeOK /\ AtEvent /\ HasTally

LEMMA BlockType == ASSUME NEW b \in Blocks PROVE b \in Seq(Voters) \ {<<>>}
<1>1. PICK n \in 1 .. MaxBlock : b \in [1 .. n -> Voters \ cast]
  BY DEF Blocks
<1>2. b \in Seq(Voters) /\ Len(b) = n
  BY <1>1
<1> QED BY <1>2

LEMMA VoterType == ASSUME TypeInv, step # "idle" PROVE Voter \in Voters
<1>1. queue # <<>> /\ queue \in Seq(Seq(Voters) \ {<<>>})
  BY DEF TypeInv, TypeOK, AtEvent
<1>2. Head(queue) \in Seq(Voters)
  BY <1>1
<1> QED BY <1>1, <1>2 DEF TypeInv, AtEvent, Voter

LEMMA ChainTallyType == ChainTally \in Tally
  BY DEF ChainTally, Tally

LEMMA Increment ==
  ASSUME NEW t \in Tally, NEW v \in Voters PROVE [t EXCEPT ![v] = @ + 1] \in Tally
  BY DEF Tally

LEMMA IncreasedType ==
  ASSUME TypeInv, step # "idle", rpc[Notifier] = "done"
  PROVE  rval[Notifier] \in Tally /\ Increased \in Tally
<1>1. rval[Notifier] \in Tally
  BY DEF TypeInv, HasTally, Procs
<1> QED BY <1>1, VoterType, Increment DEF Increased

\* An exception may have written any part of what its step writes.
LEMMA FailureType ==
  ASSUME TypeInv, step # "idle", Nothing \/ WroteKey \/ WroteVotes \/ Published
  PROVE  /\ remote' \in Tally \cup {None}
         /\ mem' \in [Procs -> Tally \cup {None}]
         /\ inbox' \in SUBSET Apis
         /\ counted' \in Tally
         /\ exposed' \in SUBSET Voters
         /\ unannounced' \in SUBSET Key
<1> USE VoterType, IncreasedType DEF TypeInv, TypeOK
<1>1. CASE Nothing
  BY <1>1 DEF Nothing
<1>2. CASE WroteKey
  BY <1>2 DEF WroteKey, Key
<1>3. CASE WroteVotes
  <2>1. counted' \in Tally
    BY <1>3, Increment DEF WroteVotes
  <2>2. mem' \in [Procs -> Tally \cup {None}] /\ remote' \in Tally \cup {None}
    BY <1>3 DEF WroteVotes
  <2>3. exposed' \in SUBSET Voters
    BY <1>3 DEF WroteVotes, Spanned
  <2> QED BY <1>3, <2>1, <2>2, <2>3 DEF WroteVotes, Key
<1>4. CASE Published
  BY <1>4 DEF Published
<1> QED BY <1>1, <1>2, <1>3, <1>4

LEMMA TypeStep == TypeInv /\ [Next]_vars => TypeInv'
<1> SUFFICES ASSUME TypeInv, [Next]_vars PROVE TypeInv'
  OBVIOUS
<1> USE ChainTallyType, VoterType DEF TypeInv, TypeOK, AtEvent, HasTally, Steps, Reads
<1>1. ASSUME NEW b \in Blocks, CastBlock(b) PROVE TypeInv'
  <2>1. b \in Seq(Voters) \ {<<>>} /\ {b[i] : i \in DOMAIN b} \subseteq Voters
    BY BlockType
  <2>2. queue' \in Seq(Seq(Voters) \ {<<>>})
    BY <1>1, <2>1, AppendProperties DEF CastBlock
  <2>3. queue # <<>> => queue' # <<>> /\ Head(queue') = Head(queue)
    BY <1>1, <2>1, AppendProperties, HeadTailProperties DEF CastBlock
  <2> QED BY <1>1, <2>1, <2>2, <2>3 DEF CastBlock, handlerVars, cacheVars
<1>2. ASSUME NEW p \in Procs, ReadStep(p) \/ LocalMiss(p) PROVE TypeInv'
  <2> USE DEF Procs, Read, handlerVars
  <2>1. CASE LocalMiss(p)
    BY <2>1 DEF LocalMiss, MayRead
  <2>2. CASE RemoteHit(p)
    BY <2>2 DEF RemoteHit
  <2>3. CASE RemoteMiss(p)
    BY <2>3 DEF RemoteMiss
  <2>4. CASE Query(p)
    BY <2>4 DEF Query
  <2>5. CASE Fill(p)
    BY <2>5 DEF Fill
  <2>6. CASE Keep(p)
    BY <2>6 DEF Keep
  <2> QED BY <1>2, <2>1, <2>2, <2>3, <2>4, <2>5, <2>6 DEF ReadStep
<1>3. CASE LocalHit
  BY <1>3 DEF LocalHit, MayRead, Read, Procs, handlerVars
<1>4. CASE Deliver
  <2>1. Head(queue) \in Seq(Voters) \ {<<>>}
    BY <1>4 DEF Deliver
  <2>2. Len(Head(queue)) \in Nat \ {0}
    BY <2>1, EmptySeq, LenProperties
  <2> QED BY <1>4, <2>2 DEF Deliver, Handler, cacheVars
<1>5. CASE SetVoted \/ SetTypes
  <2>1. step # "idle" /\ keys' \in SUBSET Key /\ unannounced' \in SUBSET Key
    BY <1>5 DEF SetVoted, SetTypes, Handler, Write, Key
  <2> QED BY <1>5, <2>1 DEF SetVoted, SetTypes, Handler, cacheVars
<1>6. CASE SetVotes
  <2>1. step = "read" /\ rpc[Notifier] = "done"
    BY <1>6 DEF SetVotes, Handler
  <2>2. keys' \in SUBSET Key /\ unannounced' \in SUBSET Key
    BY <1>6 DEF SetVotes, Write, Key
  <2>3. counted' \in Tally /\ Increased \in Tally
    BY <1>6, <2>1, Increment, IncreasedType DEF SetVotes
  <2>4. exposed' \in SUBSET Voters
    BY <1>6, <2>1 DEF SetVotes, Spanned
  <2>5. rpc' \in [Procs -> Reads] /\ rval' \in [Procs -> Tally \cup {None}] /\ HasTally'
    BY <1>6 DEF SetVotes, EndRead, Procs
  <2> QED BY <1>6, <2>1, <2>2, <2>3, <2>4, <2>5 DEF SetVotes, Handler
<1>7. CASE Publish
  BY <1>7 DEF Publish, Handler, cacheVars
<1>8. CASE Notify
  <2>1. queue # <<>> /\ idx \in 1 .. Len(Head(queue)) /\ Len(Head(queue)) \in Nat
    BY <1>8 DEF Notify
  <2>2. CASE idx < Len(Head(queue))
    BY <1>8, <2>1, <2>2 DEF Notify, cacheVars
  <2>3. CASE ~(idx < Len(Head(queue)))
    <3>1. Tail(queue) \in Seq(Seq(Voters) \ {<<>>})
      BY <2>1
    <3> QED BY <1>8, <2>3, <3>1 DEF Notify, cacheVars
  <2> QED BY <2>2, <2>3
<1>9. CASE Throw
  <2>1. rpc' \in [Procs -> Reads] /\ rval' \in [Procs -> Tally \cup {None}] /\ HasTally'
    BY <1>9 DEF Throw, Requeue, EndRead, Procs
  <2> QED BY <1>9, <2>1, FailureType DEF Throw, Requeue
<1>10. CASE Crash
  BY <1>10 DEF Crash, Requeue, EndRead, Procs
<1>11. ASSUME NEW p \in Apis, QueryFails(p) PROVE TypeInv'
  BY <1>11 DEF QueryFails, Read, Procs, handlerVars
<1>12. ASSUME NEW p \in Procs, DeleteCacheKey(p) \/ LoseMessage(p) \/ ExpireRemote \/ ExpireLocal(p)
       PROVE  TypeInv'
  BY <1>12 DEF DeleteCacheKey, LoseMessage, ExpireRemote, ExpireLocal, Others, handlerVars
<1>13. CASE UNCHANGED vars
  BY <1>13 DEF vars, handlerVars, cacheVars
<1>14. Notifier \in Procs /\ Apis \subseteq Procs
  BY DEF Procs
<1> QED
  BY <1>1, <1>2, <1>3, <1>4, <1>5, <1>6, <1>7, <1>8, <1>9, <1>10, <1>11, <1>12, <1>13, <1>14
  DEF Next, HandlerStep

LEMMA TypeInit == Init => TypeInv
<1> SUFFICES ASSUME Init PROVE TypeInv
  OBVIOUS
<1>1. queue \in Seq(Seq(Voters) \ {<<>>}) /\ counted \in Tally
  BY DEF Init, Tally
<1>2. TypeOK
  BY <1>1, ChainTallyType DEF Init, TypeOK, Steps, Reads
<1> QED BY <1>2 DEF Init, TypeInv, AtEvent, HasTally, Procs

\* Type correctness: the queue, the handler and the copies are well formed for any
\* voters and processes.
THEOREM TypeCorrect == Spec => []TypeOK
<1>1. TypeInv => TypeOK
  BY DEF TypeInv
<1> QED BY <1>1, TypeInit, TypeStep, PTL DEF Spec

----------------------------------------------------------------------------
\* NoInventedVotes speaks of the copies that are stored; a read that holds a tally is
\* about to store it.
Answered(p) == rpc[p] \in {"fill", "keep", "done"}
PlausibleInv ==
  /\ TypeInv
  /\ NoInventedVotes
  /\ \A p \in Procs : Answered(p) => Plausible(rval[p])

\* The bound of Plausible never falls, and rises where the handler counts a vote.
LEMMA BoundRises ==
  ASSUME TypeInv, [Next]_vars
  PROVE  /\ cast \subseteq cast'
         /\ \A v \in Voters : counted[v] <= counted'[v]
<1> USE DEF TypeInv, TypeOK, Tally
<1>1. ASSUME NEW b \in Blocks, CastBlock(b) PROVE cast \subseteq cast' /\ counted' = counted
  BY <1>1 DEF CastBlock
<1>2. ASSUME NEW p \in Procs, ReadStep(p) \/ LocalMiss(p) \/ LocalHit \/ QueryFails(p)
      PROVE  cast' = cast /\ counted' = counted
  BY <1>2 DEF ReadStep, LocalMiss, LocalHit, RemoteHit, RemoteMiss, Query, Fill, Keep,
              QueryFails, Read
<1>3. CASE Deliver \/ SetVoted \/ SetTypes \/ Publish \/ Notify \/ Crash
  BY <1>3 DEF Deliver, SetVoted, SetTypes, Publish, Notify, Crash, Requeue
<1>4. CASE SetVotes \/ Throw
  <2>1. cast' = cast
    BY <1>4 DEF SetVotes, Throw, Requeue
  <2>2. counted' = counted \/ counted' = [counted EXCEPT ![Voter] = @ + 1]
    BY <1>4 DEF SetVotes, Throw, Nothing, WroteKey, WroteVotes, Published
  <2> QED BY <2>1, <2>2
<1>5. ASSUME NEW p \in Procs, DeleteCacheKey(p) \/ LoseMessage(p) \/ ExpireRemote \/ ExpireLocal(p)
      PROVE  cast' = cast /\ counted' = counted
  BY <1>5 DEF DeleteCacheKey, LoseMessage, ExpireRemote, ExpireLocal, Others
<1>6. CASE UNCHANGED vars
  BY <1>6 DEF vars
<1>7. Notifier \in Procs /\ Apis \subseteq Procs
  BY DEF Procs
<1> QED BY <1>1, <1>2, <1>3, <1>4, <1>5, <1>6, <1>7 DEF Next, HandlerStep

\* A tally that stays where it is stays plausible.
LEMMA StillPlausible ==
  ASSUME TypeInv, [Next]_vars, NEW t \in Tally, Plausible(t)
  PROVE  \A v \in Voters : t[v] <= counted'[v] + (IF v \in cast' THEN 1 ELSE 0)
<1> USE DEF TypeInv, TypeOK, Tally
<1>1. counted' \in [Voters -> Nat]
  BY TypeStep
<1> QED BY <1>1, BoundRises DEF Plausible

\* Counting a vote of a plausible tally leaves it plausible.
LEMMA IncreasedPlausible ==
  ASSUME PlausibleInv, step # "idle", rpc[Notifier] = "done", cast' = cast,
         counted' = [counted EXCEPT ![Voter] = @ + 1]
  PROVE  \A v \in Voters : Increased[v] <= counted'[v] + (IF v \in cast' THEN 1 ELSE 0)
<1>1. rval[Notifier] \in [Voters -> Nat] /\ counted \in [Voters -> Nat] /\ Plausible(rval[Notifier])
  BY IncreasedType DEF PlausibleInv, TypeInv, TypeOK, Tally, Answered, Procs
<1> QED BY <1>1 DEF Plausible, Increased

LEMMA PlausibleStep == PlausibleInv /\ [Next]_vars => PlausibleInv'
<1> SUFFICES ASSUME PlausibleInv, [Next]_vars PROVE PlausibleInv'
  OBVIOUS
<1> DEFINE Ok(t) == \A v \in Voters : t[v] <= counted'[v] + (IF v \in cast' THEN 1 ELSE 0)
<1>0. TypeInv /\ TypeInv'
  BY TypeStep DEF PlausibleInv
<1>1. remote # None => Ok(remote)
  BY <1>0, StillPlausible DEF PlausibleInv, NoInventedVotes, TypeInv, TypeOK
<1>2. \A p \in Procs : mem[p] # None => Ok(mem[p])
  BY <1>0, StillPlausible DEF PlausibleInv, NoInventedVotes, TypeInv, TypeOK
<1>3. \A p \in Procs : Answered(p) => Ok(rval[p])
  BY <1>0, StillPlausible DEF PlausibleInv, TypeInv, HasTally, Answered
<1>4. Ok(ChainTally)
  <2>1. counted' \in [Voters -> Nat]
    BY <1>0 DEF TypeInv, TypeOK, Tally
  <2> QED BY <1>0, <2>1, BoundRises DEF ChainTally
<1>5. (SetVotes \/ (Throw /\ WroteVotes)) => Ok(Increased)
  <2>1. SetVotes => Ok(Increased)
    BY IncreasedPlausible DEF SetVotes, Handler
  <2>2. Throw /\ WroteVotes => Ok(Increased)
    BY IncreasedPlausible DEF Throw, Requeue, WroteVotes
  <2> QED BY <2>1, <2>2
<1> HIDE DEF Ok
<1>6. SUFFICES /\ remote' # None => Ok(remote')
               /\ \A p \in Procs : mem'[p] # None => Ok(mem'[p])
               /\ \A p \in Procs : Answered(p)' => Ok(rval'[p])
  BY <1>0 DEF PlausibleInv, NoInventedVotes, Plausible, Ok
<1> USE <1>0, <1>1, <1>2, <1>3 DEF TypeInv, TypeOK, Answered
<1>7. Notifier \in Procs /\ Apis \subseteq Procs
  BY DEF Procs
<1>8. CASE \E b \in Blocks : CastBlock(b)
  BY <1>8 DEF CastBlock, cacheVars
<1>9. ASSUME NEW p \in Procs, ReadStep(p) \/ LocalMiss(p)
      PROVE  /\ remote' # None => Ok(remote')
             /\ \A q \in Procs : mem'[q] # None => Ok(mem'[q])
             /\ \A q \in Procs : Answered(q)' => Ok(rval'[q])
  <2> USE DEF Read
  <2>1. CASE LocalMiss(p)
    BY <2>1 DEF LocalMiss
  <2>2. CASE RemoteHit(p)
    BY <2>2 DEF RemoteHit
  <2>3. CASE RemoteMiss(p)
    BY <2>3 DEF RemoteMiss
  <2>4. CASE Query(p)
    BY <1>4, <2>4 DEF Query
  <2>5. CASE Fill(p)
    BY <2>5 DEF Fill
  <2>6. CASE Keep(p)
    BY <2>6 DEF Keep
  <2> QED BY <1>9, <2>1, <2>2, <2>3, <2>4, <2>5, <2>6 DEF ReadStep
<1>10. CASE LocalHit
  BY <1>7, <1>10 DEF LocalHit, Read
<1>11. CASE Deliver \/ SetVoted \/ SetTypes \/ Publish \/ Notify
  BY <1>11 DEF Deliver, SetVoted, SetTypes, Publish, Notify, cacheVars
<1>12. CASE SetVotes
  BY <1>5, <1>7, <1>12 DEF SetVotes, EndRead
<1>13. CASE Throw
  <2>1. \A q \in Procs : Answered(q)' => Ok(rval'[q])
    BY <1>7, <1>13 DEF Throw, Requeue, EndRead
  <2>2. CASE Nothing \/ WroteKey \/ Published
    BY <2>1, <2>2 DEF Nothing, WroteKey, Published
  <2>3. CASE WroteVotes
    BY <1>5, <1>7, <1>13, <2>1, <2>3 DEF WroteVotes
  <2> QED BY <1>13, <2>2, <2>3 DEF Throw
<1>14. CASE Crash
  BY <1>7, <1>14 DEF Crash, Requeue, EndRead
<1>15. ASSUME NEW p \in Procs, DeleteCacheKey(p) \/ LoseMessage(p) \/ ExpireRemote \/ ExpireLocal(p)
              \/ (p \in Apis /\ QueryFails(p))
       PROVE  /\ remote' # None => Ok(remote')
              /\ \A q \in Procs : mem'[q] # None => Ok(mem'[q])
              /\ \A q \in Procs : Answered(q)' => Ok(rval'[q])
  BY <1>15 DEF DeleteCacheKey, LoseMessage, ExpireRemote, ExpireLocal, Others, QueryFails, Read
<1>16. CASE UNCHANGED vars
  BY <1>16 DEF vars, cacheVars
<1> QED
  BY <1>7, <1>8, <1>9, <1>10, <1>11, <1>12, <1>13, <1>14, <1>15, <1>16
  DEF Next, HandlerStep

\* No cache shows a vote that was not cast, or shows it more often than one chain read
\* and the deliveries of its event account for.
THEOREM NoInventedVotesHolds == Spec => []NoInventedVotes
<1>1. Init => PlausibleInv
  <2> SUFFICES ASSUME Init PROVE PlausibleInv
    OBVIOUS
  <2>1. TypeInv
    BY TypeInit
  <2>2. Plausible(ChainTally)
    BY DEF Init, Plausible, ChainTally
  <2> QED BY <2>1, <2>2 DEF Init, PlausibleInv, NoInventedVotes, Answered
<1>2. PlausibleInv => NoInventedVotes
  BY DEF PlausibleInv
<1> QED BY <1>1, <1>2, PlausibleStep, PTL DEF Spec

----------------------------------------------------------------------------
\* The handler reads its own memory before Redis, and any process may be about to fill
\* Redis: those copies are exact too.
Exact(t) == \A v \in Voters \ exposed : t[v] = counted[v]
TallyInv ==
  /\ TypeInv
  /\ TallyExact
  /\ mem[Notifier] # None => Exact(mem[Notifier])
  /\ \A p \in Procs : rpc[p] = "fill" => Exact(rval[p])
  /\ rpc[Notifier] \in {"keep", "done"} => Exact(rval[Notifier])

\* Counting the vote of the event in an exact tally leaves it exact.
LEMMA IncreasedExact ==
  ASSUME TallyInv, step # "idle", rpc[Notifier] = "done", exposed \subseteq exposed',
         counted' = [counted EXCEPT ![Voter] = @ + 1]
  PROVE  \A v \in Voters \ exposed' : Increased[v] = counted'[v]
<1>1. rval[Notifier] \in [Voters -> Nat] /\ counted \in [Voters -> Nat] /\ Exact(rval[Notifier])
  BY IncreasedType DEF TallyInv, TypeInv, TypeOK, Tally
<1> QED BY <1>1 DEF Exact, Increased

\* Reads and what happens to the copy of one process.
LEMMA TallyRead ==
  ASSUME TallyInv, TypeInv', NEW p \in Procs,
         \/ LocalMiss(p) \/ ReadStep(p) \/ ExpireLocal(p)
         \/ p \in Apis /\ (QueryFails(p) \/ DeleteCacheKey(p) \/ LoseMessage(p))
  PROVE  TallyInv'
<1>1. /\ Notifier \in Procs /\ Notifier \notin Apis
      /\ mem = [q \in Procs |-> mem[q]] /\ rpc = [q \in Procs |-> rpc[q]]
      /\ rval = [q \in Procs |-> rval[q]]
  BY DEF Procs, TallyInv, TypeInv, TypeOK
<1> USE <1>1 DEF TallyInv, Exact, TallyExact
<1>2. CASE LocalMiss(p) \/ RemoteHit(p) \/ RemoteMiss(p)
  BY <1>2 DEF LocalMiss, RemoteHit, RemoteMiss, Read
<1>3. CASE Query(p)
  <2>1. \A v \in Voters \ exposed' : ChainTally[v] = counted'[v]
    BY <1>3 DEF Query, Read
  <2> QED BY <1>3, <2>1 DEF Query, Read
<1>4. CASE Fill(p)
  BY <1>4 DEF Fill, Read
<1>5. CASE Keep(p)
  BY <1>5 DEF Keep, Read
<1>6. CASE p \in Apis /\ QueryFails(p)
  BY <1>6 DEF QueryFails, Read
<1>7. CASE ExpireLocal(p) \/ (p \in Apis /\ (DeleteCacheKey(p) \/ LoseMessage(p)))
  BY <1>7 DEF ExpireLocal, DeleteCacheKey, LoseMessage, Others
<1> QED BY <1>2, <1>3, <1>4, <1>5, <1>6, <1>7 DEF ReadStep

\* A step that leaves Redis, the history and the reads of the processes alone, or ends
\* the read of the handler and drops its copy.
LEMMA TallyUntouched ==
  ASSUME TallyInv, TypeInv',
         UNCHANGED <<counted, exposed>>, remote' \in {remote, None},
         mem'[Notifier] \in {mem[Notifier], None},
         \A p \in Procs : rpc'[p] = "off" \/ (rpc'[p] = rpc[p] /\ rval'[p] = rval[p])
  PROVE  TallyInv'
  BY DEF TallyInv, Exact, TallyExact, Procs

LEMMA TallyStep == TallyInv /\ [Next]_vars => TallyInv'
<1> SUFFICES ASSUME TallyInv, [Next]_vars PROVE TallyInv'
  OBVIOUS
<1>1. TypeInv /\ TypeInv' /\ Notifier \in Procs /\ Notifier \notin Apis
  BY TypeStep DEF TallyInv, Procs
<1>2. ASSUME SetVotes \/ (Throw /\ WroteVotes) PROVE TallyInv'
  <2>1. step # "idle" /\ rpc[Notifier] = "done" /\ exposed \subseteq exposed'
    BY <1>2 DEF SetVotes, Handler, Throw, WroteVotes, Requeue
  <2>2. counted' = [counted EXCEPT ![Voter] = @ + 1]
    BY <1>2 DEF SetVotes, WroteVotes
  <2>3. \A v \in Voters \ exposed' : Increased[v] = counted'[v]
    BY <2>1, <2>2, IncreasedExact
  <2>4. remote' = Increased \/ (remote' = remote /\ Voter \in exposed')
    BY <1>2 DEF SetVotes, WroteVotes
  <2>5. mem'[Notifier] = Increased /\ rpc'[Notifier] = "off"
    BY <1>1, <1>2 DEF SetVotes, Throw, WroteVotes, Requeue, EndRead, TypeInv, TypeOK
  <2>6. \A p \in Procs : rpc'[p] = "fill" =>
          p \in Apis /\ rpc[p] = "fill" /\ rval'[p] = rval[p] /\ Voter \in exposed'
    BY <1>1, <1>2, <2>5
    DEF SetVotes, Throw, WroteVotes, Requeue, EndRead, Spanned, TypeInv, TypeOK, Procs
  <2>7. \A v \in Voters \ exposed' : v # Voter => counted'[v] = counted[v]
    BY <1>1, <2>2 DEF TypeInv, TypeOK, Tally
  <2> HIDE DEF Increased
  <2>8. TallyExact'
    BY <2>1, <2>3, <2>4, <2>7 DEF TallyInv, TallyExact
  <2>9. \A p \in Procs : rpc'[p] = "fill" => \A v \in Voters \ exposed' : rval'[p][v] = counted'[v]
    BY <2>1, <2>6, <2>7 DEF TallyInv, Exact
  <2> QED BY <1>1, <2>3, <2>5, <2>8, <2>9 DEF TallyInv, Exact
<1>3. CASE Throw /\ (Nothing \/ WroteKey \/ Published)
  <2>1. \A p \in Procs : rpc'[p] = "off" \/ (rpc'[p] = rpc[p] /\ rval'[p] = rval[p])
    BY <1>1, <1>3 DEF Throw, Requeue, EndRead, TypeInv, TypeOK
  <2> QED BY <1>1, <1>3, <2>1, TallyUntouched DEF Throw, Nothing, WroteKey, Published
<1>4. CASE Crash
  <2>1. /\ \A p \in Procs : rpc'[p] = "off" \/ (rpc'[p] = rpc[p] /\ rval'[p] = rval[p])
        /\ mem'[Notifier] = None
    BY <1>1, <1>4 DEF Crash, Requeue, EndRead, TypeInv, TypeOK
  <2> QED BY <1>1, <1>4, <2>1, TallyUntouched DEF Crash
<1>5. CASE Deliver \/ SetVoted \/ SetTypes \/ Publish \/ Notify \/ UNCHANGED vars
  BY <1>1, <1>5, TallyUntouched
  DEF Deliver, SetVoted, SetTypes, Publish, Notify, vars, cacheVars
<1>6. CASE (\E b \in Blocks : CastBlock(b)) \/ ExpireRemote
  BY <1>1, <1>6, TallyUntouched DEF CastBlock, ExpireRemote, cacheVars, Others
<1>7. CASE LocalHit
  BY <1>1, <1>7 DEF LocalHit, Read, TallyInv, TallyExact, Exact, TypeInv, TypeOK
<1>8. ASSUME NEW p \in Apis,
             \/ LocalMiss(p) \/ ReadStep(p) \/ QueryFails(p)
             \/ DeleteCacheKey(p) \/ LoseMessage(p)
      PROVE  TallyInv'
  <2>1. p \in Procs
    BY DEF Procs
  <2> QED BY <1>1, <1>8, <2>1, TallyRead
<1>9. ASSUME NEW p \in Procs, ExpireLocal(p) PROVE TallyInv'
  BY <1>1, <1>9, TallyRead
<1>10. CASE LocalMiss(Notifier) \/ ReadStep(Notifier)
  BY <1>1, <1>10, TallyRead
<1> QED
  BY <1>2, <1>3, <1>4, <1>5, <1>6, <1>7, <1>8, <1>9, <1>10 DEF Next, HandlerStep, Throw

\* The tally increased event by event in the cache is the tally of the votes handled:
\* the cached increments lose and repeat none, whatever fails in between.
THEOREM TallyExactHolds == Spec => []TallyExact
<1>1. Init => TallyInv
  <2> SUFFICES ASSUME Init PROVE TallyInv
    OBVIOUS
  <2>1. \A v \in Voters : ChainTally[v] = counted[v]
    BY DEF Init, ChainTally
  <2>2. Notifier \in Procs
    BY DEF Procs
  <2> QED BY <2>1, <2>2, TypeInit DEF Init, TallyInv, TallyExact
<1>2. TallyInv => TallyExact
  BY DEF TallyInv
<1> QED BY <1>1, <1>2, TallyStep, PTL DEF Spec

----------------------------------------------------------------------------
\* The keys the handler has yet to write for the event it works on, and for the rest
\* of the message.
Due ==
  CASE step = "voted" -> KeysOf(Voter)
    [] step = "types" -> {<<"types", Voter>>, VotesKey}
    [] step = "read"  -> {VotesKey}
    [] OTHER          -> {}
After(i) == UNION {KeysOf(Head(queue)[j]) : j \in (i + 1) .. Len(Head(queue))}

\* What is written and not announced is in invalidatedKeys or is written again.
Owed == step # "idle" => unannounced \subseteq keys \cup Due \cup After(idx)
AnnounceInv ==
  /\ TypeInv
  /\ AnnouncedOrRedelivered
  /\ Owed
  /\ step = "notify" => keys = {}

LEMMA HeadType ==
  ASSUME TypeInv, queue # <<>>
  PROVE  /\ Head(queue) \in Seq(Voters) /\ Len(Head(queue)) \in Nat \ {0}
         /\ DOMAIN Head(queue) = 1 .. Len(Head(queue))
<1>1. queue \in Seq(Seq(Voters) \ {<<>>})
  BY DEF TypeInv, TypeOK
<1>2. Head(queue) \in Seq(Voters) \ {<<>>}
  BY <1>1
<1> QED BY <1>2, EmptySeq, LenProperties

\* The keys of the event under way and of the later ones are keys of the message.
LEMMA DueInMessage ==
  ASSUME TypeInv, step # "idle"
  PROVE  KeysOf(Voter) \subseteq UNION {KeysOf(Head(queue)[i]) : i \in DOMAIN Head(queue)}
<1>1. queue # <<>> /\ idx \in DOMAIN Head(queue)
  BY HeadType DEF TypeInv, AtEvent
<1> QED BY <1>1 DEF Voter

LEMMA AnnounceStep == AnnounceInv /\ [Next]_vars => AnnounceInv'
<1> SUFFICES ASSUME AnnounceInv, [Next]_vars PROVE AnnounceInv'
  OBVIOUS
<1>1. TypeInv /\ TypeInv'
  BY TypeStep DEF AnnounceInv
<1>2. ASSUME NEW b \in Blocks, CastBlock(b) PROVE AnnounceInv'
  <2>1. queue # <<>> => Head(queue') = Head(queue) /\ queue' # <<>>
    BY <1>1, <1>2, BlockType, AppendProperties, HeadTailProperties DEF CastBlock, TypeInv, TypeOK
  <2>2. queue = <<>> => step = "idle" /\ unannounced = {}
    BY <1>1 DEF AnnounceInv, AnnouncedOrRedelivered, TypeInv, AtEvent
  <2>3. UNCHANGED <<step, idx, keys, unannounced>>
    BY <1>2 DEF CastBlock
  <2>4. AnnouncedOrRedelivered'
    BY <2>1, <2>2, <2>3 DEF AnnounceInv, AnnouncedOrRedelivered
  <2>5. Owed'
    BY <2>1, <2>2, <2>3 DEF AnnounceInv, Owed, Due, After, Voter
  <2> QED BY <1>1, <2>3, <2>4, <2>5 DEF AnnounceInv
<1>3. ASSUME UNCHANGED <<handlerVars, unannounced>> PROVE AnnounceInv'
  BY <1>1, <1>3
  DEF AnnounceInv, AnnouncedOrRedelivered, Owed, Due, After, Voter, handlerVars
<1>4. CASE Deliver
  <2>1. queue # <<>> /\ step' = "voted" /\ idx' = 1 /\ UNCHANGED <<queue, keys, unannounced>>
    BY <1>4 DEF Deliver, Handler
  <2>2. AnnouncedOrRedelivered'
    BY <2>1 DEF AnnounceInv, AnnouncedOrRedelivered
  <2>3. UNION {KeysOf(Head(queue)[i]) : i \in DOMAIN Head(queue)}
          \subseteq KeysOf(Head(queue)[1]) \cup After(1)
    BY <1>1, <2>1, HeadType DEF After
  <2>4. Owed'
    BY <2>1, <2>3 DEF AnnounceInv, AnnouncedOrRedelivered, Owed, Due, After, Voter
  <2> QED BY <1>1, <2>1, <2>2, <2>4 DEF AnnounceInv
<1>5. CASE SetVoted \/ SetTypes \/ SetVotes
  <2>1. step # "idle" /\ UNCHANGED <<queue, idx>> /\ step' # "notify"
    BY <1>5 DEF SetVoted, SetTypes, SetVotes, Handler
  <2>2. PICK key \in KeysOf(Voter) :
          /\ keys' = keys \cup {key} /\ unannounced' = unannounced \cup {key}
          /\ Due \subseteq Due' \cup {key}
    BY <1>5 DEF SetVoted, SetTypes, SetVotes, Handler, Write, KeysOf, Due, Voter
  <2>3. AnnouncedOrRedelivered'
    BY <1>1, <2>1, <2>2, DueInMessage DEF AnnounceInv, AnnouncedOrRedelivered, TypeInv, AtEvent
  <2>4. Owed'
    BY <2>1, <2>2 DEF AnnounceInv, Owed, After
  <2> QED BY <1>1, <2>1, <2>3, <2>4 DEF AnnounceInv
<1>6. CASE Publish
  <2>1. /\ step = "publish" /\ step' = "notify" /\ UNCHANGED <<queue, idx>>
        /\ keys' = {} /\ unannounced' = unannounced \ keys
    BY <1>6 DEF Publish, Handler
  <2>2. Due = {} /\ Due' = {}
    BY <2>1 DEF Due
  <2>3. AnnouncedOrRedelivered'
    BY <2>1 DEF AnnounceInv, AnnouncedOrRedelivered
  <2>4. Owed'
    BY <2>1, <2>2 DEF AnnounceInv, Owed, After
  <2> QED BY <1>1, <2>1, <2>3, <2>4 DEF AnnounceInv
<1>7. CASE Notify
  <2>1. /\ queue # <<>> /\ idx \in 1 .. Len(Head(queue)) /\ step = "notify" /\ keys = {}
        /\ Len(Head(queue)) \in Nat /\ UNCHANGED <<keys, unannounced>>
    BY <1>1, <1>7, HeadType DEF Notify, AnnounceInv, TypeInv, AtEvent
  <2>2. unannounced \subseteq After(idx)
    BY <2>1 DEF AnnounceInv, Owed, Due
  <2>3. CASE idx < Len(Head(queue))
    <3>1. step' = "voted" /\ idx' = idx + 1 /\ queue' = queue
      BY <1>7, <2>3 DEF Notify
    <3>2. After(idx) \subseteq KeysOf(Head(queue)[idx + 1]) \cup After(idx + 1)
      BY <2>1 DEF After
    <3>3. Owed'
      BY <2>1, <2>2, <3>1, <3>2 DEF Owed, Due, After, Voter
    <3> QED BY <1>1, <2>1, <3>1, <3>3 DEF AnnounceInv, AnnouncedOrRedelivered
  <2>4. CASE ~(idx < Len(Head(queue)))
    <3>1. unannounced = {}
      BY <2>1, <2>2, <2>4 DEF After
    <3>2. step' = "idle"
      BY <1>7, <2>4 DEF Notify
    <3> QED BY <1>1, <2>1, <3>1, <3>2 DEF AnnounceInv, AnnouncedOrRedelivered, Owed
  <2> QED BY <2>3, <2>4
<1>8. CASE Throw \/ Crash
  <2>1. step # "idle" /\ step' = "idle" /\ queue' = queue
    BY <1>8 DEF Throw, Crash, Requeue
  <2>2. unannounced' \subseteq unannounced \cup KeysOf(Voter)
    BY <1>8 DEF Throw, Crash, Nothing, WroteKey, WroteVotes, Published, KeysOf
  <2>3. AnnouncedOrRedelivered'
    BY <1>1, <2>1, <2>2, DueInMessage DEF AnnounceInv, AnnouncedOrRedelivered, TypeInv, AtEvent
  <2> QED BY <1>1, <2>1, <2>3 DEF AnnounceInv, Owed
<1>9. ASSUME NEW p \in Procs,
             \/ LocalMiss(p) \/ ReadStep(p) \/ QueryFails(p)
             \/ DeleteCacheKey(p) \/ LoseMessage(p) \/ ExpireLocal(p)
      PROVE  UNCHANGED <<handlerVars, unannounced>>
  BY <1>9 DEF LocalMiss, ReadStep, RemoteHit, RemoteMiss, Query, Fill, Keep, QueryFails, Read,
              DeleteCacheKey, LoseMessage, ExpireLocal, Others
<1>10. LocalHit \/ ExpireRemote \/ UNCHANGED vars => UNCHANGED <<handlerVars, unannounced>>
  BY DEF LocalHit, Read, ExpireRemote, Others, vars
<1>11. Notifier \in Procs /\ Apis \subseteq Procs
  BY DEF Procs
<1> QED
  BY <1>2, <1>3, <1>4, <1>5, <1>6, <1>7, <1>8, <1>9, <1>10, <1>11 DEF Next, HandlerStep

\* No write of the handler stays unannounced: the message whose events wrote the key is
\* still to be acknowledged, and its redelivery writes and publishes the key again.
THEOREM AnnouncedOrRedeliveredHolds == Spec => []AnnouncedOrRedelivered
<1>1. Init => AnnounceInv
  BY TypeInit DEF Init, AnnounceInv, AnnouncedOrRedelivered, Owed
<1>2. AnnounceInv => AnnouncedOrRedelivered
  BY DEF AnnounceInv
<1> QED BY <1>1, <1>2, AnnounceStep, PTL DEF Spec
=============================================================================
