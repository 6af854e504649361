-------------------------- MODULE ContractReads_proofs --------------------------
(***************************************************************************)
(* A contract is read: through the two levels of the cache, and below them *)
(* through the executor that shares the queries of a process; above them   *)
(* clients are given answers made of several reads.                        *)
(*                                                                         *)
(* For every number of processes and tasks and every pair of lives: the    *)
(* type invariant of TwoLevelCache, the bound on the age of an answer, and *)
(* the implementation of StaleRegister.  BoundedAge speaks of the last     *)
(* answer only.  Its strengthening AgeInv follows a value from the chain   *)
(* to the client: how old it may be while a task holds it, while it is in  *)
(* Redis and while it is in a memory.                                      *)
(*                                                                         *)
(* For any keys, calls and chain: the type invariant of PendingExecutor,   *)
(* one execution per key, the end of every entry, and the order of the     *)
(* answers.                                                                *)
(*                                                                         *)
(* For every configuration, epoch, list and page: the three properties of  *)
(* ContractViews.  A list is a finite set in order, and its pages are      *)
(* intervals of ranks.  The requests of each kind have an invariant of     *)
(* their own: TimesInv orders the first blocks of the epochs and bounds    *)
(* the start a request was told; NumbersInv counts what a request has      *)
(* added up so far; PagesInv says which items the pages so far hold.       *)
(***************************************************************************)
EXTENDS TwoLevelCache, PendingExecutor, ContractViews, SequenceTheorems, FiniteSetTheorems, TLAPS

USE ProcsAssumption, TtlAssumption, StepAssumption, TimeAssumption

\* A task that holds a value has not held it for longer than MaxStep.
HeldInv ==
  \A t \in Tasks :
    /\ pc[t] \in Holding => since[t] <= now /\ now <= since[t] + MaxStep
    /\ pc[t] \in {"fill", "setLocal", "setRemote"} => val[t] = since[t]
    /\ pc[t] = "keep" => /\ val[t] <= since[t]
                         /\ since[t] <= val[t] + MaxStep + RemoteTtl - 1

RemoteInv ==
  /\ remote.asOf <= now
  /\ remote.exp <= remote.asOf + MaxStep + RemoteTtl

LocalInv ==
  \A p \in Procs :
    /\ local[p].asOf <= now
    /\ local[p].exp <= local[p].asOf + 2 * MaxStep + RemoteTtl - 1 + LocalTtl

ServedInv == served.asOf <= served.at /\ served.at <= served.asOf + MaxAge

AgeInv == TypeOK /\ HeldInv /\ RemoteInv /\ LocalInv /\ ServedInv

\* A task belongs to one of the processes.
LEMMA HomeType == \A t \in Tasks : Home(t) \in Procs
  BY DEF Tasks, Home

\* Every step keeps the types: the first part of the inductive invariant.
LEMMA TypeStep == TypeOK /\ [Next]_vars => TypeOK'
<1> SUFFICES ASSUME TypeOK, [Next]_vars PROVE TypeOK'
  OBVIOUS
<1> USE HomeType DEF TypeOK, Entry, None, Fresh, PcValues, Reading, Holding
<1>1. ASSUME NEW t \in Tasks, Begin(t) PROVE TypeOK'
  BY <1>1 DEF Begin, LocalHit, LocalMiss, BeginRefresh, BeginDelete, Goto, Answer, Live
<1>2. ASSUME NEW t \in Tasks, Progress(t) PROVE TypeOK'
  <2>1. CASE RemoteHit(t) \/ RemoteMiss(t) \/ Query(t) \/ Fill(t) \/ Keep(t)
    BY <2>1 DEF RemoteHit, RemoteMiss, Query, Fill, Keep, Goto, Hold, Drop, Answer, Live
  <2>2. CASE RawRead(t)
    BY <2>2 DEF RawRead, Goto, Hold
  <2>3. CASE SetLocal(t)
    BY <2>3 DEF SetLocal, Goto
  <2>4. CASE SetRemote(t)
    BY <2>4 DEF SetRemote, Goto, Drop
  <2>5. CASE Publish(t)
    BY <2>5 DEF Publish, Goto
  <2>6. CASE DelRemote(t)
    BY <2>6 DEF DelRemote, Goto
  <2>7. CASE DelLocal(t)
    BY <2>7 DEF DelLocal, Goto
  <2> QED BY <1>2, <2>1, <2>2, <2>3, <2>4, <2>5, <2>6, <2>7 DEF Progress
<1>3. ASSUME NEW t \in Tasks, Abort(t) PROVE TypeOK'
  BY <1>3 DEF Abort, Drop
<1>4. ASSUME NEW p \in Procs, DeleteCacheKey(p) \/ LoseMessage(p) \/ Restart(p)
      PROVE  TypeOK'
  BY <1>4 DEF DeleteCacheKey, LoseMessage, Restart
<1>5. CASE Tick
  BY <1>5 DEF Tick, Survives
<1>6. CASE UNCHANGED vars
  BY <1>6 DEF vars
<1> QED BY <1>1, <1>2, <1>3, <1>4, <1>5, <1>6 DEF Next

\* Type correctness: every reachable state is well formed, for any processes and lives.
THEOREM TypeCorrect == Spec => []TypeOK
<1>1. Init => TypeOK
  BY DEF Init, TypeOK, Entry, None, PcValues
<1> QED BY <1>1, TypeStep, PTL DEF Spec

\* The steps of a read: a value never grows older than the place it is in allows.
LEMMA ReadStep ==
  ASSUME AgeInv, NEW t \in Tasks,
         LocalHit(t) \/ LocalMiss(t) \/ RemoteHit(t) \/ RemoteMiss(t)
           \/ Query(t) \/ Fill(t) \/ Keep(t)
  PROVE  HeldInv' /\ RemoteInv' /\ LocalInv' /\ ServedInv'
<1> USE HomeType DEF AgeInv, TypeOK, HeldInv, RemoteInv, LocalInv, ServedInv,
            Entry, Holding, MaxAge, Live, Goto, Answer
<1>1. CASE LocalHit(t)
  BY <1>1 DEF LocalHit
<1>2. CASE LocalMiss(t)
  BY <1>2 DEF LocalMiss
<1>3. CASE RemoteHit(t)
  BY <1>3 DEF RemoteHit, Hold
<1>4. CASE RemoteMiss(t)
  BY <1>4 DEF RemoteMiss
<1>5. CASE Query(t)
  BY <1>5 DEF Query, Hold
<1>6. CASE Fill(t)
  BY <1>6 DEF Fill, Fresh
<1>7. CASE Keep(t)
  BY <1>7 DEF Keep, Drop, Fresh
<1> QED BY <1>1, <1>2, <1>3, <1>4, <1>5, <1>6, <1>7

\* The steps of a refresh, of a delete and of an exception.
LEMMA RefreshStep ==
  ASSUME AgeInv, NEW t \in Tasks,
         BeginRefresh(t) \/ RawRead(t) \/ SetLocal(t) \/ SetRemote(t) \/ BeginDelete(t)
           \/ DelRemote(t) \/ DelLocal(t) \/ Publish(t) \/ Abort(t)
  PROVE  HeldInv' /\ RemoteInv' /\ LocalInv' /\ ServedInv'
<1> USE HomeType DEF AgeInv, TypeOK, HeldInv, RemoteInv, LocalInv, ServedInv,
            Entry, None, Holding, MaxAge, Goto, Drop
<1>1. CASE BeginRefresh(t) \/ BeginDelete(t)
  BY <1>1 DEF BeginRefresh, BeginDelete
<1>2. CASE RawRead(t)
  BY <1>2 DEF RawRead, Hold
<1>3. CASE SetLocal(t)
  BY <1>3 DEF SetLocal, Fresh
<1>4. CASE SetRemote(t)
  BY <1>4 DEF SetRemote, Fresh
<1>5. CASE DelRemote(t) \/ DelLocal(t) \/ Publish(t)
  BY <1>5 DEF DelRemote, DelLocal, Publish
<1>6. CASE Abort(t)
  BY <1>6 DEF Abort
<1> QED BY <1>1, <1>2, <1>3, <1>4, <1>5, <1>6

\* Messages, restarts and time.
LEMMA EnvironmentStep ==
  ASSUME AgeInv,
         (\E p \in Procs : DeleteCacheKey(p) \/ LoseMessage(p) \/ Restart(p)) \/ Tick
  PROVE  HeldInv' /\ RemoteInv' /\ LocalInv' /\ ServedInv'
<1> USE HomeType DEF AgeInv, TypeOK, HeldInv, RemoteInv, LocalInv, ServedInv,
            Entry, None, Holding, MaxAge
<1>1. ASSUME NEW p \in Procs, DeleteCacheKey(p) \/ LoseMessage(p)
      PROVE  HeldInv' /\ RemoteInv' /\ LocalInv' /\ ServedInv'
  BY <1>1 DEF DeleteCacheKey, LoseMessage
<1>2. ASSUME NEW p \in Procs, Restart(p)
      PROVE  HeldInv' /\ RemoteInv' /\ LocalInv' /\ ServedInv'
  BY <1>2 DEF Restart
<1>3. CASE Tick
  BY <1>3 DEF Tick, Survives
<1> QED BY <1>1, <1>2, <1>3

LEMMA AgeStep == AgeInv /\ [Next]_vars => AgeInv'
<1> SUFFICES ASSUME AgeInv, [Next]_vars PROVE AgeInv'
  OBVIOUS
<1>1. TypeOK'
  BY TypeStep DEF AgeInv
<1>2. HeldInv' /\ RemoteInv' /\ LocalInv' /\ ServedInv'
  <2>1. CASE UNCHANGED vars
    BY <2>1 DEF vars, AgeInv, HeldInv, RemoteInv, LocalInv, ServedInv
  <2>2. CASE Next
    BY <2>2, ReadStep, RefreshStep, EnvironmentStep DEF Next, Begin, Progress
  <2> QED BY <2>1, <2>2
<1> QED BY <1>1, <1>2 DEF AgeInv

LEMMA AgeAlways == Spec => []AgeInv
<1>1. Init => AgeInv
  BY DEF Init, AgeInv, TypeOK, HeldInv, RemoteInv, LocalInv, ServedInv,
         Entry, None, PcValues, Holding, MaxAge
<1> QED BY <1>1, AgeStep, PTL DEF Spec

\* No answer is older than MaxAge, whatever the processes, lives, losses and overlaps.
THEOREM BoundedAgeHolds == Spec => []BoundedAge
<1>1. AgeInv => BoundedAge
  BY DEF AgeInv, ServedInv, BoundedAge
<1> QED BY <1>1, AgeAlways, PTL

\* The cache implements the register that answers with a value of some recent instant.
THEOREM CacheImplementsRegister == Spec => ImplementsRegister
<1>1. Init => Register!Init
  BY DEF Init, Register!Init
<1>2. AgeInv /\ AgeInv' /\ [Next]_vars
        => [Register!Tick \/ Register!Serve]_<<now, served>>
  <2> SUFFICES ASSUME AgeInv, AgeInv', [Next]_vars
               PROVE  [Register!Tick \/ Register!Serve]_<<now, served>>
    OBVIOUS
  <2>1. ASSUME NEW t \in Tasks, LocalHit(t)
        PROVE  Register!Serve
    <3>1. local[Home(t)] \in Entry /\ local[Home(t)].asOf \in 0 .. now
      BY HomeType DEF AgeInv, TypeOK, LocalInv, Entry
    <3>2. now <= local[Home(t)].asOf + MaxAge
      BY <2>1, <3>1 DEF AgeInv, ServedInv, LocalHit, Answer, TypeOK, Entry
    <3> QED BY <2>1, <3>1, <3>2 DEF LocalHit, Answer, Register!Serve
  <2>2. ASSUME NEW t \in Tasks, Keep(t)
        PROVE  Register!Serve
    <3>1. val[t] \in 0 .. now
      BY <2>2 DEF AgeInv, TypeOK, HeldInv, Holding, Keep, Goto
    <3>2. now <= val[t] + MaxAge
      BY <2>2, <3>1 DEF AgeInv, ServedInv, Keep, Answer, TypeOK
    <3> QED BY <2>2, <3>1, <3>2 DEF Keep, Answer, Register!Serve
  <2>3. CASE Tick
    BY <2>3 DEF Tick, Register!Tick
  <2>4. CASE UNCHANGED vars
    BY <2>4 DEF vars
  <2>5. ASSUME NEW t \in Tasks,
               \/ LocalMiss(t) \/ BeginRefresh(t) \/ BeginDelete(t) \/ Abort(t)
               \/ RemoteHit(t) \/ RemoteMiss(t) \/ Query(t) \/ Fill(t)
               \/ RawRead(t) \/ SetLocal(t) \/ SetRemote(t) \/ Publish(t)
               \/ DelRemote(t) \/ DelLocal(t)
        PROVE  UNCHANGED <<now, served>>
    BY <2>5 DEF LocalMiss, BeginRefresh, BeginDelete, Abort, RemoteHit, RemoteMiss, Query,
                Fill, RawRead, SetLocal, SetRemote, Publish, DelRemote, DelLocal
  <2>6. ASSUME NEW p \in Procs, DeleteCacheKey(p) \/ LoseMessage(p) \/ Restart(p)
        PROVE  UNCHANGED <<now, served>>
    BY <2>6 DEF DeleteCacheKey, LoseMessage, Restart
  <2> QED BY <2>1, <2>2, <2>3, <2>4, <2>5, <2>6 DEF Next, Begin, Progress
<1> QED BY <1>1, <1>2, AgeAlways, PTL DEF Spec, ImplementsRegister, Register!Spec

----------------------------------------------------------------------------
(* The executor below the cache.                                           *)

\* An entry of the dictionary is an execution whose initiator has not resumed, and every
\* such execution has its entry.
Entries ==
  /\ NoStaleEntry
  /\ \A c \in Calls : st[c] = "initiator" => dictionary[key[c]] = c /\ run[c] = c

\* A call that waits joined an execution of its value which has not settled.
Waiting ==
  /\ \A c \in Calls : st[c] = "idle" => result[c] = Nothing
  /\ \A c \in Calls : st[c] # "idle" => run[c] \in Calls
  /\ \A c \in Calls : st[c] = "joined" /\ result[c] = Nothing =>
       Unsettled(run[c]) /\ key[run[c]] = key[c]

\* A result waiting for its caller is not older than what callers of its value were given,
\* and one drain has one result; an answer on its way is not older than either.
Ordered ==
  /\ \A c \in Calls : read[c] # Nothing => Unsettled(c) /\ read[c] <= version
  /\ \A c \in Calls : read[c] # Nothing => answered[key[c]] <= read[c]
  /\ \A c \in Calls : result[c] \in Nat =>
       answered[key[c]] <= result[c] /\ result[c] <= version
  /\ \A c, d \in Calls : Runnable(c) /\ Runnable(d) => result[c] = result[d]
  /\ \A c, d \in Calls : read[c] # Nothing /\ result[d] \in Nat /\ key[c] = key[d] =>
       result[d] <= read[c]
  /\ \A k \in Keys : answered[k] <= version

ExecutorInv == ExecutorTypeOK /\ Entries /\ Waiting /\ Ordered

USE CallsAssumption

----------------------------------------------------------------------------
\* One execution per value follows from the entries.
LEMMA EntriesSingle == ASSUME ExecutorTypeOK, Entries PROVE SingleFlight
  BY DEF ExecutorTypeOK, Entries, SingleFlight

LEMMA ExecutorInvInit == ExecutorInit => ExecutorInv
  BY VersionAssumption DEF ExecutorInit, ExecutorInv, ExecutorTypeOK, Entries, NoStaleEntry,
       Waiting, Ordered,
     Unsettled, Runnable, States, Value, Nothing, Error

LEMMA StartStep ==
  ASSUME ExecutorInv, NEW c \in Calls, NEW k \in Keys, Start(c, k) PROVE ExecutorInv'
<1> USE DEF ExecutorInv, Start, Nothing, Error
<1>1. ExecutorTypeOK'  BY DEF ExecutorTypeOK, States
<1>2. Entries'  BY DEF ExecutorTypeOK, Entries, NoStaleEntry, States
<1>3. Waiting'  BY DEF ExecutorTypeOK, Waiting, Entries, NoStaleEntry, Unsettled, States
<1>4. Ordered'  BY DEF ExecutorTypeOK, Waiting, Ordered, Unsettled, Runnable, States, Value
<1> QED  BY <1>1, <1>2, <1>3, <1>4

LEMMA JoinStep ==
  ASSUME ExecutorInv, NEW c \in Calls, NEW k \in Keys, Join(c, k) PROVE ExecutorInv'
<1> USE DEF ExecutorInv, Join, Nothing, Error
<1>1. ExecutorTypeOK'  BY DEF ExecutorTypeOK, States
<1>2. Entries'  BY DEF ExecutorTypeOK, Entries, NoStaleEntry, States
<1>3. Waiting'
  BY DEF ExecutorTypeOK, Waiting, Entries, NoStaleEntry, Unsettled, States
<1>4. Ordered'
  BY DEF ExecutorTypeOK, Waiting, Ordered, Entries, NoStaleEntry, Unsettled, Runnable, States, Value
<1> QED  BY <1>1, <1>2, <1>3, <1>4

LEMMA EvaluateStep ==
  ASSUME ExecutorInv, NEW c \in Calls, Evaluate(c) PROVE ExecutorInv'
<1> USE DEF ExecutorInv, Evaluate, Nothing, Error
<1>1. ExecutorTypeOK'  BY DEF ExecutorTypeOK
<1>2. Entries'  BY DEF ExecutorTypeOK, Entries, NoStaleEntry
<1>3. Waiting'  BY DEF ExecutorTypeOK, Waiting, Unsettled
<1>4. Ordered'  BY DEF ExecutorTypeOK, Ordered, Unsettled, Runnable
<1> QED  BY <1>1, <1>2, <1>3, <1>4

LEMMA SettleStep ==
  ASSUME ExecutorInv, NEW c \in Calls, Settle(c) PROVE ExecutorInv'
<1> USE DEF ExecutorInv, Nothing, Error
<1>1. PICK v \in {read[c], Error} \ {Nothing} :
        result' = [d \in Calls |-> IF st[d] # "idle" /\ run[d] = c THEN v ELSE result[d]]
  BY DEF Settle
<1>2. \A d \in Calls : st[d] # "idle" => result[d] = Nothing
  BY DEF Settle, Runnable
<1>3. \A d \in Calls : result[d] = Nothing
  BY <1>2 DEF ExecutorTypeOK, Waiting, States
<1>4. ExecutorTypeOK'  BY <1>1 DEF Settle, ExecutorTypeOK, Value
<1>5. Entries'  BY DEF Settle, ExecutorTypeOK, Entries, NoStaleEntry
<1>6. Waiting'  BY <1>1, <1>3 DEF Settle, ExecutorTypeOK, Entries, Waiting, Unsettled, States
<1>7. \A d \in Calls : st[d] # "idle" /\ run[d] = c => key[d] = key[c]
  BY <1>3 DEF Settle, ExecutorTypeOK, Entries, Waiting, Unsettled, States
<1>8. Ordered'
  <2>1. \A d \in Calls : read'[d] # Nothing => d # c /\ read[d] = read'[d]
    BY DEF Settle, ExecutorTypeOK
  <2>2. \A d \in Calls : result'[d] # Nothing =>
          result'[d] = v /\ st[d] # "idle" /\ run[d] = c /\ key[d] = key[c]
    BY <1>1, <1>3, <1>7
  <2>3. \A d \in Calls : read'[d] # Nothing => Unsettled(d)' /\ read'[d] <= version'
    BY <1>1, <2>1 DEF Settle, ExecutorTypeOK, Ordered, Entries, Unsettled
  <2>4. \A d \in Calls : read'[d] # Nothing => answered'[key'[d]] <= read'[d]
    BY <2>1 DEF Settle, Ordered
  <2>5. \A d \in Calls : result'[d] \in Nat =>
          answered'[key'[d]] <= result'[d] /\ result'[d] <= version'
    BY <2>2 DEF Settle, ExecutorTypeOK, Ordered
  <2>6. \A d, e \in Calls : Runnable(d)' /\ Runnable(e)' => result'[d] = result'[e]
    BY <2>2 DEF Runnable
  <2>7. \A d, e \in Calls : read'[d] # Nothing /\ result'[e] \in Nat => key'[d] # key'[e]
    BY <2>1, <2>2 DEF Settle, ExecutorTypeOK, Ordered, Entries, Unsettled
  <2> QED  BY <2>3, <2>4, <2>5, <2>6, <2>7 DEF Settle, Ordered
<1> QED  BY <1>4, <1>5, <1>6, <1>8

\* A caller goes on: Finish and Resume, whose effects differ on the dictionary only.
LEMMA ReturnStep ==
  ASSUME ExecutorInv, NEW c \in Calls, Return(c) PROVE Ordered'
<1> USE DEF ExecutorInv, Nothing, Error
<1>1. /\ version' = version /\ key' = key /\ read' = read
      /\ \A d \in Calls : d # c => st'[d] = st[d] /\ result'[d] = result[d]
      /\ result'[c] = Nothing /\ result[c] # Nothing
      /\ version \in Nat /\ answered \in [Keys -> Nat] /\ key \in [Calls -> Keys]
      /\ result[c] \in Nat \cup {Nothing, Error}
  BY DEF Return, Runnable, ExecutorTypeOK, Value
<1>2. \A k \in Keys : \/ answered'[k] = answered[k]
                      \/ k = key[c] /\ result[c] \in Nat /\ answered'[k] = result[c]
  BY <1>1 DEF Return
<1>3. \A d \in Calls : read'[d] # Nothing => Unsettled(d)' /\ read'[d] <= version'
  BY <1>1 DEF Ordered, Unsettled
<1>4. \A d \in Calls : read'[d] # Nothing => answered'[key'[d]] <= read'[d]
  BY <1>1, <1>2 DEF Ordered
<1>5. \A d \in Calls : result'[d] \in Nat => result[d] = result'[d] /\ d # c
  BY <1>1
<1>6. \A d \in Calls : result[d] \in Nat /\ result[c] \in Nat => result[d] = result[c]
  <2>1. ASSUME NEW d \in Calls, result[d] \in Nat, result[c] \in Nat
        PROVE Runnable(d) /\ Runnable(c)
    BY <2>1 DEF Waiting, Runnable
  <2> QED  BY <2>1 DEF Ordered
<1>7. \A d \in Calls : result'[d] \in Nat =>
        answered'[key'[d]] <= result'[d] /\ result'[d] <= version'
  BY <1>1, <1>2, <1>5, <1>6 DEF Ordered
<1>8. \A d, e \in Calls : Runnable(d)' /\ Runnable(e)' => result'[d] = result'[e]
  BY <1>1 DEF Ordered, Runnable
<1>9. \A d, e \in Calls : read'[d] # Nothing /\ result'[e] \in Nat /\ key'[d] = key'[e] =>
        result'[e] <= read'[d]
  BY <1>1, <1>5 DEF Ordered
<1>10. \A k \in Keys : answered'[k] <= version'
  BY <1>1, <1>2 DEF Ordered
<1> QED  BY <1>3, <1>4, <1>7, <1>8, <1>9, <1>10 DEF Ordered

LEMMA FinishStep ==
  ASSUME ExecutorInv, NEW c \in Calls, Finish(c) PROVE ExecutorInv'
<1> USE DEF ExecutorInv, Finish, Nothing, Error
<1>1. ExecutorTypeOK'  BY DEF Return, Runnable, ExecutorTypeOK, States, Value
<1>2. Entries'  BY DEF Return, ExecutorTypeOK, Entries, NoStaleEntry
<1>3. Waiting'  BY DEF Return, ExecutorTypeOK, Waiting, Unsettled, Runnable
<1>4. Ordered'  BY ReturnStep
<1> QED  BY <1>1, <1>2, <1>3, <1>4

LEMMA ResumeStep ==
  ASSUME ExecutorInv, NEW c \in Calls, Resume(c) PROVE ExecutorInv'
<1> USE DEF ExecutorInv, Resume, Nothing, Error
<1>1. ExecutorTypeOK'  BY DEF Return, Runnable, ExecutorTypeOK, States, Value
<1>2. Entries'  BY DEF Return, ExecutorTypeOK, Entries, NoStaleEntry
<1>3. Waiting'  BY DEF Return, ExecutorTypeOK, Waiting, Unsettled, Runnable
<1>4. Ordered'  BY ReturnStep
<1> QED  BY <1>1, <1>2, <1>3, <1>4

LEMMA AdvanceStep == ASSUME ExecutorInv, Advance PROVE ExecutorInv'
<1> USE DEF ExecutorInv, Advance, Nothing, Error
<1>1. ExecutorTypeOK'  BY DEF ExecutorTypeOK
<1>2. Entries'  BY DEF Entries, NoStaleEntry
<1>3. Waiting'  BY DEF Waiting, Unsettled
<1>4. Ordered'  BY DEF ExecutorTypeOK, Ordered, Unsettled, Runnable, Value
<1> QED  BY <1>1, <1>2, <1>3, <1>4

LEMMA ExecutorInvNext == ExecutorInv /\ [ExecutorNext]_executorVars => ExecutorInv'
<1> SUFFICES ASSUME ExecutorInv, [ExecutorNext]_executorVars PROVE ExecutorInv'  OBVIOUS
<1>1. ASSUME NEW c \in Calls, NEW k \in Keys, Start(c, k) \/ Join(c, k) PROVE ExecutorInv'
  BY <1>1, StartStep, JoinStep
<1>2. ASSUME NEW c \in Calls, Evaluate(c) \/ Settle(c) \/ Finish(c) \/ Resume(c) PROVE ExecutorInv'
  BY <1>2, EvaluateStep, SettleStep, FinishStep, ResumeStep
<1>3. CASE Advance  BY <1>3, AdvanceStep
<1>4. CASE UNCHANGED executorVars
  BY <1>4 DEF executorVars, ExecutorInv, ExecutorTypeOK, Entries, NoStaleEntry, Waiting,
       Ordered, Unsettled, Runnable
<1> QED  BY <1>1, <1>2, <1>3, <1>4 DEF ExecutorNext

LEMMA ExecutorInvHolds == ExecutorSpec => []ExecutorInv
  BY ExecutorInvInit, ExecutorInvNext, PTL DEF ExecutorSpec

----------------------------------------------------------------------------
\* Every variable of the executor and of its callers keeps its type.
THEOREM ExecutorTypeCorrect == ExecutorSpec => []ExecutorTypeOK
<1>1. ExecutorInv => ExecutorTypeOK  BY DEF ExecutorInv
<1> QED  BY ExecutorInvHolds, <1>1, PTL

\* execute never starts a second execution of a value while one is pending.
THEOREM SingleFlightHolds == ExecutorSpec => []SingleFlight
<1>1. ExecutorInv => SingleFlight  BY EntriesSingle DEF ExecutorInv
<1> QED  BY ExecutorInvHolds, <1>1, PTL

\* The finally leaves no entry behind: the dictionary never shares an execution whose
\* initiator has gone on.
THEOREM NoStaleEntryHolds == ExecutorSpec => []NoStaleEntry
<1>1. ExecutorInv => NoStaleEntry  BY DEF ExecutorInv, Entries
<1> QED  BY ExecutorInvHolds, <1>1, PTL

\* A call that waits has joined an execution of its own value that is still under way, so its
\* answer, or its error, is yet to come: the promise of no other value settles it, and none that
\* has settled before.
THEOREM WaitingHolds == ExecutorSpec => []Waiting
<1>1. ExecutorInv => Waiting  BY DEF ExecutorInv
<1> QED  BY ExecutorInvHolds, <1>1, PTL

\* The answers given to the callers of a value never go back to an older state.
THEOREM AnswersInOrderHolds == ExecutorSpec => AnswersInOrder
<1>1. ExecutorInv /\ [ExecutorNext]_executorVars => [\A k \in Keys : answered[k] <=
     answered'[k]]_executorVars
  <2> SUFFICES ASSUME ExecutorInv, ExecutorNext PROVE \A k \in Keys : answered[k] <= answered'[k]
    OBVIOUS
  <2> USE DEF ExecutorInv, ExecutorTypeOK
  <2>1. ASSUME NEW c \in Calls, NEW k \in Keys, Start(c, k) \/ Join(c, k)
        PROVE answered' = answered
    BY <2>1 DEF Start, Join
  <2>2. ASSUME NEW c \in Calls, Evaluate(c) \/ Settle(c) PROVE answered' = answered
    BY <2>2 DEF Evaluate, Settle
  <2>3. ASSUME NEW c \in Calls, Finish(c) \/ Resume(c)
        PROVE \A k \in Keys : answered[k] <= answered'[k]
    BY <2>3 DEF Finish, Resume, Return, Runnable, Ordered, Value, Nothing, Error
  <2>4. CASE Advance  BY <2>4 DEF Advance
  <2> QED  BY <2>1, <2>2, <2>3, <2>4 DEF ExecutorNext
<1> QED  BY ExecutorInvHolds, <1>1, PTL DEF ExecutorSpec, AnswersInOrder

----------------------------------------------------------------------------
(* Answers to clients.  A finite set in order: lists and pages are made of *)
(* ranks.                                                                  *)

\* R is a strict order of the finite set S.
Orders(R, S) ==
  /\ IsFiniteSet(S)
  /\ \A a \in S : <<a, a>> \notin R
  /\ \A a, b, c \in S : <<a, b>> \in R /\ <<b, c>> \in R => <<a, c>> \in R
  /\ \A a, b \in S : a # b => <<a, b>> \in R \/ <<b, a>> \in R

\* How many members of S come after a.
After(R, S, a) == Cardinality({b \in S : <<a, b>> \in R})

\* Ranks of a finite set under a strict order number its members.
LEMMA InOrderFacts ==
  ASSUME NEW S, NEW R, Orders(R, S)
  PROVE  LET s == InOrder(S, R)
             n == Cardinality(S)
         IN  /\ n \in Nat /\ s \in [1 .. n -> S]
             /\ \A a \in S : \E p \in 1 .. n : s[p] = a
             /\ \A p, q \in 1 .. n : s[p] = s[q] => p = q
             /\ \A p \in 1 .. n : After(R, S, s[p]) = n - p
<1> USE DEF Orders
<1> DEFINE s == InOrder(S, R)
           n == Cardinality(S)
           Under(a) == {b \in S : <<b, a>> \in R}
           Over(a) == {b \in S : <<a, b>> \in R}
           rank == [a \in S |-> Cardinality(Under(a))]
<1>1. n \in Nat  BY FS_CardinalityType
<1>2. ASSUME NEW a \in S
      PROVE  IsFiniteSet(Under(a)) /\ rank[a] \in 0 .. n - 1 /\ rank[a] = Cardinality(Under(a))
  <2>1. Under(a) \in SUBSET S /\ Under(a) # S  BY <1>2
  <2>2. IsFiniteSet(Under(a)) /\ Cardinality(Under(a)) <= n /\ Cardinality(Under(a)) # n
    BY <2>1, FS_Subset
  <2>3. Cardinality(Under(a)) \in Nat  BY <2>2, FS_CardinalityType
  <2> HIDE DEF n, Under
  <2> QED  BY <1>1, <2>2, <2>3
<1>11. rank \in [S -> 0 .. n - 1]  BY <1>2
<1> HIDE DEF rank, n
<1>3. ASSUME NEW a \in S, NEW b \in S, <<a, b>> \in R PROVE rank[a] < rank[b]
  <2>1. Under(a) \in SUBSET Under(b) /\ a \in Under(b) /\ a \notin Under(a)  BY <1>3
  <2>2. Cardinality(Under(a)) <= Cardinality(Under(b))
        /\ Cardinality(Under(b)) # Cardinality(Under(a))
    BY <1>2, <2>1, FS_Subset
  <2>3. rank[a] \in Nat /\ rank[b] \in Nat  BY <1>1, <1>11
  <2>4. rank[a] <= rank[b] /\ rank[a] # rank[b]  BY <1>2, <2>2
  <2> QED  BY <2>3, <2>4
<1>4. \A a, b \in S : rank[a] = rank[b] => a = b
  <2> SUFFICES ASSUME NEW a \in S, NEW b \in S, a # b PROVE rank[a] # rank[b]  OBVIOUS
  <2>1. rank[a] \in Nat /\ rank[b] \in Nat  BY <1>1, <1>11
  <2>2. CASE <<a, b>> \in R
    <3>1. rank[a] < rank[b]  BY <1>3, <2>2
    <3> QED  BY <2>1, <3>1
  <2>3. CASE <<b, a>> \in R
    <3>1. rank[b] < rank[a]  BY <1>3, <2>3
    <3> QED  BY <2>1, <3>1
  <2> QED  BY <2>2, <2>3
<1>5. \A k \in 0 .. n - 1 : \E a \in S : rank[a] = k
  <2>2. rank \in Injection(S, 0 .. n - 1)  BY <1>4, <1>11 DEF Injection, IsInjective
  <2>3. IsFiniteSet(0 .. n - 1) /\ Cardinality(0 .. n - 1) = n
    BY <1>1, FS_Interval
  <2>4. rank \in Surjection(S, 0 .. n - 1)  BY <2>2, <2>3, FS_Injection DEF n
  <2> QED  BY <2>4 DEF Surjection
<1>6. ASSUME NEW p \in 1 .. n PROVE s[p] \in S /\ rank[s[p]] = p - 1
  <2>1. s[p] = CHOOSE a \in S : Cardinality(Under(a)) = p - 1  BY DEF InOrder, n
  <2>2. p - 1 \in 0 .. n - 1  BY <1>1
  <2>3. PICK a \in S : rank[a] = p - 1  BY <1>5, <2>2
  <2>4. Cardinality(Under(a)) = p - 1  BY <1>2, <2>3
  <2>5. s[p] \in S /\ Cardinality(Under(s[p])) = p - 1
    <3> HIDE DEF s, Under
    <3> QED  BY <2>1, <2>4
  <2> QED  BY <1>2, <2>5
<1>7. s \in [1 .. n -> S]
  <2>1. s = [p \in 1 .. n |-> CHOOSE a \in S : Cardinality({b \in S : <<b, a>> \in R}) = p - 1]
    BY DEF InOrder, n
  <2>2. \A p \in 1 .. n : s[p] \in S  BY <1>6
  <2> QED  BY <2>1, <2>2, Zenon
<1> HIDE DEF s
<1>8. \A a \in S : \E p \in 1 .. n : s[p] = a
  <2> SUFFICES ASSUME NEW a \in S PROVE \E p \in 1 .. n : s[p] = a  OBVIOUS
  <2>1. PICK p \in 1 .. n : p - 1 = rank[a]
    <3>1. PICK k \in 0 .. n - 1 : k = rank[a]  BY <1>11
    <3>2. \A i \in 0 .. n - 1 : \E p \in 1 .. n : p - 1 = i
      <4> SUFFICES ASSUME NEW i \in 0 .. n - 1 PROVE \E p \in 1 .. n : p - 1 = i  OBVIOUS
      <4>1. i + 1 \in 1 .. n  BY <1>1
      <4>2. (i + 1) - 1 = i  OBVIOUS
      <4> QED  BY <4>1, <4>2
    <3> QED  BY <3>1, <3>2
  <2>2. s[p] \in S /\ rank[s[p]] = rank[a]  BY <1>6, <2>1
  <2> QED  BY <1>4, <2>1, <2>2
<1>9. \A p, q \in 1 .. n : s[p] = s[q] => p = q
  <2> SUFFICES ASSUME NEW p \in 1 .. n, NEW q \in 1 .. n, s[p] = s[q] PROVE p = q  OBVIOUS
  <2>1. p - 1 = q - 1  BY <1>6
  <2> QED  BY <1>1, <2>1
<1>10. ASSUME NEW p \in 1 .. n PROVE Cardinality(Over(s[p])) = n - p
  <2> DEFINE a == s[p]
             U == Under(a) \cup {a}
  <2>1. a \in S /\ rank[a] = p - 1 /\ rank[a] = Cardinality(Under(a)) /\ IsFiniteSet(Under(a))
    BY <1>2, <1>6
  <2>2. a \notin Under(a)  BY <2>1
  <2>3. IsFiniteSet(U) /\ Cardinality(U) = p - 1 + 1
    BY <2>1, <2>2, FS_AddElement
  <2>4. IsFiniteSet(Over(a))  BY FS_Subset
  <2>5. U \cup Over(a) = S /\ U \cap Over(a) = {}
    <3>1. \A b \in S : \/ <<a, b>> \in R \/ <<b, a>> \in R \/ a = b
      BY <2>1 DEF Orders
    <3>2. \A b \in S : ~ (<<a, b>> \in R /\ <<b, a>> \in R)
      BY <2>1 DEF Orders
    <3>3. <<a, a>> \notin R  BY <2>1 DEF Orders
    <3> HIDE DEF a
    <3> QED  BY <2>1, <3>1, <3>2, <3>3
  <2>6. n = Cardinality(U) + Cardinality(Over(a)) - Cardinality({})
    BY <2>3, <2>4, <2>5, FS_Union DEF n
  <2>7. Cardinality({}) = 0 /\ Cardinality(Over(a)) \in Nat  BY <2>4, FS_EmptySet, FS_CardinalityType
  <2> HIDE DEF U, a
  <2> QED  BY <1>1, <2>3, <2>6, <2>7 DEF a
<1> QED  BY <1>1, <1>7, <1>8, <1>9, <1>10 DEF s, n, After

----------------------------------------------------------------------------
(* Shares.                                                                 *)

\* A quotient is the whole part.
LEMMA DivFacts ==
  ASSUME NEW a \in Nat, NEW b \in Nat \ {0}
  PROVE  LET q == a \div b IN q \in Nat /\ b * q <= a /\ a < b * q + b
OBVIOUS

LEMMA Cancel ==
  ASSUME NEW a \in Int, NEW b \in Int, NEW k \in Nat \ {0}, a * k < b * k
  PROVE  a < b
<1> SUFFICES ASSUME a >= b PROVE FALSE  OBVIOUS
<1>1. PICK d \in Nat : a = b + d
  <2>1. a - b \in Nat /\ a = b + (a - b)  OBVIOUS
  <2> QED  BY <2>1
<1>2. a * k = b * k + d * k  BY <1>1
<1>3. d * k >= 0 /\ d * k \in Int /\ b * k \in Int /\ a * k \in Int  OBVIOUS
<1> QED  BY <1>2, <1>3

\* A share, times the total, against the part it stands for.
LEMMA ShareFacts ==
  ASSUME NEW n \in Nat, NEW total \in Nat \ {0}, NEW nearest
  PROVE  LET s == Share(n, total, nearest) IN
         /\ s \in Nat
         /\ 2 * (s * total) <= 20000 * n + total
         /\ 10000 * n < s * total + total
<1>1. PICK x \in {0, total} : Share(n, total, nearest) = (20000 * n + x) \div (2 * total)
  BY DEF Share
<1> DEFINE a == 20000 * n + x
           b == 2 * total
           s == Share(n, total, nearest)
<1>2. a \in Nat /\ b \in Nat \ {0} /\ s = a \div b  BY <1>1
<1> HIDE DEF a, b, s
<1>3. s \in Nat /\ b * s <= a /\ a < b * s + b  BY <1>2, DivFacts
<1>4. b * s = 2 * (s * total)  BY <1>3 DEF b
<1>5. s * total \in Int  BY <1>3
<1>6. 2 * (s * total) <= 20000 * n + x /\ 20000 * n + x < 2 * (s * total) + 2 * total
  BY <1>3, <1>4 DEF a, b
<1> DEFINE w == s * total
<1>7. w \in Int /\ 2 * w <= 20000 * n + x /\ 20000 * n + x < 2 * w + 2 * total  BY <1>5, <1>6
<1> HIDE DEF w
<1>8. 2 * w <= 20000 * n + total /\ 10000 * n < w + total  BY <1>7
<1> QED  BY <1>3, <1>8 DEF w, s

\* The greater part never has the smaller share.
LEMMA ShareGrows ==
  ASSUME NEW n \in Nat, NEW m \in Nat, m <= n, NEW total \in Nat \ {0}, NEW nearest
  PROVE  Share(m, total, nearest) <= Share(n, total, nearest)
<1> DEFINE x == IF nearest THEN total ELSE 0
           a == 20000 * n + x
           c == 20000 * m + x
           b == 2 * total
           s == Share(n, total, nearest)
           r == Share(m, total, nearest)
<1>1. a \in Nat /\ c \in Nat /\ c <= a /\ b \in Nat \ {0} /\ s = a \div b /\ r = c \div b
  BY DEF Share
<1> HIDE DEF a, b, c, s, r
<1>2. s \in Nat /\ a < b * s + b  BY <1>1, DivFacts
<1>3. r \in Nat /\ b * r <= c  BY <1>1, DivFacts
<1>4. b * s + b = (s + 1) * b /\ b * r = r * b  BY <1>1, <1>2, <1>3
<1>5. r * b < (s + 1) * b
  <2>1. b * r \in Int /\ b * s \in Int  BY <1>1, <1>2, <1>3
  <2> HIDE DEF x
  <2>2. b * r < b * s + b  BY <1>1, <1>2, <1>3, <2>1
  <2> QED  BY <1>4, <2>2
<1>6. r < s + 1  BY <1>1, <1>2, <1>3, <1>5, Cancel
<1>7. r <= s  BY <1>2, <1>3, <1>6
<1> QED  BY <1>7 DEF r, s

\* What a client is told of votes v adds up.
AddsUp(v, share) ==
  LET sum == share["up"] + share["down"] + share["veto"] + share["abstain"]
  IN  IF Total(v) = 0 THEN sum = 0
      ELSE /\ \A t \in Types : Near(share[t] * Total(v), 10000 * v[t], Total(v))
           /\ \A t, u \in Types : v[t] >= v[u] => share[t] >= share[u]
           /\ Near(sum, 10000, 4)

LEMMA SharesSum ==
  ASSUME NEW v \in [Types -> Nat], NEW nearest
  PROVE  AddsUp(v, [t \in Types |-> Share(v[t], Total(v), nearest)])
<1> USE DEF AddsUp
<1> DEFINE T == Total(v)
           share == [t \in Types |-> Share(v[t], T, nearest)]
           sum == share["up"] + share["down"] + share["veto"] + share["abstain"]
<1>1. /\ v["up"] \in Nat /\ v["down"] \in Nat /\ v["veto"] \in Nat /\ v["abstain"] \in Nat
      /\ T \in Nat /\ T = v["up"] + v["down"] + v["abstain"] + v["veto"]
  BY DEF Types, Total
<1>2. \A t \in Types : share[t] = Share(v[t], T, nearest)  OBVIOUS
<1>3. {"up", "down", "veto", "abstain"} = Types  BY DEF Types
<1> HIDE DEF T, share
<1>4. CASE T = 0
  <2>1. \A t \in Types : share[t] = 0  BY <1>2, <1>4 DEF Share
  <2>2. sum = 0  BY <1>3, <2>1
  <2> QED  BY <1>4, <2>2 DEF T, share
<1>5. CASE T # 0
  <2>1. T \in Nat \ {0}  BY <1>1, <1>5
  <2>2. \A t \in Types : /\ share[t] \in Nat /\ 2 * (share[t] * T) <= 20000 * v[t] + T
                         /\ 10000 * v[t] < share[t] * T + T
    <3> SUFFICES ASSUME NEW t \in Types
                 PROVE  /\ share[t] \in Nat /\ 2 * (share[t] * T) <= 20000 * v[t] + T
                        /\ 10000 * v[t] < share[t] * T + T
      OBVIOUS
    <3>1. v[t] \in Nat /\ share[t] = Share(v[t], T, nearest)  BY <1>2
    <3>2. LET s == Share(v[t], T, nearest) IN
          s \in Nat /\ 2 * (s * T) <= 20000 * v[t] + T /\ 10000 * v[t] < s * T + T
      BY <2>1, <3>1, ShareFacts
    <3> QED  BY <3>1, <3>2
  <2>3. \A t \in Types : Near(share[t] * T, 10000 * v[t], T)
    <3> SUFFICES ASSUME NEW t \in Types PROVE Near(share[t] * T, 10000 * v[t], T)  OBVIOUS
    <3> DEFINE w == share[t] * T
    <3>1. w \in Int /\ v[t] \in Nat /\ 2 * w <= 20000 * v[t] + T /\ 10000 * v[t] < w + T
      BY <2>1, <2>2
    <3> HIDE DEF w
    <3>2. Near(w, 10000 * v[t], T)  BY <2>1, <3>1 DEF Near
    <3> QED  BY <3>2 DEF w
  <2>4. \A t, u \in Types : v[t] >= v[u] => share[t] >= share[u]
    <3> SUFFICES ASSUME NEW t \in Types, NEW u \in Types, v[t] >= v[u] PROVE share[t] >= share[u]
      OBVIOUS
    <3>1. v[t] \in Nat /\ v[u] \in Nat /\ v[u] <= v[t]  OBVIOUS
    <3>2. share[u] <= share[t]  BY <1>2, <2>1, <3>1, ShareGrows
    <3> QED  BY <2>2, <3>2
  <2>5. Near(sum, 10000, 4)
    <3>1. PICK a \in Nat, b \in Nat, c \in Nat, d \in Nat :
            a = share["up"] /\ b = share["down"] /\ c = share["veto"] /\ d = share["abstain"]
      <4>1. \A t \in Types : share[t] \in Nat  BY <2>2
      <4>2. share["up"] \in Nat /\ share["down"] \in Nat /\ share["veto"] \in Nat /\ share["abstain"] \in Nat
        BY <1>3, <4>1
      <4> HIDE DEF sum
      <4> QED  BY <4>2
    <3> DEFINE A == a * T
               B == b * T
               C == c * T
               D == d * T
    <3>2. A \in Int /\ B \in Int /\ C \in Int /\ D \in Int  BY <2>1
    <3>3. /\ 2 * A <= 20000 * v["up"] + T /\ 10000 * v["up"] < A + T
          /\ 2 * B <= 20000 * v["down"] + T /\ 10000 * v["down"] < B + T
          /\ 2 * C <= 20000 * v["veto"] + T /\ 10000 * v["veto"] < C + T
          /\ 2 * D <= 20000 * v["abstain"] + T /\ 10000 * v["abstain"] < D + T
      BY <1>3, <2>2, <3>1
    <3>4. (a + b + c + d) * T = A + B + C + D  BY <2>1
    <3> HIDE DEF A, B, C, D
    <3>5. A + B + C + D < 10004 * T /\ 9996 * T < A + B + C + D
      BY <1>1, <2>1, <3>2, <3>3
    <3>6. a + b + c + d \in Int /\ 10004 \in Int /\ 9996 \in Int  OBVIOUS
    <3>7. a + b + c + d < 10004 /\ 9996 < a + b + c + d
      BY <2>1, <3>4, <3>5, <3>6, Cancel
    <3>8. sum = a + b + c + d  BY <3>1
    <3> HIDE DEF sum
    <3> QED  BY <3>6, <3>7, <3>8 DEF Near
  <2> QED  BY <1>5, <2>3, <2>4, <2>5 DEF T, share
<1> QED  BY <1>4, <1>5


----------------------------------------------------------------------------
(* A behaviour has one kind of requests.                                   *)

USE ConfigAssumption, VotingAssumption, LimitAssumption

LEMMA StepsOfKind ==
  ASSUME ViewsNext
  PROVE  /\ kind' = kind
         /\ kind = "fields" => AskField \/ answer' = Absent
         /\ kind = "transactions" => AskTransaction \/ answer' = Absent
         /\ kind = "shares" => AskShares \/ answer' = Absent
         /\ kind = "times" => Turn \/ RenewStats \/ AskTimes \/ TellTimes
         /\ kind = "numbers" => \/ \E c \in DOMAIN Pulse : Create(c) \/ Renew(c)
                                \/ \E c \in DOMAIN Pulse, id \in 0 .. MaxItems - 1 : AskNumber(c, id)
                                \/ CountTotal \/ TellNumber
         /\ kind = "pages" => \/ 1 \in DOMAIN Pulse /\ (Create(1) \/ Renew(1))
                              \/ AskPage \/ \E i \in 0 .. MaxItems - 1 : GiveVote(i)
<1>1. CASE AskField \/ AskTransaction \/ AskShares \/ Done
  BY <1>1 DEF AskField, AskTransaction, AskShares, Done, Asks
<1>2. CASE Turn \/ RenewStats \/ AskTimes \/ TellTimes
  BY <1>2 DEF Turn, RenewStats, AskTimes, TellTimes, Asks
<1>3. CASE \E c \in DOMAIN Pulse : Create(c) \/ Renew(c)
  <2>1. PICK c \in DOMAIN Pulse : Create(c) \/ Renew(c)  BY <1>3
  <2>2. kind' = kind /\ (kind = "numbers" \/ (kind = "pages" /\ c = 1))
    BY <2>1 DEF Create, Renew
  <2> QED  BY <1>3, <2>1, <2>2
<1>4. CASE \E c \in DOMAIN Pulse, id \in 0 .. MaxItems - 1 : AskNumber(c, id)
  BY <1>4 DEF AskNumber, Asks
<1>5. CASE CountTotal \/ TellNumber
  BY <1>5 DEF CountTotal, TellNumber, Asks
<1>6. CASE AskPage
  BY <1>6 DEF AskPage, Asks
<1>7. CASE \E i \in 0 .. MaxItems - 1 : GiveVote(i)
  BY <1>7 DEF GiveVote, Asks
<1> QED  BY <1>1, <1>2, <1>3, <1>4, <1>5, <1>6, <1>7 DEF ViewsNext

----------------------------------------------------------------------------
(* Times.                                                                  *)

\* Blocks are produced one after the other, and the copy of the statistics is
\* an epoch behind at most.
ChainInv ==
  /\ first \in Seq(Nat)
  /\ \A d, e \in DOMAIN first : d < e => first[d] < first[e]
  /\ stats \in DOMAIN first
  /\ Len(first) \in {stats, stats + 1}

\* The start of the vote is reckoned from the statistics, or from the ones
\* before if a turn of the epoch has been seen since.
StartInv ==
  /\ task = Absent => moved = FALSE
  /\ task # Absent =>
       /\ task.voting \in Votings
       /\ \/ task.start = FirstBlock(task.voting.start, stats)
          \/ /\ moved = TRUE /\ stats = Len(first) /\ stats > 1
             /\ task.start = FirstBlock(task.voting.start, stats - 1)

TimesInv == kind = "times" => ChainInv /\ StartInv /\ TimesInOrder

LEMMA EpochsAdd ==
  ASSUME NEW a \in Nat, NEW b \in Nat, a <= b
  PROVE  /\ a * Epoch \in Nat /\ b * Epoch \in Nat
         /\ a * Epoch <= b * Epoch
         /\ a < b => a * Epoch < b * Epoch
<1>1. PICK d \in Nat : b = a + d
  <2>1. b - a \in Nat /\ b = a + (b - a)  OBVIOUS
  <2> QED  BY <2>1
<1>2. b * Epoch = a * Epoch + d * Epoch  BY <1>1, VotingAssumption
<1>3. a * Epoch \in Nat /\ b * Epoch \in Nat /\ d * Epoch \in Nat  BY VotingAssumption
<1>4. d > 0 => d * Epoch > 0  BY VotingAssumption
<1> HIDE DEF Near
<1> QED  BY <1>1, <1>2, <1>3, <1>4

\* The first block of a later epoch is told later, from the same statistics
\* and from the next ones.
LEMMA LaterBlocks ==
  ASSUME ChainInv, NEW s \in DOMAIN first, NEW r \in {s, s + 1}, r \in DOMAIN first,
         NEW d \in Nat \ {0}, NEW e \in Nat, d < e
  PROVE  FirstBlock(d, s) < FirstBlock(e, r)
<1>1. first \in Seq(Nat) /\ \A a, b \in DOMAIN first : a < b => first[a] < first[b]
  BY DEF ChainInv
<1>8. \A a \in DOMAIN first : a \in Nat /\ first[a] \in Nat  BY <1>1
<1>2. /\ s \in Nat /\ r \in Nat /\ first[s] \in Nat /\ first[r] \in Nat
      /\ first[s] <= first[r]
  <2>1. s \in Nat /\ r \in Nat /\ first[s] \in Nat /\ first[r] \in Nat  BY <1>8
  <2>2. r = s \/ s < r  BY <2>1
  <2> QED  BY <1>1, <2>1, <2>2
<1>3. CASE d <= s
  <2>1. d \in DOMAIN first /\ FirstBlock(d, s) = first[d] /\ first[d] \in Nat /\ first[d] <= first[s]
    <3>1. d \in DOMAIN first  BY <1>1, <1>3
    <3>2. d = s \/ d < s  BY <1>2, <1>3
    <3> QED  BY <1>1, <1>2, <1>3, <1>8, <3>1, <3>2 DEF FirstBlock
  <2>2. CASE e <= r
    <3>1. e \in DOMAIN first /\ FirstBlock(e, r) = first[e]  BY <1>1, <2>2 DEF FirstBlock
    <3> QED  BY <1>1, <2>1, <3>1
  <2>3. CASE e > r
    <3>1. FirstBlock(e, r) = first[r] + (e - r) * Epoch  BY <1>2, <2>3 DEF FirstBlock
    <3>2. e - r \in Nat /\ 0 < e - r  BY <1>2, <2>3
    <3>3. 0 * Epoch < (e - r) * Epoch /\ (e - r) * Epoch \in Nat  BY <3>2, EpochsAdd
    <3>4. 0 * Epoch = 0  BY VotingAssumption
    <3> DEFINE x == (e - r) * Epoch
    <3>5. x \in Nat /\ 0 < x  BY <3>3, <3>4
    <3> HIDE DEF x
    <3>6. first[d] < first[r] + x  BY <1>2, <2>1, <3>5
    <3> QED  BY <2>1, <3>1, <3>6 DEF x
  <2> QED  BY <1>2, <2>2, <2>3
<1>4. CASE d > s
  <2>1. FirstBlock(d, s) = first[s] + (d - s) * Epoch  BY <1>2, <1>4 DEF FirstBlock
  <2>2. e > r /\ d - s \in Nat /\ e - r \in Nat /\ d - s <= e - r /\ (r = s => d - s < e - r)
    BY <1>2, <1>4
  <2>3. FirstBlock(e, r) = first[r] + (e - r) * Epoch  BY <1>2, <2>2 DEF FirstBlock
  <2> DEFINE x == (d - s) * Epoch
             y == (e - r) * Epoch
  <2>4. x \in Nat /\ y \in Nat /\ x <= y /\ (r = s => x < y)  BY <2>2, EpochsAdd
  <2>5. r # s => first[s] < first[r]  BY <1>1, <1>2
  <2> HIDE DEF x, y
  <2>6. first[s] + x < first[r] + y  BY <1>2, <2>4, <2>5
  <2> QED  BY <2>1, <2>3, <2>6 DEF x, y
<1> QED  BY <1>2, <1>3, <1>4

LEMMA TimesInit == ViewsInit => TimesInv
  BY DEF ViewsInit, TimesInv, ChainInv, StartInv, TimesInOrder

LEMMA TimesStep == TimesInv /\ [ViewsNext]_viewsVars => TimesInv'
<1> SUFFICES ASSUME TimesInv, [ViewsNext]_viewsVars, kind' = "times"
             PROVE  (ChainInv /\ StartInv /\ TimesInOrder)'
  BY DEF TimesInv
<1>1. kind = "times"  BY StepsOfKind DEF viewsVars
<1>2. ChainInv /\ StartInv /\ TimesInOrder  BY <1>1 DEF TimesInv
<1>3. /\ first \in Seq(Nat) /\ stats \in DOMAIN first /\ stats \in Nat \ {0}
      /\ Len(first) \in Nat /\ Len(first) \in DOMAIN first /\ first[Len(first)] \in Nat
      /\ DOMAIN first = 1 .. Len(first)
      /\ Len(first) \in {stats, stats + 1}
  BY <1>2 DEF ChainInv
<1>4. CASE Turn
  <2>1. PICK d \in Lengths : first' = Append(first, Last(first) + d)  BY <1>4 DEF Turn
  <2>2. d \in Nat \ {0} /\ Last(first) = first[Len(first)]  BY VotingAssumption DEF Last
  <2> DEFINE next == Last(first) + d
  <2>3. next \in Nat /\ first[Len(first)] < next  BY <1>3, <2>2
  <2> HIDE DEF next
  <2>4. first' = Append(first, next)  BY <2>1 DEF next
  <2>5. /\ first' \in Seq(Nat) /\ Len(first') = Len(first) + 1
        /\ DOMAIN first' = 1 .. Len(first) + 1
        /\ first'[Len(first) + 1] = next /\ \A i \in DOMAIN first : first'[i] = first[i]
    BY <1>3, <2>3, <2>4
  <2>6. \A a, b \in DOMAIN first' : a < b => first'[a] < first'[b]
    <3> SUFFICES ASSUME NEW a \in DOMAIN first', NEW b \in DOMAIN first', a < b
                 PROVE  first'[a] < first'[b]
      OBVIOUS
    <3>1. a \in DOMAIN first /\ first[a] \in Nat /\ first[a] <= first[Len(first)] /\ first'[a] = first[a]
      <4>1. a \in 1 .. Len(first)  BY <1>3, <2>5
      <4>2. first[a] \in Nat  BY <1>3, <4>1
      <4>3. a = Len(first) \/ a < Len(first)  BY <1>3, <4>1
      <4>4. \A x, y \in DOMAIN first : x < y => first[x] < first[y]  BY <1>2 DEF ChainInv
      <4>5. a < Len(first) => first[a] < first[Len(first)]  BY <1>3, <4>1, <4>4
      <4> QED  BY <1>3, <2>5, <4>1, <4>2, <4>3, <4>5
    <3>2. CASE b \in DOMAIN first  BY <1>2, <2>5, <3>1, <3>2 DEF ChainInv
    <3>3. CASE b = Len(first) + 1  BY <1>3, <2>3, <2>5, <3>1, <3>3
    <3> QED  BY <1>3, <2>5, <3>2, <3>3
  <2>7. stats' = Len(first)  BY <1>4 DEF Turn
  <2>8. ChainInv'  BY <1>3, <2>5, <2>6, <2>7 DEF ChainInv
  <2>9. StartInv'
    <3>1. CASE task = Absent
      BY <1>4, <3>1 DEF Turn, StartInv
    <3>2. CASE task # Absent
      <4>1. task' = task /\ stats = Len(first) /\ moved = FALSE /\ stats' = stats
        BY <1>2, <1>4, <2>7, <3>2 DEF Turn, StartInv
      <4>2. task.voting \in Votings /\ task.start = FirstBlock(task.voting.start, stats)
        BY <1>2, <3>2, <4>1 DEF StartInv
      <4>3. task.voting.start \in Nat \ {0}  BY <4>2, VotingAssumption
      <4>4. FirstBlock(task.voting.start, stats)' = FirstBlock(task.voting.start, stats)
        <5>1. \A i \in DOMAIN first : first'[i] = first[i]  BY <2>5
        <5>2. PICK w \in Nat \ {0} : w = task.voting.start  BY <4>3
        <5>3. PICK c \in DOMAIN first : c = stats /\ c \in Nat  BY <1>3
        <5>4. w <= c => w \in DOMAIN first  BY <1>3
        <5>5. FirstBlock(w, c)' = FirstBlock(w, c)  BY <5>1, <5>4 DEF FirstBlock
        <5>6. task'.voting.start = w /\ stats' = c  BY <4>1, <5>2, <5>3
        <5> QED  BY <5>2, <5>3, <5>5, <5>6 DEF FirstBlock
      <4> QED  BY <3>2, <4>1, <4>2, <4>4 DEF StartInv
    <3> QED  BY <3>1, <3>2
  <2> QED  BY <1>1, <1>2, <1>4, <2>8, <2>9 DEF Turn, TimesInOrder
<1>5. CASE RenewStats
  <2>1. /\ first' = first /\ task' = task /\ answer' = answer /\ stats' = Len(first)
        /\ stats' = stats + 1 /\ stats' > 1
    BY <1>3, <1>5 DEF RenewStats
  <2>2. ChainInv'  BY <1>2, <1>3, <2>1 DEF ChainInv
  <2>3. StartInv'
    <3>1. CASE task = Absent  BY <1>5, <2>1, <3>1 DEF RenewStats, StartInv
    <3>2. CASE task # Absent
      <4>1. task.voting \in Votings /\ task.start = FirstBlock(task.voting.start, stats) /\ moved'
        BY <1>2, <1>3, <1>5, <3>2 DEF StartInv, RenewStats
      <4>2. stats = stats' - 1  BY <1>3, <2>1
      <4>3. FirstBlock(task.voting.start, stats) = FirstBlock(task.voting.start, stats - 1)'
        <5>1. PICK w : w = task.voting.start  OBVIOUS
        <5>2. PICK c : c = stats  OBVIOUS
        <5>3. FirstBlock(w, c)' = FirstBlock(w, c)  BY <2>1 DEF FirstBlock
        <5>4. task'.voting.start = w /\ stats' - 1 = c  BY <2>1, <4>2, <5>1, <5>2
        <5> QED  BY <5>1, <5>2, <5>3, <5>4 DEF FirstBlock
      <4> QED  BY <2>1, <3>2, <4>1, <4>3 DEF StartInv
    <3> QED  BY <3>1, <3>2
  <2> QED  BY <1>1, <1>2, <2>1, <2>2, <2>3 DEF TimesInOrder
<1>6. CASE AskTimes
  <2>1. PICK v \in Votings : task' = [voting |-> v, start |-> FirstBlock(v.start, stats)]
    BY <1>6 DEF AskTimes
  <2>2. UNCHANGED <<answer, first, stats, moved>> /\ moved = FALSE
    <3>1. task = Absent /\ UNCHANGED <<answer, first, stats, moved>>  BY <1>6 DEF AskTimes, world
    <3> QED  BY <1>2, <3>1 DEF StartInv
  <2>3. ChainInv' /\ TimesInOrder'  BY <1>1, <1>2, <2>2 DEF ChainInv, TimesInOrder
  <2>4. FirstBlock(v.start, stats)' = FirstBlock(v.start, stats)  BY <2>2 DEF FirstBlock
  <2>5. task'.voting = v /\ task'.start = FirstBlock(v.start, stats)  BY <2>1
  <2>6. StartInv'  BY <2>2, <2>4, <2>5 DEF StartInv
  <2> QED  BY <2>3, <2>6
<1>7. CASE TellTimes
  <2>1. /\ task # Absent /\ task' = Absent /\ moved' = FALSE /\ UNCHANGED <<first, stats>>
        /\ answer'.start = task.start
        /\ answer'.end = FirstBlock(task.voting.end + 1, stats)
    BY <1>7 DEF TellTimes, world
  <2>2. ChainInv' /\ StartInv'  BY <1>2, <2>1 DEF ChainInv, StartInv
  <2>3. task.voting \in Votings  BY <1>2, <2>1 DEF StartInv
  <2> DEFINE d == task.voting.start
             e == task.voting.end + 1
  <2>4. d \in Nat \ {0} /\ e \in Nat /\ d < e  BY <2>3, VotingAssumption
  <2> HIDE DEF d, e
  <2>5. \/ task.start = FirstBlock(d, stats)
        \/ stats > 1 /\ task.start = FirstBlock(d, stats - 1)
    BY <1>2, <2>1 DEF StartInv, d
  <2>6. FirstBlock(d, stats) < FirstBlock(e, stats)  BY <1>2, <1>3, <2>4, LaterBlocks
  <2>7. ASSUME stats > 1 PROVE FirstBlock(d, stats - 1) < FirstBlock(e, stats)
    <3>1. stats - 1 \in DOMAIN first /\ stats = stats - 1 + 1  BY <1>3, <2>7
    <3>2. \A s \in DOMAIN first : stats = s + 1 => FirstBlock(d, s) < FirstBlock(e, stats)
      BY <1>2, <1>3, <2>4, LaterBlocks
    <3> QED  BY <3>1, <3>2
  <2>8. TimesInOrder'  BY <2>1, <2>5, <2>6, <2>7 DEF TimesInOrder, e
  <2> QED  BY <2>2, <2>8
<1>8. CASE UNCHANGED viewsVars
  BY <1>2, <1>8 DEF viewsVars, world, ChainInv, StartInv, TimesInOrder, FirstBlock
<1> QED  BY <1>1, <1>4, <1>5, <1>6, <1>7, <1>8, StepsOfKind

----------------------------------------------------------------------------
(* Numbers.                                                                *)

\* Places of the configuration, in its order.
LEMMA PlacesInOrder ==
  ASSUME NEW places \in SUBSET (DOMAIN Config)
  PROVE  LET s == InOrder(places, {e \in places \X places : e[1] < e[2]})
             n == Cardinality(places)
         IN  /\ n \in Nat /\ s \in [1 .. n -> places]
             /\ \A a \in places : \E p \in 1 .. n : s[p] = a
             /\ \A p, q \in 1 .. n : s[p] = s[q] => p = q
<1> DEFINE before == {e \in places \X places : e[1] < e[2]}
<1>1. DOMAIN Config = 1 .. Len(Config) /\ Len(Config) \in Nat
  <2>1. PICK T : Config \in Seq(T)  BY ConfigAssumption
  <2> QED  BY <2>1
<1>2. IsFiniteSet(places)
  <2>1. IsFiniteSet(1 .. Len(Config))  BY <1>1, FS_Interval
  <2>2. places \in SUBSET (1 .. Len(Config))  BY <1>1
  <2> QED  BY <2>1, <2>2, FS_Subset
<1>3. places \in SUBSET Nat  BY <1>1
<1>4. \A a, b \in places : <<a, b>> \in before <=> a < b  OBVIOUS
<1> HIDE DEF before
<1>5. Orders(before, places)
  <2>1. \A a \in places : ~ (a < a)  BY <1>3
  <2>2. \A a, b, c \in places : a < b /\ b < c => a < c  BY <1>3
  <2>3. \A a, b \in places : a # b => a < b \/ b < a  BY <1>3
  <2> QED  BY <1>2, <1>4, <2>1, <2>2, <2>3, Zenon DEF Orders
<1>6. LET s == InOrder(places, before)
          n == Cardinality(places)
      IN  /\ n \in Nat /\ s \in [1 .. n -> places]
          /\ \A a \in places : \E p \in 1 .. n : s[p] = a
          /\ \A p, q \in 1 .. n : s[p] = s[q] => p = q
  BY <1>5, InOrderFacts
<1> QED  BY <1>6 DEF before

LEMMA PulseDomain == \E n \in Nat : DOMAIN Pulse = 1 .. n
<1> DEFINE places == {i \in DOMAIN Config : InLinear("pulse", Config[i].address)}
           s == InOrder(places, {e \in places \X places : e[1] < e[2]})
<1>1. DOMAIN Pulse = DOMAIN s  BY DEF Pulse, Contracts
<1>2. places \in SUBSET (DOMAIN Config)  OBVIOUS
<1> HIDE DEF places
<1>3. Cardinality(places) \in Nat /\ s \in [1 .. Cardinality(places) -> places]
  BY <1>2, PlacesInOrder
<1> QED  BY <1>1, <1>3

\* Polls and ideas are only added, and a cached total is one there was.
ItemsInv ==
  /\ items \in [DOMAIN Pulse -> 0 .. MaxItems]
  /\ cached \in [DOMAIN Pulse -> 0 .. MaxItems]
  /\ \A c \in DOMAIN Pulse : cached[c] <= items[c]

LEMMA ItemsInit == ViewsInit => ItemsInv
  BY LimitAssumption DEF ViewsInit, ItemsInv

LEMMA ItemsStep ==
  ASSUME ItemsInv, NEW c \in DOMAIN Pulse, Create(c) \/ Renew(c)
  PROVE  ItemsInv'
<1> USE LimitAssumption DEF ItemsInv
<1>1. CASE Create(c)
  <2>1. items[c] \in 0 .. MaxItems /\ items[c] < MaxItems /\ items' = [items EXCEPT ![c] = items[c] + 1]
        /\ cached' = cached
    BY <1>1 DEF Create
  <2> QED  BY <2>1
<1>2. CASE Renew(c)
  <2>1. cached' = [cached EXCEPT ![c] = items[c]] /\ items' = items
    BY <1>2 DEF Renew
  <2> QED  BY <2>1
<1> QED  BY <1>1, <1>2

\* The totals counted for a number add up, contract after contract.
Numbered(t) ==
  /\ t \in [of : Nat \ {0}, id : Nat, index : Seq(Nat)]
  /\ t.index # <<>> /\ Len(t.index) <= t.of
  /\ \A c, d \in DOMAIN t.index : c <= d => t.index[c] <= t.index[d]

Told(t) == Numbered(t) /\ Len(t.index) = t.of

NumbersInv ==
  kind = "numbers" =>
    /\ ItemsInv
    /\ task # Absent => Numbered(task) /\ task.of \in DOMAIN Pulse
    /\ answer # Absent => /\ Told(answer.told)
                          /\ answer.before # Absent => Told(answer.before)
    /\ NumbersDiffer

LEMMA ToldFacts ==
  ASSUME NEW t, Told(t)
  PROVE  /\ t.of \in Nat \ {0} /\ t.id \in Nat /\ DOMAIN t.index = 1 .. t.of
         /\ \A c \in 1 .. t.of : t.index[c] \in Nat
         /\ \A c, d \in 1 .. t.of : c <= d => t.index[c] <= t.index[d]
         /\ Number(t) = t.index[t.of] + t.id
<1>1. t.of \in Nat \ {0} /\ t.id \in Nat /\ t.index \in Seq(Nat) /\ Len(t.index) = t.of
  BY DEF Told, Numbered
<1>2. \A c, d \in DOMAIN t.index : c <= d => t.index[c] <= t.index[d]
  BY DEF Told, Numbered
<1>3. DOMAIN t.index = 1 .. t.of /\ \A c \in 1 .. t.of : t.index[c] \in Nat
  BY <1>1
<1>4. Number(t) = t.index[t.of] + t.id  BY <1>1 DEF Number, Last
<1> QED  BY <1>1, <1>2, <1>3, <1>4

\* Two numbers that were counted from the same totals differ, unless one is of
\* a poll that was created after its contract was counted for the other.
LEMMA NumbersApart ==
  ASSUME NEW a, NEW b, Told(a), Told(b), a.of < b.of,
         \A c \in DOMAIN a.index \cap DOMAIN b.index : a.index[c] = b.index[c],
         Number(a) = Number(b)
  PROVE  a.id >= b.index[a.of + 1] - b.index[a.of]
<1>1. /\ a.of \in Nat \ {0} /\ b.of \in Nat \ {0} /\ a.id \in Nat /\ b.id \in Nat
      /\ DOMAIN a.index = 1 .. a.of /\ DOMAIN b.index = 1 .. b.of
      /\ \A c \in 1 .. a.of : a.index[c] \in Nat
      /\ \A c \in 1 .. b.of : b.index[c] \in Nat
      /\ \A c, d \in 1 .. b.of : c <= d => b.index[c] <= b.index[d]
  BY ToldFacts
<1>2. Number(a) = a.index[a.of] + a.id /\ Number(b) = b.index[b.of] + b.id
  BY ToldFacts
<1>3. a.of \in 1 .. a.of /\ a.of \in 1 .. b.of /\ a.of + 1 \in 1 .. b.of /\ b.of \in 1 .. b.of
      /\ a.of + 1 <= b.of
  BY <1>1
<1>4. a.index[a.of] = b.index[a.of]  BY <1>1, <1>3
<1>5. b.index[a.of + 1] <= b.index[b.of]  BY <1>1, <1>3
<1> DEFINE x == a.index[a.of]
           y == b.index[a.of + 1]
           z == b.index[b.of]
<1>6. x \in Nat /\ y \in Nat /\ z \in Nat  BY <1>1, <1>3
<1>7. x + a.id = z + b.id /\ y <= z  BY <1>2, <1>5
<1> HIDE DEF x, y, z
<1>8. a.id >= y - x  BY <1>1, <1>6, <1>7
<1> QED  BY <1>4, <1>8 DEF x, y

LEMMA NumbersInit == ViewsInit => NumbersInv
  BY ItemsInit DEF ViewsInit, NumbersInv, NumbersDiffer

LEMMA NumbersStep == NumbersInv /\ [ViewsNext]_viewsVars => NumbersInv'
<1> SUFFICES ASSUME NumbersInv, [ViewsNext]_viewsVars, kind' = "numbers"
             PROVE  /\ ItemsInv'
                    /\ task' # Absent => Numbered(task') /\ task'.of \in DOMAIN Pulse
                    /\ answer' # Absent => /\ Told(answer'.told)
                                           /\ answer'.before # Absent => Told(answer'.before)
                    /\ NumbersDiffer'
  BY DEF NumbersInv, Pulse
<1>1. kind = "numbers"  BY StepsOfKind DEF viewsVars
<1>2. /\ ItemsInv /\ NumbersDiffer
      /\ task # Absent => Numbered(task) /\ task.of \in DOMAIN Pulse
      /\ answer # Absent => /\ Told(answer.told)
                            /\ answer.before # Absent => Told(answer.before)
  BY <1>1 DEF NumbersInv
<1>3. answer' = answer => NumbersDiffer'  BY <1>1, <1>2 DEF NumbersDiffer
<1>4. ASSUME NEW c \in DOMAIN Pulse, Create(c) \/ Renew(c)
      PROVE  ItemsInv' /\ task' = task /\ answer' = answer
  <2>1. ItemsInv'  BY <1>2, <1>4, ItemsStep
  <2> QED  BY <1>4, <2>1 DEF Create, Renew
<1>5. UNCHANGED world => ItemsInv'
  BY <1>2 DEF world, ItemsInv
<1>6. ASSUME NEW c \in DOMAIN Pulse, NEW id \in 0 .. MaxItems - 1, AskNumber(c, id)
      PROVE  ItemsInv' /\ answer' = answer /\ Numbered(task') /\ task'.of \in DOMAIN Pulse
  <2>1. task' = [of |-> c, id |-> id, index |-> <<0>>] /\ answer' = answer /\ UNCHANGED world
    BY <1>6 DEF AskNumber
  <2>2. c \in Nat \ {0}  BY PulseDomain
  <2>3. id \in Nat  BY LimitAssumption
  <2>4. Numbered(task')  BY <2>1, <2>2, <2>3 DEF Numbered
  <2> QED  BY <1>5, <2>1, <2>4
<1>7. ASSUME CountTotal
      PROVE  ItemsInv' /\ answer' = answer /\ Numbered(task') /\ task'.of \in DOMAIN Pulse
  <2>1. /\ task # Absent /\ Len(task.index) < task.of /\ answer' = answer /\ UNCHANGED world
        /\ task' = [task EXCEPT !.index = Append(task.index, Last(task.index) + cached[Len(task.index)])]
    BY <1>7 DEF CountTotal
  <2>2. Numbered(task) /\ task.of \in DOMAIN Pulse  BY <1>2, <2>1
  <2> DEFINE n == Len(task.index)
             next == Last(task.index) + cached[n]
  <2>3. /\ task.index \in Seq(Nat) /\ n \in Nat \ {0} /\ task.of \in Nat /\ n < task.of
        /\ DOMAIN task.index = 1 .. n /\ Last(task.index) = task.index[n] /\ task.index[n] \in Nat
    BY <2>1, <2>2 DEF Numbered, Last
  <2>4. n \in DOMAIN Pulse  BY <2>2, <2>3, PulseDomain
  <2>5. cached[n] \in Nat  BY <1>2, <2>4, LimitAssumption DEF ItemsInv
  <2>6. next \in Nat /\ task.index[n] <= next  BY <2>3, <2>5
  <2>7. task'.of = task.of /\ task'.id = task.id /\ task'.index = Append(task.index, next)
    BY <2>1, <2>2 DEF Numbered
  <2> HIDE DEF next
  <2>11. \A c, d \in 1 .. n : c <= d => task.index[c] <= task.index[d]
    BY <2>2, <2>3 DEF Numbered
  <2>12. \A c \in 1 .. n : task.index[c] \in Nat
    <3> SUFFICES ASSUME NEW c \in 1 .. n PROVE task.index[c] \in Nat  OBVIOUS
    <3>1. task.index \in Seq(Nat) /\ c \in 1 .. Len(task.index)  BY <2>3
    <3> QED  BY <3>1, ElementOfSeq
  <2>8. /\ task'.index \in Seq(Nat) /\ Len(task'.index) = n + 1 /\ DOMAIN task'.index = 1 .. n + 1
        /\ task'.index[n + 1] = next /\ \A c \in 1 .. n : task'.index[c] = task.index[c]
    BY <2>3, <2>6, <2>7
  <2>9. \A c, d \in DOMAIN task'.index : c <= d => task'.index[c] <= task'.index[d]
    <3> SUFFICES ASSUME NEW c \in 1 .. n + 1, NEW d \in 1 .. n + 1, c <= d
                 PROVE  task'.index[c] <= task'.index[d]
      BY <2>8
    <3>1. CASE d \in 1 .. n
      <4>1. c \in 1 .. n  BY <3>1
      <4> QED  BY <2>8, <2>11, <3>1, <4>1
    <3>2. CASE d = n + 1 /\ c \in 1 .. n
      <4>1. n \in 1 .. n /\ c <= n  BY <2>3, <3>2
      <4>2. task.index[c] <= task.index[n] /\ task.index[c] \in Nat  BY <2>11, <2>12, <3>2, <4>1
      <4>3. task'.index[c] = task.index[c] /\ task'.index[d] = next  BY <2>8, <3>2
      <4> QED  BY <2>3, <2>6, <4>2, <4>3
    <3>3. CASE d = n + 1 /\ c = n + 1  BY <2>6, <2>8, <3>3
    <3> QED  BY <2>3, <3>1, <3>2, <3>3
  <2>10. Numbered(task')
    <3>1. n + 1 <= task.of /\ task'.index # <<>>  BY <2>3, <2>8
    <3>2. task' \in [of : Nat \ {0}, id : Nat, index : Seq(Nat)]
      <4>1. task \in [of : Nat \ {0}, id : Nat, index : Seq(Nat)]  BY <2>2 DEF Numbered
      <4>2. Append(task.index, next) \in Seq(Nat)  BY <2>7, <2>8
      <4>3. task' = [task EXCEPT !.index = Append(task.index, next)]  BY <2>1 DEF next
      <4> QED  BY <4>1, <4>2, <4>3
    <3> QED  BY <2>7, <2>8, <2>9, <3>1, <3>2 DEF Numbered
  <2> QED  BY <1>5, <2>1, <2>2, <2>7, <2>10
<1>8. ASSUME TellNumber
      PROVE  ItemsInv' /\ task' = Absent /\ Told(answer'.told)
             /\ (answer'.before # Absent => Told(answer'.before)) /\ NumbersDiffer'
  <2>1. /\ task # Absent /\ Len(task.index) = task.of /\ UNCHANGED world /\ task' = Absent
        /\ answer'.told = task /\ answer'.before = IF answer = Absent THEN Absent ELSE answer.told
    BY <1>8 DEF TellNumber
  <2>2. Told(task)  BY <1>2, <2>1 DEF Told
  <2>3. answer'.before # Absent => Told(answer'.before)  BY <1>2, <2>1
  <2>4. NumbersDiffer'
    <3> SUFFICES ASSUME answer'.before # Absent, NEW a, NEW b, a = answer'.told, b = answer'.before,
                        Number(a) = Number(b), ~ (a.of = b.of /\ a.id = b.id),
                        \A c \in DOMAIN a.index \cap DOMAIN b.index : a.index[c] = b.index[c]
                 PROVE  \/ a.of < b.of /\ a.id >= b.index[a.of + 1] - b.index[a.of]
                        \/ b.of < a.of /\ b.id >= a.index[b.of + 1] - a.index[b.of]
      BY DEF NumbersDiffer
    <3>1. Told(a) /\ Told(b)  BY <2>1, <2>2, <2>3
    <3>2. a.of \in Nat \ {0} /\ b.of \in Nat \ {0} /\ a.id \in Nat /\ b.id \in Nat  BY <3>1, ToldFacts
    <3>3. CASE a.of < b.of  BY <3>1, <3>3, NumbersApart
    <3>4. CASE b.of < a.of
      <4>1. \A c \in DOMAIN b.index \cap DOMAIN a.index : b.index[c] = a.index[c]  OBVIOUS
      <4> QED  BY <3>1, <3>4, <4>1, NumbersApart
    <3>5. CASE a.of = b.of
      <4>1. PICK n : n = a.of  OBVIOUS
      <4>7. n \in Nat \ {0} /\ n = b.of  BY <3>2, <3>5, <4>1
      <4>2. DOMAIN a.index = 1 .. n /\ DOMAIN b.index = 1 .. n /\ n \in 1 .. n
        <5>1. DOMAIN a.index = 1 .. a.of /\ DOMAIN b.index = 1 .. b.of  BY <3>1, ToldFacts, Zenon
        <5>2. n \in 1 .. n  BY <4>7
        <5> QED  BY <4>1, <4>7, <5>1, <5>2, Zenon
      <4>3. a.index[n] \in Nat /\ Number(a) = a.index[n] + a.id /\ Number(b) = b.index[n] + b.id
        BY <3>1, <4>1, <4>2, <4>7, ToldFacts
      <4>4. a.index[n] = b.index[n]  BY <4>2
      <4>5. PICK x \in Nat : x = a.index[n] /\ x + a.id = x + b.id  BY <4>3, <4>4
      <4>8. \A i, j \in Nat : x + i = x + j => i = j  OBVIOUS
      <4>6. a.id = b.id  BY <3>2, <4>5, <4>8, Zenon
      <4> QED  BY <3>5, <4>6
    <3> QED  BY <3>2, <3>3, <3>4, <3>5
  <2>5. ItemsInv'  BY <1>5, <2>1
  <2> QED  BY <2>1, <2>2, <2>3, <2>4, <2>5
<1>9. CASE \E c \in DOMAIN Pulse : Create(c) \/ Renew(c)  BY <1>2, <1>3, <1>4, <1>9
<1>10. CASE \E c \in DOMAIN Pulse, id \in 0 .. MaxItems - 1 : AskNumber(c, id)
  BY <1>2, <1>3, <1>6, <1>10
<1>11. CASE CountTotal  BY <1>2, <1>3, <1>7, <1>11
<1>12. CASE TellNumber  BY <1>8, <1>12
<1>13. CASE UNCHANGED viewsVars
  <2>1. UNCHANGED world /\ task' = task /\ answer' = answer  BY <1>13 DEF viewsVars
  <2> QED  BY <1>2, <1>3, <1>5, <2>1
<1> QED  BY <1>1, <1>9, <1>10, <1>11, <1>12, <1>13, StepsOfKind

----------------------------------------------------------------------------
(* Pages.                                                                  *)

LEMMA MaxOrZero ==
  ASSUME NEW x \in Int
  PROVE  Max({x, 0}) \in Nat /\ x <= Max({x, 0}) /\ (x > 0 => Max({x, 0}) = x) /\ (x <= 0 => Max({x, 0}) = 0)
<1> DEFINE m == Max({x, 0})
<1>1. \E y \in {x, 0} : \A z \in {x, 0} : y >= z
  <2>1. CASE x > 0  BY <2>1
  <2>2. CASE x <= 0  BY <2>2
  <2> QED  BY <2>1, <2>2
<1>2. m \in {x, 0} /\ \A z \in {x, 0} : m >= z  BY <1>1 DEF Max
<1> HIDE DEF m
<1>3. m \in Nat /\ x <= m /\ (x > 0 => m = x) /\ (x <= 0 => m = 0)  BY <1>2
<1> QED  BY <1>3 DEF m

\* A page is asked of a list of n members of S, none of them twice.
Asked(S, n, list, offset, limit) ==
  /\ n \in Nat /\ list \in [1 .. n -> S] /\ offset \in Nat /\ limit \in Nat \ {0}
  /\ \A p, q \in 1 .. n : list[p] = list[q] => p = q

\* A page is what comes before the last offset members of the list.
LEMMA PageShape ==
  ASSUME NEW S, NEW n, NEW list, NEW offset, NEW limit, NEW reversed,
         Asked(S, n, list, offset, limit)
  PROVE  LET page == Page(list, offset, limit, reversed)
             end == n - offset
         IN  /\ n <= offset => page = <<>>
             /\ n > offset =>
                  \E start \in Nat :
                    /\ start < end /\ end <= n /\ end - limit <= start /\ (start = end - limit \/ start = 0)
                    /\ page = [i \in 1 .. end - start |-> list[IF reversed THEN end + 1 - i ELSE start + i]]
<1>0. n \in Nat /\ list \in [1 .. n -> S] /\ offset \in Nat /\ limit \in Nat \ {0}  BY DEF Asked
<1> DEFINE start == Max({n - offset - limit, 0})
           end == n - offset
           page == SubSeq(list, start + 1, end)
<1>1. list \in Seq(S) /\ Len(list) = n
  <2>1. list \in Seq(S)  BY <1>0, SeqDef
  <2> QED  BY <1>0, <2>1
<1>2. end \in Int /\ end - limit \in Int /\ n - offset - limit = end - limit  BY <1>0
<1>3. start \in Nat /\ end - limit <= start /\ (end - limit > 0 => start = end - limit) /\ (end - limit <= 0 => start = 0)
  BY <1>2, MaxOrZero
<1>4. Page(list, offset, limit, reversed) =
        IF end < 0 THEN <<>> ELSE IF reversed THEN Reverse(page) ELSE page
  BY <1>1 DEF Page
<1> HIDE DEF start
<1>5. CASE n <= offset
  <2>1. page = <<>>
    <3>1. start + 1 \in Int /\ end \in Int /\ end < start + 1  BY <1>0, <1>3, <1>5
    <3> QED  BY <3>1, SubSeqEmpty
  <2>2. Reverse(<<>>) = <<>>  BY DEF Reverse
  <2>3. Page(list, offset, limit, reversed) = <<>>  BY <1>4, <2>1, <2>2
  <2>4. ~ (n > offset)  BY <1>0, <1>5
  <2> QED  BY <2>3, <2>4, Zenon
<1>6. CASE n > offset
  <2>1. start < end /\ end <= n /\ end \in Nat  BY <1>0, <1>3, <1>6
  <2>2. page = [i \in 1 .. end - start |-> list[start + i]] /\ Len(page) = end - start
    <3>1. start + 1 \in Int /\ end \in Int /\ start + 1 <= end /\ end - (start + 1) + 1 = end - start
      BY <1>3, <2>1
    <3>2. \A i \in start + 1 .. end : list[i] \in S  BY <1>0, <1>3, <2>1
    <3>3. page \in Seq(S) /\ Len(page) = end - start
          /\ \A i \in 1 .. end - start : page[i] = list[start + 1 + i - 1]
      BY <3>1, <3>2, SubSeqProperties
    <3>5. \A i \in 1 .. end - start : start + 1 + i - 1 = start + i  BY <1>3
    <3>6. \A i \in 1 .. end - start : page[i] = list[start + i]  BY <3>3, <3>5
    <3> HIDE DEF page, end
    <3>4. DOMAIN page = 1 .. end - start /\ page = [i \in DOMAIN page |-> page[i]]  BY <3>3
    <3>7. page = [i \in 1 .. end - start |-> list[start + i]]  BY <3>4, <3>6
    <3> QED  BY <3>3, <3>7
  <2>3. Page(list, offset, limit, reversed) = IF reversed THEN Reverse(page) ELSE page
    BY <1>4, <2>1
  <2>4. Reverse(page) = [i \in 1 .. end - start |-> list[end + 1 - i]]
    <3>1. Reverse(page) = [i \in 1 .. end - start |-> page[end - start - i + 1]]  BY <2>2 DEF Reverse
    <3>2. ASSUME NEW i \in 1 .. end - start PROVE page[end - start - i + 1] = list[end + 1 - i]
      <4>1. end - start - i + 1 \in 1 .. end - start  BY <1>3, <2>1
      <4>2. start + (end - start - i + 1) = end + 1 - i  BY <1>3, <2>1
      <4> QED  BY <2>2, <4>1, <4>2
    <3> QED  BY <3>1, <3>2
  <2>5. Page(list, offset, limit, reversed)
          = [i \in 1 .. end - start |-> list[IF reversed THEN end + 1 - i ELSE start + i]]
    <3>1. CASE reversed  BY <2>3, <2>4, <3>1
    <3>2. CASE ~ reversed  BY <2>2, <2>3, <3>2
    <3> QED  BY <3>1, <3>2
  <2>6. start = end - limit \/ start = 0  BY <1>2, <1>3
  <2>7. \E s \in Nat :
          /\ s < end /\ end <= n /\ end - limit <= s /\ (s = end - limit \/ s = 0)
          /\ Page(list, offset, limit, reversed)
               = [i \in 1 .. end - s |-> list[IF reversed THEN end + 1 - i ELSE s + i]]
    BY <1>3, <2>1, <2>5, <2>6, Zenon
  <2>8. ~ (n <= offset)  BY <1>0, <1>6
  <2> QED  BY <2>7, <2>8, Zenon
<1> QED  BY <1>0, <1>5, <1>6

\* The page holds, each once, the members of the list that fewer than
\* offset + limit others follow, but no fewer than offset.
Paged(S, n, list, offset, limit, page) ==
  /\ page \in Seq(S)
  /\ page = <<>> <=> n <= offset
  /\ \A p \in 1 .. n : offset <= n - p /\ n - p < offset + limit =>
       \E i \in DOMAIN page : page[i] = list[p]
  /\ \A i \in DOMAIN page :
       \E p \in 1 .. n : page[i] = list[p] /\ offset <= n - p /\ n - p < offset + limit
  /\ \A i, j \in DOMAIN page : page[i] = page[j] => i = j

LEMMA PageFacts ==
  ASSUME NEW S, NEW n, NEW list, NEW offset, NEW limit, NEW reversed,
         Asked(S, n, list, offset, limit)
  PROVE  Paged(S, n, list, offset, limit, Page(list, offset, limit, reversed))
<1> USE DEF Paged
<1>0. n \in Nat /\ list \in [1 .. n -> S] /\ offset \in Nat /\ limit \in Nat \ {0}
      /\ \A p, q \in 1 .. n : list[p] = list[q] => p = q
  BY DEF Asked
<1> DEFINE page == Page(list, offset, limit, reversed)
<1>1. CASE n <= offset
  <2>1. page = <<>>  BY <1>1, PageShape
  <2>2. \A p \in 1 .. n : ~ (offset <= n - p)  BY <1>0, <1>1
  <2> HIDE DEF page
  <2>3. page \in Seq(S) /\ DOMAIN page = {}  BY <2>1
  <2> QED  BY <1>1, <2>1, <2>2, <2>3 DEF page
<1>2. CASE n > offset
  <2> DEFINE end == n - offset
  <2>1. PICK start \in Nat :
          /\ start < end /\ end <= n /\ end - limit <= start /\ (start = end - limit \/ start = 0)
          /\ page = [i \in 1 .. end - start |-> list[IF reversed THEN end + 1 - i ELSE start + i]]
    BY <1>2, PageShape, SMTT(30)
  <2> DEFINE at(i) == IF reversed THEN end + 1 - i ELSE start + i
  <2> HIDE DEF page
  <2>2. end \in Nat /\ end = n - offset  BY <1>0, <1>2
  <2> HIDE DEF end
  <2>3. DOMAIN page = 1 .. end - start /\ \A i \in 1 .. end - start : page[i] = list[at(i)]  BY <2>1
  <2>4. \A i \in 1 .. end - start :
          at(i) \in 1 .. n /\ offset <= n - at(i) /\ n - at(i) < offset + limit
    BY <1>0, <2>1, <2>2
  <2>5. \A i, j \in 1 .. end - start : at(i) = at(j) => i = j  BY <2>1, <2>2
  <2>6. ASSUME NEW p \in 1 .. n, offset <= n - p, n - p < offset + limit
        PROVE  \E i \in 1 .. end - start : at(i) = p
    <3>1. p - start \in 1 .. end - start /\ end + 1 - p \in 1 .. end - start
      BY <1>0, <2>1, <2>2, <2>6
    <3>2. start + (p - start) = p /\ end + 1 - (end + 1 - p) = p  BY <1>0, <2>1, <2>2
    <3>3. CASE reversed
      <4>1. at(end + 1 - p) = p  BY <3>2, <3>3
      <4> QED  BY <3>1, <4>1
    <3>4. CASE ~ reversed
      <4>1. at(p - start) = p  BY <3>2, <3>4
      <4> QED  BY <3>1, <4>1
    <3> QED  BY <3>3, <3>4
  <2> HIDE DEF at
  <2>7. page \in Seq(S)
    <3>1. end - start \in Nat  BY <2>1, <2>2
    <3>2. \A i \in 1 .. end - start : page[i] \in S  BY <1>0, <2>3, <2>4
    <3>3. page \in [1 .. end - start -> S]
      <4>1. page = [i \in 1 .. end - start |-> page[i]]  BY <2>1, <2>3
      <4> QED  BY <3>2, <4>1
    <3>4. \A m \in Nat : page \in [1 .. m -> S] => page \in Seq(S)
      <4>1. Seq(S) = UNION {[1 .. m -> S] : m \in Nat}  BY SeqDef
      <4> QED  BY <4>1, Zenon
    <3> QED  BY <3>1, <3>3, <3>4
  <2>8. page # <<>>
    <3>1. 1 \in 1 .. end - start  BY <2>1, <2>2
    <3>2. 1 \in DOMAIN page  BY <2>3, <3>1
    <3>3. DOMAIN <<>> = {}  OBVIOUS
    <3> QED  BY <3>2, <3>3, Zenon
  <2>9. \A i, j \in DOMAIN page : page[i] = page[j] => i = j
    <3> SUFFICES ASSUME NEW i \in 1 .. end - start, NEW j \in 1 .. end - start, page[i] = page[j]
                 PROVE  i = j
      BY <2>3
    <3>1. list[at(i)] = list[at(j)] /\ at(i) \in 1 .. n /\ at(j) \in 1 .. n  BY <2>3, <2>4
    <3>2. at(i) = at(j)  BY <1>0, <3>1
    <3> QED  BY <2>5, <3>2
  <2>10. \A p \in 1 .. n : offset <= n - p /\ n - p < offset + limit =>
           \E i \in DOMAIN page : page[i] = list[p]
    BY <2>3, <2>6
  <2>11. \A i \in DOMAIN page :
           \E p \in 1 .. n : page[i] = list[p] /\ offset <= n - p /\ n - p < offset + limit
    BY <2>3, <2>4
  <2>12. ~ (n <= offset)  BY <1>0, <1>2
  <2> QED  BY <2>7, <2>8, <2>9, <2>10, <2>11, <2>12 DEF page
<1> QED  BY <1>0, <1>1, <1>2

\* What the lists of the pages are made of.
ListsInv ==
  /\ ItemsInv /\ 1 \in DOMAIN Pulse
  /\ votes \in [0 .. MaxItems - 1 -> 0 .. MaxPower]

ByVotes == {"by votes", "by votes, descending"}

\* How many members of the list come after a.
Behind(sort, a) == After(Below(Key(sort)), Places, a)

LEMMA KeyFacts ==
  ASSUME ListsInv, NEW sort \in Sorts, NEW a \in Places
  PROVE  /\ a \in Nat /\ a \in 0 .. MaxItems - 1 /\ votes[a] \in Nat
         /\ sort = "by votes" => Key(sort)[a] = votes[a]
         /\ sort = "by votes, descending" => Key(sort)[a] = 0 - votes[a]
         /\ sort = "by time, descending" => Key(sort)[a] = 0 - a
         /\ sort \in {"polls", "ideas"} => Key(sort)[a] = a
         /\ Key(sort)[a] \in Int
<1>1. cached[1] \in 0 .. MaxItems  BY DEF ListsInv, ItemsInv
<1>2. a \in Nat /\ a \in 0 .. MaxItems - 1  BY <1>1, LimitAssumption DEF Places
<1>3. votes[a] \in Nat  BY <1>2, LimitAssumption DEF ListsInv
<1>4. /\ sort = "by votes" => Key(sort)[a] = votes[a]
      /\ sort = "by votes, descending" => Key(sort)[a] = 0 - votes[a]
      /\ sort = "by time, descending" => Key(sort)[a] = 0 - a
      /\ sort \in {"polls", "ideas"} => Key(sort)[a] = a
  BY DEF Key
<1>5. Key(sort)[a] \in Int
  <2>1. 0 - votes[a] \in Int /\ 0 - a \in Int /\ a \in Int /\ votes[a] \in Int  BY <1>2, <1>3
  <2> QED  BY <1>4, <2>1 DEF Sorts
<1> QED  BY <1>2, <1>3, <1>4, <1>5

LEMMA BelowFacts ==
  ASSUME NEW weight, NEW a \in Places, NEW b \in Places
  PROVE  <<a, b>> \in Below(weight) <=> weight[a] < weight[b] \/ (weight[a] = weight[b] /\ a < b)
BY DEF Below

LEMMA ListFacts ==
  ASSUME ListsInv, NEW sort \in Sorts
  PROVE  /\ cached[1] \in Nat /\ List(sort) \in [1 .. cached[1] -> Places]
         /\ IsFiniteSet(Places)
         /\ \A a \in Places : \E p \in 1 .. cached[1] : List(sort)[p] = a
         /\ \A p, q \in 1 .. cached[1] : List(sort)[p] = List(sort)[q] => p = q
         /\ \A p \in 1 .. cached[1] : Behind(sort, List(sort)[p]) = cached[1] - p
<1> DEFINE n == cached[1]
           weight == Key(sort)
<1>1. n \in Nat  BY LimitAssumption DEF ListsInv, ItemsInv
<1>2. IsFiniteSet(Places) /\ Cardinality(Places) = n
  <2>1. Places = 0 .. n - 1  BY DEF Places
  <2>2. 0 \in Int /\ n - 1 \in Int  BY <1>1
  <2>3. IsFiniteSet(0 .. n - 1) /\ Cardinality(0 .. n - 1) = IF 0 > n - 1 THEN 0 ELSE n - 1 - 0 + 1
    BY <2>2, FS_Interval
  <2> HIDE DEF n
  <2>4. (IF 0 > n - 1 THEN 0 ELSE n - 1 - 0 + 1) = n  BY <1>1
  <2> QED  BY <2>1, <2>3, <2>4
<1>3. \A a \in Places : a \in Nat /\ weight[a] \in Int  BY KeyFacts
<1>4. \A a, b \in Places : <<a, b>> \in Below(weight) <=> weight[a] < weight[b] \/ (weight[a] = weight[b] /\ a < b)
  BY BelowFacts
<1> HIDE DEF n, weight
<1>5. Orders(Below(weight), Places)
  <2>1. ASSUME NEW a \in Places PROVE <<a, a>> \notin Below(weight)
    <3>1. a \in Nat /\ weight[a] \in Int  BY <1>3
    <3>2. ~ (weight[a] < weight[a]) /\ ~ (a < a)  BY <3>1
    <3> QED  BY <1>4, <3>2, Zenon
  <2>2. ASSUME NEW a \in Places, NEW b \in Places, NEW c \in Places,
               <<a, b>> \in Below(weight), <<b, c>> \in Below(weight)
        PROVE  <<a, c>> \in Below(weight)
    <3>1. a \in Nat /\ b \in Nat /\ c \in Nat  BY <1>3
    <3>2. PICK x \in Int, y \in Int, z \in Int : x = weight[a] /\ y = weight[b] /\ z = weight[c]  BY <1>3
    <3>3. (x < y \/ (x = y /\ a < b)) /\ (y < z \/ (y = z /\ b < c))  BY <1>4, <2>2, <3>2, Zenon
    <3>4. x < z \/ (x = z /\ a < c)  BY <3>1, <3>2, <3>3
    <3> QED  BY <1>4, <3>2, <3>4, Zenon
  <2>3. \A a, b \in Places : a # b => <<a, b>> \in Below(weight) \/ <<b, a>> \in Below(weight)
    BY <1>3, <1>4
  <2> QED  BY <1>2, <2>1, <2>2, <2>3, Zenon DEF Orders
<1>6. LET s == InOrder(Places, Below(weight))
          m == Cardinality(Places)
      IN  /\ m \in Nat /\ s \in [1 .. m -> Places]
          /\ \A a \in Places : \E p \in 1 .. m : s[p] = a
          /\ \A p, q \in 1 .. m : s[p] = s[q] => p = q
          /\ \A p \in 1 .. m : After(Below(weight), Places, s[p]) = m - p
  BY <1>5, InOrderFacts
<1>7. List(sort) = InOrder(Places, Below(weight))  BY DEF List, Sorted, weight
<1>8. \A a : Behind(sort, a) = After(Below(weight), Places, a)  BY DEF Behind, weight
<1> DEFINE s == InOrder(Places, Below(weight))
<1>9. /\ n \in Nat /\ s \in [1 .. n -> Places]
      /\ \A a \in Places : \E p \in 1 .. n : s[p] = a
      /\ \A p, q \in 1 .. n : s[p] = s[q] => p = q
      /\ \A p \in 1 .. n : After(Below(weight), Places, s[p]) = n - p
  BY <1>2, <1>6
<1> HIDE DEF s
<1>10. List(sort) = s  BY <1>7 DEF s
<1> QED  BY <1>2, <1>8, <1>9, <1>10 DEF n

LEMMA ListPage ==
  ASSUME ListsInv, NEW sort \in Sorts, NEW offset \in Nat, NEW limit \in Nat \ {0}, NEW reversed
  PROVE  LET page == Page(List(sort), offset, limit, reversed)
         IN  /\ page \in Seq(Places)
             /\ page = <<>> <=> cached[1] <= offset
             /\ \A a \in Places : /\ Behind(sort, a) \in Nat /\ Behind(sort, a) < cached[1]
                                  /\ offset <= Behind(sort, a) /\ Behind(sort, a) < offset + limit =>
                                       \E i \in DOMAIN page : page[i] = a
             /\ \A i \in DOMAIN page : offset <= Behind(sort, page[i]) /\ Behind(sort, page[i]) < offset + limit
             /\ \A i, j \in DOMAIN page : page[i] = page[j] => i = j
<1> DEFINE n == cached[1]
           list == List(sort)
           page == Page(list, offset, limit, reversed)
           behind(a) == Behind(sort, a)
<1>1. /\ n \in Nat /\ list \in [1 .. n -> Places]
      /\ \A a \in Places : \E p \in 1 .. n : list[p] = a
      /\ \A p, q \in 1 .. n : list[p] = list[q] => p = q
      /\ \A p \in 1 .. n : behind(list[p]) = n - p
  BY ListFacts
<1> HIDE DEF n, list, behind
<1>2. Asked(Places, n, list, offset, limit)  BY <1>1 DEF Asked
<1>6. Paged(Places, n, list, offset, limit, page)  BY <1>2, PageFacts
<1> HIDE DEF page
<1>3. /\ page \in Seq(Places)
      /\ page = <<>> <=> n <= offset
      /\ \A p \in 1 .. n : offset <= n - p /\ n - p < offset + limit =>
           \E i \in DOMAIN page : page[i] = list[p]
      /\ \A i \in DOMAIN page :
           \E p \in 1 .. n : page[i] = list[p] /\ offset <= n - p /\ n - p < offset + limit
      /\ \A i, j \in DOMAIN page : page[i] = page[j] => i = j
  BY <1>6 DEF Paged
<1>4. ASSUME NEW a \in Places
      PROVE  /\ behind(a) \in Nat /\ behind(a) < n
             /\ offset <= behind(a) /\ behind(a) < offset + limit => \E i \in DOMAIN page : page[i] = a
  <2>1. PICK p \in 1 .. n : list[p] = a  BY <1>1
  <2>2. behind(a) = n - p  BY <1>1, <2>1
  <2>3. n - p \in Nat /\ n - p < n  BY <1>1
  <2> QED  BY <1>3, <2>1, <2>2, <2>3
<1>5. \A i \in DOMAIN page : offset <= behind(page[i]) /\ behind(page[i]) < offset + limit
  BY <1>1, <1>3
<1> QED  BY <1>3, <1>4, <1>5, Zenon DEF n, list, page, behind

\* A list that grows, and votes that are given, put nothing in front of what
\* was in the list, unless it is sorted by votes.
LEMMA BehindGrows ==
  ASSUME ListsInv, ListsInv', cached[1] <= cached'[1], NEW sort \in Sorts, votes' = votes \/ sort \notin ByVotes,
         NEW a \in Places
  PROVE  /\ a \in Places' /\ Behind(sort, a) \in Nat /\ Behind(sort, a)' \in Nat
         /\ Behind(sort, a) <= Behind(sort, a)'
         /\ cached'[1] = cached[1] => Behind(sort, a)' = Behind(sort, a)
<1>1. cached[1] \in Nat /\ cached'[1] \in Nat  BY LimitAssumption DEF ListsInv, ItemsInv
<1>2. Places \in SUBSET Places' /\ (cached'[1] = cached[1] => Places' = Places)
  BY <1>1 DEF Places
<1>3. ASSUME NEW b \in Places PROVE Key(sort)'[b] = Key(sort)[b]
  <2>1. b \in Places'  BY <1>2
  <2>2. /\ sort = "by votes" => Key(sort)[b] = votes[b]
        /\ sort = "by votes, descending" => Key(sort)[b] = 0 - votes[b]
        /\ sort = "by time, descending" => Key(sort)[b] = 0 - b
        /\ sort \in {"polls", "ideas"} => Key(sort)[b] = b
    BY DEF Key
  <2>3. /\ sort = "by votes" => Key(sort)'[b] = votes'[b]
        /\ sort = "by votes, descending" => Key(sort)'[b] = 0 - votes'[b]
        /\ sort = "by time, descending" => Key(sort)'[b] = 0 - b
        /\ sort \in {"polls", "ideas"} => Key(sort)'[b] = b
    BY <2>1 DEF Key
  <2> QED  BY <2>2, <2>3 DEF Sorts, ByVotes
<1> DEFINE here == {b \in Places : <<a, b>> \in Below(Key(sort))}
           there == {b \in Places' : <<a, b>> \in Below(Key(sort))'}
<1>4. \A b \in Places : <<a, b>> \in Below(Key(sort)) <=> <<a, b>> \in Below(Key(sort))'
  <2> SUFFICES ASSUME NEW b \in Places
               PROVE  <<a, b>> \in Below(Key(sort)) <=> <<a, b>> \in Below(Key(sort))'
    OBVIOUS
  <2>1. a \in Places' /\ b \in Places'  BY <1>2
  <2>2. Key(sort)'[a] = Key(sort)[a] /\ Key(sort)'[b] = Key(sort)[b]  BY <1>3
  <2>3. <<a, b>> \in Below(Key(sort)) <=> Key(sort)[a] < Key(sort)[b] \/ (Key(sort)[a] = Key(sort)[b] /\ a < b)
    BY DEF Below
  <2>4. <<a, b>> \in Below(Key(sort))' <=> Key(sort)'[a] < Key(sort)'[b] \/ (Key(sort)'[a] = Key(sort)'[b] /\ a < b)
    BY <2>1 DEF Below
  <2> QED  BY <2>2, <2>3, <2>4
<1>5. here \in SUBSET there /\ (cached'[1] = cached[1] => here = there)  BY <1>2, <1>4
<1>6. Behind(sort, a) = Cardinality(here) /\ Behind(sort, a)' = Cardinality(there)
  <2>1. \A R, S : After(R, S, a) = Cardinality({b \in S : <<a, b>> \in R})  BY DEF After
  <2>2. Behind(sort, a) = After(Below(Key(sort)), Places, a)  BY DEF Behind
  <2>3. Behind(sort, a)' = After(Below(Key(sort))', Places', a)  BY DEF Behind
  <2> QED  BY <2>1, <2>2, <2>3, Zenon
<1>7. IsFiniteSet(there)
  <2>1. IsFiniteSet(Places')
    <3>1. Places' = 0 .. cached'[1] - 1  BY DEF Places
    <3>2. 0 \in Int /\ cached'[1] - 1 \in Int  BY <1>1
    <3> QED  BY <3>1, <3>2, FS_Interval
  <2>2. there \in SUBSET Places'  OBVIOUS
  <2> QED  BY <2>1, <2>2, FS_Subset
<1> HIDE DEF here, there
<1>8. IsFiniteSet(here) /\ Cardinality(here) <= Cardinality(there)  BY <1>5, <1>7, FS_Subset
<1>9. Cardinality(here) \in Nat /\ Cardinality(there) \in Nat  BY <1>7, <1>8, FS_CardinalityType
<1>10. a \in Places'  BY <1>2
<1> QED  BY <1>5, <1>6, <1>8, <1>9, <1>10

\* A client that has been given the last t.offset members of the list has been
\* given all of them that were there when it began, and while the list has not
\* grown since, each once.
Shuffled(t) == moved = TRUE /\ t.sort \in ByVotes

Gathered(t) ==
  /\ \A a \in 0 .. t.had - 1 : Behind(t.sort, a) < t.offset => \E i \in DOMAIN t.got : t.got[i] = a
  /\ cached[1] = t.had =>
       /\ \A i, j \in DOMAIN t.got : t.got[i] = t.got[j] => i = j
       /\ \A i \in DOMAIN t.got : t.got[i] \in Places /\ Behind(t.sort, t.got[i]) < t.offset

Request(t) ==
  /\ t \in [sort : Sorts, limit : Nat \ {0}, offset : Nat, got : Seq(Nat), had : Nat]
  /\ t.had <= cached[1]
  /\ Gathered(t) \/ Shuffled(t)

PagesInv ==
  kind = "pages" =>
    /\ ItemsInv /\ votes \in [0 .. MaxItems - 1 -> 0 .. MaxPower]
    /\ task = Absent => moved = FALSE
    /\ task # Absent => 1 \in DOMAIN Pulse /\ Request(task)
    /\ PagesComplete

LEMMA FirstRequest ==
  ASSUME ListsInv, NEW sort \in Sorts, NEW limit \in Nat \ {0}
  PROVE  Request([sort |-> sort, limit |-> limit, offset |-> 0, got |-> <<>>, had |-> cached[1]])
<1> DEFINE t == [sort |-> sort, limit |-> limit, offset |-> 0, got |-> <<>>, had |-> cached[1]]
<1>1. cached[1] \in Nat  BY LimitAssumption DEF ListsInv, ItemsInv
<1>2. /\ t \in [sort : Sorts, limit : Nat \ {0}, offset : Nat, got : Seq(Nat), had : Nat]
      /\ t.had = cached[1] /\ t.offset = 0 /\ t.got = <<>> /\ t.sort = sort
  BY <1>1
<1> HIDE DEF t
<1>3. \A a \in 0 .. t.had - 1 : ~ (Behind(t.sort, a) < t.offset)
  <2> SUFFICES ASSUME NEW a \in Places PROVE ~ (Behind(sort, a) < 0)
    BY <1>2 DEF Places
  <2>1. Behind(sort, a) \in Nat  BY ListPage
  <2> QED  BY <2>1
<1>4. DOMAIN t.got = {}  BY <1>2
<1>5. Gathered(t)  BY <1>3, <1>4 DEF Gathered
<1>6. t.had <= cached[1]  BY <1>1, <1>2
<1>7. Request(t)  BY <1>2, <1>5, <1>6 DEF Request
<1> QED  BY <1>7 DEF t

LEMMA Joined ==
  ASSUME NEW r \in Seq(Nat), NEW s \in Seq(Nat)
  PROVE  /\ r \o s \in Seq(Nat) /\ Len(r) \in Nat /\ Len(s) \in Nat
         /\ DOMAIN (r \o s) = 1 .. Len(r) + Len(s)
         /\ DOMAIN r = 1 .. Len(r) /\ DOMAIN s = 1 .. Len(s)
         /\ \A i \in 1 .. Len(r) : (r \o s)[i] = r[i]
         /\ \A i \in 1 .. Len(s) : (r \o s)[Len(r) + i] = s[i]
<1> DEFINE all == r \o s
           m == Len(r)
           n == Len(s)
<1>1. /\ all \in Seq(Nat) /\ Len(all) = m + n
      /\ \A i \in 1 .. m + n : all[i] = IF i <= m THEN r[i] ELSE s[i - m]
  BY ConcatProperties
<1>2. m \in Nat /\ n \in Nat /\ DOMAIN r = 1 .. m /\ DOMAIN s = 1 .. n  OBVIOUS
<1>3. DOMAIN all = 1 .. m + n  BY <1>1
<1> HIDE DEF all, m, n
<1>4. \A i \in 1 .. m : all[i] = r[i]  BY <1>1, <1>2
<1>5. ASSUME NEW i \in 1 .. n PROVE all[m + i] = s[i]
  <2>1. m + i \in 1 .. m + n /\ ~ (m + i <= m) /\ m + i - m = i  BY <1>2
  <2>2. PICK k : k = m + i  OBVIOUS
  <2>3. k \in 1 .. m + n /\ ~ (k <= m) /\ k - m = i  BY <1>2, <2>1, <2>2
  <2>4. all[k] = s[k - m]  BY <1>1, <2>3
  <2> QED  BY <2>2, <2>3, <2>4
<1> QED  BY <1>1, <1>2, <1>3, <1>4, <1>5 DEF all, m, n

\* A page continues what was given.
LEMMA NextPage ==
  ASSUME ListsInv, NEW t, Request(t), NEW reversed,
         NEW page, page = Page(List(t.sort), t.offset, t.limit, reversed)
  PROVE  Request([t EXCEPT !.offset = t.offset + t.limit, !.got = t.got \o page])
<1> DEFINE u == [t EXCEPT !.offset = t.offset + t.limit, !.got = t.got \o page]
<1>1. /\ t \in [sort : Sorts, limit : Nat \ {0}, offset : Nat, got : Seq(Nat), had : Nat]
      /\ t.had <= cached[1] /\ (Gathered(t) \/ Shuffled(t))
  BY DEF Request
<1>2. t.sort \in Sorts /\ t.limit \in Nat \ {0} /\ t.offset \in Nat /\ t.got \in Seq(Nat) /\ t.had \in Nat
  BY <1>1
<1>3. /\ page \in Seq(Places)
      /\ \A a \in Places : /\ Behind(t.sort, a) \in Nat
                           /\ t.offset <= Behind(t.sort, a) /\ Behind(t.sort, a) < t.offset + t.limit =>
                                \E i \in DOMAIN page : page[i] = a
      /\ \A i \in DOMAIN page : t.offset <= Behind(t.sort, page[i]) /\ Behind(t.sort, page[i]) < t.offset + t.limit
      /\ \A i, j \in DOMAIN page : page[i] = page[j] => i = j
  <2> DEFINE sort == t.sort
             offset == t.offset
             limit == t.limit
  <2>1. sort \in Sorts /\ offset \in Nat /\ limit \in Nat \ {0}  BY <1>2
  <2>2. page = Page(List(sort), offset, limit, reversed)  OBVIOUS
  <2> HIDE DEF sort, offset, limit
  <2>3. /\ page \in Seq(Places)
        /\ \A a \in Places : /\ Behind(sort, a) \in Nat
                             /\ offset <= Behind(sort, a) /\ Behind(sort, a) < offset + limit =>
                                  \E i \in DOMAIN page : page[i] = a
        /\ \A i \in DOMAIN page : offset <= Behind(sort, page[i]) /\ Behind(sort, page[i]) < offset + limit
        /\ \A i, j \in DOMAIN page : page[i] = page[j] => i = j
    BY <2>1, <2>2, ListPage
  <2> QED  BY <2>3, Zenon DEF sort, offset, limit
<1>4. Places \in SUBSET Nat  BY DEF Places
<1>5. page \in Seq(Nat)
  <2>1. page \in Seq(Places)  BY <1>3
  <2>2. PICK n \in Nat : page \in [1 .. n -> Places]
    <3>1. Seq(Places) = UNION {[1 .. n -> Places] : n \in Nat}  BY SeqDef
    <3> QED  BY <2>1, <3>1, Zenon
  <2>3. page \in [1 .. n -> Nat]  BY <1>4, <2>2
  <2>4. Seq(Nat) = UNION {[1 .. k -> Nat] : k \in Nat}  BY SeqDef
  <2> QED  BY <2>3, <2>4, Zenon
<1> DEFINE all == t.got \o page
           m == Len(t.got)
<1>6. /\ all \in Seq(Nat) /\ m \in Nat /\ Len(page) \in Nat
      /\ DOMAIN all = 1 .. m + Len(page) /\ DOMAIN t.got = 1 .. m /\ DOMAIN page = 1 .. Len(page)
      /\ \A i \in 1 .. m : all[i] = t.got[i]
      /\ \A i \in 1 .. Len(page) : all[m + i] = page[i]
  <2> HIDE DEF all
  <2>1. PICK got : got = t.got /\ got \in Seq(Nat)  BY <1>2
  <2>2. all = got \o page /\ m = Len(got)  BY <2>1 DEF all
  <2> HIDE DEF m
  <2>3. /\ got \o page \in Seq(Nat) /\ Len(got) \in Nat /\ Len(page) \in Nat
        /\ DOMAIN (got \o page) = 1 .. Len(got) + Len(page)
        /\ DOMAIN got = 1 .. Len(got) /\ DOMAIN page = 1 .. Len(page)
        /\ \A i \in 1 .. Len(got) : (got \o page)[i] = got[i]
        /\ \A i \in 1 .. Len(page) : (got \o page)[Len(got) + i] = page[i]
    BY <1>5, <2>1, Joined
  <2> QED  BY <2>1, <2>2, <2>3, Zenon
<1>7. /\ u \in [sort : Sorts, limit : Nat \ {0}, offset : Nat, got : Seq(Nat), had : Nat]
      /\ u.sort = t.sort /\ u.limit = t.limit /\ u.offset = t.offset + t.limit /\ u.got = all /\ u.had = t.had
  <2>1. t.offset + t.limit \in Nat  BY <1>2
  <2> QED  BY <1>1, <1>6, <2>1
<1> HIDE DEF all, u, m
<1>8. \A i \in DOMAIN all : \/ i \in DOMAIN t.got /\ all[i] = t.got[i]
                            \/ \E j \in DOMAIN page : i = m + j /\ all[i] = page[j]
  <2> SUFFICES ASSUME NEW i \in 1 .. m + Len(page), ~ (i \in 1 .. m)
               PROVE  \E j \in DOMAIN page : i = m + j /\ all[i] = page[j]
    BY <1>6
  <2>1. i - m \in 1 .. Len(page) /\ i = m + (i - m)  BY <1>6
  <2>2. all[m + (i - m)] = page[i - m]  BY <1>6, <2>1
  <2>3. i - m \in DOMAIN page /\ all[i] = page[i - m]  BY <1>6, <2>1, <2>2
  <2> QED  BY <2>1, <2>3
<1>9. CASE Shuffled(t)
  <2>1. Shuffled(u)  BY <1>7, <1>9 DEF Shuffled
  <2> QED  BY <1>1, <1>7, <2>1 DEF Request, u
<1>10. CASE Gathered(t)
  <2>1. ASSUME NEW a \in 0 .. t.had - 1, Behind(t.sort, a) < t.offset + t.limit
        PROVE  \E i \in DOMAIN all : all[i] = a
    <3>1. a \in Places
      <4>1. cached[1] \in Nat  BY LimitAssumption DEF ListsInv, ItemsInv
      <4> QED  BY <1>1, <1>2, <4>1 DEF Places
    <3>2. CASE Behind(t.sort, a) < t.offset
      <4>1. PICK i \in DOMAIN t.got : t.got[i] = a  BY <1>10, <3>2 DEF Gathered
      <4>2. i \in DOMAIN all /\ all[i] = a  BY <1>6, <4>1
      <4> QED  BY <4>2
    <3>3. CASE t.offset <= Behind(t.sort, a)
      <4>1. PICK i \in DOMAIN page : page[i] = a  BY <1>3, <2>1, <3>1, <3>3
      <4>2. m + i \in DOMAIN all /\ all[m + i] = a  BY <1>6, <4>1
      <4> QED  BY <4>2
    <3>4. Behind(t.sort, a) \in Nat  BY <1>3, <3>1
    <3> QED  BY <1>2, <3>2, <3>3, <3>4
  <2>2. ASSUME cached[1] = t.had
        PROVE  /\ \A i, j \in DOMAIN all : all[i] = all[j] => i = j
               /\ \A i \in DOMAIN all : all[i] \in Places /\ Behind(t.sort, all[i]) < t.offset + t.limit
    <3>1. /\ \A i, j \in DOMAIN t.got : t.got[i] = t.got[j] => i = j
          /\ \A i \in DOMAIN t.got : t.got[i] \in Places /\ Behind(t.sort, t.got[i]) < t.offset
      BY <1>10, <2>2 DEF Gathered
    <3>2. \A i \in DOMAIN page : page[i] \in Places  BY <1>3
    <3>3. \A i \in DOMAIN t.got, j \in DOMAIN page : t.got[i] # page[j]
      <4> SUFFICES ASSUME NEW i \in DOMAIN t.got, NEW j \in DOMAIN page, t.got[i] = page[j] PROVE FALSE
        OBVIOUS
      <4>1. Behind(t.sort, page[j]) < t.offset  BY <3>1, Zenon
      <4>2. t.offset <= Behind(t.sort, page[j]) /\ Behind(t.sort, page[j]) \in Nat  BY <1>3, <3>2
      <4> QED  BY <1>2, <4>1, <4>2
    <3>4. \A i, j \in DOMAIN all : all[i] = all[j] => i = j
      <4> SUFFICES ASSUME NEW i \in DOMAIN all, NEW j \in DOMAIN all, all[i] = all[j] PROVE i = j
        OBVIOUS
      <4>1. CASE i \in DOMAIN t.got /\ all[i] = t.got[i] /\ j \in DOMAIN t.got /\ all[j] = t.got[j]
        BY <3>1, <4>1
      <4>2. CASE \E k, l \in DOMAIN page : i = m + k /\ all[i] = page[k] /\ j = m + l /\ all[j] = page[l]
        BY <1>3, <4>2
      <4>3. ~ (i \in DOMAIN t.got /\ all[i] = t.got[i] /\ \E l \in DOMAIN page : j = m + l /\ all[j] = page[l])
        BY <3>3, Zenon
      <4>4. ~ (j \in DOMAIN t.got /\ all[j] = t.got[j] /\ \E l \in DOMAIN page : i = m + l /\ all[i] = page[l])
        BY <3>3, Zenon
      <4> QED  BY <1>8, <4>1, <4>2, <4>3, <4>4, Zenon
    <3>5. ASSUME NEW i \in DOMAIN all
          PROVE  all[i] \in Places /\ Behind(t.sort, all[i]) < t.offset + t.limit
      <4>1. CASE i \in DOMAIN t.got /\ all[i] = t.got[i]
        <5>1. t.got[i] \in Places /\ Behind(t.sort, t.got[i]) < t.offset /\ Behind(t.sort, t.got[i]) \in Nat
          BY <1>3, <3>1, <4>1
        <5> QED  BY <1>2, <4>1, <5>1
      <4>2. CASE \E j \in DOMAIN page : all[i] = page[j]
        BY <1>3, <3>2, <4>2
      <4> QED  BY <1>8, <4>1, <4>2
    <3> QED  BY <3>4, <3>5
  <2>3. Gathered(u)  BY <1>7, <2>1, <2>2 DEF Gathered
  <2> QED  BY <1>1, <1>7, <2>3 DEF Request, u
<1> QED  BY <1>1, <1>9, <1>10

\* A longer list, or a vote, leaves a request as it was.
LEMMA RequestKept ==
  ASSUME ListsInv, ListsInv', cached[1] <= cached'[1], NEW t, Request(t),
         moved = TRUE => moved' = TRUE,
         votes' = votes \/ moved' = TRUE
  PROVE  Request(t)'
<1>1. /\ t \in [sort : Sorts, limit : Nat \ {0}, offset : Nat, got : Seq(Nat), had : Nat]
      /\ t.had <= cached[1] /\ (Gathered(t) \/ Shuffled(t))
  BY DEF Request
<1>2. t.sort \in Sorts /\ t.offset \in Nat /\ t.had \in Nat  BY <1>1
<1>3. cached[1] \in Nat /\ cached'[1] \in Nat  BY LimitAssumption DEF ListsInv, ItemsInv
<1>4. t.had <= cached'[1]  BY <1>1, <1>2, <1>3
<1>5. CASE Shuffled(t) \/ (votes' # votes /\ t.sort \in ByVotes)
  <2>1. Shuffled(t)'  BY <1>5 DEF Shuffled
  <2> QED  BY <1>1, <1>4, <2>1 DEF Request
<1>6. CASE Gathered(t) /\ (votes' = votes \/ t.sort \notin ByVotes)
  <2> DEFINE sort == t.sort
  <2>1. sort \in Sorts /\ (votes' = votes \/ sort \notin ByVotes)  BY <1>2, <1>6
  <2> HIDE DEF sort
  <2>2. \A a \in Places : /\ a \in Places' /\ Behind(sort, a) \in Nat /\ Behind(sort, a)' \in Nat
                          /\ Behind(sort, a) <= Behind(sort, a)'
                          /\ cached'[1] = cached[1] => Behind(sort, a)' = Behind(sort, a)
    BY <2>1, BehindGrows
  <2>3. ASSUME NEW a \in 0 .. t.had - 1, Behind(sort, a)' < t.offset
        PROVE  \E i \in DOMAIN t.got : t.got[i] = a
    <3>1. a \in Places  BY <1>1, <1>2, <1>3 DEF Places
    <3>2. Behind(sort, a) < t.offset  BY <1>2, <2>2, <2>3, <3>1
    <3> QED  BY <1>6, <3>2 DEF Gathered, sort
  <2>4. ASSUME cached'[1] = t.had
        PROVE  /\ \A i, j \in DOMAIN t.got : t.got[i] = t.got[j] => i = j
               /\ \A i \in DOMAIN t.got : t.got[i] \in Places' /\ Behind(sort, t.got[i])' < t.offset
    <3>1. cached[1] = t.had /\ cached'[1] = cached[1]  BY <1>1, <1>2, <1>3, <2>4
    <3>2. /\ \A i, j \in DOMAIN t.got : t.got[i] = t.got[j] => i = j
          /\ \A i \in DOMAIN t.got : t.got[i] \in Places /\ Behind(sort, t.got[i]) < t.offset
      BY <1>6, <3>1 DEF Gathered, sort
    <3>3. ASSUME NEW i \in DOMAIN t.got PROVE t.got[i] \in Places' /\ Behind(sort, t.got[i])' < t.offset
      <4>1. PICK a \in Places : a = t.got[i]  BY <3>2
      <4>2. a \in Places' /\ Behind(sort, a)' = Behind(sort, a) /\ Behind(sort, a) < t.offset
        BY <2>2, <3>1, <3>2, <4>1
      <4> QED  BY <4>1, <4>2
    <3> QED  BY <3>2, <3>3
  <2>5. Gathered(t)'  BY <2>3, <2>4 DEF Gathered, sort
  <2> QED  BY <1>1, <1>4, <2>5 DEF Request
<1> QED  BY <1>1, <1>5, <1>6

LEMMA PagesInit == ViewsInit => PagesInv
<1> SUFFICES ASSUME ViewsInit PROVE PagesInv  OBVIOUS
<1>1. ItemsInv  BY ItemsInit
<1>2. votes \in [0 .. MaxItems - 1 -> 0 .. MaxPower]  BY LimitAssumption DEF ViewsInit
<1> QED  BY <1>1, <1>2 DEF ViewsInit, PagesInv, PagesComplete

\* What a client that is answered has been given.
LEMMA PagesTold ==
  ASSUME ListsInv, NEW t, Request(t), NEW reversed, Page(List(t.sort), t.offset, t.limit, reversed) = <<>>,
         answer' = [pages |-> t, has |-> cached[1], moved |-> moved]
  PROVE  PagesComplete'
<1>1. /\ t \in [sort : Sorts, limit : Nat \ {0}, offset : Nat, got : Seq(Nat), had : Nat]
      /\ t.had <= cached[1] /\ (Gathered(t) \/ Shuffled(t))
  BY DEF Request
<1>2. t.sort \in Sorts /\ t.limit \in Nat \ {0} /\ t.offset \in Nat /\ t.had \in Nat /\ cached[1] \in Nat
  BY <1>1, LimitAssumption DEF ListsInv, ItemsInv
<1> DEFINE sort == t.sort
           offset == t.offset
           limit == t.limit
<1>3. sort \in Sorts /\ offset \in Nat /\ limit \in Nat \ {0} /\ Page(List(sort), offset, limit, reversed) = <<>>
  BY <1>2
<1> HIDE DEF sort, offset, limit
<1>4. /\ cached[1] <= offset
      /\ \A a \in Places : Behind(sort, a) \in Nat /\ Behind(sort, a) < cached[1]
  BY <1>3, ListPage
<1>5. answer'.pages = t /\ answer'.has = cached[1] /\ answer'.moved = moved  OBVIOUS
<1>6. CASE Shuffled(t)
  BY <1>5, <1>6 DEF Shuffled, ByVotes, PagesComplete
<1>7. CASE Gathered(t)
  <2>1. ASSUME NEW a \in 0 .. t.had - 1 PROVE a \in ToSet(t.got)
    <3>1. a \in Places  BY <1>1, <1>2 DEF Places
    <3>2. Behind(t.sort, a) < t.offset  BY <1>2, <1>4, <3>1 DEF sort, offset
    <3>3. PICK i \in DOMAIN t.got : t.got[i] = a  BY <1>7, <3>2 DEF Gathered
    <3> QED  BY <3>3 DEF ToSet
  <2>2. IsInjective(t.got) \/ cached[1] > t.had
    BY <1>1, <1>2, <1>7 DEF Gathered, IsInjective
  <2>3. 0 .. t.had - 1 \subseteq ToSet(t.got)  BY <2>1
  <2> QED  BY <1>5, <2>2, <2>3 DEF PagesComplete
<1> QED  BY <1>1, <1>6, <1>7

LEMMA PagesStep == PagesInv /\ [ViewsNext]_viewsVars => PagesInv'
<1> SUFFICES ASSUME PagesInv, [ViewsNext]_viewsVars, kind' = "pages"
             PROVE  /\ ItemsInv' /\ votes' \in [0 .. MaxItems - 1 -> 0 .. MaxPower]
                    /\ task' = Absent => moved' = FALSE
                    /\ task' # Absent => 1 \in DOMAIN Pulse /\ Request(task)'
                    /\ PagesComplete'
  BY DEF PagesInv, Pulse
<1>1. kind = "pages"  BY StepsOfKind DEF viewsVars
<1>2. /\ ItemsInv /\ votes \in [0 .. MaxItems - 1 -> 0 .. MaxPower]
      /\ task = Absent => moved = FALSE
      /\ task # Absent => 1 \in DOMAIN Pulse /\ Request(task)
      /\ PagesComplete
  BY <1>1 DEF PagesInv
<1>3. answer' = answer => PagesComplete'  BY <1>1, <1>2 DEF PagesComplete
<1>4. UNCHANGED world => ItemsInv' /\ votes' \in [0 .. MaxItems - 1 -> 0 .. MaxPower]
  BY <1>2 DEF world, ItemsInv
<1>5. ASSUME UNCHANGED <<task, answer>>, ItemsInv', votes' \in [0 .. MaxItems - 1 -> 0 .. MaxPower],
             1 \in DOMAIN Pulse => cached[1] <= cached'[1],
             (moved' = moved /\ votes' = votes) \/ moved' = (task # Absent)
      PROVE  /\ task' = Absent => moved' = FALSE
             /\ task' # Absent => 1 \in DOMAIN Pulse /\ Request(task)'
             /\ PagesComplete'
  <2>1. PagesComplete'  BY <1>3, <1>5
  <2>2. task' = Absent => moved' = FALSE  BY <1>2, <1>5
  <2>3. ASSUME task' # Absent PROVE 1 \in DOMAIN Pulse /\ Request(task)'
    <3>1. 1 \in DOMAIN Pulse /\ Request(task)  BY <1>2, <1>5, <2>3
    <3>2. ListsInv /\ ListsInv'  BY <1>2, <1>5, <3>1 DEF ListsInv, Pulse
    <3>3. PICK t : t = task  OBVIOUS
    <3>4. (moved = TRUE => moved' = TRUE) /\ (votes' = votes \/ moved' = TRUE)
      BY <1>5, <2>3
    <3>5. Request(t)  BY <3>1, <3>3
    <3>6. Request(t)'  BY <1>5, <3>1, <3>2, <3>4, <3>5, RequestKept
    <3>7. task' = t  BY <1>5, <3>3
    <3> QED  BY <3>1, <3>6, <3>7
  <2> QED  BY <2>1, <2>2, <2>3
<1>6. CASE 1 \in DOMAIN Pulse /\ (Create(1) \/ Renew(1))
  <2>1. ItemsInv'  BY <1>2, <1>6, ItemsStep
  <2>2. UNCHANGED <<task, answer, votes, moved>>  BY <1>6 DEF Create, Renew
  <2>3. cached[1] <= cached'[1]
    <3>1. cached[1] \in Nat /\ items[1] \in Nat /\ cached[1] <= items[1]
      BY <1>2, <1>6, LimitAssumption DEF ItemsInv
    <3>2. CASE Create(1)
      <4>1. cached' = cached  BY <3>2 DEF Create
      <4> QED  BY <3>1, <4>1
    <3>3. CASE Renew(1)
      <4>1. cached'[1] = items[1]  BY <1>2, <1>6, <3>3 DEF Renew, ItemsInv
      <4> QED  BY <3>1, <4>1
    <3> QED  BY <1>6, <3>2, <3>3
  <2> QED  BY <1>2, <1>5, <2>1, <2>2, <2>3
<1>7. CASE \E i \in 0 .. MaxItems - 1 : GiveVote(i)
  <2>1. PICK i \in 0 .. MaxItems - 1 : GiveVote(i)  BY <1>7
  <2>2. /\ votes[i] < MaxPower /\ votes' = [votes EXCEPT ![i] = votes[i] + 1]
        /\ moved' = (task # Absent) /\ UNCHANGED <<answer, items, cached, task>>
    BY <2>1 DEF GiveVote
  <2>3. votes' \in [0 .. MaxItems - 1 -> 0 .. MaxPower]
    <3>1. votes[i] \in 0 .. MaxPower /\ votes[i] + 1 \in 0 .. MaxPower
      BY <1>2, <2>2, LimitAssumption
    <3> QED  BY <1>2, <2>2, <3>1
  <2>4. ItemsInv'  BY <1>2, <2>2 DEF ItemsInv
  <2>5. 1 \in DOMAIN Pulse => cached[1] <= cached'[1]
    BY <1>2, <2>2, LimitAssumption DEF ItemsInv
  <2> QED  BY <1>5, <2>2, <2>3, <2>4, <2>5
<1>8. CASE AskPage
  <2>1. 1 \in DOMAIN Pulse /\ UNCHANGED world  BY <1>8 DEF AskPage
  <2>2. ListsInv  BY <1>2, <2>1 DEF ListsInv
  <2>3. PICK sort \in Sorts, limit \in 1 .. MaxItems :
          LET of == IF task # Absent THEN task
                    ELSE [sort |-> sort, limit |-> limit, offset |-> 0, got |-> <<>>, had |-> cached[1]]
              page == Page(List(of.sort), of.offset, of.limit, of.sort = "polls")
          IN  IF page # <<>>
              THEN /\ task' = [of EXCEPT !.offset = of.offset + of.limit, !.got = of.got \o page]
                   /\ UNCHANGED <<answer, moved>>
              ELSE /\ answer' = [pages |-> of, has |-> cached[1], moved |-> moved]
                   /\ task' = Absent /\ moved' = FALSE
    BY <1>8 DEF AskPage
  <2>4. PICK t : t = IF task # Absent THEN task
                     ELSE [sort |-> sort, limit |-> limit, offset |-> 0, got |-> <<>>, had |-> cached[1]]
    OBVIOUS
  <2>5. limit \in Nat \ {0}  BY LimitAssumption
  <2>6. Request(t)  BY <1>2, <2>2, <2>4, <2>5, FirstRequest
  <2>7. PICK page : page = Page(List(t.sort), t.offset, t.limit, t.sort = "polls")  OBVIOUS
  <2>8. CASE page # <<>>
    <3>1. task' = [t EXCEPT !.offset = t.offset + t.limit, !.got = t.got \o page] /\ UNCHANGED <<answer, moved>>
      BY <2>3, <2>4, <2>7, <2>8
    <3>2. PICK u : u = [t EXCEPT !.offset = t.offset + t.limit, !.got = t.got \o page]  OBVIOUS
    <3>3. Request(u)  BY <2>2, <2>6, <2>7, <3>2, NextPage
    <3>4. Request(u)'
      <4>1. UNCHANGED <<items, cached, votes, moved>>  BY <2>1, <3>1 DEF world
      <4>2. ListsInv'  BY <2>2, <4>1 DEF ListsInv, ItemsInv, Pulse
      <4>3. cached[1] \in Nat  BY <2>2, LimitAssumption DEF ListsInv, ItemsInv
      <4>4. cached[1] <= cached'[1] /\ votes' = votes /\ (moved = TRUE => moved' = TRUE)  BY <4>1, <4>3
      <4> QED  BY <2>2, <3>3, <4>2, <4>4, RequestKept
    <3>5. task' = u  BY <3>1, <3>2
    <3>6. task' # Absent  BY <3>3, <3>5, AbsentAssumption DEF Request
    <3> QED  BY <1>3, <1>4, <2>1, <3>1, <3>4, <3>5, <3>6
  <2>9. CASE page = <<>>
    <3>1. answer' = [pages |-> t, has |-> cached[1], moved |-> moved] /\ task' = Absent /\ moved' = FALSE
      BY <2>3, <2>4, <2>7, <2>9
    <3>2. PagesComplete'  BY <2>2, <2>6, <2>7, <2>9, <3>1, PagesTold
    <3> QED  BY <1>4, <2>1, <3>1, <3>2
  <2> QED  BY <2>8, <2>9
<1>9. CASE UNCHANGED viewsVars
  <2>1. UNCHANGED <<kind, answer, first, stats, items, cached, votes, task, moved>>
    BY <1>9 DEF viewsVars, world
  <2>2. ItemsInv' /\ votes' \in [0 .. MaxItems - 1 -> 0 .. MaxPower]  BY <1>2, <2>1 DEF ItemsInv
  <2>3. 1 \in DOMAIN Pulse => cached[1] <= cached'[1]  BY <1>2, <2>1, LimitAssumption DEF ItemsInv
  <2> QED  BY <1>5, <2>1, <2>2, <2>3
<1> QED  BY <1>1, <1>6, <1>7, <1>8, <1>9, StepsOfKind

----------------------------------------------------------------------------
(* Fields and transactions.                                                *)

LEMMA ContractsFacts ==
  ASSUME NEW places \in SUBSET (DOMAIN Config)
  PROVE  /\ IsInjective(Contracts(places))
         /\ ToSet(Contracts(places)) = {Config[i].address : i \in places}
<1> DEFINE s == InOrder(places, {e \in places \X places : e[1] < e[2]})
           n == Cardinality(places)
           list == Contracts(places)
<1>1. /\ n \in Nat /\ s \in [1 .. n -> places]
      /\ \A a \in places : \E p \in 1 .. n : s[p] = a
      /\ \A p, q \in 1 .. n : s[p] = s[q] => p = q
  BY PlacesInOrder
<1>2. list = [p \in DOMAIN s |-> Config[s[p]].address]  BY DEF Contracts
<1> HIDE DEF s, n, list
<1>3. DOMAIN list = 1 .. n /\ \A p \in 1 .. n : list[p] = Config[s[p]].address /\ s[p] \in DOMAIN Config
  BY <1>1, <1>2
<1>4. \A i, j \in DOMAIN Config : Config[i].address = Config[j].address => i = j
  BY ConfigAssumption
<1>5. ASSUME NEW p \in DOMAIN list, NEW q \in DOMAIN list, list[p] = list[q] PROVE p = q
  <2>1. p \in 1 .. n /\ q \in 1 .. n  BY <1>3
  <2>2. s[p] = s[q]  BY <1>3, <1>4, <1>5, <2>1
  <2> QED  BY <1>1, <2>1, <2>2
<1>6. ToSet(list) = {Config[i].address : i \in places}
  <2>1. ToSet(list) = {list[p] : p \in 1 .. n}  BY <1>3 DEF ToSet
  <2>2. ASSUME NEW p \in 1 .. n PROVE list[p] \in {Config[i].address : i \in places}
    <3>1. s[p] \in places /\ list[p] = Config[s[p]].address  BY <1>1, <1>3
    <3> QED  BY <3>1
  <2>3. ASSUME NEW i \in places PROVE Config[i].address \in {list[p] : p \in 1 .. n}
    <3>1. PICK p \in 1 .. n : s[p] = i  BY <1>1
    <3>2. list[p] = Config[i].address  BY <1>3, <3>1
    <3> QED  BY <3>2
  <2> DEFINE told == {list[p] : p \in 1 .. n}
             there == {Config[i].address : i \in places}
  <2>4. \A x \in told : x \in there  BY <2>2
  <2>5. \A x \in there : x \in told  BY <2>3
  <2>6. ToSet(list) = told  BY <2>1
  <2> HIDE DEF told, there
  <2>7. ToSet(list) = there  BY <2>4, <2>5, <2>6
  <2> QED  BY <2>7 DEF there
<1> QED  BY <1>5, <1>6 DEF IsInjective, list

LEMMA TypeFacts ==
  /\ \A i \in DOMAIN Config : governanceType(Config[i].address) = Config[i].type /\ Config[i].type \in GovernanceTypes
  /\ \A a \in Addresses :
       /\ a # Unknown => governanceType(a) \in GovernanceTypes
       /\ a = Unknown => governanceType(a) = "undefined"
       /\ InLinear("onChain", a) <=> governanceType(a) = "onChain"
       /\ InLinear("pulse", a) <=> governanceType(a) = "pulse"
<1> DEFINE Contract == [type : GovernanceTypes, smoothing : {"linear", "cvadratic"},
                     address : {Config[i].address : i \in DOMAIN Config}]
<1>1. Config \in Seq(Contract)  BY ConfigAssumption
<1>2. \A i, j \in DOMAIN Config : Config[i].address = Config[j].address => i = j
  BY ConfigAssumption
<1>3. \A i \in DOMAIN Config :
        /\ Config[i].address # Unknown
        /\ Config[i].type \in {"onChain", "pulse"} => Config[i].smoothing = "linear"
  BY ConfigAssumption
<1>4. \A i \in DOMAIN Config : Config[i] \in Contract
  <2> HIDE DEF Contract
  <2> QED  BY <1>1
<1>5. ASSUME NEW i \in DOMAIN Config
      PROVE  /\ governanceType(Config[i].address) = Config[i].type /\ Config[i].type \in GovernanceTypes
             /\ \A type : InLinear(type, Config[i].address) <=> Config[i].type = type /\ Config[i].smoothing = "linear"
  <2> DEFINE a == Config[i].address
             k == CHOOSE j \in DOMAIN Config : Config[j].address = a
  <2>1. k \in DOMAIN Config /\ Config[k].address = a  OBVIOUS
  <2> HIDE DEF k
  <2>2. k = i  BY <1>2, <2>1
  <2>3. governanceType(a) = Config[i].type  BY <1>3, <2>2 DEF governanceType, k
  <2>4. Config[i].type \in GovernanceTypes  BY <1>4
  <2>5. ASSUME NEW type PROVE InLinear(type, a) <=> Config[i].type = type /\ Config[i].smoothing = "linear"
    <3>1. ASSUME InLinear(type, a) PROVE Config[i].type = type /\ Config[i].smoothing = "linear"
      <4>1. PICK j \in DOMAIN Config : Config[j] = [type |-> type, smoothing |-> "linear", address |-> a]
        BY <3>1 DEF InLinear
      <4>2. Config[j].address = a /\ Config[j].type = type /\ Config[j].smoothing = "linear"  BY <4>1
      <4>3. j = i  BY <1>2, <4>2
      <4> QED  BY <4>2, <4>3
    <3>2. ASSUME Config[i].type = type, Config[i].smoothing = "linear" PROVE InLinear(type, a)
      <4>1. Config[i] = [type |-> type, smoothing |-> "linear", address |-> a]  BY <1>4, <3>2
      <4> QED  BY <4>1 DEF InLinear
    <3> QED  BY <3>1, <3>2
  <2> QED  BY <2>3, <2>4, <2>5
<1>6. ASSUME NEW a \in Addresses, a # Unknown
      PROVE  /\ governanceType(a) \in GovernanceTypes
             /\ InLinear("onChain", a) <=> governanceType(a) = "onChain"
             /\ InLinear("pulse", a) <=> governanceType(a) = "pulse"
  <2>1. PICK i \in DOMAIN Config : Config[i].address = a  BY <1>6 DEF Addresses
  <2> QED  BY <1>3, <1>5, <2>1
<1>7. /\ governanceType(Unknown) = "undefined"
      /\ ~ InLinear("onChain", Unknown) /\ ~ InLinear("pulse", Unknown)
  <2>1. \A type : \A i \in DOMAIN Config : Config[i] # [type |-> type, smoothing |-> "linear", address |-> Unknown]
    BY <1>3
  <2> QED  BY <2>1 DEF InLinear, governanceType
<1> QED  BY <1>5, <1>6, <1>7

\* The reads each abi service answers.
LEMMA CallsAnswered ==
  /\ \A m \in TokenMethods : Call("tokenSnapshot", m) = "answer"
  /\ \A m \in EnergyMethods : Call("energy", m) = "answer"
  /\ \A m \in OnChainMethods : Call("onChain", m) = "answer"
  /\ \A m \in EnergyMethods \cap Overridden : Call("oldEnergy", m) = "answer"
  BY DEF Call, Methods, NeedsFile, AbiFiles

LEMMA Services ==
  ASSUME NEW a, NEW m, m \in ServiceMethods(userService(a)),
         \A r \in ServiceReads(userService(a), m) : Call(useAbi(a), r) = "answer"
  PROVE  Serve(a, m) = "answer"
<1>1. {Call(useAbi(a), r) : r \in ServiceReads(userService(a), m)} \subseteq {"answer"}  OBVIOUS
<1> QED  BY <1>1 DEF Serve

LEMMA FieldFacts ==
  ASSUME NEW a \in Addresses, a # Unknown, NEW f \in Fields(Model(a))
  PROVE  Field(a, f) = IF f \in OnChainFields /\ governanceType(a) # "onChain" THEN "BadRequest" ELSE "answer"
<1> DEFINE type == governanceType(a)
<1>1. type \in GovernanceTypes /\ (InLinear("onChain", a) <=> type = "onChain")  BY TypeFacts
<1> HIDE DEF type
<1> DEFINE Served == {"feeToken", "votingPowerDecimals", "userVote", "userVotingPower",
                      "userVotingPowerDirect", "excludedAddresses", "delegateUserVotingPowers"}
<1>2. ServiceMethods("onChain") = Served  BY DEF ServiceMethods
<1>3. CASE f \in OnChainFields /\ type # "onChain"
  BY <1>1, <1>3 DEF Field, type
<1>4. CASE ~ (f \in OnChainFields /\ type # "onChain") /\ f \in Served
  <2>1. Field(a, f) = Serve(a, f)  BY <1>1, <1>2, <1>4 DEF Field
  <2>2. type # "pulse"  BY <1>1 DEF Fields, Model, type
  <2>3. CASE type = "onChain"
    <3>1. useAbi(a) = "onChain" /\ userService(a) = "onChain"  BY <2>3 DEF useAbi, userService, type
    <3>2. ServiceReads("onChain", f) \subseteq OnChainMethods
      BY <1>4 DEF ServiceReads, OnChainMethods, ConfigReads
    <3> QED  BY <1>2, <1>4, <2>1, <2>3, <3>1, <3>2, CallsAnswered, Services DEF type
  <2>4. CASE type \in {"energy", "oldEnergy", "tokenSnapshot"}
    <3>1. f \in {"feeToken", "votingPowerDecimals", "userVote", "userVotingPower"}
      BY <1>4, <2>4 DEF OnChainFields
    <3>2. \A service : f \in ServiceMethods(service)  BY <3>1 DEF ServiceMethods
    <3>3. CASE type = "tokenSnapshot"
      <4>1. useAbi(a) = "tokenSnapshot" /\ userService(a) = "tokenSnapshot"
        BY <3>3 DEF useAbi, userService, type
      <4>2. ServiceReads("tokenSnapshot", f) \subseteq TokenMethods
        BY <3>1 DEF ServiceReads, TokenMethods, ConfigReads, ProposalReads
      <4> QED  BY <1>3, <2>1, <2>4, <3>2, <4>1, <4>2, <1>4, CallsAnswered, Services DEF type
    <3>4. CASE type \in {"energy", "oldEnergy"}
      <4>1. useAbi(a) = type /\ userService(a) = "energy"
        BY <3>4 DEF useAbi, userService, type
      <4>2. ServiceReads("energy", f) \subseteq EnergyMethods \cap Overridden
        BY <3>1 DEF ServiceReads, EnergyMethods, TokenMethods, ConfigReads, Overridden
      <4> QED  BY <1>4, <2>1, <3>2, <3>4, <4>1, <4>2, CallsAnswered, Services DEF type
    <3> QED  BY <2>4, <3>3, <3>4
  <2> QED  BY <1>1, <2>2, <2>3, <2>4 DEF GovernanceTypes
<1>5. CASE f \notin Served
  <2>1. f \notin OnChainFields  BY <1>5 DEF OnChainFields
  <2>2. Field(a, f) = Call(useAbi(a), f)  BY <1>2, <1>5, <2>1 DEF Field
  <2>3. CASE type = "onChain"
    <3>1. useAbi(a) = "onChain" /\ Model(a) = "GovernanceOnChainContract"  BY <2>3 DEF useAbi, Model, type
    <3>2. f \in OnChainMethods
      BY <1>5, <2>1, <3>1 DEF Fields, TokenSnapshotFields, ProposalFields, OnChainMethods, ConfigReads, ProposalReads
    <3> QED  BY <2>1, <2>2, <3>1, <3>2, CallsAnswered
  <2>4. CASE type = "tokenSnapshot"
    <3>1. useAbi(a) = "tokenSnapshot" /\ Model(a) = "GovernanceTokenSnapshotContract"
      BY <2>4 DEF useAbi, Model, type
    <3>2. f \in TokenMethods
      BY <1>5, <2>1, <3>1 DEF Fields, TokenSnapshotFields, ProposalFields, TokenMethods, ConfigReads, ProposalReads
    <3> QED  BY <2>1, <2>2, <3>1, <3>2, CallsAnswered
  <2>5. CASE type \in {"energy", "oldEnergy"}
    <3>1. useAbi(a) = type /\ Model(a) = "GovernanceEnergyContract"
      BY <2>5 DEF useAbi, Model, type
    <3>2. f \in EnergyMethods \cap Overridden
      BY <1>5, <2>1, <3>1 DEF Fields, TokenSnapshotFields, ProposalFields, EnergyMethods, TokenMethods, Overridden,
                              ConfigReads, ProposalReads, EnergyReads
    <3> QED  BY <2>1, <2>2, <2>5, <3>1, <3>2, CallsAnswered
  <2>6. type # "pulse"  BY DEF Fields, Model, type
  <2> QED  BY <1>1, <2>3, <2>4, <2>5, <2>6 DEF GovernanceTypes
<1> QED  BY <1>3, <1>4, <1>5

\* How a transaction may fail.
Excused(a, t, valid, leaf) ==
  LET reply == Transaction(a, t, valid, leaf) IN
  \/ reply = "answer"
  \/ /\ reply = "BadRequest"
     /\ \/ ~valid /\ t \in {"vote", "allVotes"} /\ governanceType(a) = "onChain"
        \/ t \in OnChainTransactions /\ governanceType(a) # "onChain"
        \/ t \in PulseTransactions /\ governanceType(a) # "pulse"
  \/ /\ t = "vote"
     /\ \/ governanceType(a) \in {"undefined", "pulse", "oldEnergy"}
        \/ governanceType(a) = "tokenSnapshot" /\ ~leaf

LEMMA TransactionFacts ==
  ASSUME NEW a \in Addresses, NEW t \in OnChainTransactions \cup PulseTransactions \cup {"vote"},
         NEW valid \in BOOLEAN, NEW leaf \in BOOLEAN
  PROVE  Excused(a, t, valid, leaf)
<1> DEFINE type == governanceType(a)
<1>1. /\ type \in GovernanceTypes \cup {"undefined"}
      /\ InLinear("onChain", a) <=> type = "onChain"
      /\ InLinear("pulse", a) <=> type = "pulse"
  BY TypeFacts
<1> HIDE DEF type
<1>2. CASE \/ t \in OnChainTransactions /\ type # "onChain"
           \/ t \in PulseTransactions /\ type # "pulse"
  <2>1. Transaction(a, t, valid, leaf) = "BadRequest"  BY <1>1, <1>2 DEF Transaction
  <2> QED  BY <1>2, <2>1 DEF Excused, type
<1>3. CASE t \in PulseTransactions /\ type = "pulse"
  <2>1. t \notin OnChainTransactions  BY <1>3 DEF PulseTransactions, OnChainTransactions
  <2>2. Transaction(a, t, valid, leaf) = "answer"  BY <1>1, <1>3, <2>1 DEF Transaction
  <2> QED  BY <2>2 DEF Excused
<1>4. CASE t \in OnChainTransactions /\ type = "onChain" /\ t # "allVotes"
  <2>1. t \in {"createProposal", "closeProposal"}  BY <1>4 DEF OnChainTransactions
  <2>2. t \notin PulseTransactions /\ t \in OnChainMethods /\ useAbi(a) = "onChain"
    BY <1>4, <2>1 DEF PulseTransactions, OnChainMethods, useAbi, type
  <2>3. Transaction(a, t, valid, leaf) = Call("onChain", t)  BY <1>1, <1>4, <2>1, <2>2 DEF Transaction
  <2>4. Transaction(a, t, valid, leaf) = "answer"  BY <2>2, <2>3, CallsAnswered
  <2> QED  BY <2>4 DEF Excused
<1>5. CASE t = "vote" \/ (t = "allVotes" /\ type = "onChain")
  <2>1. Transaction(a, t, valid, leaf) = Vote(a, valid, leaf)
    BY <1>1, <1>5 DEF Transaction, OnChainTransactions, PulseTransactions
  <2>2. CASE type = "onChain"
    <3>1. useAbi(a) = "onChain" /\ "vote" \in OnChainMethods  BY <2>2 DEF useAbi, type, OnChainMethods
    <3>2. CASE ~valid
      <4>1. Vote(a, valid, leaf) = "BadRequest"  BY <3>1, <3>2 DEF Vote
      <4> QED  BY <1>5, <2>1, <2>2, <3>2, <4>1 DEF Excused, type
    <3>3. CASE valid
      <4>1. Vote(a, valid, leaf) = "answer"  BY <3>1, <3>3, CallsAnswered DEF Vote
      <4> QED  BY <2>1, <4>1 DEF Excused
    <3> QED  BY <3>2, <3>3
  <2>3. CASE type = "tokenSnapshot" /\ leaf
    <3>1. useAbi(a) = "tokenSnapshot" /\ "vote" \in TokenMethods  BY <2>3 DEF useAbi, type, TokenMethods
    <3>2. Vote(a, valid, leaf) = "answer"  BY <2>3, <3>1, CallsAnswered DEF Vote
    <3> QED  BY <2>1, <3>2 DEF Excused
  <2>4. CASE type = "energy"
    <3>1. useAbi(a) = "energy" /\ "vote" \in EnergyMethods  BY <2>4 DEF useAbi, type, TokenMethods, EnergyMethods
    <3>2. Vote(a, valid, leaf) = "answer"  BY <3>1, CallsAnswered DEF Vote
    <3> QED  BY <2>1, <3>2 DEF Excused
  <2>5. CASE type \in {"undefined", "pulse", "oldEnergy"} \/ (type = "tokenSnapshot" /\ ~leaf)
    BY <1>5, <2>5 DEF Excused, type
  <2> QED  BY <1>1, <2>2, <2>3, <2>4, <2>5 DEF GovernanceTypes
<1>6. t \in PulseTransactions \/ t = "vote" \/ t \in OnChainTransactions  OBVIOUS
<1> QED  BY <1>2, <1>3, <1>4, <1>5, <1>6

\* Every answer about fields, and every transaction, is as it should be.
LEMMA FieldsStep == FieldsAnswered /\ [ViewsNext]_viewsVars => FieldsAnswered'
<1> SUFFICES ASSUME FieldsAnswered, [ViewsNext]_viewsVars PROVE FieldsAnswered'
  OBVIOUS
<1>1. kind' = kind  BY StepsOfKind DEF viewsVars
<1>2. CASE answer' = answer \/ answer' = Absent \/ kind \notin {"fields", "transactions"}
  BY <1>1, <1>2 DEF FieldsAnswered, governanceType, Addresses
<1>3. CASE AskField /\ kind = "fields"
  <2>1. PICK contracts \in (SUBSET Addresses) \cup {Absent},
               model \in {Model(a) : a \in Addresses} \cup {Absent} :
          LET listed == Listed(contracts, model) IN
          \/ answer' = [listed |-> listed, contracts |-> contracts, model |-> model]
          \/ \E a \in ToSet(listed) : \E f \in Fields(Model(a)) :
               answer' = [field |-> f, address |-> a, result |-> Field(a, f)]
    BY <1>3 DEF AskField
  <2> DEFINE places == {i \in DOMAIN Config : LET a == Config[i].address IN
                          /\ contracts # Absent => a \in contracts
                          /\ a \in Explicit => contracts # Absent
                          /\ model # Absent => Model(a) = model}
             listed == Listed(contracts, model)
  <2>2. listed = Contracts(places)  BY DEF Listed
  <2>3. IsInjective(listed) /\ ToSet(listed) = {Config[i].address : i \in places}
    <3> HIDE DEF listed
    <3>1. places \in SUBSET (DOMAIN Config)  OBVIOUS
    <3> HIDE DEF places
    <3> QED  BY <2>2, <3>1, ContractsFacts
  <2>4. \A i \in DOMAIN Config : Config[i].address \in Addresses /\ Config[i].address # Unknown
    BY ConfigAssumption DEF Addresses
  <2> HIDE DEF listed
  <2>5. CASE answer' = [listed |-> listed, contracts |-> contracts, model |-> model]
    <3>1. "listed" \in DOMAIN answer' /\ answer'.listed = listed /\ answer'.contracts = contracts
          /\ answer'.model = model
      BY <2>5
    <3>2. ASSUME contracts = Absent, model = Absent
          PROVE  ToSet(listed) = Addresses \ (Explicit \cup {Unknown})
      <4>1. places = {i \in DOMAIN Config : Config[i].address \notin Explicit}  BY <3>2
      <4> HIDE DEF places
      <4>2. \A x : x \in ToSet(listed) <=> \E i \in DOMAIN Config : x = Config[i].address /\ x \notin Explicit
        BY <2>3, <4>1
      <4>3. \A x : x \in Addresses \ (Explicit \cup {Unknown}) <=>
                     \E i \in DOMAIN Config : x = Config[i].address /\ x \notin Explicit
        BY <2>4 DEF Addresses
      <4> QED  BY <4>2, <4>3
    <3>3. ASSUME contracts # Absent, model = Absent
          PROVE  ToSet(listed) = contracts \ {Unknown}
      <4>1. places = {i \in DOMAIN Config : Config[i].address \in contracts}  BY <3>3
      <4> HIDE DEF places
      <4>2. \A x : x \in ToSet(listed) <=> \E i \in DOMAIN Config : x = Config[i].address /\ x \in contracts
        BY <2>3, <4>1
      <4>3. contracts \in SUBSET Addresses  BY <3>3
      <4>4. \A x : x \in contracts \ {Unknown} <=>
                     \E i \in DOMAIN Config : x = Config[i].address /\ x \in contracts
        BY <2>4, <4>3 DEF Addresses
      <4> QED  BY <4>2, <4>4
    <3> QED  BY <1>1, <1>3, <2>3, <3>1, <3>2, <3>3 DEF FieldsAnswered
  <2>6. ASSUME NEW a \in ToSet(listed), NEW f \in Fields(Model(a)),
               answer' = [field |-> f, address |-> a, result |-> Field(a, f)]
        PROVE  FieldsAnswered'
    <3>1. a \in Addresses /\ a # Unknown  BY <2>3, <2>4, <2>6
    <3>2. "listed" \notin DOMAIN answer' /\ answer'.field = f /\ answer'.address = a /\ answer'.result = Field(a, f)
      BY <2>6
    <3>3. answer'.result = IF answer'.field \in OnChainFields /\ governanceType(answer'.address) # "onChain"
                           THEN "BadRequest" ELSE "answer"
      BY <2>6, <3>1, <3>2, FieldFacts
    <3> QED  BY <1>1, <1>3, <3>2, <3>3 DEF FieldsAnswered
  <2> QED  BY <2>1, <2>5, <2>6 DEF listed
<1>4. CASE AskTransaction /\ kind = "transactions"
  <2>1. PICK a \in Addresses, t \in OnChainTransactions \cup PulseTransactions \cup {"vote"},
             valid \in BOOLEAN, leaf \in BOOLEAN :
          answer' = [transaction |-> t, address |-> a, valid |-> valid, leaf |-> leaf,
                     result |-> Transaction(a, t, valid, leaf)]
    BY <1>4 DEF AskTransaction
  <2>2. /\ answer'.transaction = t /\ answer'.address = a /\ answer'.valid = valid /\ answer'.leaf = leaf
        /\ answer'.result = Transaction(a, t, valid, leaf)
    BY <2>1
  <2>3. Excused(a, t, valid, leaf)  BY TransactionFacts
  <2> QED  BY <1>1, <1>4, <2>2, <2>3 DEF FieldsAnswered, Excused
<1> QED  BY <1>2, <1>3, <1>4, StepsOfKind DEF viewsVars

\* Whatever the contracts, a listing holds what its filters let through, once,
\* every field of what it holds is answered, and a transaction fails only where
\* it has to.
THEOREM FieldsAnsweredHolds == ViewsSpec => []FieldsAnswered
<1>1. ViewsInit => FieldsAnswered  BY DEF ViewsInit, FieldsAnswered
<1> QED  BY <1>1, FieldsStep, PTL DEF ViewsSpec

LEMMA SharesStep == SharesAddUp /\ [ViewsNext]_viewsVars => SharesAddUp'
<1> SUFFICES ASSUME SharesAddUp, [ViewsNext]_viewsVars PROVE SharesAddUp'
  OBVIOUS
<1>1. kind' = kind  BY StepsOfKind DEF viewsVars
<1>2. CASE answer' = answer \/ answer' = Absent \/ kind # "shares"
  BY <1>1, <1>2 DEF SharesAddUp
<1>3. CASE AskShares
  <2>1. PICK v \in [Types -> 0 .. MaxVotes], nearest \in BOOLEAN :
          answer' = [votes |-> v, share |-> [t \in Types |-> Share(v[t], Total(v), nearest)]]
    BY <1>3 DEF AskShares
  <2>2. v \in [Types -> Nat]  BY LimitAssumption
  <2>3. AddsUp(v, [t \in Types |-> Share(v[t], Total(v), nearest)])  BY <2>2, SharesSum
  <2>4. answer'.votes = v /\ answer'.share = [t \in Types |-> Share(v[t], Total(v), nearest)]  BY <2>1
  <2>5. AddsUp(answer'.votes, answer'.share)  BY <2>3, <2>4
  <2> QED  BY <2>5 DEF SharesAddUp, AddsUp
<1> QED  BY <1>2, <1>3, StepsOfKind DEF viewsVars

\* Shares that are rounded to the nearest or down, for any votes, add up to the
\* whole but for three hundredths of a percent; and a client that turns the
\* pages of any list, of any length and in pages of any length, is given all of
\* it, though it grows.
THEOREM AnswersAddUpHolds == ViewsSpec => []AnswersAddUp
<1>1. ViewsInit => SharesAddUp  BY DEF ViewsInit, SharesAddUp
<1>2. PagesInv => PagesComplete  BY DEF PagesInv, PagesComplete
<1>3. ViewsSpec => []SharesAddUp  BY <1>1, SharesStep, PTL DEF ViewsSpec
<1>4. ViewsSpec => []PagesInv  BY PagesInit, PagesStep, PTL DEF ViewsSpec
<1>5. SharesAddUp /\ PagesInv => AnswersAddUp  BY <1>2 DEF AnswersAddUp
<1> QED  BY <1>3, <1>4, <1>5, PTL

\* For any votes, and epochs of any lengths, a vote begins before it ends; and
\* for any totals, two numbers differ unless something was created between the
\* reads that made them.
THEOREM ReadsAgreeHolds == ViewsSpec => []ReadsAgree
<1>1. TimesInv => TimesInOrder  BY DEF TimesInv, TimesInOrder
<1>2. NumbersInv => NumbersDiffer  BY DEF NumbersInv, NumbersDiffer
<1>3. ViewsSpec => []TimesInv  BY TimesInit, TimesStep, PTL DEF ViewsSpec
<1>4. ViewsSpec => []NumbersInv  BY NumbersInit, NumbersStep, PTL DEF ViewsSpec
<1>5. TimesInv /\ NumbersInv => ReadsAgree  BY <1>1, <1>2 DEF ReadsAgree
<1> QED  BY <1>3, <1>4, <1>5, PTL
=============================================================================
