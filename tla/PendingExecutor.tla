--------------------------- MODULE PendingExecutor ---------------------------
(***************************************************************************)
(* PendingExecutor.execute: calls with an equal value share one execution. *)
(* GenericAbiService runs every contract query through one, so this is the *)
(* path of all raw reads of one ABI service.                               *)
(*                                                                         *)
(* execute is split where it awaits.  What the node process does between   *)
(* two answers of the network is a drain of its microtask queue: when the  *)
(* promise of an execution settles, the callers that wait for it run, and  *)
(* may call execute again, before another answer arrives.                  *)
(*                                                                         *)
(* The executor asks the chain for the state of a contract; a state is     *)
(* represented by its version, and the md5 key of a value by the value.    *)
(***************************************************************************)
EXTENDS Integers

CONSTANTS
  Keys,        \* the values execute is called with
  Calls,       \* calls that may be under way at once
  MaxVersion   \* bound of the chain, for model checking only

ASSUME VersionAssumption == MaxVersion \in Nat

VARIABLES
  version,     \* the state of the chain
  dictionary,  \* dictionary[k]: the call whose execution is pending, or Nothing
  st,          \* st[c]: where call c is
  key,         \* key[c]: the value it was called with
  run,         \* run[c]: the call whose promise c awaits
  read,        \* read[c]: what the node answered the execution of c, on its way back
  result,      \* result[c]: what the promise c awaits settled with
  answered     \* answered[k]: the version given to the last caller of k

executorVars == <<version, dictionary, st, key, run, read, result, answered>>

Nothing == -1    \* no call, no answer yet
Error == -2   \* the executor rejected
ASSUME CallsAssumption == Nothing \notin Calls

States == {"idle", "initiator", "joined"}

ExecutorInit ==
  /\ version = 0
  /\ dictionary = [k \in Keys |-> Nothing]
  /\ st = [c \in Calls |-> "idle"]
  /\ key \in [Calls -> Keys]
  /\ run = [c \in Calls |-> Nothing]
  /\ read = [c \in Calls |-> Nothing]
  /\ result = [c \in Calls |-> Nothing]
  /\ answered = [k \in Keys |-> 0]

\* The promise of execution c has not settled.
Unsettled(c) == st[c] = "initiator" /\ result[c] = Nothing

\* A caller whose promise has settled and who has yet to run.
Runnable(c) == st[c] # "idle" /\ result[c] # Nothing

----------------------------------------------------------------------------
\* Defect for AnswersInOrder: the dictionary is written but never looked up.
StartUnshared(c, k) ==
  /\ st[c] = "idle"
  /\ st' = [st EXCEPT ![c] = "initiator"]
  /\ key' = [key EXCEPT ![c] = k]
  /\ run' = [run EXCEPT ![c] = c]
  /\ dictionary' = [dictionary EXCEPT ![k] = c]
  /\ UNCHANGED <<version, read, result, answered>>

\* execute up to its first await: the pending promise, or a new execution.
Start(c, k) ==
  /\ st[c] = "idle"
  /\ dictionary[k] = Nothing
  /\ st' = [st EXCEPT ![c] = "initiator"]
  /\ key' = [key EXCEPT ![c] = k]
  /\ run' = [run EXCEPT ![c] = c]
  /\ dictionary' = [dictionary EXCEPT ![k] = c]
  /\ UNCHANGED <<version, read, result, answered>>

\* Defect for EveryCallReturns: a call that finds a settled promise waits for it to settle.
JoinUnsettled(c, k) ==
  /\ st[c] = "idle"
  /\ dictionary[k] # Nothing
  /\ st' = [st EXCEPT ![c] = "joined"]
  /\ key' = [key EXCEPT ![c] = k]
  /\ run' = [run EXCEPT ![c] = dictionary[k]]
  /\ UNCHANGED <<version, dictionary, read, result, answered>>

Join(c, k) ==
  /\ st[c] = "idle"
  /\ dictionary[k] # Nothing
  /\ st' = [st EXCEPT ![c] = "joined"]
  /\ key' = [key EXCEPT ![c] = k]
  /\ run' = [run EXCEPT ![c] = dictionary[k]]
  /\ result' = [result EXCEPT ![c] = result[dictionary[k]]]
  /\ UNCHANGED <<version, dictionary, read, answered>>

\* The node evaluates the query.
Evaluate(c) ==
  /\ Unsettled(c) /\ read[c] = Nothing
  /\ read' = [read EXCEPT ![c] = version]
  /\ UNCHANGED <<version, dictionary, st, key, run, result, answered>>

\* The answer, or the failure of the request, arrives: a task of its own.
Settle(c) ==
  /\ Unsettled(c)
  /\ \A d \in Calls : ~Runnable(d)
  /\ \E v \in {read[c], Error} \ {Nothing} :
       result' = [d \in Calls |-> IF st[d] # "idle" /\ run[d] = c THEN v ELSE result[d]]
  /\ read' = [read EXCEPT ![c] = Nothing]
  /\ UNCHANGED <<version, dictionary, st, key, run, answered>>

\* The caller goes on with the result; an error is thrown to it.
Return(c) ==
  /\ Runnable(c)
  /\ st' = [st EXCEPT ![c] = "idle"]
  /\ run' = [run EXCEPT ![c] = Nothing]
  /\ result' = [result EXCEPT ![c] = Nothing]
  /\ answered' = IF result[c] = Error THEN answered
                 ELSE [answered EXCEPT ![key[c]] = result[c]]
  /\ UNCHANGED <<version, key, read>>

\* Defect for NoStaleEntry: the entry is removed after an answer, not in a finally.
FinishOnSuccess(c) ==
  /\ st[c] = "initiator"
  /\ dictionary' = IF result[c] = Error THEN dictionary
                   ELSE [dictionary EXCEPT ![key[c]] = Nothing]
  /\ Return(c)

\* The finally of the caller that started the execution.
Finish(c) ==
  /\ st[c] = "initiator"
  /\ dictionary' = [dictionary EXCEPT ![key[c]] = Nothing]
  /\ Return(c)

\* Defect for SingleFlight: the callers that joined run the finally too.
ResumeAndDelete(c) ==
  /\ st[c] = "joined"
  /\ dictionary' = [dictionary EXCEPT ![key[c]] = Nothing]
  /\ Return(c)

Resume(c) ==
  /\ st[c] = "joined"
  /\ Return(c)
  /\ UNCHANGED dictionary

\* A block changes the state of the contracts.
Advance ==
  /\ version < MaxVersion
  /\ version' = version + 1
  /\ UNCHANGED <<dictionary, st, key, run, read, result, answered>>

ExecutorNext ==
  \/ \E c \in Calls : \/ \E k \in Keys : Start(c, k) \/ Join(c, k)
                      \/ Evaluate(c) \/ Settle(c) \/ Finish(c) \/ Resume(c)
  \/ Advance

ExecutorSpec == ExecutorInit /\ [][ExecutorNext]_executorVars

\* A request to the node ends with an answer or its timeout.  Its settling waits for the
\* end of a drain, and other calls start drains of their own: the event loop handles the
\* answer after one of them (SF).  node runs the callers that can go on (WF).
ExecutorFairSpec ==
  /\ ExecutorSpec
  /\ \A c \in Calls : SF_executorVars(Settle(c)) /\ WF_executorVars(Finish(c)) /\ WF_executorVars(Resume(c))

----------------------------------------------------------------------------
Value == Nat \cup {Nothing, Error}
ExecutorTypeOK ==
  /\ version \in Nat
  /\ dictionary \in [Keys -> Calls \cup {Nothing}]
  /\ st \in [Calls -> States]
  /\ key \in [Calls -> Keys]
  /\ run \in [Calls -> Calls \cup {Nothing}]
  /\ read \in [Calls -> Nat \cup {Nothing}]
  /\ result \in [Calls -> Value]
  /\ answered \in [Keys -> Nat]

\* One execution per value: two calls never wait for two requests of the same value.
SingleFlight ==
  \A c, d \in Calls :
    st[c] = "initiator" /\ st[d] = "initiator" /\ key[c] = key[d] => c = d

\* The dictionary holds only executions whose initiator will remove them: no entry is
\* left behind by a failure, and none answers a call of another value.
NoStaleEntry ==
  \A k \in Keys : dictionary[k] # Nothing =>
    st[dictionary[k]] = "initiator" /\ key[dictionary[k]] = k

\* Sharing never takes a caller back in time: the answers to the callers of a value
\* come in the order of the states they show, whoever started the executions.
AnswersInOrder == [][\A k \in Keys : answered[k] <= answered'[k]]_executorVars

\* Every call returns, whether it started the execution, joined it or came after it
\* settled.
EveryCallReturns == \A c \in Calls : st[c] # "idle" ~> st[c] = "idle"
=============================================================================
