-------------------------- MODULE ShownVotes_proofs ---------------------------
(***************************************************************************)
(* Proofs about ShownVotes, for any channels, providers and requests.      *)
(***************************************************************************)
EXTENDS ShownVotes, TLAPS

----------------------------------------------------------------------------
\* The index and the notifier know votes that were cast, and so do the two levels.
Known ==
  /\ indexed \subseteq cast /\ queue \subseteq cast
  /\ busy.step # "idle" => busy.event \in cast
  /\ \A c \in Channels : "voted" \in {remote[c], local[c]} => c \in cast

\* An answer that a request holds is of a channel it has still to read.
Held ==
  \A r \in Requests :
    /\ req[r].stage = "store" => req[r].at \in req[r].todo /\ req[r].val \in Answers
    /\ req[r].stage # "store" => req[r].val = None
    /\ req[r].val = "voted" => req[r].at \in cast

\* A power that is owed has not voted, and is offered, or its channel is not read yet.
Owed ==
  \A r \in Requests :
    /\ req[r].owed \cap cast = {} /\ req[r].owed \subseteq req[r].power
    /\ req[r].owed \subseteq req[r].offers \cup req[r].todo
    /\ req[r].stage = "done" => req[r].todo = {}

IInv == TypeOK /\ Known /\ Held /\ Owed

USE ChannelAssumption DEF Answers

----------------------------------------------------------------------------
\* The channels of a vote hold every power.
LEMMA PoweredRead ==
  ASSUME TypeOK PROVE Powered \subseteq (Enabled \cap Providers) \cup {Direct}
  BY DEF TypeOK, Powered, Providers

LEMMA RequestTypes ==
  ASSUME IInv, NEW r \in Requests PROVE req[r] \in Request
  BY DEF IInv, TypeOK

LEMMA InitIInv == Init => IInv
  BY DEF Init, IInv, TypeOK, Known, Held, Owed, Request, NoRequest, Idle

\* A request begins to read cs, with the powers ps.
LEMMA BeginStep ==
  ASSUME IInv, NEW r \in Requests, NEW cs \in SUBSET Channels, NEW ps \in SUBSET cs,
         Begin(r, cs, ps)
  PROVE  IInv'
<1> USE DEF IInv, Begin, chain, NoRequest
<1>1. TypeOK'  BY DEF TypeOK, Request
<1>2. Known'  BY DEF Known
<1>3. Held'  BY DEF TypeOK, Held
<1>4. Owed'  BY DEF TypeOK, Owed
<1> QED  BY <1>1, <1>2, <1>3, <1>4


\* What an answer does to the request, and to no other.
LEMMA AnswerFields ==
  ASSUME IInv, NEW r \in Requests, NEW c \in Channels, NEW v \in Answers, Answer(r, c, v)
  PROVE  /\ req'[r].stage = IF req[r].todo \ {c} = {} THEN "done" ELSE "read"
         /\ req'[r].todo = req[r].todo \ {c}
         /\ req'[r].at = None /\ req'[r].val = None
         /\ req'[r].offers = req[r].offers \cup (IF v = "not" THEN req[r].power \cap {c} ELSE {})
         /\ req'[r].power = req[r].power /\ req'[r].owed = req[r].owed
         /\ req' \in [Requests -> Request]
         /\ \A s \in Requests \ {r} : req'[s] = req[s]
<1> DEFINE more == IF v = "not" THEN req[r].power \cap {c} ELSE {}
           s1 == IF req[r].todo \ {c} = {} THEN "done" ELSE "read"
           q == [req[r] EXCEPT !.stage = s1, !.todo = req[r].todo \ {c}, !.at = None,
                               !.val = None, !.offers = req[r].offers \cup more]
<1>1. req[r] \in Request /\ req \in [Requests -> Request]  BY DEF IInv, TypeOK
<1>2. req' = [req EXCEPT ![r] = q]  BY <1>1 DEF Answer, Request
<1>3. more \in SUBSET Channels /\ s1 \in {"read", "done"}  BY <1>1 DEF Request
<1>4. /\ q \in Request
      /\ q.stage = s1 /\ q.todo = req[r].todo \ {c} /\ q.at = None /\ q.val = None
      /\ q.offers = req[r].offers \cup more /\ q.power = req[r].power /\ q.owed = req[r].owed
  <2> HIDE DEF more, s1
  <2> QED  BY <1>1, <1>3 DEF Request
<1> HIDE DEF q
<1>5. req' \in [Requests -> Request]  BY <1>1, <1>2, <1>4
<1>6. req'[r] = q /\ \A s \in Requests \ {r} : req'[s] = req[s]  BY <1>1, <1>2
<1> QED  BY <1>4, <1>5, <1>6

\* A request is answered v for channel c: what it owes there is offered, for v is "not" then.
LEMMA AnswerStep ==
  ASSUME IInv, NEW r \in Requests, NEW c \in req[r].todo, NEW v \in Answers, Answer(r, c, v),
         v = "voted" => c \in cast, UNCHANGED <<cast, indexed, fallen, files, queue, busy>>,
         remote' \in [Channels -> Answers \cup {None}],
         local' \in [Channels -> Answers \cup {None}],
         \A d \in Channels : "voted" \in {remote'[d], local'[d]} => d \in cast
  PROVE  IInv'
<1>0. c \in Channels  BY RequestTypes DEF Request
<1>1. TypeOK'  BY <1>0, AnswerFields DEF IInv, TypeOK
<1>2. Known'  BY DEF IInv, Known
<1>3. Held'  BY <1>0, AnswerFields DEF IInv, Held
<1>4. Owed'
  <2> SUFFICES ASSUME NEW s \in Requests
               PROVE  /\ req'[s].owed \cap cast = {} /\ req'[s].owed \subseteq req'[s].power
                      /\ req'[s].owed \subseteq req'[s].offers \cup req'[s].todo
                      /\ req'[s].stage = "done" => req'[s].todo = {}
    BY DEF Owed
  <2>1. CASE s = r
    <3>1. c \in req[r].owed => v = "not"  BY DEF IInv, Owed
    <3> QED  BY <1>0, <2>1, <3>1, AnswerFields DEF IInv, Owed
  <2>2. CASE s # r  BY <1>0, <2>2, AnswerFields DEF IInv, Owed
  <2> QED  BY <2>1, <2>2
<1> QED  BY <1>1, <1>2, <1>3, <1>4 DEF IInv

LEMMA LocalHitStep ==
  ASSUME IInv, NEW r \in Requests, NEW c \in Channels, LocalHit(r, c) PROVE IInv'
<1>1. local[c] \in Answers /\ c \in req[r].todo  BY DEF IInv, TypeOK, LocalHit, Reads
<1>2. local[c] = "voted" => c \in cast  BY DEF IInv, Known
<1>3. UNCHANGED <<cast, indexed, fallen, files, queue, busy, remote, local>> /\ Answer(r, c, local[c])
  BY DEF LocalHit, chain
<1> QED  BY <1>1, <1>2, <1>3, AnswerStep DEF IInv, TypeOK, Known

LEMMA RemoteHitStep ==
  ASSUME IInv, NEW r \in Requests, NEW c \in Channels, RemoteHit(r, c) PROVE IInv'
<1>1. remote[c] \in Answers /\ c \in req[r].todo  BY DEF IInv, TypeOK, RemoteHit, Reads
<1>2. remote[c] = "voted" => c \in cast  BY DEF IInv, Known
<1>3. /\ UNCHANGED <<cast, indexed, fallen, files, queue, busy, remote>>
      /\ Answer(r, c, remote[c]) /\ local' = [local EXCEPT ![c] = remote[c]]
  BY DEF RemoteHit, chain
<1>4. local' \in [Channels -> Answers \cup {None}]  BY <1>1, <1>3 DEF IInv, TypeOK
<1>5. \A d \in Channels : "voted" \in {remote'[d], local'[d]} => d \in cast
  BY <1>2, <1>3 DEF IInv, TypeOK, Known
<1> HIDE DEF Answers
<1> QED  BY <1>1, <1>2, <1>3, <1>4, <1>5, AnswerStep DEF IInv, TypeOK

LEMMA FillStep ==
  ASSUME IInv, NEW r \in Requests, Fill(r) PROVE IInv'
<1> DEFINE c == req[r].at
           v == req[r].val
<1>1. c \in req[r].todo /\ v \in Answers /\ (v = "voted" => c \in cast)
  BY DEF IInv, Held, Fill
<1>2. c \in Channels  BY <1>1, RequestTypes DEF Request
<1>3. /\ UNCHANGED <<cast, indexed, fallen, files, queue, busy>> /\ Answer(r, c, v)
      /\ remote' = [remote EXCEPT ![c] = v] /\ local' = [local EXCEPT ![c] = v]
  BY DEF Fill, chain
<1> HIDE DEF c, v
<1>4. /\ remote' \in [Channels -> Answers \cup {None}]
      /\ local' \in [Channels -> Answers \cup {None}]
  BY <1>1, <1>2, <1>3 DEF IInv, TypeOK
<1>5. \A d \in Channels : "voted" \in {remote'[d], local'[d]} => d \in cast
  BY <1>1, <1>2, <1>3 DEF IInv, TypeOK, Known
<1> HIDE DEF Answers
<1> QED  BY <1>1, <1>3, <1>4, <1>5, AnswerStep

\* The index, or the API that rejects, gives answer v.
LEMMA HoldsStep ==
  ASSUME IInv, NEW r \in Requests, NEW c \in Channels, NEW v \in Answers, Holds(r, c, v),
         v = "voted" => c \in cast
  PROVE  IInv'
<1> USE DEF IInv, Holds, Reads, chain
<1>0. req[r] \in Request  BY RequestTypes
<1>1. TypeOK'  BY <1>0 DEF TypeOK, Request
<1>2. Known'  BY DEF Known
<1>3. Held'  BY DEF TypeOK, Held
<1>4. Owed'  BY <1>0 DEF TypeOK, Owed, Request
<1> QED  BY <1>1, <1>2, <1>3, <1>4

LEMMA QueryStep ==
  ASSUME IInv, NEW r \in Requests, NEW c \in Channels, Query(r, c) \/ QueryFails(r, c)
  PROVE  IInv'
<1>1. Found(c) => c \in cast  BY DEF IInv, Known, Found
<1>2. CASE Query(r, c)  BY <1>1, <1>2, HoldsStep DEF Query
<1>3. CASE QueryFails(r, c)  BY <1>3, HoldsStep DEF QueryFails
<1> QED  BY <1>2, <1>3

\* A request ends: it owes nothing any more.
LEMMA EndStep ==
  ASSUME IInv, NEW r \in Requests, Reject(r) \/ Return(r) PROVE IInv'
<1> USE DEF IInv, Reject, Return, chain, NoRequest
<1>1. TypeOK'  BY DEF TypeOK, Request
<1>2. Known'  BY DEF Known
<1>3. Held'  BY DEF TypeOK, Held
<1>4. Owed'  BY DEF TypeOK, Owed
<1> QED  BY <1>1, <1>2, <1>3, <1>4

LEMMA NotifierStep ==
  ASSUME IInv, Notifier PROVE IInv'
<1> USE DEF IInv, chain, Idle
<1>1. ASSUME NEW c \in Channels, Deliver(c) PROVE IInv'
  BY <1>1 DEF Deliver, TypeOK, Known, Held, Owed
<1>2. CASE Handle
  <2>1. busy.event \in Channels \cup {None} /\ busy.event \in cast /\ cast \subseteq Channels
    BY <1>2 DEF Handle, TypeOK, Known
  <2>2. TypeOK'  BY <1>2, <2>1 DEF Handle, TypeOK
  <2>3. Known'  BY <1>2, <2>1 DEF Handle, TypeOK, Known
  <2>4. Held' /\ Owed'  BY <1>2 DEF Handle, Held, Owed
  <2> QED  BY <2>2, <2>3, <2>4
<1>3. CASE Acknowledge  BY <1>3 DEF Acknowledge, TypeOK, Known, Held, Owed
<1>4. CASE Requeue  BY <1>4 DEF Requeue, TypeOK, Known, Held, Owed
<1> QED  BY <1>1, <1>2, <1>3, <1>4 DEF Notifier

\* A vote is signed: no request owes it.
LEMMA SignStep ==
  ASSUME IInv, NEW c \in Channels, Sign(c) PROVE IInv'
<1> USE DEF IInv, Sign
<1>1. ASSUME NEW r \in Requests
      PROVE  /\ req'[r] \in Request /\ req'[r].owed = req[r].owed \ {c}
             /\ req'[r].stage = req[r].stage /\ req'[r].todo = req[r].todo
             /\ req'[r].at = req[r].at /\ req'[r].val = req[r].val
             /\ req'[r].power = req[r].power /\ req'[r].offers = req[r].offers
  BY RequestTypes DEF Request
<1>2. req' \in [Requests -> Request]  BY <1>1
<1>3. TypeOK'  BY <1>2 DEF TypeOK
<1>4. Known'  BY DEF Known
<1>5. Held'  BY <1>1 DEF Held
<1>6. Owed'  BY <1>1 DEF Owed
<1> QED  BY <1>3, <1>4, <1>5, <1>6

LEMMA EnvironmentStep ==
  ASSUME IInv, NEW c \in Channels,
         Index(c) \/ Fall(c) \/ Snapshot(c) \/ ExpireRemote(c) \/ ExpireLocal(c)
  PROVE  IInv'
<1> USE DEF IInv, chain
<1>1. CASE Index(c)  BY <1>1 DEF Index, TypeOK, Known, Held, Owed
<1>2. CASE Fall(c)  BY <1>2 DEF Fall, TypeOK, Known, Held, Owed
<1>3. CASE Snapshot(c)  BY <1>3 DEF Snapshot, TypeOK, Known, Held, Owed
<1>4. CASE ExpireRemote(c)  BY <1>4 DEF ExpireRemote, TypeOK, Known, Held, Owed
<1>5. CASE ExpireLocal(c)  BY <1>5 DEF ExpireLocal, TypeOK, Known, Held, Owed
<1> QED  BY <1>1, <1>2, <1>3, <1>4, <1>5

LEMMA NextIInv == IInv /\ [Next]_vars => IInv'
<1> SUFFICES ASSUME IInv, [Next]_vars PROVE IInv'  OBVIOUS
<1>1. ASSUME NEW r \in Requests, Vote(r) PROVE IInv'
  <2>1. Powered \subseteq (Enabled \cap Providers) \cup {Direct}  BY PoweredRead DEF IInv
  <2>2. (Enabled \cap Providers) \cup {Direct} \subseteq Channels
    BY DEF Channels, OnChain
  <2> QED  BY <1>1, <2>1, <2>2, BeginStep DEF Vote
<1>2. ASSUME NEW r \in Requests, NEW c \in Channels, Show(r, c) PROVE IInv'
  BY <1>2, BeginStep DEF Show
<1>3. ASSUME NEW r \in Requests, Step(r) PROVE IInv'
  BY <1>3, FillStep, LocalHitStep, RemoteHitStep, QueryStep DEF Step
<1>4. ASSUME NEW r \in Requests, Reject(r) \/ Return(r) PROVE IInv'  BY <1>4, EndStep
<1>5. CASE Notifier  BY <1>5, NotifierStep
<1>6. ASSUME NEW c \in Channels,
             Sign(c) \/ Index(c) \/ Fall(c) \/ Snapshot(c) \/ ExpireRemote(c) \/ ExpireLocal(c)
      PROVE  IInv'
  BY <1>6, SignStep, EnvironmentStep
<1>7. CASE UNCHANGED vars  BY <1>7 DEF vars, chain, IInv, TypeOK, Known, Held, Owed
<1> QED  BY <1>1, <1>2, <1>3, <1>4, <1>5, <1>6, <1>7 DEF Next

LEMMA Invariance == Spec => []IInv
  BY InitIInv, NextIInv, PTL DEF Spec

----------------------------------------------------------------------------
\* The types of the model, for any number of requests: keys hold answers, a request reads
\* channels that exist.
THEOREM TypeCorrect == Spec => []TypeOK
<1>1. IInv => TypeOK  BY DEF IInv
<1> QED  BY <1>1, Invariance, PTL

\* hasUserVoted and userVote never say voted where there is no vote, however often an event is
\* delivered and however far the index is behind.
THEOREM NoInventedVoteHolds == Spec => []NoInventedVote
<1>1. IInv => NoInventedVote  BY DEF IInv, Known, Held, NoInventedVote
<1> QED  BY <1>1, Invariance, PTL

\* vote offers every power that was there when it was asked and has not voted since: a cached
\* "not" can only offer too much.
THEOREM NothingForgottenHolds == Spec => []NothingForgotten
<1>1. IInv => NothingForgotten  BY DEF IInv, Owed, NothingForgotten
<1> QED  BY <1>1, Invariance, PTL
=============================================================================
