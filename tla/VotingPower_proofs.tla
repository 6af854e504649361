------------------------- MODULE VotingPower_proofs --------------------------
(***************************************************************************)
(* Proofs about VotingPower, for any requests, snapshots and energy.       *)
(*                                                                         *)
(* OfferSound speaks of the votes that are offered.  A vote comes to be    *)
(* offered by two reads of one key, with changes of the root and of the    *)
(* cache between them; OfferInv says what holds of it at each stage, and   *)
(* what the key can hold before the owner has set a root.                  *)
(*                                                                         *)
(* PowersKnown says less of each power and of many more: all that is       *)
(* stored, carried, shown or offered, on a contract of any kind.  KnownInv *)
(* adds the chain to it: what it has had, it goes on having had.           *)
(***************************************************************************)
EXTENDS VotingPower, TLAPS

Shapes ==
  /\ root \in Nat \ {0}
  /\ DOMAIN remote = Keys /\ DOMAIN local = Keys /\ DOMAIN req = Requests
  /\ \A r \in Requests : DOMAIN req[r] = DOMAIN NoRequest

\* Only an energy contract has events.
NoEvents == kind # "energy" => queue = <<>> /\ busy = "idle"

\* Before the root is set there is but one root to be read, stored and found.
FirstRoot == kind # "energy" /\ root = 1

StoreFirst == FirstRoot => remote["source"] \in {None, 1} /\ local["source"] \in {None, 1}

\* What a request has read is a source, and it has not been used yet.
ReadSound(q) ==
  /\ q.read # None => q.at \in {"source", "proof"}
  /\ FirstRoot => q.read \in {None, 1}

\* A vote has passed the check of its power when it gets to the proof, and the check of its
\* leaf when it is done.
VoteSound(q) ==
  /\ kind # "energy" /\ q.at \in {"source", "proof", "done"}
  /\ q.at = "proof" => /\ kind = "pulse" /\ q.power > 0
                       /\ root = 1 => q.power = Balance[1]
  /\ q.at = "done" => /\ q.power > 0 /\ Balance[q.proof] > 0
                      /\ root = 1 => q.power = Balance[q.proof]

RequestSound(q) == ReadSound(q) /\ (q.goal = "vote" /\ q.at # "idle" => VoteSound(q))

RequestsSound == \A r \in Requests : RequestSound(req[r])

OfferInv == Shapes /\ NoEvents /\ StoreFirst /\ RequestsSound

----------------------------------------------------------------------------
\* A request takes a new state, on the same chain.
LEMMA BecomesSound ==
  ASSUME OfferInv, NEW r \in Requests, NEW q, Becomes(r, q),
         UNCHANGED <<kind, root>>, DOMAIN q = DOMAIN NoRequest, RequestSound(q)
  PROVE RequestsSound' /\ DOMAIN req' = Requests
        /\ \A s \in Requests : DOMAIN req'[s] = DOMAIN NoRequest
<1>1. DOMAIN req' = Requests /\ \A s \in Requests : req'[s] = IF s = r THEN q ELSE req[s]
  BY DEF OfferInv, Shapes, Becomes
<1>2. ASSUME NEW s \in Requests PROVE RequestSound(req'[s])
  BY <1>1 DEF OfferInv, RequestsSound
<1>3. ASSUME NEW s \in Requests PROVE RequestSound(req[s])'
  BY <1>2 DEF RequestSound, ReadSound, VoteSound, FirstRoot
<1> QED  BY <1>1, <1>3 DEF OfferInv, Shapes, RequestsSound

\* What a request does with the value it gets, if that is a source where a source is due.
LEMMA GotSound ==
  ASSUME OfferInv, NEW r \in Requests, NEW v, Got(r, v), UNCHANGED <<kind, root>>,
         req[r].at \in {"source", "power", "proof"},
         FirstRoot /\ req[r].at # "power" => v = 1
  PROVE RequestsSound' /\ DOMAIN req' = Requests
        /\ \A s \in Requests : DOMAIN req'[s] = DOMAIN NoRequest
<1> DEFINE q == req[r]
<1>1. DOMAIN q = DOMAIN NoRequest /\ RequestSound(q)
  BY DEF OfferInv, Shapes, RequestsSound
<1>2. DOMAIN NoRequest = {"goal", "at", "read", "fresh", "power", "proof"}
      /\ RequestSound(NoRequest)
  BY DEF NoRequest, RequestSound, ReadSound
<1>3. CASE q.at = "power"
  <2> DEFINE p == [q EXCEPT !.at = "done", !.power = v, !.fresh = None]
  <2>1. Becomes(r, p)  BY <1>3 DEF Got
  <2>2. DOMAIN p = DOMAIN NoRequest /\ p.goal = q.goal /\ p.read = q.read /\ p.at = "done"
    BY <1>1, <1>2
  <2>3. q.goal # "vote" /\ q.read = None
    BY <1>1, <1>3 DEF RequestSound, ReadSound, VoteSound
  <2> HIDE DEF p
  <2>4. RequestSound(p)  BY <2>2, <2>3 DEF RequestSound, ReadSound
  <2> QED  BY <2>1, <2>2, <2>4, BecomesSound
<1>4. CASE q.at = "source" /\ q.goal = "show" /\ kind = "pulse"
  <2> DEFINE power == PowerOf(v)
             p == [q EXCEPT !.at = "done", !.power = power, !.read = None]
  <2>1. Becomes(r, p)  BY <1>4 DEF Got
  <2>2. DOMAIN p = DOMAIN NoRequest /\ p.goal = "show" /\ p.read = None
    BY <1>1, <1>2, <1>4
  <2> HIDE DEF p
  <2>3. RequestSound(p)  BY <2>2 DEF RequestSound, ReadSound
  <2> QED  BY <2>1, <2>2, <2>3, BecomesSound
<1>7. CASE q.at = "source" /\ q.goal = "show" /\ kind # "pulse"
  <2> DEFINE power == PowerOf(v)
             p == [q EXCEPT !.at = "power", !.fresh = power, !.read = None]
  <2>1. Becomes(r, p)  BY <1>7 DEF Got
  <2>2. DOMAIN p = DOMAIN NoRequest /\ p.goal = "show" /\ p.read = None
    BY <1>1, <1>2, <1>7
  <2> HIDE DEF p
  <2>3. RequestSound(p)  BY <2>2 DEF RequestSound, ReadSound
  <2> QED  BY <2>1, <2>2, <2>3, BecomesSound
<1>5. CASE q.at = "source" /\ q.goal = "vote" /\ kind = "pulse"
  <2> DEFINE power == PowerOf(v)
             p == [q EXCEPT !.at = "proof", !.power = power, !.read = None]
  <2>1. power = Balance[v]  BY <1>5 DEF PowerOf, smoothingFunction
  <2>2. Becomes(r, IF power > 0 THEN p ELSE NoRequest)  BY <1>5 DEF Got, Checked
  <2>3. DOMAIN p = DOMAIN NoRequest /\ p.read = None /\ p.at = "proof" /\ p.power = power
    BY <1>1, <1>2
  <2> HIDE DEF p, power
  <2>4. root = 1 => v = 1  BY <1>5 DEF FirstRoot
  <2>5. power > 0 => RequestSound(p)
    BY <1>5, <2>1, <2>3, <2>4 DEF RequestSound, ReadSound, VoteSound
  <2> QED  BY <1>2, <2>2, <2>3, <2>5, BecomesSound
<1>6. CASE q.at # "power" /\ ~ (q.at = "source" /\ q.goal = "show")
           /\ ~ (q.at = "source" /\ q.goal = "vote" /\ kind = "pulse")
  <2> DEFINE power == IF kind = "pulse" THEN q.power ELSE Balance[v]
             p == [q EXCEPT !.at = "done", !.proof = v, !.read = None, !.power = power]
  <2>1. Becomes(r, IF Proves(v) THEN p ELSE NoRequest)  BY <1>6 DEF Got, Proven
  <2>2. /\ DOMAIN p = DOMAIN NoRequest /\ p.read = None /\ p.at = "done" /\ p.goal = q.goal
        /\ p.proof = v /\ p.power = power
    BY <1>1, <1>2
  <2> HIDE DEF p, power
  <2>3. ASSUME Proves(v), q.goal = "vote" PROVE VoteSound(p)
    <3>1. VoteSound(q) /\ Balance[v] > 0
      BY <1>1, <1>6, <2>3 DEF RequestSound, Proves
    <3>2. root = 1 => v = 1  BY <1>6, <3>1 DEF VoteSound, FirstRoot
    <3>3. power > 0 /\ (root = 1 => power = Balance[v])
      <4>1. CASE q.at = "source"
        <5>1. power = Balance[v]  BY <1>6, <2>3, <4>1 DEF power
        <5> QED  BY <3>1, <5>1
      <4>2. CASE q.at = "proof"
        <5>1. power = q.power  BY <3>1, <4>2 DEF VoteSound, power
        <5>2. q.power > 0 /\ (root = 1 => q.power = Balance[1])  BY <3>1, <4>2 DEF VoteSound
        <5> QED  BY <3>2, <5>1, <5>2
      <4> QED  BY <1>6, <3>1, <4>1, <4>2 DEF VoteSound
    <3> QED  BY <2>2, <3>1, <3>3 DEF VoteSound
  <2>4. Proves(v) => RequestSound(p)  BY <2>2, <2>3 DEF RequestSound, ReadSound
  <2> QED  BY <1>2, <2>1, <2>2, <2>4, BecomesSound
<1> QED  BY <1>3, <1>4, <1>5, <1>6, <1>7

----------------------------------------------------------------------------
LEMMA InitOfferInv == Init => OfferInv
  BY DEF Init, OfferInv, Shapes, NoEvents, StoreFirst, FirstRoot, RequestsSound, RequestSound,
     ReadSound, NoRequest, Keys

\* The steps that only move requests.
LEMMA RequestStep ==
  ASSUME OfferInv, NEW r \in Requests, Show(r) \/ Vote(r) \/ Step(r) PROVE OfferInv'
<1>1. /\ DOMAIN req[r] = {"goal", "at", "read", "fresh", "power", "proof"}
      /\ RequestSound(req[r])
  BY DEF OfferInv, Shapes, RequestsSound, NoRequest
<1>2. UNCHANGED <<kind, root, queue, busy>>
  BY DEF Show, Vote, Step, LocalHit, RemoteHit, Miss, Fill, Return, chain
<1>3. Reading(r) \in Keys  BY DEF Reading, Keys
<1>4. ASSUME NEW v, Got(r, v), req[r].at \in {"source", "power", "proof"},
             FirstRoot /\ req[r].at # "power" => v = 1,
             \/ UNCHANGED <<remote, local>>
             \/ remote' = remote /\ local' = [local EXCEPT ![Reading(r)] = v]
             \/ /\ remote' = [remote EXCEPT ![Reading(r)] = v]
                /\ local' = [local EXCEPT ![Reading(r)] = v]
      PROVE OfferInv'
  <2>1. RequestsSound' /\ DOMAIN req' = Requests
        /\ \A s \in Requests : DOMAIN req'[s] = DOMAIN NoRequest
    BY <1>2, <1>4, GotSound
  <2>2. StoreFirst' /\ DOMAIN remote' = Keys /\ DOMAIN local' = Keys
    BY <1>2, <1>4 DEF OfferInv, Shapes, StoreFirst, FirstRoot, Reading, Keys
  <2> QED  BY <1>2, <2>1, <2>2 DEF OfferInv, Shapes, NoEvents
<1>5. ASSUME NEW q, Becomes(r, q), UNCHANGED <<remote, local>>,
             DOMAIN q = DOMAIN NoRequest, RequestSound(q)
      PROVE OfferInv'
  <2>1. RequestsSound' /\ DOMAIN req' = Requests
        /\ \A s \in Requests : DOMAIN req'[s] = DOMAIN NoRequest
    BY <1>2, <1>5, BecomesSound
  <2> QED
    BY <1>2, <1>5, <2>1 DEF OfferInv, Shapes, NoEvents, StoreFirst, FirstRoot
<1>6. CASE Show(r)
  <2> DEFINE at == IF kind = "pulse" THEN "source" ELSE "power"
             q == [NoRequest EXCEPT !.goal = "show", !.at = at]
  <2>1. DOMAIN q = DOMAIN NoRequest /\ q.goal = "show" /\ q.read = None  BY DEF NoRequest
  <2>2. Becomes(r, q) /\ UNCHANGED <<remote, local>>  BY <1>6 DEF Show
  <2> HIDE DEF q
  <2>3. RequestSound(q)  BY <2>1 DEF RequestSound, ReadSound
  <2> QED  BY <1>5, <2>1, <2>2, <2>3
<1>7. CASE Vote(r)
  <2> DEFINE q == [NoRequest EXCEPT !.goal = "vote", !.at = "source"]
  <2>1. DOMAIN q = DOMAIN NoRequest /\ q.at = "source" /\ q.read = None  BY DEF NoRequest
  <2>2. Becomes(r, q) /\ kind # "energy" /\ UNCHANGED <<remote, local>>  BY <1>7 DEF Vote
  <2> HIDE DEF q
  <2>3. RequestSound(q)  BY <2>1, <2>2 DEF RequestSound, ReadSound, VoteSound
  <2> QED  BY <1>5, <2>1, <2>2, <2>3
<1>8. CASE LocalHit(r)
  <2>1. Got(r, local[Reading(r)]) /\ local[Reading(r)] # None /\ Looks(r)
        /\ UNCHANGED <<remote, local>>
    BY <1>8 DEF LocalHit
  <2>2. FirstRoot /\ req[r].at # "power" => local[Reading(r)] = 1
    BY <2>1 DEF OfferInv, StoreFirst, Reading
  <2> QED  BY <1>4, <2>1, <2>2 DEF Looks
<1>9. CASE RemoteHit(r)
  <2>1. Got(r, remote[Reading(r)]) /\ remote[Reading(r)] # None /\ Looks(r)
        /\ remote' = remote /\ local' = [local EXCEPT ![Reading(r)] = remote[Reading(r)]]
    BY <1>9 DEF RemoteHit
  <2>2. FirstRoot /\ req[r].at # "power" => remote[Reading(r)] = 1
    BY <2>1 DEF OfferInv, StoreFirst, Reading
  <2> QED  BY <1>4, <2>1, <2>2 DEF Looks
<1>10. CASE Miss(r) /\ Reading(r) = "source"
  <2> DEFINE q == [req[r] EXCEPT !.read = Source]
  <2>1. Becomes(r, q) /\ Looks(r) /\ UNCHANGED <<remote, local>>  BY <1>10 DEF Miss
  <2>2. DOMAIN q = DOMAIN NoRequest /\ q.read = Source /\ q.at = req[r].at
        /\ q.goal = req[r].goal /\ q.power = req[r].power /\ q.proof = req[r].proof
    BY <1>1 DEF NoRequest
  <2>3. FirstRoot => Source = 1  BY DEF FirstRoot, Source
  <2>4. req[r].at \in {"source", "proof"}  BY <1>10, <2>1 DEF Looks, Reading
  <2> HIDE DEF q
  <2>5. ReadSound(q)  BY <2>2, <2>3, <2>4 DEF ReadSound
  <2>6. RequestSound(q)  BY <1>1, <2>2, <2>5 DEF RequestSound, VoteSound
  <2> QED  BY <1>5, <2>1, <2>2, <2>6
<1>11. CASE Miss(r) /\ Reading(r) # "source"
  <2> DEFINE q == [req[r] EXCEPT !.at = "source"]
  <2>1. Becomes(r, q) /\ UNCHANGED <<remote, local>>  BY <1>11 DEF Miss
  <2>2. DOMAIN q = DOMAIN NoRequest /\ q.read = req[r].read /\ q.goal = req[r].goal
        /\ q.at = "source"
    BY <1>1 DEF NoRequest
  <2>3. req[r].at = "power"  BY <1>11 DEF Reading
  <2>4. req[r].goal # "vote"  BY <1>1, <2>3 DEF RequestSound, VoteSound
  <2> HIDE DEF q
  <2>5. RequestSound(q)  BY <1>1, <2>2, <2>4 DEF RequestSound, ReadSound
  <2> QED  BY <1>5, <2>1, <2>2, <2>5
<1>12. CASE Fill(r)
  <2>1. Got(r, Pending(r)) /\ Pending(r) # None
        /\ remote' = [remote EXCEPT ![Reading(r)] = Pending(r)]
        /\ local' = [local EXCEPT ![Reading(r)] = Pending(r)]
    BY <1>12 DEF Fill
  <2>2. req[r].at \in {"source", "power", "proof"}
    BY <1>1, <2>1 DEF Pending, RequestSound, ReadSound
  <2>3. FirstRoot /\ req[r].at # "power" => Pending(r) = 1
    BY <1>1, <2>1 DEF Pending, RequestSound, ReadSound
  <2> QED  BY <1>4, <2>1, <2>2, <2>3
<1>13. CASE Return(r)
  <2>1. Becomes(r, NoRequest) /\ UNCHANGED <<remote, local>>  BY <1>13 DEF Return
  <2>2. RequestSound(NoRequest)  BY DEF NoRequest, RequestSound, ReadSound
  <2> QED  BY <1>5, <2>1, <2>2
<1> QED  BY <1>6, <1>7, <1>8, <1>9, <1>10, <1>11, <1>12, <1>13 DEF Step

\* Events come on an energy contract only.
LEMMA EnergyStep ==
  ASSUME OfferInv, Handle \/ UpdateEnergy PROVE OfferInv'
<1>1. kind = "energy" /\ UNCHANGED <<kind, root, req>>
  BY DEF OfferInv, NoEvents, Handle, setEnergyEntryForUser, deleteUserVotingPower, Publish,
     HandlerFails, UpdateEnergy, chain
<1>2. DOMAIN remote' = Keys /\ DOMAIN local' = Keys
  BY DEF OfferInv, Shapes, Handle, setEnergyEntryForUser, deleteUserVotingPower, Publish,
     HandlerFails, UpdateEnergy
<1> QED  BY <1>1, <1>2 DEF OfferInv, Shapes, NoEvents, StoreFirst, FirstRoot, RequestsSound,
     RequestSound, ReadSound, VoteSound

\* A root that is set is not the first: what votes had read before no longer matters.
LEMMA SetRootStep ==
  ASSUME OfferInv, SetRoot PROVE OfferInv'
<1>1. root' \in Nat \ {0, 1} /\ UNCHANGED <<kind, queue, busy, remote, local, req>>
  BY DEF OfferInv, Shapes, SetRoot
<1>2. ASSUME NEW r \in Requests PROVE RequestSound(req[r])'
  BY <1>1 DEF OfferInv, RequestsSound, RequestSound, ReadSound, VoteSound, FirstRoot
<1> QED
  BY <1>1, <1>2 DEF OfferInv, Shapes, NoEvents, StoreFirst, FirstRoot, RequestsSound

\* The epoch, the clock and the end of entries change neither a request nor the root.
LEMMA QuietStep ==
  ASSUME OfferInv,
         NextEpoch \/ Tick \/ (\E k \in Keys : ExpireRemote(k) \/ ExpireLocal(k)) \/ UNCHANGED vars
  PROVE OfferInv'
<1>1. UNCHANGED <<kind, root, queue, busy, req>>
  BY DEF NextEpoch, Tick, ExpireRemote, ExpireLocal, vars, chain
<1>2. \/ UNCHANGED <<remote, local>>
      \/ local' = local /\ \E k \in Keys : remote' = [remote EXCEPT ![k] = None]
      \/ remote' = remote /\ \E k \in Keys : local' = [local EXCEPT ![k] = None]
  BY DEF NextEpoch, Tick, ExpireRemote, ExpireLocal, vars
<1>3. DOMAIN remote' = Keys /\ DOMAIN local' = Keys /\ StoreFirst'
  BY <1>1, <1>2 DEF OfferInv, Shapes, StoreFirst, FirstRoot, Keys
<1> QED  BY <1>1, <1>3 DEF OfferInv, Shapes, NoEvents, FirstRoot, RequestsSound,
     RequestSound, ReadSound, VoteSound

LEMMA NextOfferInv == OfferInv /\ [Next]_vars => OfferInv'
  BY RequestStep, EnergyStep, SetRootStep, QuietStep DEF Next

----------------------------------------------------------------------------
\* A vote that is offered carries some power and the proof of a snapshot that holds the user,
\* and of that very power while the contract keeps its root.
THEOREM OfferSoundHolds == Spec => []OfferSound
<1>1. OfferInv => OfferSound
  BY DEF OfferInv, RequestsSound, RequestSound, VoteSound, OfferSound
<1> QED  BY InitOfferInv, NextOfferInv, <1>1, PTL DEF Spec

----------------------------------------------------------------------------
(* Whose power it is.                                                      *)

\* The sources the contract has had, and the powers that follow from them.
Had == IF kind = "energy" THEN {Entry(a, e) : a \in Amounts, e \in 1 .. epoch} ELSE 1 .. root
PowerIn(v, c) == smoothingFunction(IF kind = "energy" THEN depleteUserEnergy(v, c) ELSE Balance[v])
Powers == {PowerIn(v, c) : v \in Had, c \in 1 .. epoch}

ChainSound ==
  /\ root \in Nat \ {0} /\ epoch \in Nat \ {0} /\ clock \in 1 .. epoch
  /\ kind = "energy" => entry \in Had
  /\ queue \in Seq(Had)
  /\ busy # "idle" => queue # <<>>

StoreKnown(store) == store["source"] \in Had \cup {None} /\ store["power"] \in Powers \cup {None}
RequestKnown(q) == /\ q.read \in Had \cup {None}
                   /\ {q.fresh, q.power} \subseteq Powers \cup {None}
                   /\ q.proof \in (1 .. root) \cup {None}

\* A request has a goal, and only a vote needs a proof.
HasGoal(q) == /\ q.at # "idle" => q.goal \in {"show", "vote"}
              /\ q.at = "proof" => q.goal = "vote"

\* Every power that is stored, computed, shown or offered is the power of a source that the
\* contract has had, in an epoch that has begun, and every proof of a snapshot it has had.
PowersKnown ==
  /\ StoreKnown(remote) /\ StoreKnown(local)
  /\ \A r \in Requests : RequestKnown(req[r])

KnownInv ==
  /\ OfferInv /\ ChainSound /\ PowersKnown
  /\ \A r \in Requests : HasGoal(req[r])

\* What the contract has had it goes on having had.
LEMMA HadGrows ==
  ASSUME KnownInv, kind' = kind, root' \in Nat, root <= root', epoch' \in Nat, epoch <= epoch'
  PROVE  Had \subseteq Had' /\ Powers \subseteq Powers' /\ 1 .. root \subseteq 1 .. root'
<1>1. root \in Nat /\ epoch \in Nat  BY DEF KnownInv, ChainSound
<1>2. 1 .. root \subseteq 1 .. root' /\ 1 .. epoch \subseteq 1 .. epoch'  BY <1>1
<1>3. Had \subseteq Had'  BY <1>2 DEF Had
<1>4. \A v, c : PowerIn(v, c)' = PowerIn(v, c)  BY DEF PowerIn, smoothingFunction, Root
<1>5. Powers \subseteq Powers'
  <2> SUFFICES ASSUME NEW p \in Powers PROVE p \in Powers'  OBVIOUS
  <2>1. PICK v \in Had, c \in 1 .. epoch : p = PowerIn(v, c)  BY DEF Powers
  <2>2. v \in Had' /\ c \in 1 .. epoch' /\ p = PowerIn(v, c)'  BY <1>2, <1>3, <1>4, <2>1
  <2> QED  BY <2>2 DEF Powers
<1> QED  BY <1>2, <1>3, <1>5

\* The power that a source has now is one of them.
LEMMA PowerOfHad ==
  ASSUME KnownInv, NEW v \in Had
  PROVE  PowerOf(v) \in Powers /\ (kind # "energy" => v \in 1 .. root /\ Balance[v] \in Powers)
<1>1. clock \in 1 .. epoch  BY DEF KnownInv, ChainSound
<1>2. PowerIn(v, clock) \in Powers  BY <1>1 DEF Powers
<1>3. PowerOf(v) = PowerIn(v, clock)  BY DEF PowerOf, PowerIn
<1>4. kind # "energy" => PowerOf(v) = Balance[v]  BY DEF PowerOf, smoothingFunction
<1>5. kind # "energy" => v \in 1 .. root  BY DEF Had
<1> QED  BY <1>2, <1>3, <1>4, <1>5

\* The steps of one request, on the same chain.
LEMMA RequestsKnown ==
  ASSUME KnownInv, NEW r \in Requests, NEW q, Becomes(r, q), UNCHANGED chain,
         RequestKnown(q), HasGoal(q)
  PROVE  \A s \in Requests : RequestKnown(req[s])' /\ HasGoal(req[s])'
<1>1. DOMAIN req = Requests  BY DEF KnownInv, OfferInv, Shapes
<1>2. \A s \in Requests : req'[s] = IF s = r THEN q ELSE req[s]  BY <1>1 DEF Becomes
<1>3. Had' = Had /\ Powers' = Powers /\ root' = root
  <2>1. kind' = kind /\ root' = root /\ epoch' = epoch  BY DEF chain
  <2>2. \A v, c : PowerIn(v, c)' = PowerIn(v, c)  BY <2>1 DEF PowerIn, smoothingFunction, Root
  <2> QED  BY <2>1, <2>2 DEF Had, Powers
<1>4. ASSUME NEW s \in Requests PROVE RequestKnown(req'[s]) /\ HasGoal(req'[s])
  BY <1>2 DEF KnownInv, PowersKnown
<1> QED  BY <1>3, <1>4 DEF RequestKnown, HasGoal

LEMMA NothingKnown == RequestKnown(NoRequest) /\ HasGoal(NoRequest)
  BY DEF RequestKnown, HasGoal, NoRequest

LEMMA GotKnown ==
  ASSUME KnownInv, NEW r \in Requests, NEW v, Got(r, v), UNCHANGED chain,
         req[r].at \in {"source", "power", "proof"},
         req[r].at = "power" => v \in Powers, req[r].at # "power" => v \in Had
  PROVE  \A s \in Requests : RequestKnown(req[s])' /\ HasGoal(req[s])'
<1> DEFINE q == req[r]
<1>1. /\ DOMAIN q = {"goal", "at", "read", "fresh", "power", "proof"}
      /\ RequestSound(q) /\ RequestKnown(q) /\ HasGoal(q)
  BY DEF KnownInv, OfferInv, Shapes, RequestsSound, NoRequest, PowersKnown
<1>2. CASE q.at = "power"
  <2> DEFINE p == [q EXCEPT !.at = "done", !.power = v, !.fresh = None]
  <2>1. Becomes(r, p)  BY <1>2 DEF Got
  <2>2. /\ p.goal = q.goal /\ p.at = "done" /\ p.read = q.read /\ p.fresh = None
        /\ p.power = v /\ p.proof = q.proof
    BY <1>1
  <2> HIDE DEF p
  <2>3. RequestKnown(p) /\ HasGoal(p)  BY <1>1, <1>2, <2>2 DEF RequestKnown, HasGoal
  <2> QED  BY <2>1, <2>3, RequestsKnown
<1>3. CASE q.at = "source" /\ q.goal = "show"
  <2> DEFINE x == PowerOf(v)
             p == IF kind = "pulse" THEN [q EXCEPT !.at = "done", !.power = x, !.read = None]
                                    ELSE [q EXCEPT !.at = "power", !.fresh = x, !.read = None]
  <2>1. Becomes(r, p)  BY <1>3 DEF Got
  <2>2. /\ p.goal = "show" /\ p.at \in {"done", "power"} /\ p.read = None
        /\ p.fresh \in {q.fresh, x} /\ p.power \in {q.power, x} /\ p.proof = q.proof
    BY <1>1, <1>3
  <2>3. x \in Powers  BY <1>3, PowerOfHad
  <2> HIDE DEF p, x
  <2>4. RequestKnown(p) /\ HasGoal(p)  BY <1>1, <2>2, <2>3 DEF RequestKnown, HasGoal
  <2> QED  BY <2>1, <2>4, RequestsKnown
<1>4. CASE q.at = "source" /\ q.goal = "vote" /\ kind = "pulse"
  <2> DEFINE x == PowerOf(v)
             p == [q EXCEPT !.at = "proof", !.power = x, !.read = None]
  <2>1. Becomes(r, IF x > 0 THEN p ELSE NoRequest)  BY <1>4 DEF Got, Checked
  <2>2. /\ p.goal = "vote" /\ p.at = "proof" /\ p.read = None /\ p.fresh = q.fresh
        /\ p.power = x /\ p.proof = q.proof
    BY <1>1, <1>4
  <2>3. x \in Powers  BY <1>4, PowerOfHad
  <2> HIDE DEF p, x
  <2>4. RequestKnown(p) /\ HasGoal(p)  BY <1>1, <2>2, <2>3 DEF RequestKnown, HasGoal
  <2> QED  BY <2>1, <2>4, NothingKnown, RequestsKnown
<1>5. CASE q.at # "power" /\ ~ (q.at = "source" /\ q.goal = "show")
           /\ ~ (q.at = "source" /\ q.goal = "vote" /\ kind = "pulse")
  <2> DEFINE x == IF kind = "pulse" THEN q.power ELSE Balance[v]
             p == [q EXCEPT !.at = "done", !.proof = v, !.read = None, !.power = x]
  <2>1. Becomes(r, IF Proves(v) THEN p ELSE NoRequest)  BY <1>5 DEF Got, Proven
  <2>2. /\ p.goal = q.goal /\ p.at = "done" /\ p.read = None /\ p.fresh = q.fresh
        /\ p.power = x /\ p.proof = v
    BY <1>1
  <2>3. q.goal = "vote" /\ kind # "energy"
    BY <1>1, <1>5 DEF HasGoal, RequestSound, VoteSound
  <2>4. v \in 1 .. root /\ Balance[v] \in Powers  BY <1>5, <2>3, PowerOfHad
  <2>5. x \in Powers \cup {None}  BY <1>1, <2>4 DEF RequestKnown
  <2> HIDE DEF p, x
  <2>6. RequestKnown(p) /\ HasGoal(p)
    BY <1>1, <2>2, <2>3, <2>4, <2>5 DEF RequestKnown, HasGoal
  <2> QED  BY <2>1, <2>6, NothingKnown, RequestsKnown
<1> QED  BY <1>2, <1>3, <1>4, <1>5

LEMMA GrownSeq ==
  ASSUME NEW S, NEW T, S \subseteq T, NEW s \in Seq(S) PROVE s \in Seq(T)
OBVIOUS

LEMMA InitKnownInv == Init => KnownInv
<1> SUFFICES ASSUME Init PROVE KnownInv  OBVIOUS
<1>1. OfferInv  BY InitOfferInv
<1>2. epoch = 1 /\ clock = 1 /\ root = 1 /\ queue = <<>> /\ busy = "idle"  BY DEF Init
<1>3. kind = "energy" => entry \in Had  BY <1>2 DEF Init, Had
<1>4. ChainSound  BY <1>2, <1>3 DEF ChainSound
<1>5. PowersKnown /\ \A r \in Requests : HasGoal(req[r])
  BY NothingKnown DEF Init, PowersKnown, StoreKnown, Keys
<1> QED  BY <1>1, <1>4, <1>5 DEF KnownInv

LEMMA RequestKnownStep ==
  ASSUME KnownInv, NEW r \in Requests, Show(r) \/ Vote(r) \/ Step(r) PROVE KnownInv'
<1>1. OfferInv'  BY RequestStep DEF KnownInv
<1>2. UNCHANGED <<chain, queue, busy>>
  BY DEF Show, Vote, Step, LocalHit, RemoteHit, Miss, Fill, Return
<1>3. Had' = Had /\ Powers' = Powers
  <2>1. kind' = kind /\ root' = root /\ epoch' = epoch  BY <1>2 DEF chain
  <2>2. \A v, c : PowerIn(v, c)' = PowerIn(v, c)  BY <2>1 DEF PowerIn, smoothingFunction, Root
  <2> QED  BY <2>1, <2>2 DEF Had, Powers
<1>4. ChainSound'  BY <1>2, <1>3 DEF KnownInv, ChainSound, chain
<1>5. /\ DOMAIN req[r] = {"goal", "at", "read", "fresh", "power", "proof"}
      /\ RequestSound(req[r]) /\ RequestKnown(req[r]) /\ HasGoal(req[r])
      /\ StoreKnown(remote) /\ StoreKnown(local)
      /\ DOMAIN remote = Keys /\ DOMAIN local = Keys
  BY DEF KnownInv, OfferInv, Shapes, RequestsSound, NoRequest, PowersKnown
<1>6. ASSUME \A s \in Requests : RequestKnown(req[s])' /\ HasGoal(req[s])',
             StoreKnown(remote'), StoreKnown(local')
      PROVE  KnownInv'
  <2>1. StoreKnown(remote)' /\ StoreKnown(local)'  BY <1>3, <1>6 DEF StoreKnown
  <2> QED  BY <1>1, <1>4, <1>6, <2>1 DEF KnownInv, PowersKnown
<1>7. ASSUME NEW v, Got(r, v), req[r].at \in {"source", "power", "proof"},
             req[r].at = "power" => v \in Powers, req[r].at # "power" => v \in Had,
             \/ UNCHANGED <<remote, local>>
             \/ remote' = remote /\ local' = [local EXCEPT ![Reading(r)] = v]
             \/ /\ remote' = [remote EXCEPT ![Reading(r)] = v]
                /\ local' = [local EXCEPT ![Reading(r)] = v]
      PROVE  KnownInv'
  <2>1. \A s \in Requests : RequestKnown(req[s])' /\ HasGoal(req[s])'  BY <1>2, <1>7, GotKnown
  <2>2. StoreKnown(remote') /\ StoreKnown(local')
    BY <1>5, <1>7 DEF StoreKnown, Reading, Keys
  <2> QED  BY <1>6, <2>1, <2>2
<1>8. ASSUME NEW q, Becomes(r, q), UNCHANGED <<remote, local>>, RequestKnown(q), HasGoal(q)
      PROVE  KnownInv'
  BY <1>2, <1>5, <1>6, <1>8, RequestsKnown
<1>9. CASE Show(r) \/ Vote(r)
  <2>1. PICK goal \in {"show", "vote"}, at \in {"source", "power"} :
          /\ Becomes(r, [NoRequest EXCEPT !.goal = goal, !.at = at])
          /\ UNCHANGED <<remote, local>>
    BY <1>9 DEF Show, Vote
  <2> DEFINE q == [NoRequest EXCEPT !.goal = goal, !.at = at]
  <2>2. RequestKnown(q) /\ HasGoal(q)  BY DEF RequestKnown, HasGoal, NoRequest
  <2> QED  BY <1>8, <2>1, <2>2
<1>10. CASE LocalHit(r) \/ RemoteHit(r)
  <2>1. PICK store \in {local, remote} :
          /\ Got(r, store[Reading(r)]) /\ store[Reading(r)] # None /\ Looks(r)
          /\ remote' = remote
          /\ local' = local \/ local' = [local EXCEPT ![Reading(r)] = store[Reading(r)]]
    BY <1>10 DEF LocalHit, RemoteHit
  <2>2. /\ req[r].at = "power" => store[Reading(r)] \in Powers
        /\ req[r].at # "power" => store[Reading(r)] \in Had
    BY <1>5, <2>1 DEF StoreKnown, Reading
  <2>3. req[r].at \in {"source", "power", "proof"}  BY <2>1 DEF Looks
  <2> QED  BY <1>7, <2>1, <2>2, <2>3
<1>11. CASE Miss(r) /\ Reading(r) = "source"
  <2> DEFINE q == [req[r] EXCEPT !.read = Source]
  <2>1. Becomes(r, q) /\ Looks(r) /\ UNCHANGED <<remote, local>>  BY <1>11 DEF Miss
  <2>2. Source \in Had  BY DEF Source, Had, KnownInv, ChainSound
  <2>3. /\ q.goal = req[r].goal /\ q.at = req[r].at /\ q.read = Source /\ q.fresh = req[r].fresh
        /\ q.power = req[r].power /\ q.proof = req[r].proof
    BY <1>5
  <2> HIDE DEF q
  <2>4. RequestKnown(q) /\ HasGoal(q)  BY <1>5, <2>2, <2>3 DEF RequestKnown, HasGoal
  <2> QED  BY <1>8, <2>1, <2>4
<1>12. CASE Miss(r) /\ Reading(r) # "source"
  <2> DEFINE q == [req[r] EXCEPT !.at = "source"]
  <2>1. Becomes(r, q) /\ Looks(r) /\ UNCHANGED <<remote, local>>  BY <1>12 DEF Miss
  <2>2. /\ q.goal = req[r].goal /\ q.at = "source" /\ q.read = req[r].read
        /\ q.fresh = req[r].fresh /\ q.power = req[r].power /\ q.proof = req[r].proof
    BY <1>5
  <2>3. req[r].at = "power"  BY <1>12 DEF Reading
  <2> HIDE DEF q
  <2>4. RequestKnown(q) /\ HasGoal(q)  BY <1>5, <2>2, <2>3 DEF RequestKnown, HasGoal
  <2> QED  BY <1>8, <2>1, <2>4
<1>13. CASE Fill(r)
  <2>1. Got(r, Pending(r)) /\ Pending(r) # None
        /\ remote' = [remote EXCEPT ![Reading(r)] = Pending(r)]
        /\ local' = [local EXCEPT ![Reading(r)] = Pending(r)]
    BY <1>13 DEF Fill
  <2>2. req[r].at \in {"source", "power", "proof"}
    BY <1>5, <2>1 DEF Pending, RequestSound, ReadSound
  <2>3. /\ req[r].at = "power" => Pending(r) \in Powers
        /\ req[r].at # "power" => Pending(r) \in Had
    BY <1>5, <2>1 DEF Pending, RequestKnown
  <2> QED  BY <1>7, <2>1, <2>2, <2>3
<1>14. CASE Return(r)
  BY <1>8, <1>14, NothingKnown DEF Return
<1> QED  BY <1>9, <1>10, <1>11, <1>12, <1>13, <1>14 DEF Step

\* Events are of entries the chain has had; entries end.
LEMMA StoresKnown ==
  ASSUME KnownInv, UNCHANGED <<kind, root, epoch, req>>, OfferInv', ChainSound',
         StoreKnown(remote'), StoreKnown(local')
  PROVE  KnownInv'
<1>1. Had' = Had /\ Powers' = Powers
  <2>1. \A v, c : PowerIn(v, c)' = PowerIn(v, c)  BY DEF PowerIn, smoothingFunction, Root
  <2> QED  BY <2>1 DEF Had, Powers
<1>2. StoreKnown(remote)' /\ StoreKnown(local)'  BY <1>1 DEF StoreKnown
<1>3. \A r \in Requests : RequestKnown(req[r])' /\ HasGoal(req[r])'
  BY <1>1 DEF KnownInv, PowersKnown, RequestKnown, HasGoal
<1> QED  BY <1>2, <1>3 DEF KnownInv, PowersKnown

LEMMA HandleKnownStep ==
  ASSUME KnownInv, Handle \/ Tick \/ \E k \in Keys : ExpireRemote(k) \/ ExpireLocal(k)
  PROVE  KnownInv'
<1>1. OfferInv'  BY EnergyStep, QuietStep DEF KnownInv
<1>2. UNCHANGED <<kind, root, entry, epoch, req>>
  BY DEF Handle, setEnergyEntryForUser, deleteUserVotingPower, Publish, HandlerFails, Tick,
     ExpireRemote, ExpireLocal, chain
<1>3. Had' = Had  BY <1>2 DEF Had
<1>4. queue \in Seq(Had) /\ clock' \in 1 .. epoch /\ queue' \in Seq(Had)
  <2>1. queue \in Seq(Had) /\ clock \in 1 .. epoch /\ epoch \in 1 .. epoch
    BY DEF KnownInv, ChainSound
  <2>2. clock' \in {clock, epoch}
    BY DEF Handle, setEnergyEntryForUser, deleteUserVotingPower, Publish, HandlerFails, Tick,
       ExpireRemote, ExpireLocal, chain
  <2>3. queue' = queue \/ (queue' = Tail(queue) /\ busy = "publish")
    BY DEF Handle, setEnergyEntryForUser, deleteUserVotingPower, Publish, HandlerFails, Tick,
       ExpireRemote, ExpireLocal
  <2>4. queue # <<>> => Tail(queue) \in Seq(Had)  BY <2>1
  <2>5. busy = "publish" => queue # <<>>  BY DEF KnownInv, ChainSound
  <2> QED  BY <2>1, <2>2, <2>3, <2>4, <2>5
<1>5. ChainSound'
  BY <1>2, <1>3, <1>4 DEF KnownInv, ChainSound, Handle, setEnergyEntryForUser,
     deleteUserVotingPower, Publish, HandlerFails, Tick, ExpireRemote, ExpireLocal
<1>6. StoreKnown(remote) /\ StoreKnown(local) /\ DOMAIN remote = Keys /\ DOMAIN local = Keys
  BY DEF KnownInv, PowersKnown, OfferInv, Shapes
<1>7. \/ remote' = remote
      \/ \E k \in Keys : remote' = [remote EXCEPT ![k] = None]
      \/ queue # <<>> /\ remote' = [remote EXCEPT !["source"] = Head(queue)]
  BY DEF Handle, setEnergyEntryForUser, deleteUserVotingPower, Publish, HandlerFails, Tick,
     ExpireRemote, ExpireLocal, Keys
<1>8. \/ local' = local \/ local' = [k \in Keys |-> None]
      \/ \E k \in Keys : local' = [local EXCEPT ![k] = None]
  BY DEF Handle, setEnergyEntryForUser, deleteUserVotingPower, Publish, HandlerFails, Tick,
     ExpireRemote, ExpireLocal
<1>9. queue # <<>> => Head(queue) \in Had  BY <1>4
<1>10. StoreKnown(remote')  BY <1>6, <1>7, <1>9 DEF StoreKnown, Keys
<1>11. StoreKnown(local')  BY <1>6, <1>8 DEF StoreKnown, Keys
<1> QED  BY <1>1, <1>2, <1>5, <1>10, <1>11, StoresKnown

\* The chain moves on, and keeps what it had.
LEMMA ChainKnownStep ==
  ASSUME KnownInv, SetRoot \/ UpdateEnergy \/ NextEpoch PROVE KnownInv'
<1>1. OfferInv'  BY SetRootStep, EnergyStep, QuietStep DEF KnownInv
<1>2. /\ UNCHANGED <<kind, clock, busy, remote, local, req>>
      /\ root \in Nat \ {0} /\ epoch \in Nat \ {0} /\ clock \in 1 .. epoch
      /\ root' \in {root, root + 1} /\ epoch' \in {epoch, epoch + 1}
  BY DEF KnownInv, ChainSound, SetRoot, UpdateEnergy, NextEpoch
<1>3. root' \in Nat \ {0} /\ epoch' \in Nat \ {0} /\ root <= root' /\ epoch <= epoch'
      /\ clock' \in 1 .. epoch'
  BY <1>2
<1>4. Had \subseteq Had' /\ Powers \subseteq Powers' /\ 1 .. root \subseteq 1 .. root'
  BY <1>2, <1>3, HadGrows
<1>5. CASE UpdateEnergy
  <2>1. /\ kind = "energy" /\ epoch' = epoch /\ queue' = Append(queue, entry')
        /\ \E a \in Amounts : entry' = Entry(a, epoch)
    BY <1>5 DEF UpdateEnergy
  <2>2. epoch \in 1 .. epoch  BY <1>2
  <2>3. Had' = Had  BY <1>2, <2>1 DEF Had
  <2>4. entry' \in Had  BY <2>1, <2>2 DEF Had
  <2>5. queue \in Seq(Had)  BY DEF KnownInv, ChainSound
  <2>6. queue' \in Seq(Had) /\ queue' # <<>>  BY <2>1, <2>4, <2>5
  <2>7. ChainSound'  BY <1>3, <2>3, <2>4, <2>6 DEF ChainSound
  <2> QED  BY <1>1, <1>2, <1>4, <2>7 DEF KnownInv, PowersKnown, StoreKnown, RequestKnown, HasGoal
<1>6. CASE SetRoot \/ NextEpoch
  <2>1. UNCHANGED <<entry, queue>>  BY <1>6 DEF SetRoot, NextEpoch
  <2>2. queue \in Seq(Had) /\ (kind = "energy" => entry \in Had) /\ (busy # "idle" => queue # <<>>)
    BY DEF KnownInv, ChainSound
  <2>3. queue' \in Seq(Had')  BY <1>4, <2>1, <2>2, GrownSeq
  <2>4. ChainSound'  BY <1>2, <1>3, <1>4, <2>1, <2>2, <2>3 DEF ChainSound
  <2> QED  BY <1>1, <1>2, <1>4, <2>4 DEF KnownInv, PowersKnown, StoreKnown, RequestKnown, HasGoal
<1> QED  BY <1>5, <1>6

LEMMA NextKnownInv == KnownInv /\ [Next]_vars => KnownInv'
<1> SUFFICES ASSUME KnownInv, [Next]_vars PROVE KnownInv'  OBVIOUS
<1>1. CASE UNCHANGED vars
  <2>1. OfferInv'  BY <1>1, QuietStep DEF KnownInv
  <2>2. UNCHANGED <<kind, root, epoch, req, entry, clock, queue, busy, remote, local>>
    BY <1>1 DEF vars, chain
  <2>3. Had' = Had  BY <2>2 DEF Had
  <2>4. ChainSound'  BY <2>2, <2>3 DEF KnownInv, ChainSound
  <2>5. StoreKnown(remote') /\ StoreKnown(local')  BY <2>2 DEF KnownInv, PowersKnown
  <2> QED  BY <2>1, <2>2, <2>4, <2>5, StoresKnown
<1> QED  BY <1>1, RequestKnownStep, HandleKnownStep, ChainKnownStep DEF Next

\* Whatever power or proof a user is shown or offered, and whatever the caches hold, follows
\* from a source that the contract has had: late fills, events handled again and changes of
\* the root mix moments, but nothing else comes of it.
THEOREM PowersKnownHolds == Spec => []PowersKnown
<1>1. KnownInv => PowersKnown  BY DEF KnownInv
<1> QED  BY InitKnownInv, NextKnownInv, <1>1, PTL DEF Spec
==============================================================================
