----------------------------- MODULE VotingPower ------------------------------
(***************************************************************************)
(* The power a user is shown, and the power in the vote he is offered.     *)
(*                                                                         *)
(* On a pulse contract the power is the balance in the snapshot whose root *)
(* hash the contract holds; the owner may set another root at any time,    *)
(* and a vote reads the root twice, for the power and for the proof.  On a *)
(* token-snapshot contract the root of a proposal never changes.  On an    *)
(* energy contract the power comes from the energy of the user, which his  *)
(* locked tokens deplete in every epoch; an event brings a new entry.      *)
(*                                                                         *)
(* One user and one contract, of a kind that the run chooses.  Redis and   *)
(* one memory of requests, as in ShownVotes.                               *)
(***************************************************************************)
EXTENDS Integers, Sequences

CONSTANTS
  Requests,    \* requests under way at once
  None,        \* no entry, no power
  NaN,         \* the square root of a negative number
  Balance,     \* Balance[h]: the balance in the h-th snapshot, 0 for no leaf
  Amounts,     \* the energy an update can bring
  Locked,      \* tokens that deplete the energy in every epoch
  MaxEpoch,    \* bound: the last epoch
  MaxUpdates,  \* bound: updates of the energy
  MaxFails     \* bound: awaits of the handler that reject

Kinds == {"pulse", "tokenSnapshot", "energy"}
Roots == DOMAIN Balance
Keys  == {"source", "power"}   \* the root hash or the energy entry; userVotingPower

ASSUME BalanceAssumption == Len(Balance) > 0 /\ \A h \in DOMAIN Balance : Balance[h] \in Nat
ASSUME EnergyAssumption  == Amounts \subseteq Nat /\ Amounts # {} /\ Locked \in Nat
ASSUME BoundAssumption   == {MaxEpoch, MaxUpdates, MaxFails} \subseteq Nat

VARIABLES
  kind,     \* governanceType of the contract
  root,     \* the chain: the snapshot of the contract
  entry,    \* the chain: the energy entry of the user
  epoch,    \* the chain: the epoch
  clock,    \* the epoch of ContextGetterService, cached
  queue,    \* events of the energy contract, the first one under way
  busy,     \* what the handler does with it
  remote,   \* remote[k]: the Redis entry of key k
  local,    \* local[k]: the copy in the memory of the requests
  req,      \* req[r]: what request r does
  updates, fails

chain == <<kind, root, entry, epoch, clock>>
bounds == <<updates, fails>>
vars == <<chain, queue, busy, remote, local, req, bounds>>

Entry(amount, last) == [amount |-> amount, last |-> last]

\* goal: what it is for; at: the key it looks up, for the power or for the proof; read, fresh:
\* the source it has read, the power it has computed, not stored yet; power, proof: the power
\* and the snapshot proven.
NoRequest == [goal |-> None, at |-> "idle", read |-> None, fresh |-> None,
              power |-> None, proof |-> None]

Init ==
  /\ kind \in Kinds
  /\ root = 1 /\ epoch = 1 /\ clock = 1
  /\ \E a \in Amounts : entry = Entry(a, 1)
  /\ queue = <<>> /\ busy = "idle"
  /\ remote = [k \in Keys |-> None]
  /\ local = [k \in Keys |-> None]
  /\ req = [r \in Requests |-> NoRequest]
  /\ updates = 0 /\ fails = 0

----------------------------------------------------------------------------
(* What a power is.                                                        *)

\* The square root, rounded to the nearest integer.
Root(x) ==
  IF x < 0 THEN NaN
  ELSE LET Below(n) == n = 0 \/ (2 * n - 1) * (2 * n - 1) <= 4 * x
       IN  CHOOSE n \in 0 .. x : Below(n) /\ (n < x => ~ Below(n + 1))

\* The energy contracts are cvadratic, the others linear.
smoothingFunction(x) == IF kind = "energy" THEN Root(x) ELSE x

depleteUserEnergy(e, now) ==
  IF e.last >= now THEN e.amount ELSE e.amount - Locked * (now - e.last)

\* The power that follows from the source.
PowerOf(v) == smoothingFunction(IF kind = "energy" THEN depleteUserEnergy(v, clock) ELSE Balance[v])

Source == IF kind = "energy" THEN entry ELSE root

----------------------------------------------------------------------------
(* Requests.                                                               *)

Becomes(r, q) == req' = [req EXCEPT ![r] = q]

\* The power of a pulse contract has no key of its own.
Show(r) ==
  /\ req[r].at = "idle"
  /\ Becomes(r, [NoRequest EXCEPT !.goal = "show", !.at = IF kind = "pulse" THEN "source" ELSE "power"])
  /\ UNCHANGED <<chain, queue, busy, remote, local, bounds>>

\* The vote of an energy contract carries no power.
Vote(r) ==
  /\ req[r].at = "idle" /\ kind # "energy"
  /\ Becomes(r, [NoRequest EXCEPT !.goal = "vote", !.at = "source"])
  /\ UNCHANGED <<chain, queue, busy, remote, local, bounds>>

Reading(r) == IF req[r].at = "power" THEN "power" ELSE "source"

\* Defect for OfferSound: the proof is made of the first leaf found, if any.
ProvesAny(v) == TRUE

\* getUserLeaf finds none: the proof is of nothing, and the request fails.
Proves(v) == Balance[v] > 0

\* A vote of no power is refused.
Checked(q, power) ==
  IF power > 0 THEN [q EXCEPT !.at = "proof", !.power = power, !.read = None] ELSE NoRequest

\* The proof comes last, on a token-snapshot contract with the power.
Proven(q, v) ==
  IF Proves(v)
  THEN [q EXCEPT !.at = "done", !.proof = v, !.read = None,
                 !.power = IF kind = "pulse" THEN q.power ELSE Balance[v]]
  ELSE NoRequest

\* The request has v for what it reads.  A power is shown, or needed for the vote.
Got(r, v) ==
  LET q == req[r] IN
  Becomes(r,
    CASE q.at = "power"  -> [q EXCEPT !.at = "done", !.power = v, !.fresh = None]
      [] q.at = "source" /\ q.goal = "show" ->
           IF kind = "pulse" THEN [q EXCEPT !.at = "done", !.power = PowerOf(v), !.read = None]
                             ELSE [q EXCEPT !.at = "power", !.fresh = PowerOf(v), !.read = None]
      [] q.at = "source" /\ q.goal = "vote" /\ kind = "pulse" -> Checked(q, PowerOf(v))
      [] OTHER -> Proven(q, v))

Pending(r) == IF req[r].at = "power" THEN req[r].fresh ELSE req[r].read
Looks(r) == req[r].at \in {"source", "power", "proof"} /\ Pending(r) = None

\* Defect for OffersAccepted: a hit writes the copy back and so gives it a new life.
LocalHitRenews(r) ==
  LET k == Reading(r) IN
  /\ Looks(r) /\ local[k] # None
  /\ remote' = [remote EXCEPT ![k] = local[k]]
  /\ Got(r, local[k])
  /\ UNCHANGED <<chain, queue, busy, local, bounds>>

LocalHit(r) ==
  /\ Looks(r) /\ local[Reading(r)] # None
  /\ Got(r, local[Reading(r)])
  /\ UNCHANGED <<chain, queue, busy, remote, local, bounds>>

RemoteHit(r) ==
  LET k == Reading(r) IN
  /\ Looks(r) /\ local[k] = None /\ remote[k] # None
  /\ local' = [local EXCEPT ![k] = remote[k]]
  /\ Got(r, remote[k])
  /\ UNCHANGED <<chain, queue, busy, remote, bounds>>

\* Neither level has it: the contract is asked for the source, the source for the power.
Miss(r) ==
  LET k == Reading(r) IN
  /\ Looks(r) /\ local[k] = None /\ remote[k] = None
  /\ Becomes(r, IF k = "source" THEN [req[r] EXCEPT !.read = Source]
                                ELSE [req[r] EXCEPT !.at = "source"])
  /\ UNCHANGED <<chain, queue, busy, remote, local, bounds>>

Fill(r) ==
  LET k == Reading(r) IN
  /\ Pending(r) # None
  /\ remote' = [remote EXCEPT ![k] = Pending(r)]
  /\ local' = [local EXCEPT ![k] = Pending(r)]
  /\ Got(r, Pending(r))
  /\ UNCHANGED <<chain, queue, busy, bounds>>

Return(r) ==
  /\ req[r].at = "done"
  /\ Becomes(r, NoRequest)
  /\ UNCHANGED <<chain, queue, busy, remote, local, bounds>>

----------------------------------------------------------------------------
(* The handler of energy events.                                           *)

setEnergyEntryForUser ==
  /\ busy = "idle" /\ queue # <<>>
  /\ remote' = [remote EXCEPT !["source"] = Head(queue)]
  /\ busy' = "delete"
  /\ UNCHANGED <<chain, queue, local, req, bounds>>

\* The power is deleted for every proposal whose cached status is Active.
deleteUserVotingPower ==
  /\ busy = "delete"
  /\ remote' \in {remote, [remote EXCEPT !["power"] = None]}
  /\ busy' = "publish"
  /\ UNCHANGED <<chain, queue, local, req, bounds>>

\* deleteCacheKeys names both keys; a message can be lost.
Publish ==
  /\ busy = "publish"
  /\ local' \in {local, [k \in Keys |-> None]}
  /\ busy' = "idle" /\ queue' = Tail(queue)
  /\ UNCHANGED <<chain, remote, req, bounds>>

HandlerFails ==
  /\ busy # "idle" /\ fails < MaxFails
  /\ fails' = fails + 1 /\ busy' = "idle"
  /\ UNCHANGED <<chain, queue, remote, local, req, updates>>

----------------------------------------------------------------------------
(* The chain, the clock, Redis and the memory.                             *)

SetRoot ==
  /\ kind = "pulse" /\ root + 1 \in Roots
  /\ root' = root + 1
  /\ UNCHANGED <<kind, entry, epoch, clock, queue, busy, remote, local, req, bounds>>

UpdateEnergy ==
  /\ kind = "energy" /\ updates < MaxUpdates
  /\ \E a \in Amounts : entry' = Entry(a, epoch)
  /\ queue' = Append(queue, entry')
  /\ updates' = updates + 1
  /\ UNCHANGED <<kind, root, epoch, clock, busy, remote, local, req, fails>>

NextEpoch ==
  /\ kind = "energy" /\ epoch < MaxEpoch
  /\ epoch' = epoch + 1
  /\ UNCHANGED <<kind, root, entry, clock, queue, busy, remote, local, req, bounds>>

\* Defect for PowerSettles: the epoch is only set when there is none.
TickOnce ==
  /\ clock = 0 /\ clock' = epoch
  /\ UNCHANGED <<kind, root, entry, epoch, queue, busy, remote, local, req, bounds>>

\* The cron sets the epoch, six seconds after it began at the latest.
Tick ==
  /\ clock' = epoch /\ clock # epoch
  /\ UNCHANGED <<kind, root, entry, epoch, queue, busy, remote, local, req, bounds>>

ExpireRemote(k) ==
  /\ remote[k] # None
  /\ remote' = [remote EXCEPT ![k] = None]
  /\ UNCHANGED <<chain, queue, busy, local, req, bounds>>

ExpireLocal(k) ==
  /\ local[k] # None
  /\ local' = [local EXCEPT ![k] = None]
  /\ UNCHANGED <<chain, queue, busy, remote, req, bounds>>

----------------------------------------------------------------------------
Step(r) == LocalHit(r) \/ RemoteHit(r) \/ Miss(r) \/ Fill(r) \/ Return(r)
Handle == setEnergyEntryForUser \/ deleteUserVotingPower \/ Publish \/ HandlerFails

Next ==
  \/ \E r \in Requests : Show(r) \/ Vote(r) \/ Step(r)
  \/ Handle
  \/ SetRoot \/ UpdateEnergy \/ NextEpoch \/ Tick
  \/ \E k \in Keys : ExpireRemote(k) \/ ExpireLocal(k)

Spec == Init /\ [][Next]_vars

\* Awaits end, the cron runs, events are handled, and entries expire unless they are set.
FairSpec ==
  /\ Spec
  /\ \A r \in Requests : WF_vars(Step(r))
  /\ WF_vars(Handle) /\ WF_vars(Tick)
  /\ \A k \in Keys : WF_vars(ExpireRemote(k) \/ (k = "source" /\ setEnergyEntryForUser))
                     /\ WF_vars(ExpireLocal(k))

----------------------------------------------------------------------------
\* A vote is offered only with some power and with the proof of a snapshot that holds the
\* user, and as long as the contract has kept its root the proof is of that very power: two
\* reads of the root can differ only if the owner has set another.
OfferSound ==
  \A r \in Requests : req[r].at = "done" /\ req[r].goal = "vote" =>
    /\ req[r].power > 0 /\ Balance[req[r].proof] > 0
    /\ root = 1 => req[r].power = Balance[req[r].proof]

\* The contract takes the vote: the power and the proof are of its own snapshot.
Accepted(q) == q.proof = root /\ q.power = Balance[root]

\* After a change of the root every vote that is offered is one the contract takes, from some
\* point on: the caches and the requests that read them twice forget the old root.
OffersAccepted ==
  <>[](\A r \in Requests : req[r].at = "done" /\ req[r].goal = "vote" => Accepted(req[r]))

\* The power of the present source in the present epoch.
PowerNow == smoothingFunction(IF kind = "energy" THEN depleteUserEnergy(entry, epoch) ELSE Balance[root])

\* The power that is shown settles at the power there is, whatever the handler and late fills
\* left behind: a power deleted and computed again from an old entry, an entry kept when a
\* message was lost, an epoch read before the cron set it.
PowerSettles ==
  <>[](/\ \A r \in Requests : req[r].at = "done" /\ req[r].goal = "show" => req[r].power = PowerNow
       /\ {remote["power"], local["power"]} \subseteq {None, PowerNow})
=============================================================================
