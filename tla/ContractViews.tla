----------------------------- MODULE ContractViews -----------------------------
(***************************************************************************)
(* What a client is answered about the contracts of governance: which      *)
(* contracts there are, their fields and the fields of their proposals,    *)
(* the transactions it is given to sign, the shares of the votes, the      *)
(* times of a vote, the numbers of polls and ideas, and pages of a list.   *)
(*                                                                         *)
(* A contract is known by its place in the configuration.  Its type        *)
(* chooses a model, a service and an abi service in three switches; only   *)
(* some abi services have a file with the abi of their contract.           *)
(*                                                                         *)
(* Times, numbers and pages take several reads, or several requests, while *)
(* epochs turn and polls and ideas are created and voted.  The requests of *)
(* each kind share nothing with those of another: a behaviour has one kind.*)
(***************************************************************************)
EXTENDS Integers, FiniteSets, SequencesExt

CONSTANTS
  Config,      \* the configuration: contracts by type and smoothing function
  Explicit,    \* requestExplicitContracts
  Unknown,     \* an address that is not configured
  Absent,
  Epoch,       \* epochTime
  Lengths,     \* how long an epoch can last
  Votings,     \* the first and the last epoch of a vote
  MaxEpoch,    \* bound: epochs
  MaxItems,    \* bound: polls of a contract, or its ideas
  MaxVotes,    \* bound: votes of one type
  MaxPower     \* bound: votes for one idea

GovernanceTypes == {"energy", "oldEnergy", "tokenSnapshot", "onChain", "pulse"}

\* On-chain and pulse contracts are configured as linear ones.
ASSUME ConfigAssumption ==
  /\ Config \in Seq([type : GovernanceTypes, smoothing : {"linear", "cvadratic"},
                      address : {Config[i].address : i \in DOMAIN Config}])
  /\ \A i, j \in DOMAIN Config : Config[i].address = Config[j].address => i = j
  /\ \A i \in DOMAIN Config :
       /\ Config[i].address # Unknown
       /\ Config[i].type \in {"onChain", "pulse"} => Config[i].smoothing = "linear"
ASSUME VotingAssumption ==
  /\ Epoch \in Nat \ {0} /\ Lengths \subseteq Nat \ {0}
  /\ \A v \in Votings : v.start \in Nat \ {0} /\ v.end \in Nat /\ v.start <= v.end
ASSUME LimitAssumption == {MaxEpoch, MaxItems, MaxVotes, MaxPower} \subseteq Nat /\ MaxItems > 0

VARIABLES
  kind,     \* ghost: the requests of this behaviour
  answer,   \* the last response
  first,    \* first[e]: the timestamp of the first block of epoch e
  stats,    \* the epoch in the cached statistics
  items,    \* items[c]: polls of pulse contract c, or its ideas
  cached,   \* cached[c]: the cached total of c
  votes,    \* votes[i]: what idea i of the first pulse contract is sorted by
  task,     \* a request that takes several reads
  moved     \* ghost: an epoch turned, or a vote was given, since task began

world == <<first, stats, items, cached, votes>>
viewsVars == <<kind, answer, world, task, moved>>

Addresses == {Config[i].address : i \in DOMAIN Config} \cup {Unknown}
Kinds == {"fields", "transactions", "shares", "times", "numbers", "pages"}

Asks(k) == kind = k /\ UNCHANGED kind

\* The finite set S as a sequence; before is a set of pairs, a strict order on S.
InOrder(S, before) ==
  [p \in 1 .. Cardinality(S) |-> CHOOSE a \in S : Cardinality({b \in S : <<b, a>> \in before}) = p - 1]

\* The contracts at the given places of the configuration.
Contracts(places) ==
  LET order == InOrder(places, {e \in places \X places : e[1] < e[2]})
  IN  [p \in DOMAIN order |-> Config[order[p]].address]

----------------------------------------------------------------------------
(* Types, and what they choose.                                            *)

governanceType(a) ==
  IF a = Unknown THEN "undefined"
  ELSE Config[CHOOSE i \in DOMAIN Config : Config[i].address = a].type

\* governanceConfig[type].linear.includes(a)
InLinear(type, a) == \E i \in DOMAIN Config : Config[i] = [type |-> type, smoothing |-> "linear", address |-> a]

Model(a) == CASE governanceType(a) \in {"energy", "oldEnergy"} -> "GovernanceEnergyContract"
              [] governanceType(a) = "tokenSnapshot" -> "GovernanceTokenSnapshotContract"
              [] governanceType(a) = "onChain" -> "GovernanceOnChainContract"
              [] OTHER -> "GovernancePulseContract"

\* useAbi without the case of the contracts of the old energy.
useAbiNew(a) == IF governanceType(a) \in {"energy", "tokenSnapshot", "onChain"}
                THEN governanceType(a) ELSE "undefined"

useAbi(a) == IF governanceType(a) \in {"energy", "tokenSnapshot", "oldEnergy", "onChain"}
             THEN governanceType(a) ELSE "undefined"

userService(a) == CASE governanceType(a) \in {"energy", "oldEnergy"} -> "energy"
                    [] OTHER -> governanceType(a)

\* A listing with filters; an empty list of contracts filters like any other.
Listed(contracts, model) ==
  Contracts({i \in DOMAIN Config : LET a == Config[i].address IN
    /\ contracts # Absent => a \in contracts
    /\ a \in Explicit => contracts # Absent
    /\ model # Absent => Model(a) = model})

----------------------------------------------------------------------------
(* Methods, and what they read.                                            *)

ConfigReads == {"getAddressShardID", "minFeeForPropose", "quorum", "votingDelayInBlocks",
                "votingPeriodInBlocks", "feeTokenId", "withdrawPercentageDefeated"}
ProposalReads == {"proposals", "proposalVotes", "proposalStatus", "proposalRootHash"}
EnergyReads == {"minEnergyForPropose", "feesCollectorAddress", "energyFactoryAddress"}

\* The reads that are constants for the contracts of the old energy.
Overridden == ConfigReads \cup ProposalReads \cup EnergyReads \cup {"userVotedProposals"}

TokenMethods == ConfigReads \cup ProposalReads \cup {"userVotedProposals", "vote"}
EnergyMethods == TokenMethods \cup EnergyReads
OnChainMethods ==
  ConfigReads \cup ProposalReads \cup
  {"totalOnChainProposals", "userVotingPower", "userVotingPowerDirect",
   "delegateUserVotingPowers", "vote", "createProposal", "closeProposal"}

Methods(abi) == CASE abi = "tokenSnapshot" -> TokenMethods
                  [] abi \in {"energy", "oldEnergy"} -> EnergyMethods
                  [] abi = "onChain" -> OnChainMethods
                  [] OTHER -> {}

\* getGovernanceSmartContract reads the abi of the type from a file.
AbiFiles == {"energy", "tokenSnapshot"}
NeedsFile(abi, m) == \/ abi \in {"energy", "tokenSnapshot"} /\ m # "getAddressShardID"
                     \/ abi = "oldEnergy" /\ m \notin Overridden

Call(abi, m) == IF m \notin Methods(abi) THEN "TypeError"
                ELSE IF NeedsFile(abi, m) /\ abi \notin AbiFiles THEN "no abi"
                ELSE "answer"

\* What the services ask of the abi; on-chain voting powers have 18 decimals.
ServiceReads(service, m) ==
  CASE m = "feeToken" -> {"feeTokenId"}
    [] m = "votingPowerDecimals" -> IF service = "onChain" THEN {} ELSE {"feeTokenId"}
    [] m = "userVotingPower" /\ service = "tokenSnapshot" -> {"proposalRootHash"}
    [] m = "userVotingPower" /\ service = "onChain" -> {"userVotingPower"}
    [] m \in {"userVotingPowerDirect", "excludedAddresses"} -> {"userVotingPowerDirect"}
    [] m = "delegateUserVotingPowers" -> {"delegateUserVotingPowers"}
    [] OTHER -> {}

ServiceMethods(service) ==
  {"feeToken", "votingPowerDecimals", "userVote", "userVotingPower"} \cup
  (IF service = "onChain"
   THEN {"userVotingPowerDirect", "excludedAddresses", "delegateUserVotingPowers"} ELSE {})

Serve(a, m) ==
  LET results == {Call(useAbi(a), r) : r \in ServiceReads(userService(a), m)}
  IN  IF m \notin ServiceMethods(userService(a)) THEN "TypeError"
      ELSE IF results \subseteq {"answer"} THEN "answer"
      ELSE CHOOSE r \in results : r # "answer"

----------------------------------------------------------------------------
(* Fields.                                                                 *)

TokenSnapshotFields == (ConfigReads \ {"feeTokenId"}) \cup {"proposals", "feeToken", "votingPowerDecimals"}

OnChainFields == {"delegateUserVotingPowers", "userVotingPowerDirect", "excludedAddresses"}
ProposalFields == OnChainFields \cup
  {"proposalStatus", "proposalRootHash", "proposalVotes", "userVote", "userVotingPower"}

\* A pulse contract has none of them: its fields are asked of one service.
Fields(model) ==
  CASE model = "GovernanceTokenSnapshotContract" -> TokenSnapshotFields \cup ProposalFields
    [] model = "GovernanceEnergyContract" -> TokenSnapshotFields \cup EnergyReads \cup ProposalFields
    [] model = "GovernanceOnChainContract" -> TokenSnapshotFields \cup {"totalOnChainProposals"} \cup ProposalFields
    [] OTHER -> {}

Field(a, f) ==
  IF f \in OnChainFields /\ ~InLinear("onChain", a) THEN "BadRequest"
  ELSE IF f \in ServiceMethods("onChain") THEN Serve(a, f)
  ELSE Call(useAbi(a), f)

\* The address is one that a listing gave.
AskField ==
  /\ Asks("fields")
  /\ answer = Absent /\ UNCHANGED <<world, task, moved>>
  /\ \E contracts \in (SUBSET Addresses) \cup {Absent}, model \in {Model(a) : a \in Addresses} \cup {Absent} :
       LET listed == Listed(contracts, model) IN
       \/ answer' = [listed |-> listed, contracts |-> contracts, model |-> model]
       \/ \E a \in ToSet(listed) : \E f \in Fields(Model(a)) :
            answer' = [field |-> f, address |-> a, result |-> Field(a, f)]

----------------------------------------------------------------------------
(* Transactions: the address is the one of the request.                    *)

OnChainTransactions == {"allVotes", "createProposal", "closeProposal"}
PulseTransactions == {"createPoll", "endPoll", "votePoll", "createIdea", "voteUpIdea"}

\* Only the on-chain service converts the type of a vote, which can be NotVoted;
\* only a snapshot needs a leaf of the user.
Vote(a, valid, leaf) ==
  CASE useAbi(a) = "onChain" /\ ~valid -> "BadRequest"
    [] useAbi(a) = "tokenSnapshot" /\ ~leaf -> "TypeError"
    [] OTHER -> Call(useAbi(a), "vote")

Transaction(a, t, valid, leaf) ==
  IF \/ t \in OnChainTransactions /\ ~InLinear("onChain", a)
     \/ t \in PulseTransactions /\ ~InLinear("pulse", a) THEN "BadRequest"
  ELSE IF t \in PulseTransactions THEN "answer"
  ELSE IF t \in {"vote", "allVotes"} THEN Vote(a, valid, leaf)
  ELSE Call(useAbi(a), t)

AskTransaction ==
  /\ Asks("transactions")
  /\ answer = Absent /\ UNCHANGED <<world, task, moved>>
  /\ \E a \in Addresses, t \in OnChainTransactions \cup PulseTransactions \cup {"vote"}, valid, leaf \in BOOLEAN :
       answer' = [transaction |-> t, address |-> a, valid |-> valid, leaf |-> leaf,
                  result |-> Transaction(a, t, valid, leaf)]

----------------------------------------------------------------------------
(* Shares of the votes, in hundredths of a percent.  toFixed(2) rounds to  *)
(* the nearest, or down where a library has set so for the whole process.  *)

Types == {"up", "down", "veto", "abstain"}
Total(v) == v["up"] + v["down"] + v["abstain"] + v["veto"]

Share(n, total, nearest) ==
  IF total > 0 THEN (20000 * n + (IF nearest THEN total ELSE 0)) \div (2 * total) ELSE 0

AskShares ==
  /\ Asks("shares")
  /\ answer = Absent /\ UNCHANGED <<world, task, moved>>
  /\ \E v \in [Types -> 0 .. MaxVotes], nearest \in BOOLEAN :
       answer' = [votes |-> v, share |-> [t \in Types |-> Share(v[t], Total(v), nearest)]]

----------------------------------------------------------------------------
(* Times of a vote: a model of a proposal is made with two reads of the    *)
(* statistics.  Their copy lives six seconds, so it is an epoch behind at  *)
(* most, and no two epochs turn while one model is made.                   *)

\* The blocks of the epoch that runs, with the difference to the statistics.
FirstBlockLive(target, current) ==
  IF target <= current THEN first[target] ELSE Last(first) + (target - current) * Epoch

\* A target that has not begun is reckoned from the epoch that has.
FirstBlock(target, current) ==
  IF target <= current THEN first[target] ELSE first[current] + (target - current) * Epoch

Turn ==
  /\ Asks("times")
  /\ Len(first) < MaxEpoch
  /\ task # Absent => ~moved /\ stats = Len(first)
  /\ \E d \in Lengths : first' = Append(first, Last(first) + d)
  /\ stats' = Len(first)
  /\ moved' = (task # Absent)
  /\ UNCHANGED <<answer, items, cached, votes, task>>

RenewStats ==
  /\ Asks("times")
  /\ stats # Len(first)
  /\ stats' = Len(first)
  /\ moved' = (task # Absent)
  /\ UNCHANGED <<answer, first, items, cached, votes, task>>

AskTimes ==
  /\ Asks("times")
  /\ task = Absent
  /\ \E v \in Votings : task' = [voting |-> v, start |-> FirstBlock(v.start, stats)]
  /\ UNCHANGED <<answer, world, moved>>

TellTimes ==
  /\ Asks("times")
  /\ task # Absent
  /\ answer' = [voting |-> task.voting, start |-> task.start,
                end |-> FirstBlock(task.voting.end + 1, stats)]
  /\ task' = Absent /\ moved' = FALSE
  /\ UNCHANGED world

----------------------------------------------------------------------------
(* Numbers of polls, and of ideas, across the pulse contracts.             *)

Pulse == Contracts({i \in DOMAIN Config : InLinear("pulse", Config[i].address)})

Create(c) ==
  /\ kind = "numbers" \/ (kind = "pages" /\ c = 1)
  /\ UNCHANGED kind
  /\ items[c] < MaxItems
  /\ items' = [items EXCEPT ![c] = @ + 1]
  /\ UNCHANGED <<answer, first, stats, cached, votes, task, moved>>

Renew(c) ==
  /\ kind = "numbers" \/ (kind = "pages" /\ c = 1)
  /\ UNCHANGED kind
  /\ cached[c] # items[c]
  /\ cached' = [cached EXCEPT ![c] = items[c]]
  /\ UNCHANGED <<answer, first, stats, items, votes, task, moved>>

\* id is one that a list held.  index: the values the variable of that name takes.
AskNumber(c, id) ==
  /\ Asks("numbers")
  /\ task = Absent /\ id < cached[c]
  /\ task' = [of |-> c, id |-> id, index |-> <<0>>]
  /\ UNCHANGED <<answer, world, moved>>

CountTotal ==
  /\ Asks("numbers")
  /\ task # Absent /\ Len(task.index) < task.of
  /\ task' = [task EXCEPT !.index = Append(task.index, Last(task.index) + cached[Len(task.index)])]
  /\ UNCHANGED <<answer, world, moved>>

Number(t) == Last(t.index) + t.id

\* What the client was told before is kept beside it.
TellNumber ==
  /\ Asks("numbers")
  /\ task # Absent /\ Len(task.index) = task.of
  /\ answer' = [told |-> task, before |-> IF answer = Absent THEN Absent ELSE answer.told]
  /\ task' = Absent
  /\ UNCHANGED <<world, moved>>

----------------------------------------------------------------------------
(* Pages: polls, or ideas in some order; a client asks for one page after  *)
(* the other until one is empty.                                           *)

\* The first place is 0; polls, and ideas that are not sorted, are in order
\* of creation.  Sorting is stable.
Places == 0 .. cached[1] - 1
Below(key) == {e \in Places \X Places : key[e[1]] < key[e[2]] \/ (key[e[1]] = key[e[2]] /\ e[1] < e[2])}
Sorted(key) == InOrder(Places, Below(key))

Key(sort) ==
  CASE sort = "by votes" -> votes
    [] sort = "by votes, descending" -> [i \in Places |-> 0 - votes[i]]
    [] sort = "by time, descending" -> [i \in Places |-> 0 - i]
    [] OTHER -> [i \in Places |-> i]
List(sort) == Sorted(Key(sort))

Sorts == {"polls", "ideas", "by votes", "by votes, descending", "by time, descending"}

\* Absent is not a request for pages.
ASSUME AbsentAssumption ==
  Absent \notin [sort : Sorts, limit : Nat \ {0}, offset : Nat, got : Seq(Nat), had : Nat]

\* The start is not kept from going below the list.
PageUnclamped(list, offset, limit, reversed) ==
  LET start == Len(list) - offset - limit
      end   == Len(list) - offset
      page  == SubSeq(list, start + 1, end)
  IN  IF start < 0 \/ end < 0 THEN <<>> ELSE IF reversed THEN Reverse(page) ELSE page

Page(list, offset, limit, reversed) ==
  LET start == Max({Len(list) - offset - limit, 0})
      end   == Len(list) - offset
      page  == SubSeq(list, start + 1, end)
  IN  IF end < 0 THEN <<>> ELSE IF reversed THEN Reverse(page) ELSE page

GiveVote(i) ==
  /\ Asks("pages")
  /\ i < items[1] /\ votes[i] < MaxPower
  /\ votes' = [votes EXCEPT ![i] = @ + 1]
  /\ moved' = (task # Absent)
  /\ UNCHANGED <<answer, first, stats, items, cached, task>>

AskPage ==
  /\ Asks("pages") /\ UNCHANGED world
  /\ 1 \in DOMAIN Pulse
  /\ \E sort \in Sorts, limit \in 1 .. MaxItems :
       LET of == IF task # Absent THEN task
                 ELSE [sort |-> sort, limit |-> limit, offset |-> 0, got |-> <<>>, had |-> cached[1]]
           page == Page(List(of.sort), of.offset, of.limit, of.sort = "polls")
       IN  IF page # <<>>
           THEN /\ task' = [of EXCEPT !.offset = @ + of.limit, !.got = @ \o page]
                /\ UNCHANGED <<answer, moved>>
           ELSE /\ answer' = [pages |-> of, has |-> cached[1], moved |-> moved]
                /\ task' = Absent /\ moved' = FALSE

----------------------------------------------------------------------------
ViewsInit ==
  /\ kind \in Kinds
  /\ answer = Absent /\ task = Absent /\ moved = FALSE
  /\ first = <<0>> /\ stats = 1
  /\ items = [c \in DOMAIN Pulse |-> 0] /\ cached = items
  /\ votes = [i \in 0 .. MaxItems - 1 |-> 0]

\* Requests that depend on no earlier one are asked one at a time.
Done ==
  /\ kind \in {"fields", "transactions", "shares"} /\ answer # Absent
  /\ answer' = Absent /\ UNCHANGED <<kind, world, task, moved>>

ViewsNext ==
  \/ AskField \/ AskTransaction \/ AskShares \/ Done
  \/ Turn \/ RenewStats \/ AskTimes \/ TellTimes
  \/ \E c \in DOMAIN Pulse : Create(c) \/ Renew(c)
  \/ \E c \in DOMAIN Pulse, id \in 0 .. MaxItems - 1 : AskNumber(c, id)
  \/ CountTotal \/ TellNumber
  \/ AskPage
  \/ \E i \in 0 .. MaxItems - 1 : GiveVote(i)

ViewsSpec == ViewsInit /\ [][ViewsNext]_viewsVars

----------------------------------------------------------------------------
(* Properties.                                                             *)

Near(x, y, distance) == x - y < distance /\ y - x < distance

\* A listing gives every configured contract that its filters let through,
\* once; a contract that is only given on request needs its address.  Every
\* field of what is listed, and of its proposals, is answered, with the one
\* exception of the fields only on-chain proposals have, which are refused:
\* three switches, a list of overrides and a table of files agree.  So no
\* transaction fails inside but for an address without an abi service, the
\* contracts of the old energy, where nothing is voted, and users a snapshot
\* leaves out.
FieldsAnswered ==
  /\ kind = "fields" /\ answer # Absent =>
       IF "listed" \in DOMAIN answer
       THEN /\ IsInjective(answer.listed)
            /\ answer.contracts = Absent /\ answer.model = Absent =>
                 ToSet(answer.listed) = Addresses \ (Explicit \cup {Unknown})
            /\ answer.contracts # Absent /\ answer.model = Absent =>
                 ToSet(answer.listed) = answer.contracts \ {Unknown}
       ELSE answer.result = IF answer.field \in OnChainFields /\ governanceType(answer.address) # "onChain"
                            THEN "BadRequest" ELSE "answer"
  /\ kind = "transactions" /\ answer # Absent =>
       \/ answer.result = "answer"
       \/ /\ answer.result = "BadRequest"
          /\ \/ ~answer.valid /\ answer.transaction \in {"vote", "allVotes"} /\ governanceType(answer.address) = "onChain"
             \/ answer.transaction \in OnChainTransactions /\ governanceType(answer.address) # "onChain"
             \/ answer.transaction \in PulseTransactions /\ governanceType(answer.address) # "pulse"
       \/ /\ answer.transaction = "vote"
          /\ \/ governanceType(answer.address) \in {"undefined", "pulse", "oldEnergy"}
             \/ governanceType(answer.address) = "tokenSnapshot" /\ ~answer.leaf

\* Each share is within a hundredth of a percent of the part it stands for,
\* more votes never have the smaller share, and the four miss the whole by at
\* most three hundredths, however the libraries round.
SharesAddUp ==
  kind = "shares" /\ answer # Absent =>
    LET v == answer.votes
        share == answer.share
        sum == share["up"] + share["down"] + share["veto"] + share["abstain"]
    IN  IF Total(v) = 0 THEN sum = 0
        ELSE /\ \A t \in Types : Near(share[t] * Total(v), 10000 * v[t], Total(v))
             /\ \A t, u \in Types : v[t] >= v[u] => share[t] >= share[u]
             /\ Near(sum, 10000, 4)

\* A client that asks for page after page until one is empty is given every
\* item there was when it began, though the list grows below it, unless it
\* sorts by votes and votes are given; and none twice, unless the list has
\* grown or votes are given.
PagesComplete ==
  kind = "pages" /\ answer # Absent =>
    LET told == answer.pages
        shuffled == answer.moved /\ told.sort \in {"by votes", "by votes, descending"}
    IN  /\ 0 .. told.had - 1 \subseteq ToSet(told.got) \/ shuffled
        /\ IsInjective(told.got) \/ answer.has > told.had \/ shuffled

\* Answers to a request, or to several, agree with each other though totals
\* grow and shares are rounded: see SharesAddUp and PagesComplete.
AnswersAddUp == SharesAddUp /\ PagesComplete

\* The vote on a proposal begins before it ends, though an epoch turns between
\* the two reads of the statistics, and epochs are longer or shorter than
\* their nominal time.
TimesInOrder ==
  kind = "times" /\ answer # Absent => answer.start < answer.end

\* Two polls are told the same number only if one was created after the total
\* of its contract was counted for the other, or a total before both changed.
NumbersDiffer ==
  kind = "numbers" /\ answer # Absent => \/ answer.before = Absent
    \/ LET a == answer.told
           b == answer.before
           Overtaken(x, y) == x.of < y.of /\ x.id >= y.index[x.of + 1] - y.index[x.of]
       IN  \/ Number(a) # Number(b)
           \/ a.of = b.of /\ a.id = b.id
           \/ Overtaken(a, b) \/ Overtaken(b, a)
           \/ \E c \in DOMAIN a.index \cap DOMAIN b.index : a.index[c] # b.index[c]

\* What takes several reads is told as if it had been read at once, but for
\* what was created meanwhile: see TimesInOrder and NumbersDiffer.
ReadsAgree == TimesInOrder /\ NumbersDiffer
=============================================================================
