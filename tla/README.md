# A TLA+ model of the MultiversX governance service

The service answers GraphQL queries about governance: proposals, their status and tallies, the
votes of a user, for four kinds of contracts (energy, token snapshot, on-chain, pulse). The
contracts hold the truth; almost everything else in `src/src` is caching: what is remembered
where, for how long, and what is done when the chain moves on. The same data is read by
requests, refreshed by crons every six seconds and rewritten by handlers of blockchain events,
in several node processes that share one Redis and agree by pub/sub messages that may be lost.
That is what these modules are about.

## Inventory

Processes (`main.ts` 15-90): public API, private API, cache warmer (crons), events notifier
(RabbitMQ). Each may be on its own or in one node process. Public API and cache warmer listen to
`deleteCacheKeys`; an events notifier on its own does not.

| component | state | operations | what is hard | what makes it correct |
|---|---|---|---|---|
| two-level cache: `caching.decorator`, `generic.getter/setter/abi.service`, `cache.controller` | a Redis entry and a copy per process, each with a ttl | read through, set, delete, message | late fills, lost messages, processes that do not listen | an answer has a bounded age whatever happens |
| vote events: `rabbitmq.consumer`, `governance.handler.service` | queue, `invalidatedKeys`, three cache keys | deliver, write, publish, throw, redeliver | redelivery of half-handled batches, reads of the chain meanwhile | votes are counted; deviations have one cause and end |
| votes of a user: `governance.compute.service` | one list per user and contract | request and handler: read, look up, append, store | lost updates, negative answers cached and renewed | no vote invented; a visible vote stays visible; each becomes visible |
| `PendingExecutor` | map of pending promises | execute, settle, finally | callers between the settling and the finally | one flight per value, order of answers, every call returns |
| on-chain reads: `governance.onchain.abi.service`, `governance.cache.warmer.service`, `context.getter.service` | keys computed from keys, each cached | read, warm | a stale copy of one level stored anew in the next | nothing announced early; the closing is final, and reaches every level |
| views: `governance.abi.service`, `governance.service`, `abi.factory`, the resolvers | none, or several reads of cached totals, statistics and lists | list, field, transaction, shares, times, numbers, pages | switches over the type that must agree; answers put together from reads of different moments | every field of what is listed is answered; what is told at once agrees |
| pulse: `governance.pulse.service`, `pulse.setter.service`, `pulse.cache.warmer.service` | numbers of polls and ideas, items, results; a key for each | read a list, page it, refresh it | numbers, items and results of different moments, late fills | nothing is asked for that does not exist, no page skips an item, lists become complete |
| votes shown: `pulse.compute.service`, `governance.compute.service`, `delegate-governance.service`, `pulse.handler.service`, `governance.onchain.handler.service` | a key per poll, idea, provider and own vote | look up in an index, set on an event, offer the rest | an index and a page that are behind, redelivery, snapshots that arrive late | no vote invented, no power forgotten, a vote is shown in the end |
| voting power: `governance.service`, `energy.service`, `energy.handler.service`, `token-snapshot.merkle.service` | root hash or energy entry, power computed from it | read, set on an event, delete, publish | two reads of the root in one offer; a power computed again from an old entry | an offer carries a power and its proof; the power shown settles |
| GitHub proposals: `github.service`, `github.proposals.cache.warmer` | a git clone, a cached list | clone, pull, log, read | one working tree and one `this.git` for crons and requests | a gap in a list has one of three causes; merged proposals are listed |
| creation of a proposal: `gov-github.service` | GitHub: fork, branch, pull request | ten calls in a row | nothing is undone; the branch is named after the time and then forced | a pull request holds the text of its call |
| guest cache: `guestCaching.middleware`, `cache.warmer.service` | counters of a minute per process, a Redis ranking per minute, responses | count, rank, open, clean up; rank, lock, post, store | counters read after awaits; a ttl set in a second call; runs of the cron that overlap | nothing is ranked or warmed that was not asked for; what stays behind has one cause; responses are fresh |
| remote configuration, tokens | a flag and its copy; metadata renewed by reads | | | not modelled, see below |
| authentication, clients of gateway/API/elastic, resolvers, metrics | none of their own | | | not modelled: I/O or declarations |

`PROJECT.json` has the same list with files and status, and the hazards: the lines where things
can go wrong that a test would hardly reach, with the properties that watch them. A hazard with
no property has a note that says why.

## Modules

Every module is written from the code: one action per handler or per stretch between two
awaits, named after what it does; `PROJECT.json` "map" gives the lines of each definition. The
operators commented "Defect for P" are plausible bugs; substituted for the definition that
follows them, they make P fail. No other definition uses them.

**TwoLevelCache** - one key (operations never relate two keys), its Redis entry, its copies in
memory, a clock. A value is represented by the instant the chain was asked for it, so "stale" is
a number. Tasks are asynchronous calls split at awaits: a read (`LocalHit`, `LocalMiss`,
`RemoteHit`, `RemoteMiss`, `Query`, `Fill`, `Keep`), a refresh (`RawRead`, `SetLocal`,
`SetRemote`, `Publish`), a delete (`DelRemote`, `DelLocal`). `Subscribers` are the processes that
listen. Messages can be lost, processes restart, any await can reject (`Abort`).
**StaleRegister** is what the cache promises without saying how: an answer at most `MaxAge` old.

**VoteEvents** - the tally of one proposal. A tally is a bag of voters; all counters and
percentages are sums over it. The queue holds blocks of votes; the handler writes three keys per
vote, then publishes; an exception or crash at any step puts the message back. API processes read
the tally, from the chain if need be. History variables say what the handler has counted
(`counted`) and which votes a chain read may have seen as well (`exposed`).

**UserVoteTypes** - the list of the votes of one user, written by requests (`Query` looks a vote
up in elastic and appends the answer, NotVoted included) and by the handler, without a lock.

**PendingExecutor** - `execute` split where JavaScript can interleave: `Start`, `Join`,
`Evaluate` (the node answers), `Settle` (the promise settles), `Finish` (the initiator's
`finally`) and `Resume` (the callers that joined).

**OnChainStatus** - one on-chain proposal through Pending, Active, PendingClose, Closed. Four
keys, `proposal`, `epoch`, `status`, `list`, each computed from those before it and each cached in
Redis and in memory. `LocalHit`..`Fill` are a read at any level, `Ask` a request; `Warm`,
`RawRead` and `Set` are the cron, which reads the proposal raw and sets the levels above.

**GuestCache** - the middleware's `use` split at its awaits: `Count` (up to the first one),
`CacheBody`, `Add`, `Open`, `SetTtl`, `Respond`, or `Fail` at any of them; `cacheGuest` likewise:
`RangeCurrent`, `RangePrevious` (which takes the locks), then per query `GetBody`, `Serve` (the
post to the service itself), `Keep`, `Store`, or `WarmEnds`. The clock counts half minutes, so that
a request can cross into the next minute and a response expire within one. A response is the
instant it was computed. History variables: requests counted (`asked`), batches added (`adds`),
minutes whose first request was cut short (`broken`) and minutes with a request that ended
(`cleaned`).

**PulseLists** - the polls or the ideas of a contract: the number `Total` and a key per item. A
request reads the number (`LocalHit`, `RemoteHit`, `Miss`, `ReadTotal`, `Fill`), then an item of
the list (`ReadScore` and, once the options are known, `ReadCount`). The client turns the list into
pages counted from its end (`Turn`, `Slice`). The cron reads the number and item after item
(`Warm`, `Set`). An item is its score, the votes behind the power of an option, and the votes
counted for it.

**ShownVotes** - a user and the channels by which he can vote: polls, his own stake on an on-chain
proposal, and staking providers with a snapshot (`Liquid`) or a contract (`Legacy`). A request is
`Show` (one channel) or `Vote` (all of them, then the offers); it asks an index that `Index` brings
up to date and, for polls, a page of which a vote can `Fall`. The notifier delivers, sets, then
acknowledges, or the message goes back (`Requeue`). `owed` is a history of what `Vote` should offer.

**VotingPower** - the key of the source (root hash, or energy entry) and the key of the power
computed from it. A pulse contract has no key of the second kind and reads the root once more for
the proof. The handler sets the entry, deletes the power, publishes; `Tick` is the cron of the
epoch. `Root` and `depleteUserEnergy` are the arithmetic of the code, negative energies included.

**GithubProposals** - `Fork`, `CreateBranch`, `ForceBranch`, `OpenPull` are createProposal, with
`CreateFails` at any of them; `Merge`, `Close`, `Drop`, `AddRationale` the repository. `Sync`,
`Pull`, `Clone`, `CloneOver`, `CloneFails` are cloneAndCheckout, by the cron of the clone or by a
list; `ReadLog`, `ReadPulls`, `ReadCommit`, `StoreList` make a list, while the clone moves below it.
`pulls` is the order of the open pull requests, `reached` how far a call came. `Crash` keeps the
disk or loses it.

**ContractViews** - the configuration as a sequence of contracts, and per kind of request the
operators of the code: the listing and its filters, which service and which abi a field or a
transaction reaches and what comes of it, shares of votes, times of a vote (`Turn` ends an epoch
between its two reads), numbers of polls across contracts (`CountTotal` reads one total after the
other; a request keeps in `index` the sums it passed), pages of sorted and unsorted lists
(`AskPage`, `GiveVote`). `InOrder` is a finite set as a sequence: listings are places of the
configuration in their order, sorted lists are places of items in the order of `Below`.

How they relate: UserVoteTypes is the detail of the step that VoteEvents takes as one write;
OnChainStatus composes several keys and takes the two levels of one key as TwoLevelCache has
shown them to be, so a `deleteCacheKeys` message is one more way for a copy to disappear
(`ExpireLocal`); PulseLists, ShownVotes and VotingPower do the same. PendingExecutor sits under
every raw read and is transparent to the others. PulseLists says what the totals and lists are
that ContractViews takes as cached values; VotingPower says which power a transaction carries that
ContractViews routes, ShownVotes whether it is offered. GuestCache sits in front of all of them: it
caches whole responses, and its age bound adds to theirs.

MC modules only give constants their values and symmetry.

## Runs

| run | asks | bounds |
|---|---|---|
| `two_level_cache` | How old can an answer be? `BoundedAge`: (RemoteTtl-1)+(LocalTtl-1)+2 MaxStep. `ImplementsRegister`: refinement of StaleRegister | 2 processes, 1 of them listening, 1 task each, ttls 3 and 2, clock to 6: both ttls run out one after the other within the clock |
| `vote_events` | Is every deviation of the cached tally explained (`TallyExact`), is none beyond reason (`NoInventedVotes`), is no written key forgotten (`AnnouncedOrRedelivered`)? Does the tally end up right (`EveryVoteCounted`, `Converges`)? | 2 voters in one block or two, 1 API process, 1 failure: a batch can fail at its second event |
| `user_votes` | `NoInvention`, `HealedStaysHealed`: do overlapping writers corrupt the list? | 2 requests, the handler, 2 proposals, a vote on one, 1 failure |
| `user_votes_live` | `Heals`: does a cached NotVoted disappear? | same, no failure |
| `pending_executor` | `SingleFlight`, `NoStaleEntry`, `AnswersInOrder`, `EveryCallReturns` | 3 calls (initiator, joiner, late comer), 2 values, 2 changes of the chain |
| `onchain_status` | `NotAhead`, `SettledStays`: is nothing announced early or taken back? `Settles`: does the closing reach every level? | 1 request and the cron in one process, from the end of the vote on: the closing is the change that must not be early, be taken back or be lost; from the last epoch of the vote on the safety part was checked by hand |
| `guest_cache` | `RankedAsAsked`, `WarmedIsAsked`, `NoTtlExplained`, `KeptAfterSilence`, `FreshResponses`, `ResponsesAdvance` | 2 requests at a time and 4 in all, 2 overlapping runs, 1 query, batches of 2 and threshold 4 (two full batches), two changes of minute, a ranking's ttl of 3 half minutes and a response's of 2 |
| `pulse_lists` | `AsksForExisting`, `CountsBehindScores`, `PagesSkipNothing`: what can a reader see while the cron and late fills write? `EveryItemListed`: does the list become complete? | 1 client, the cron, 2 items with one vote on the first, threshold 2, pages of 1: a client needs two pages and an empty one |
| `shown_votes` | `NoInventedVote`, `NothingForgotten`, `EveryVoteShown` | a poll, a provider with a snapshot, own stake, 1 request, 1 vote, 1 failure |
| `voting_power` | `OfferSound`, `OffersAccepted`, `PowerSettles` | 2 requests; a pulse, a token-snapshot and an energy contract; 3 roots, the second without the user; 2 epochs, 1 update, 1 failure |
| `github_proposals` | `PullHoldsProposal`, `ListedOnce`, `GapExplained`, `MergedListed` | 2 calls of one user or two, 2 names, 1 list at a time and the cron of the clone, a page of 1, 3 commits, 1 failure |
| `contract_views` | `FieldsAnswered`, `AnswersAddUp`, `ReadsAgree` | a contract of every type and three of pulse; votes 0..6 of each type; 4 epochs of lengths 1, 4, 7 where 4 is nominal; 3 items |

Smallest bounds at which the overlaps of interest occur; larger ones were tried by hand and pass:
`vote_events` with 2 API processes (5.6 million states), `user_votes` with 2 API processes (0.9
million), `guest_cache` with 2 processes and 3 requests but no cron (0.6 million), `pulse_lists` with a
threshold of 1, which cuts the list. The theorems below remove the bounds for the safety properties.

`TwoLevelCache` and `VoteEvents` stop at the end of their bounded histories, hence
`CHECK_DEADLOCK FALSE`, and so do `GuestCache` when its clock and its requests run out, and
`ShownVotes` and `VotingPower` in the same way; the others never stop. The type invariants
(`TypeOK`) are theorems and are not run again.

### What the runs show about the code

- The ttls of `cache.ttl.info.ts` do not bound the age of an answer one by one but as a sum: a
  process may take a Redis entry at the end of its life and keep it for a whole local life. The
  messages shorten this and are never needed for the bound.
- The tally in Redis differs from what the handler counted only for votes that a chain read saw
  before their event was handled, or whose message was delivered again. It is corrected when the
  entry expires after the voting, not before.
- A NotVoted cached too early is renewed each time the list is stored for another proposal. It
  disappears because each list that carries it is longer than the one before, so the chain of
  renewals is as long as the list of proposals at most.
- A stale status survives its ttl by at most one more life per level above.
- A batch of guest queries may count for less than its size, since the counter is read after an
  await, but never for nothing, and no ranking exceeds the requests made.
- A ranking of a minute lives in Redis for ever if the first request of that minute fails between
  creating it and setting its ttl and no other process opens it as well. Counters of a minute
  stay in memory for ever if no request of the next minute comes to its end.
- A failed post of the warmer is not stored only because the length of `data`, undefined then, is
  taken for a log line and throws. The lock, not the schedule, keeps the responses in order.
- A pulse list names only items that exist because every number that is stored was the chain's at
  some time; a page can be given twice but none is skipped, unless a late fill brings back an older
  and shorter list. A poll result may show votes whose power is not in it yet, never the reverse.
- The call vote may offer a power twice (the second transaction is refused by the contract) but
  forgets none. A vote on a poll disappears again when it falls off the page that is read.
- As long as the owner of a pulse contract keeps the root, power and proof of an offer agree; in
  the moment of a change they may be of two snapshots, and such offers end with the entries.
- Two calls of one user in the same millisecond cannot mix their texts, since the second is refused
  at its branch and the first one forces only its own.
- A proposal merged between the log and the pull requests is in neither, until the next list. Part
  of a clone left by a crash is never removed: every pull fails and every clone over it is refused.
- Rounded shares miss 100 by 0.03 at most. Two polls get one number only if totals changed between
  the two answers or one was created in between. A field of a contract that is listed is always
  answered, also for the old energy, which has no abi file: an override stands before each read.
  A vote for such a contract, for pulse or for an unknown address fails inside (TypeError, no abi)
  instead of with a refusal.

## Fairness

- Awaits end: WF on the steps of a task. In the modules with live runs every client has a timeout, and an error ends the await
  as well (`Fail` is part of the fair action where it can happen for ever).
- Entries expire. In VoteEvents only vote events renew an entry and they are finitely many, so
  WF on expiry. Elsewhere an entry can be written anew before it expires, and the fair action is
  "it expires or is written": in UserVoteTypes a request stores a longer list than it read, in
  OnChainStatus the cron sets what it computed. That this is enough is part of what the live runs
  show.
- `Settle` of PendingExecutor is strongly fair: other callers enable and disable it by starting
  drains of the microtask queue, and the event loop takes the answer between two of them.
- In VotingPower the epoch's cron and the energy handler run; in ShownVotes the index learns of
  every vote, events are handled, entries expire unless set anew; in GithubProposals both crons fire
  again and their awaits end. In PulseLists the cron may never run, and if it does its awaits end.
- No other fairness for crons, pub/sub messages, requests, votes, blocks or crashes. `Settles` holds
  although `warmOnChainGovernance` may never run.

## Proofs

Checked by TLAPS for every value of the constants, under the named assumptions of the modules
(which TLC evaluates in the runs): positive ttls; the handler's process is not an API process;
the cron is not a request; every task has a process; a guest request lasts less than the ttl of
a ranking by more than one step (`AwaitAssumption`); a configuration has each address once, and
its on-chain and pulse contracts as linear ones (`ConfigAssumption`), as `src/config` has it; epochs
and their nominal time are not zero, and no vote ends before the epoch it starts in
(`VotingAssumption`).

Every safety property that a run checks is a theorem, action properties and the refinement included.

| module | about | theorems | inductive invariant, and why it is needed |
|---|---|---|---|
| `ContractReads_proofs` | TwoLevelCache | `TypeCorrect`, `BoundedAgeHolds`, `CacheImplementsRegister` | `AgeInv`: ages of Redis entries, copies and values in flight. An entry may not outlive the instant its value was obtained by more than its ttl and one step; a copy's bound uses the bound of the Redis entry it came from, so the parts are proved together |
| | PendingExecutor | `ExecutorTypeCorrect`, `SingleFlightHolds`, `NoStaleEntryHolds`, `WaitingHolds`, `AnswersInOrderHolds` | `ExecutorInv`: the map and the initiators correspond one to one; a call that waits joined an execution that has not settled (`Waiting`, the safety half of `EveryCallReturns`); pending reads are not older than the last answer of their value |
| | ContractViews | `FieldsAnsweredHolds`, `AnswersAddUpHolds`, `ReadsAgreeHolds` | one per kind of request, below |
| `VoteEvents_proofs` | VoteEvents | `TypeCorrect`, `NoInventedVotesHolds`, `TallyExactHolds`, `AnnouncedOrRedeliveredHolds` | the tallies in flight obey what the stored ones do; a read in progress has put every voter it may double-count in `exposed`; the keys pushed belong to the head message |
| `UserVoteTypes_proofs` | UserVoteTypes | `TypeCorrect`, `NoInventionHolds`, `HealedStaysHealedHolds` | events in the queue are of cast votes; every new list is derived from an existing one by adding what elastic or the chain says |
| `GuestCache_proofs` | GuestCache | `TypeCorrect`, `KeptAfterSilenceHolds`, `NoTtlExplainedHolds`, `FreshResponsesHold`, `ResponsesAdvanceHolds`, `RankedAsAskedHolds`, `WarmedIsAskedHolds` | `HandledInv`: while a counter or a request of a minute is left, its ranking has a ttl, is about to get it or is known to lack it, or the minute is over by more than any request can last; a late request would otherwise create it anew. `ResponseInv`: one run at a time has a query, and what it carries is newer than what is stored. `LedgerInv`, `AddedInv`, `AskedInv`: below |
| `Proposals_proofs` | GithubProposals | `GithubTypeCorrect`, `BranchesOwned`, `PullHoldsProposalHolds`, `ListedOnceHolds`, `GapExplainedHolds` | `GithubInv`, below |
| | OnChainStatus | `TypeCorrect`, `NotAheadHolds`, `SettledStaysHolds` | one lemma (`Carried`): sets of values, one per key, that are closed under the computations from level to level contain the next values if they contain the present ones. `NotAhead` takes the past phases, `SettledStays` {None, Closed} for the settled levels |
| `PulseLists_proofs` | PulseLists | `TypeCorrect`, `AsksForExistingHolds`, `CountsBehindScoresHolds`, `PagesSkipNothingHolds` | every number kept or in flight is at most the chain's (`Behind`), so a list of it names items that exist; a part of a result in flight is ordered, and the chain's votes come after both (`Counted`), which makes a late count safe. `PageInv`: what was there at first, and lies at or above the place the next page ends at, has been seen |
| `ShownVotes_proofs` | ShownVotes | `TypeCorrect`, `NoInventedVoteHolds`, `NothingForgottenHolds` | the index, the queue and both levels know only votes that were cast (`Known`), and so does an answer on its way (`Held`); what is owed has not voted and is offered or still to be read (`Owed`): a read that answers "voted" cannot be of it |
| `VotingPower_proofs` | VotingPower | `OfferSoundHolds`, `PowersKnownHolds` | `OfferInv`: while the root is the first one, every root that is stored or carried is that one (`StoreFirst`), since nothing but the owner replaces it; a vote whose power was read from it has the power of that snapshot, until its proof is checked (`RequestsSound`). `KnownInv`: every source and power stored or carried is one the chain has had, whose set only grows |

The longer arguments:

- *Counters of guest queries.* A request is counted in one place: in a counter, in a full batch on
  its way, or in the ranking. `Ledger` says that the three add up to no more than was asked; it counts
  sets of units instead of summing over processes, since a sum would need an induction. `AddedInv`
  says that a batch on its way is worth one request at least, since its counter is not reset before it
  is read, and `AskedInv` that whatever a run or a store holds was asked often enough.
- *GitHub proposals.* A call owns its branch from its creation on (`BranchInv`), so what it forces is
  its own. A pull request is open once (`PullsInv`). Between two commits that add a name the
  history has one that drops it (`HistoryInv`), so a list that goes through the log meets each file once as
  merged (`OnceInv`). Half-way through a log, what a list lacks is still to be visited, in no commit of
  the clone, or hidden by an item of its name (`GapInv`); at the end of the log that is the property.
- *Fields and transactions.* No state is involved, only the three switches, the overrides and the
  table of files. `SettingsFacts` derives from `ConfigAssumption` that the type of an address is the one
  it is listed under; `CallsAnswered` goes through the reads of each abi service.
- *Pages.* `InOrderFacts`: `InOrder(S, R)` has each member of S once, and a member's place is the number
  of those before it; this is a bijection between a finite set and its ranks, proved from the
  cardinality theorems. `Behind` counts the items after one, so a page of a list is the items whose count lies
  in an interval (`PageFacts`) and `BehindGrows` says that an item never comes closer to the end while
  items are created. `PagesInv` then is: all items there were with a count below the offset have been given.
- *Shares.* `ShareFacts` bounds the rounded quotient on both sides by the remainder of the division, for
  each of the two roundings; four such bounds give the sum.
- *Times.* `TimesInv`: the epochs begin one after the other and the statistics are at most one epoch behind
  while a vote is told; a start reckoned from old statistics is below the end reckoned from new ones.
- *Numbers.* `NumbersInv`: the sums a request keeps never fall, so two numbers of polls of different
  contracts can only meet if the id is beyond the total that was counted, or a sum below differs.

Only model-checked: the liveness properties (`EveryVoteCounted`, `Converges`, `Heals`, `EveryCallReturns`,
`Settles`, `EveryItemListed`, `EveryVoteShown`, `OffersAccepted`, `PowerSettles`, `MergedListed`), since the
prover does not do fairness. The theorems are about the model without its bounds or with any value
of them; TLC checks the same properties on the runs, where the operators that the proofs take from
their definitions are computed.

## Abstractions

- Values: instants, versions, bags of voters, phases. Formatting, big-number arithmetic and JSON
  are left out; copies in memory are separate values because the cache serialises them.
- TwoLevelCache: `MaxStep` bounds the time between obtaining a value and storing it. The code has
  no such bound of its own, it is the timeout of a call to Redis or a stall of the event loop.
- VoteEvents: votes arrive once each from the chain; the handler of the energy contracts and the
  four counters are one tally.
- UserVoteTypes: the list is a function from proposals; its order is never used.
- OnChainStatus: one proposal, closed for good; Succeeded and Defeated are one phase, an epoch is
  the phase it means. The key of the tally, the configuration and the other fields of the list
  are left out; `cacheCurrentEpoch` is one more way to read and fill the epoch.

- GuestCache: a query is its md5 and whether its body is still cached is a free choice. One
  process runs the cron. A request ends, and a computed response reaches Redis, within `MaxAwait`;
  the post itself has no timeout in the code and none in the model. `MaxTime` and `MaxAsked`
  bound the clock and the requests for TLC only. What a response says is not modelled.
- PulseLists: polls and ideas are one module, since their code is the same twice; a score stands for
  the power of an option, and the number of votes for both. `MaxItems`, `MaxVotes`, `Voted` are bounds.
- ShownVotes: one user, one proposal; powers are there or not, amounts are not told apart. The
  message that follows a set is a copy that disappears.
- VotingPower: one user, one contract. Snapshots are a table of balances, a proof is the number of
  its snapshot. `Tick` is immediate and the energy is linear in epochs, as in the code.
- GithubProposals: texts are the calls that made them; a file is the name of its branch. Blob, tree
  and commit are one step, as nobody sees them before the branch is forced. The log has the commits
  that touch files of proposals and rationales.
- ContractViews: an answer is the way it ends (answer, refusal, TypeError, no abi). Kinds of requests
  share no state and a behaviour has one of them. Shares are in hundredths of a percent. `Absent` is
  an undefined argument or no answer. `index` keeps each value of the variable of that name, though the
  code keeps the last: the property compares the sums below a contract. `MaxEpoch`, `MaxItems`,
  `MaxVotes` and `MaxPower` are bounds.

## Not modelled

- Remote configuration and flags: one flag with a fallback, on which nothing modelled depends.
- Tokens: metadata that do not change. Authentication, metrics, logging: no state of their own.
- Clients of the gateway, the API and elastic: an answer or a rejection where they are used, and the
  abi files by type.
- `cacheGovernanceStatuses` of the energy and token-snapshot contracts, the keys of the on-chain
  votes and configuration, decoding of answers and of descriptions, the map of status names, and
  declarations of GraphQL models. The first two repeat the pattern of OnChainStatus with other keys.

## Plan

Done: all the modules above, and theorems for all their safety properties. Left, in this order:

1. More safety halves of the liveness properties, as `Waiting` is one: which entry hides a vote, what
   a level that has not settled still holds, and for how long.
2. An abstract register for PendingExecutor, as StaleRegister is for the cache above it: how old an
   answer to a call that joined can be.
3. OnChainStatus extended by the keys of the tally and the configuration, and
   `cacheGovernanceStatuses`; a common statement of staleness across levels (`Settles` with numbers,
   from `BoundedAge`).
