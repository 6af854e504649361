--------------------------- MODULE GithubProposals ----------------------------
(***************************************************************************)
(* Proposals on GitHub: how one is created, and how they are listed.       *)
(*                                                                         *)
(* GovGithubService.createProposal forks the repository for the user, adds *)
(* a branch named after the time, commits the file of the proposal on it   *)
(* and opens a pull request.  Each call can fail, none is undone.          *)
(*                                                                         *)
(* GithubService keeps a clone, which a cron pulls.  A list is made of the *)
(* log of the clone, of the pull requests that are open after that, and of *)
(* the files in the working tree while the commits are visited; the cron   *)
(* and a request that finds nothing in the cache make lists at once, and   *)
(* the pull goes on below them.                                            *)
(***************************************************************************)
EXTENDS Integers, SequencesExt

CONSTANTS
  Attempts,    \* calls of createProposal, each with a text of its own
  Names,       \* what Date.now() can be: branch and file are named after it
  Listers,     \* who makes lists: the cron, requests
  Cron,        \* fetchGithubBranchUpdates
  Nil,
  PageSize,    \* pull requests on the page that is read
  MaxCommits,  \* bound: commits on the branch of the repository
  MaxFails     \* bound: calls that fail, and crashes

ASSUME ListerAssumption == Cron \notin Listers
ASSUME NameAssumption   == Names \subseteq Nat
ASSUME NilAssumption    == Nil \notin Attempts \cup {"base"}
ASSUME BoundAssumption  == {PageSize, MaxCommits, MaxFails} \subseteq Nat

VARIABLES
  shared,    \* the calls are of one user, or each of another: a user has one fork
  reached,     \* reached[a]: how far the call is
  name,      \* name[a]: branchName
  branch,    \* branch[f][n]: whose text the head of branch n adds, on the fork f
  pulls,     \* the open pull requests, in the order they were opened
  history,   \* the commits of the repository, the first one excepted
  dir,       \* repoPath: "absent", "partial" or "ok"
  tree,      \* commits in the clone
  git,       \* this.git is set
  awaits,    \* awaits[x]: what x awaits, a lister or the cron of the clone
  list,      \* list[l]: results of l
  log,       \* log[l]: commits.all of l, by its length
  pos,       \* pos[l]: commits l has still to visit
  cached,    \* the list in Redis
  since,     \* ghost: since[l]: proposals that are offered since l began
  unread,    \* ghost: unread[l]: pull requests that were open and not read
  fails

calls == <<shared, reached, name, branch>>
upstream == <<pulls, history>>
clone == <<dir, tree, git>>
lists == <<list, log, pos, since, unread>>
githubVars == <<calls, upstream, clone, awaits, lists, cached, fails>>

GithubInit ==
  /\ shared \in BOOLEAN
  /\ reached = [a \in Attempts |-> "start"]
  /\ name = [a \in Attempts |-> Nil]
  /\ branch = [f \in Attempts \cup {"shared"} |-> [n \in Names |-> Nil]]
  /\ pulls = <<>> /\ history = <<>>
  /\ dir = "absent" /\ tree = 0 /\ git = FALSE
  /\ awaits = [x \in Listers \cup {Cron} |-> "idle"]
  /\ list = [l \in Listers |-> <<>>]
  /\ log = [l \in Listers |-> 0] /\ pos = [l \in Listers |-> 0]
  /\ cached = Nil
  /\ since = [l \in Listers |-> {}] /\ unread = [l \in Listers |-> {}]
  /\ fails = 0

----------------------------------------------------------------------------
(* createProposal.                                                         *)

Stage(a, from, to) == reached[a] = from /\ reached' = [reached EXCEPT ![a] = to]
Others == <<clone, awaits, lists, cached>>

forkOwner(a) == IF shared THEN "shared" ELSE a

\* A fork that exists is given again.
Fork(a) ==
  /\ Stage(a, "start", "forked")
  /\ UNCHANGED <<shared, name, branch, upstream, Others, fails>>

\* Date.now(): not before the names that were given.
Now == {n \in Names : \A a \in Attempts : name[a] = Nil \/ name[a] <= n}

\* Defect for PullHoldsProposal: a branch that exists is taken.
TakeBranch(a) ==
  /\ Stage(a, "forked", "branched")
  /\ \E n \in Now : name' = [name EXCEPT ![a] = n]
  /\ UNCHANGED <<shared, branch, upstream, Others, fails>>

\* Ten seconds later the head of the fork is read and the branch made of it: refused if
\* there is one of that name.
CreateBranch(a) ==
  /\ Stage(a, "forked", "branched")
  /\ \E n \in Now :
       /\ branch[forkOwner(a)][n] = Nil
       /\ name' = [name EXCEPT ![a] = n]
       /\ branch' = [branch EXCEPT ![forkOwner(a)][n] = "base"]
  /\ UNCHANGED <<shared, upstream, Others, fails>>

\* The blob, the tree and the commit are objects nobody sees before the branch is forced.
ForceBranch(a) ==
  /\ Stage(a, "branched", "pushed")
  /\ branch' = [branch EXCEPT ![forkOwner(a)][name[a]] = a]
  /\ UNCHANGED <<shared, name, upstream, Others, fails>>

OpenPull(a) ==
  /\ Stage(a, "pushed", "opened")
  /\ pulls' = Append(pulls, a)
  /\ UNCHANGED <<shared, name, branch, history, Others, fails>>

\* The error is thrown; the fork, the branch and the commit stay.
CreateFails(a) ==
  /\ reached[a] \notin {"opened", "failed"} /\ fails < MaxFails
  /\ Stage(a, reached[a], "failed")
  /\ fails' = fails + 1
  /\ UNCHANGED <<shared, name, branch, upstream, Others>>

----------------------------------------------------------------------------
(* The repository.                                                         *)

\* A commit: files of proposals and of rationales that it adds, files that it removes.
Commit(of, hash, adds, drops, notes) ==
  [of |-> of, hash |-> hash, adds |-> adds, drops |-> drops, notes |-> notes]

\* The file n is there after the first k commits.
Exists(n, k) ==
  \E i \in 1 .. k : n \in history[i].adds /\ \A j \in i + 1 .. k : n \notin history[j].drops

Room(k) == Len(history) + k <= MaxCommits

open == ToSet(pulls)

\* The pull request of a, which is open, is closed.
Shut(a) == \E i \in DOMAIN pulls : pulls[i] = a /\ pulls' = RemoveAt(pulls, i)

\* A merge commit is added on top of the commit of the branch, or the branch is squashed.
Merge(a) ==
  LET By(hash) == Commit(a, hash, {name[a]}, {}, {}) IN
  /\ Shut(a) /\ ~ Exists(name[a], Len(history))
  /\ \/ Room(2) /\ history' = history \o <<By("head"), By("merge")>>
     \/ Room(1) /\ history' = Append(history, By("merge"))
  /\ UNCHANGED <<calls, Others, fails>>

\* Whoever lists now may see it or not.
Withdrawn(a) == since' = [l \in Listers |-> since[l] \ {a}]

Close(a) ==
  /\ Shut(a)
  /\ Withdrawn(a)
  /\ UNCHANGED <<calls, history, clone, awaits, list, log, pos, unread, cached, fails>>

Merged(a) ==
  \E i \in DOMAIN history : history[i].of = a /\ \A j \in i + 1 .. Len(history) : name[a] \notin history[j].drops

Drop(a) ==
  /\ Merged(a) /\ Room(1)
  /\ history' = Append(history, Commit(Nil, "drop", {}, {name[a]}, {}))
  /\ Withdrawn(a)
  /\ UNCHANGED <<calls, pulls, clone, awaits, list, log, pos, unread, cached, fails>>

AddRationale(a) ==
  /\ Merged(a) /\ Room(1)
  /\ history' = Append(history, Commit(Nil, "note", {}, {}, {name[a]}))
  /\ UNCHANGED <<calls, pulls, Others, fails>>

----------------------------------------------------------------------------
(* cloneAndCheckout: by the cron, and by a lister that finds no clone.     *)

Await(x, s) == awaits' = [awaits EXCEPT ![x] = s]

\* x has ended; what a lister had read is gone.
Ends(x) ==
  /\ Await(x, "idle")
  /\ list' = [l \in Listers |-> IF l = x THEN <<>> ELSE list[l]]
  /\ log' = [l \in Listers |-> IF l = x THEN 0 ELSE log[l]]
  /\ pos' = [l \in Listers |-> IF l = x THEN 0 ELSE pos[l]]
  /\ since' = [l \in Listers |-> IF l = x THEN {} ELSE since[l]]
  /\ unread' = [l \in Listers |-> IF l = x THEN {} ELSE unread[l]]

Listing == <<calls, upstream>>

\* What follows a clone that is up to date, and one that is not.
After(x)  == IF x = Cron THEN "idle" ELSE "log"

Sync(x) ==
  /\ IF x = Cron THEN awaits[x] = "idle" ELSE awaits[x] = "sync"
  /\ IF dir = "absent" THEN dir' = "partial" /\ Await(x, "clone") /\ UNCHANGED git
                       ELSE git' = TRUE /\ Await(x, "pull") /\ UNCHANGED dir
  /\ UNCHANGED <<Listing, tree, lists, cached, fails>>

\* Defect for MergedListed: what is fetched is not pulled into the working tree.
FetchOnly(x) ==
  /\ awaits[x] = "pull" /\ dir = "ok"
  /\ Await(x, After(x))
  /\ UNCHANGED <<Listing, clone, lists, cached, fails>>

Pull(x) ==
  /\ awaits[x] = "pull" /\ dir = "ok"
  /\ tree' = Len(history)
  /\ Await(x, After(x))
  /\ UNCHANGED <<Listing, dir, git, lists, cached, fails>>

Clone(x) ==
  /\ awaits[x] = "clone"
  /\ dir' = "ok" /\ tree' = Len(history) /\ git' = TRUE
  /\ Await(x, After(x))
  /\ UNCHANGED <<Listing, lists, cached, fails>>

\* Whatever went wrong with a clone that exists, it is cloned over, which is refused: the cron
\* logs the error, a list fails.
CloneOver(x) ==
  /\ awaits[x] = "pull"
  /\ dir = "ok" => fails < MaxFails
  /\ fails' = IF dir = "ok" THEN fails + 1 ELSE fails
  /\ Ends(x)
  /\ UNCHANGED <<Listing, clone, cached>>

\* git removes what it has cloned so far.
CloneFails(x) ==
  /\ awaits[x] = "clone" /\ fails < MaxFails
  /\ fails' = fails + 1
  /\ dir' = "absent"
  /\ Ends(x)
  /\ UNCHANGED <<Listing, tree, git, cached>>

----------------------------------------------------------------------------
(* getGithubProposalsRaw.                                                  *)

Offered == {a \in Attempts : a \in open \/ Merged(a)}

\* The cron starts whenever it is not running, a request when nothing is cached.
Begin(l) ==
  /\ awaits[l] = "idle"
  /\ Await(l, IF git THEN "log" ELSE "sync")
  /\ since' = [since EXCEPT ![l] = Offered]
  /\ UNCHANGED <<Listing, clone, list, log, pos, unread, cached, fails>>

\* checkout and log.
ReadLog(l) ==
  /\ awaits[l] = "log" /\ dir = "ok"
  /\ log' = [log EXCEPT ![l] = tree]
  /\ Await(l, "pulls")
  /\ UNCHANGED <<Listing, clone, list, pos, since, unread, cached, fails>>

\* A proposal in a list: its file, commitHash, whose text, prMerged, and its rationale.
Item(n, hash, a, merged) == [file |-> n, hash |-> hash, of |-> a, merged |-> merged, note |-> FALSE]

\* The commits still to visit, of n that the log has.  Defect for GapExplained: the newest
\* is left out.
VisitButLast(n) == IF n = 0 THEN 0 ELSE n - 1
Visit(n) == n

\* The newest open pull requests; one whose files cannot be read is skipped.
ReadPulls(l) ==
  LET page == SubSeq(Reverse(pulls), 1, IF PageSize < Len(pulls) THEN PageSize ELSE Len(pulls)) IN
  /\ awaits[l] = "pulls"
  /\ \E n \in 0 .. Len(page) : \E places \in [1 .. n -> DOMAIN page] :
       LET read == [i \in 1 .. n |-> page[places[i]]] IN
       /\ \A i, j \in 1 .. n : i < j => places[i] < places[j]
       /\ n < Len(page) => fails < MaxFails
       /\ fails' = IF n = Len(page) THEN fails ELSE fails + 1
       /\ list' = [list EXCEPT ![l] = [i \in 1 .. n |-> Item(name[read[i]], "head", read[i], FALSE)]]
       /\ unread' = [unread EXCEPT ![l] = open \ ToSet(read)]
  /\ pos' = [pos EXCEPT ![l] = Visit(log[l])]
  /\ Await(l, "commits")
  /\ UNCHANGED <<Listing, clone, log, since, cached>>

Files(s) == {s[i].file : i \in DOMAIN s}

\* Defect for ListedOnce: a commit adds its file whether or not it is listed.
AddedAny(c, s) == {n \in c.adds : Exists(n, tree)}

\* The files of commit c that list s gets.
Added(c, s) == {n \in c.adds : n \notin Files(s) /\ Exists(n, tree)}

\* The rationale goes to the first item of its file, if the list has one yet.
Annotated(s, notes) ==
  [i \in DOMAIN s |->
     [s[i] EXCEPT !.note = @ \/ (s[i].file \in notes /\ \A j \in 1 .. i - 1 : s[j].file # s[i].file)]]

\* The commits are visited from the newest to the oldest.
ReadCommit(l) ==
  LET c == history[pos[l]]
      Items(s) == SetToSeq({Item(n, c.hash, c.of, TRUE) : n \in Added(c, s)})
  IN
  /\ awaits[l] = "commits" /\ pos[l] > 0 /\ dir = "ok"
  /\ list' = [list EXCEPT ![l] = Annotated(list[l] \o Items(list[l]), c.notes)]
  /\ pos' = [pos EXCEPT ![l] = pos[l] - 1]
  /\ UNCHANGED <<Listing, clone, awaits, log, since, unread, cached, fails>>

StoreList(l) ==
  /\ awaits[l] = "commits" /\ pos[l] = 0
  /\ cached' = list[l]
  /\ Ends(l)
  /\ UNCHANGED <<Listing, clone, fails>>

\* A command of git fails, or the list of pull requests: so does the list.
ListFails(l) ==
  /\ awaits[l] \in {"log", "pulls", "commits"}
  /\ dir = "ok" => fails < MaxFails
  /\ fails' = IF dir = "ok" THEN fails + 1 ELSE fails
  /\ Ends(l)
  /\ UNCHANGED <<Listing, clone, cached>>

Expire ==
  /\ cached # Nil /\ cached' = Nil
  /\ UNCHANGED <<Listing, clone, awaits, lists, fails>>

\* A restart, on the same disk or on a new one.
Crash ==
  /\ fails < MaxFails /\ fails' = fails + 1
  /\ awaits' = [x \in DOMAIN awaits |-> "idle"] /\ git' = FALSE
  /\ \/ dir' = "absent" /\ tree' = 0
     \/ UNCHANGED <<dir, tree>>
  /\ list' = [l \in Listers |-> <<>>]
  /\ log' = [l \in Listers |-> 0] /\ pos' = [l \in Listers |-> 0]
  /\ since' = [l \in Listers |-> {}] /\ unread' = [l \in Listers |-> {}]
  /\ UNCHANGED <<Listing, cached>>

----------------------------------------------------------------------------
Create(a) == Fork(a) \/ CreateBranch(a) \/ ForceBranch(a) \/ OpenPull(a)
Clones(x) == Sync(x) \/ Pull(x) \/ Clone(x) \/ CloneOver(x) \/ CloneFails(x)
Lists(l)  == Begin(l) \/ ReadLog(l) \/ ReadPulls(l) \/ ReadCommit(l) \/ StoreList(l) \/ ListFails(l)

GithubNext ==
  \/ \E a \in Attempts : Create(a) \/ CreateFails(a) \/ Merge(a) \/ Close(a) \/ Drop(a) \/ AddRationale(a)
  \/ \E x \in Listers \cup {Cron} : Clones(x)
  \/ \E l \in Listers : Lists(l)
  \/ Expire \/ Crash

GithubSpec == GithubInit /\ [][GithubNext]_githubVars

\* The crons fire again and again and their awaits end.
GithubFairSpec ==
  /\ GithubSpec
  /\ WF_githubVars(Clones(Cron))
  /\ \A l \in Listers : WF_githubVars(Lists(l) \/ Clones(l))

----------------------------------------------------------------------------
\* The pull request of a call adds the text of that call: a forced branch never throws away
\* the commit of another call, not even of one that had the same name.
PullHoldsProposal ==
  \A a \in Attempts : reached[a] = "opened" => branch[forkOwner(a)][name[a]] = a

Has(s, a) == \E i \in DOMAIN s : s[i].of = a
Complete(l) == awaits[l] = "commits" /\ pos[l] = 0

\* The lists that are made, and the one that is cached.
Made == {list[l] : l \in {l \in Listers : Complete(l)}} \cup ({cached} \ {Nil})

\* No file is listed as merged and again, although a merge commit and the commit below it both
\* add it; only pull requests of two forks can be listed with one name.
ListedOnce ==
  \A s \in Made : \A i, j \in DOMAIN s : i < j /\ s[i].file = s[j].file => ~ s[j].merged

\* A proposal that is offered from the start of a list to its end is missing only if its pull
\* request was open and not read, if it was merged after the clone was pulled, so that the log
\* lacks it and the pull requests no longer have it, or if an item of the same name hides it.
GapExplained ==
  \A l \in Listers : Complete(l) =>
    \A a \in since[l] :
      \/ Has(list[l], a)
      \/ a \in unread[l]
      \/ a \notin open /\ \A i \in 1 .. log[l] : history[i].of # a
      \/ \E i \in DOMAIN list[l] : list[l][i].file = name[a]

\* Nothing hides the merged proposal a: no open pull request adds the same file.
Visible(a) == Merged(a) /\ \A b \in open : name[b] # name[a]

\* Merged proposals are listed as merged, from some point on, whatever lists were under way:
\* unless a crash has left part of a clone, which nothing removes.
MergedListed ==
  <>[](dir = "ok" /\ cached # Nil =>
         \A a \in Attempts : Visible(a) => \E i \in DOMAIN cached : cached[i].of = a /\ cached[i].merged)
=============================================================================
