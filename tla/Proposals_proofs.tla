--------------------------- MODULE Proposals_proofs ---------------------------
(***************************************************************************)
(* Proofs about GithubProposals and OnChainStatus: a proposal before and   *)
(* after it is on the chain.                                               *)
(*                                                                         *)
(* GithubProposals: for any calls, names, listers and bounds.  GithubInv   *)
(* is inductive: a call owns its branch (BranchInv), pull requests are     *)
(* open once (PullsInv), the history knows each merged file until it is    *)
(* dropped (HistoryInv), and what a list lacks half-way is explained by    *)
(* what is left to visit (GapInv).                                         *)
(*                                                                         *)
(* OnChainStatus: for any requests, processes and placement of the tasks,  *)
(* from any phase.  One lemma carries them.  S[k] is a set of values for   *)
(* each key; if it is closed under the way one level is computed from      *)
(* another (Closure) and all the values of the present state are in it     *)
(* (Fits), then so are those of the next state.  NotAhead and each level   *)
(* of SettledStays choose S.                                               *)
(***************************************************************************)
EXTENDS OnChainStatus, GithubProposals, SequenceTheorems, FiniteSetTheorems, TLAPS

----------------------------------------------------------------------------
(* The inductive invariant of GithubProposals.                             *)

Reaches == {"start", "forked", "branched", "pushed", "opened", "failed"}
Awaiting == {"idle", "sync", "clone", "pull", "log", "pulls", "commits"}
FileNames == Names \cup {Nil}
Hashes == {"head", "merge", "drop", "note"}
Commits == [of : Attempts \cup {Nil}, hash : Hashes, adds : SUBSET FileNames,
            drops : SUBSET FileNames, notes : SUBSET FileNames]
ListItems == [file : FileNames, hash : Hashes, of : Attempts \cup {Nil}, merged : BOOLEAN, note : BOOLEAN]

CallsTyped ==
  /\ reached \in [Attempts -> Reaches]
  /\ name \in [Attempts -> FileNames]
  /\ branch \in [Attempts \cup {"shared"} -> [Names -> Attempts \cup {"base", Nil}]]

ListsTyped ==
  /\ awaits \in [Listers \cup {Cron} -> Awaiting]
  /\ list \in [Listers -> Seq(ListItems)] /\ cached \in Seq(ListItems) \cup {Nil}
  /\ log \in [Listers -> Nat] /\ pos \in [Listers -> Nat]
  /\ since \in [Listers -> SUBSET Attempts] /\ unread \in [Listers -> SUBSET Attempts]

\* A call owns its branch from the moment it has made it.
Held(a) == reached[a] \in {"branched", "pushed", "opened"}
BranchInv ==
  /\ \A a \in Attempts : Held(a) => name[a] \in Names /\ branch[forkOwner(a)][name[a]] # Nil
  /\ \A a, b \in Attempts :
       Held(a) /\ Held(b) /\ forkOwner(a) = forkOwner(b) /\ name[a] = name[b] => a = b
  /\ \A a \in Attempts : reached[a] \in {"pushed", "opened"} => branch[forkOwner(a)][name[a]] = a

\* A call has at most one open pull request.
PullsInv ==
  /\ pulls \in Seq(Attempts)
  /\ \A i \in DOMAIN pulls : reached[pulls[i]] = "opened"
  /\ \A i, j \in DOMAIN pulls : pulls[i] = pulls[j] => i = j

\* A commit adds the file of a call whose pull request was merged, or it adds none.
CommitSound(c) ==
  \/ c.of = Nil /\ c.adds = {}
  \/ /\ c.of \in Attempts /\ reached[c.of] = "opened" /\ c.of \notin open
     /\ c.adds = {name[c.of]} /\ c.drops = {}

\* The commits of one call are not parted by the removal of its file; those of two calls of
\* one name are.
HistoryInv ==
  /\ history \in Seq(Commits)
  /\ \A i \in DOMAIN history : CommitSound(history[i])
  /\ \A i, j \in DOMAIN history :
       i < j /\ history[i].of # Nil /\ history[i].of = history[j].of =>
         \A k \in i + 1 .. j : name[history[i].of] \notin history[k].drops
  /\ \A i, j \in DOMAIN history :
       /\ i < j /\ history[i].of # Nil /\ history[j].of # Nil
       /\ history[i].of # history[j].of /\ name[history[i].of] = name[history[j].of]
       => \E k \in i + 1 .. j : name[history[i].of] \in history[k].drops

\* A log that is visited is of commits that are in the clone.
CloneInv ==
  /\ tree \in Nat /\ tree <= Len(history)
  /\ \A l \in Listers : log[l] <= tree /\ pos[l] <= log[l]

\* No item follows one of its file as merged.
Once(s) == \A i, j \in DOMAIN s : i < j /\ s[i].file = s[j].file => ~ s[j].merged
OnceInv == (\A l \in Listers : Once(list[l])) /\ (cached # Nil => Once(cached))

\* What was offered when a list began, and was not withdrawn, is offered.
SinceInv == \A l \in Listers : \A a \in since[l] : a \in open \/ Merged(a)

\* While the commits are visited, a merged proposal that is missing is not hidden only if its
\* commits are still to visit, or are not in the log.
Hidden(s, a) == \E i \in DOMAIN s : s[i].file = name[a]
GapInv ==
  \A l \in Listers : awaits[l] = "commits" =>
    \A a \in since[l] :
      \/ Has(list[l], a)
      \/ a \in unread[l]
      \/ a \notin open /\ \A i \in pos[l] + 1 .. log[l] : history[i].of # a
      \/ Hidden(list[l], a)

GithubInv ==
  /\ CallsTyped /\ ListsTyped /\ BranchInv /\ PullsInv /\ HistoryInv
  /\ CloneInv /\ OnceInv /\ SinceInv /\ GapInv

----------------------------------------------------------------------------
(* Sequences.                                                              *)

\* The sequence of a finite set lists each of its members once.
LEMMA SetToSeqFacts ==
  ASSUME NEW S, IsFiniteSet(S)
  PROVE  LET s == SetToSeq(S) IN
         /\ s \in Seq(S)
         /\ \A x \in S : \E i \in DOMAIN s : s[i] = x
         /\ \A i, j \in DOMAIN s : s[i] = s[j] => i = j
<1> DEFINE n == Cardinality(S)
           s == SetToSeq(S)
<1>1. n \in Nat /\ ExistsBijection(1 .. n, S)  BY FS_CardinalityType
<1>2. PICK f : f \in Bijection(1 .. n, S)  BY <1>1 DEF ExistsBijection
<1>3. f \in [1 .. n -> S] /\ IsInjective(f)
  BY <1>2 DEF Bijection, Injection
<1>4. s \in [1 .. n -> S] /\ IsInjective(s)  BY <1>3 DEF SetToSeq
<1> HIDE DEF n, s
<1>5. s \in Injection(1 .. n, S)  BY <1>4 DEF Injection
<1>6. IsFiniteSet(1 .. n) /\ Cardinality(1 .. n) = n  BY <1>1, FS_Interval
<1>7. s \in Surjection(1 .. n, S)  BY <1>5, <1>6, FS_Injection DEF n
<1>8. \A x \in S : \E i \in 1 .. n : s[i] = x  BY <1>7 DEF Surjection
<1>9. DOMAIN s = 1 .. n /\ s \in Seq(S)  BY <1>1, <1>4
<1> QED  BY <1>4, <1>8, <1>9 DEF IsInjective, s

\* RemoveAt closes the gap it leaves.
LEMMA RemoveAtFacts ==
  ASSUME NEW T, NEW s \in Seq(T), NEW i \in DOMAIN s
  PROVE  LET t == RemoveAt(s, i) IN
         /\ t \in Seq(T) /\ DOMAIN t = 1 .. Len(s) - 1
         /\ \A j \in 1 .. Len(s) - 1 : t[j] = IF j < i THEN s[j] ELSE s[j + 1]
<1> DEFINE a == SubSeq(s, 1, i - 1)
           b == SubSeq(s, i + 1, Len(s))
           t == RemoveAt(s, i)
<1>1. Len(s) \in Nat /\ i \in 1 .. Len(s) /\ DOMAIN s = 1 .. Len(s)  OBVIOUS
<1>2. a \in Seq(T) /\ Len(a) = i - 1 /\ \A j \in 1 .. i - 1 : a[j] = s[j]
  BY <1>1
<1>3. b \in Seq(T) /\ Len(b) = Len(s) - i /\ \A j \in 1 .. Len(s) - i : b[j] = s[i + j]
  BY <1>1
<1>4. t = a \o b  BY DEF RemoveAt
<1> HIDE DEF a, b, t
<1>5. t \in Seq(T) /\ Len(t) = Len(a) + Len(b)
      /\ \A j \in 1 .. Len(a) + Len(b) : t[j] = IF j <= Len(a) THEN a[j] ELSE b[j - Len(a)]
  BY <1>2, <1>3, <1>4, ConcatProperties, Zenon
<1>6. Len(t) = Len(s) - 1 /\ DOMAIN t = 1 .. Len(t)  BY <1>1, <1>2, <1>3, <1>5
<1>7. ASSUME NEW j \in 1 .. Len(s) - 1 PROVE t[j] = IF j < i THEN s[j] ELSE s[j + 1]
  <2>1. t[j] = IF j <= i - 1 THEN a[j] ELSE b[j - (i - 1)]  BY <1>1, <1>2, <1>3, <1>5
  <2>2. CASE j < i  BY <1>1, <1>2, <2>1, <2>2
  <2>3. CASE j >= i
    <3>1. j - (i - 1) \in 1 .. Len(s) - i /\ i + (j - (i - 1)) = j + 1  BY <1>1, <2>3
    <3>2. b[j - (i - 1)] = s[j + 1]  BY <1>3, <3>1
    <3> QED  BY <1>1, <2>1, <2>3, <3>2
  <2> QED  BY <1>1, <2>2, <2>3
<1> QED  BY <1>5, <1>6, <1>7 DEF t
----------------------------------------------------------------------------
(* What a call does to its own.                                            *)

LEMMA OpenFacts == PullsInv => open \subseteq Attempts /\ \A a \in open : reached[a] = "opened"
  BY DEF PullsInv, open, ToSet

\* A proposal that was offered when a list began has a pull request.
LEMMA SinceOpened ==
  ASSUME GithubInv, NEW l \in Listers, NEW a \in since[l]
  PROVE  a \in Attempts /\ reached[a] = "opened"
<1>1. a \in Attempts  BY DEF GithubInv, ListsTyped
<1>2. CASE a \in open  BY <1>1, <1>2, OpenFacts DEF GithubInv
<1>3. CASE Merged(a)
  <2>1. PICK i \in DOMAIN history : history[i].of = a  BY <1>3 DEF Merged
  <2> QED  BY <1>1, <2>1, NilAssumption DEF GithubInv, HistoryInv, CommitSound
<1> QED  BY <1>2, <1>3 DEF GithubInv, SinceInv

\* Calls go on: what is opened stays as it is.
LEMMA CallFrame ==
  ASSUME GithubInv, UNCHANGED <<history, Others>>,
         \A a \in Attempts : reached[a] = "opened" => reached'[a] = "opened" /\ name'[a] = name[a],
         open \subseteq open', \A a \in open' : a \in open \/ reached[a] # "opened"
  PROVE  ListsTyped' /\ HistoryInv' /\ CloneInv' /\ OnceInv' /\ SinceInv' /\ GapInv'
<1>1. UNCHANGED <<history, tree, awaits, list, log, pos, since, unread, cached>>
  BY DEF Others, clone, lists
<1>2. ListsTyped' /\ CloneInv' /\ OnceInv'
  BY <1>1 DEF GithubInv, ListsTyped, CloneInv, OnceInv, Once
<1>3. \A i \in DOMAIN history : history[i].of # Nil =>
        /\ history[i].of \in Attempts /\ reached[history[i].of] = "opened"
        /\ name'[history[i].of] = name[history[i].of]
  BY DEF GithubInv, HistoryInv, CommitSound
<1>4. HistoryInv'
  <2>1. ASSUME NEW i \in DOMAIN history PROVE CommitSound(history[i])'
    BY <1>1, <1>3 DEF GithubInv, HistoryInv, CommitSound
  <2> QED  BY <1>1, <1>3, <2>1 DEF GithubInv, HistoryInv
<1>5. SinceInv'
  <2>1. ASSUME NEW l \in Listers, NEW a \in since[l] PROVE a \in open' \/ Merged(a)'
    BY <1>1, <2>1, SinceOpened DEF GithubInv, SinceInv, Merged
  <2> QED  BY <1>1, <2>1 DEF SinceInv
<1>6. GapInv'
  <2>1. ASSUME NEW l \in Listers, NEW a \in since[l]
        PROVE  name'[a] = name[a] /\ (a \in open' => a \in open)
    BY <2>1, SinceOpened
  <2> QED  BY <1>1, <2>1 DEF GithubInv, GapInv, Has, Hidden
<1> QED  BY <1>2, <1>4, <1>5, <1>6

\* The steps of a call that open no pull request.
LEMMA CallFrameQuiet ==
  ASSUME GithubInv, UNCHANGED <<upstream, Others>>,
         \A a \in Attempts : reached[a] = "opened" => reached'[a] = "opened" /\ name'[a] = name[a],
         CallsTyped', BranchInv'
  PROVE  GithubInv'
<1>1. UNCHANGED <<pulls, history>>  BY DEF upstream
<1>2. open' = open  BY <1>1 DEF open
<1>3. ListsTyped' /\ HistoryInv' /\ CloneInv' /\ OnceInv' /\ SinceInv' /\ GapInv'
  BY <1>1, <1>2, CallFrame
<1>4. PullsInv'  BY <1>1 DEF GithubInv, PullsInv
<1> QED  BY <1>3, <1>4 DEF GithubInv

LEMMA ForkStep == ASSUME GithubInv, NEW a \in Attempts, Fork(a) PROVE GithubInv'
<1>1. UNCHANGED <<shared, name, branch, upstream, Others>>
      /\ reached[a] = "start" /\ reached' = [reached EXCEPT ![a] = "forked"]
  BY DEF Fork, Stage
<1>2. CallsTyped' /\ BranchInv'
  BY <1>1 DEF GithubInv, CallsTyped, BranchInv, Held, forkOwner, Reaches
<1> QED  BY <1>1, <1>2, CallFrameQuiet DEF GithubInv, CallsTyped

LEMMA CreateFailsStep == ASSUME GithubInv, NEW a \in Attempts, CreateFails(a) PROVE GithubInv'
<1>1. UNCHANGED <<shared, name, branch, upstream, Others>>
      /\ reached[a] # "opened" /\ reached' = [reached EXCEPT ![a] = "failed"]
  BY DEF CreateFails, Stage
<1>2. CallsTyped' /\ BranchInv'
  BY <1>1 DEF GithubInv, CallsTyped, BranchInv, Held, forkOwner, Reaches
<1> QED  BY <1>1, <1>2, CallFrameQuiet DEF GithubInv, CallsTyped

LEMMA CreateBranchStep == ASSUME GithubInv, NEW a \in Attempts, CreateBranch(a) PROVE GithubInv'
<1>1. /\ UNCHANGED <<shared, upstream, Others>>
      /\ reached[a] = "forked" /\ reached' = [reached EXCEPT ![a] = "branched"]
  BY DEF CreateBranch, Stage
<1>2. PICK n \in Names : /\ branch[forkOwner(a)][n] = Nil
                         /\ name' = [name EXCEPT ![a] = n]
                         /\ branch' = [branch EXCEPT ![forkOwner(a)][n] = "base"]
  BY DEF CreateBranch, Now
<1>3. \A b \in Attempts : forkOwner(b) \in Attempts \cup {"shared"} /\ forkOwner(b)' = forkOwner(b)
  BY <1>1 DEF forkOwner
<1>4. CallsTyped'
  BY <1>1, <1>2, <1>3 DEF GithubInv, CallsTyped, Reaches, FileNames
<1>5. \A b \in Attempts : b # a => Held(b)' = Held(b) /\ name'[b] = name[b]
  BY <1>1, <1>2 DEF GithubInv, CallsTyped, Held
<1>6. name'[a] = n /\ reached'[a] = "branched"
  BY <1>1, <1>2 DEF GithubInv, CallsTyped
<1>7. \A f \in Attempts \cup {"shared"}, m \in Names :
        branch'[f][m] = IF f = forkOwner(a) /\ m = n THEN "base" ELSE branch[f][m]
  BY <1>2, <1>3 DEF GithubInv, CallsTyped
<1>8. \A b \in Attempts : b # a /\ Held(b) => ~ (forkOwner(b) = forkOwner(a) /\ name[b] = n)
  BY <1>2 DEF GithubInv, BranchInv
<1>9. BranchInv'
  <2>1. ASSUME NEW b \in Attempts, Held(b)'
        PROVE  name'[b] \in Names /\ branch'[forkOwner(b)][name'[b]] # Nil
    BY <1>3, <1>5, <1>6, <1>7, <2>1, NilAssumption DEF GithubInv, BranchInv
  <2>2. ASSUME NEW b \in Attempts, NEW c \in Attempts, Held(b)', Held(c)',
               forkOwner(b) = forkOwner(c), name'[b] = name'[c]
        PROVE  b = c
    BY <1>5, <1>6, <1>8, <2>2 DEF GithubInv, BranchInv
  <2>3. ASSUME NEW b \in Attempts, reached'[b] \in {"pushed", "opened"}
        PROVE  branch'[forkOwner(b)][name'[b]] = b
    <3>1. b # a /\ reached[b] \in {"pushed", "opened"}
      BY <1>1, <1>6, <2>3 DEF GithubInv, CallsTyped
    <3>2. Held(b) /\ name'[b] = name[b] /\ name[b] \in Names
      BY <1>5, <3>1 DEF Held, GithubInv, BranchInv
    <3> QED  BY <1>3, <1>7, <1>8, <3>1, <3>2 DEF GithubInv, BranchInv
  <2> QED  BY <1>3, <2>1, <2>2, <2>3 DEF BranchInv
<1> QED  BY <1>1, <1>2, <1>4, <1>9, CallFrameQuiet DEF GithubInv, CallsTyped

LEMMA ForceBranchStep == ASSUME GithubInv, NEW a \in Attempts, ForceBranch(a) PROVE GithubInv'
<1>1. /\ UNCHANGED <<shared, name, upstream, Others>>
      /\ reached[a] = "branched" /\ reached' = [reached EXCEPT ![a] = "pushed"]
      /\ branch' = [branch EXCEPT ![forkOwner(a)][name[a]] = a]
  BY DEF ForceBranch, Stage
<1>2. \A b \in Attempts : forkOwner(b) \in Attempts \cup {"shared"} /\ forkOwner(b)' = forkOwner(b)
  BY <1>1 DEF forkOwner
<1>3. Held(a) /\ name[a] \in Names  BY <1>1 DEF GithubInv, BranchInv, Held
<1>4. CallsTyped'
  BY <1>1, <1>2, <1>3 DEF GithubInv, CallsTyped, Reaches
<1>5. \A b \in Attempts : Held(b)' = Held(b)
  BY <1>1 DEF GithubInv, CallsTyped, Held
<1>6. \A f \in Attempts \cup {"shared"}, m \in Names :
        branch'[f][m] = IF f = forkOwner(a) /\ m = name[a] THEN a ELSE branch[f][m]
  BY <1>1, <1>2, <1>3 DEF GithubInv, CallsTyped
<1>7. BranchInv'
  <2>1. ASSUME NEW b \in Attempts, Held(b)
        PROVE  name[b] \in Names /\ branch'[forkOwner(b)][name[b]] # Nil
    BY <1>2, <1>6, <2>1, NilAssumption DEF GithubInv, BranchInv
  <2>2. ASSUME NEW b \in Attempts, reached'[b] \in {"pushed", "opened"}
        PROVE  branch'[forkOwner(b)][name[b]] = b
    <3>1. CASE b = a  BY <1>2, <1>3, <1>6, <3>1
    <3>2. CASE b # a
      <4>1. reached[b] \in {"pushed", "opened"}
        BY <1>1, <2>2, <3>2 DEF GithubInv, CallsTyped
      <4>2. Held(b) /\ name[b] \in Names  BY <4>1 DEF Held, GithubInv, BranchInv
      <4>3. ~ (forkOwner(b) = forkOwner(a) /\ name[b] = name[a])
        BY <1>3, <3>2, <4>2 DEF GithubInv, BranchInv
      <4> QED  BY <1>2, <1>6, <4>1, <4>2, <4>3 DEF GithubInv, BranchInv
    <3> QED  BY <3>1, <3>2
  <2> QED  BY <1>1, <1>2, <1>5, <2>1, <2>2 DEF GithubInv, BranchInv
<1> QED  BY <1>1, <1>4, <1>7, CallFrameQuiet DEF GithubInv, CallsTyped

LEMMA OpenPullStep == ASSUME GithubInv, NEW a \in Attempts, OpenPull(a) PROVE GithubInv'
<1>1. /\ UNCHANGED <<shared, name, branch, history, Others>>
      /\ reached[a] = "pushed" /\ reached' = [reached EXCEPT ![a] = "opened"]
      /\ pulls' = Append(pulls, a)
  BY DEF OpenPull, Stage
<1>2. CallsTyped' /\ BranchInv'
  BY <1>1 DEF GithubInv, CallsTyped, BranchInv, Held, forkOwner, Reaches
<1>3. /\ pulls' \in Seq(Attempts) /\ Len(pulls') = Len(pulls) + 1 /\ Len(pulls) \in Nat
      /\ \A i \in 1 .. Len(pulls) : pulls'[i] = pulls[i]
      /\ pulls'[Len(pulls) + 1] = a
      /\ DOMAIN pulls = 1 .. Len(pulls) /\ DOMAIN pulls' = 1 .. Len(pulls) + 1
  BY <1>1, AppendProperties DEF GithubInv, PullsInv
<1>4. \A i \in 1 .. Len(pulls) : pulls[i] # a
  BY <1>1, <1>3 DEF GithubInv, PullsInv
<1>5. open' = open \cup {a}  BY <1>3 DEF open, ToSet
<1>6. PullsInv'
  <2>1. ASSUME NEW i \in DOMAIN pulls' PROVE reached'[pulls'[i]] = "opened"
    BY <1>1, <1>3 DEF GithubInv, PullsInv, CallsTyped
  <2>2. ASSUME NEW i \in DOMAIN pulls', NEW j \in DOMAIN pulls', pulls'[i] = pulls'[j]
        PROVE  i = j
    BY <1>3, <1>4, <2>2 DEF GithubInv, PullsInv
  <2> QED  BY <1>3, <2>1, <2>2 DEF PullsInv
<1>7. \A b \in Attempts : reached[b] = "opened" => reached'[b] = "opened" /\ name'[b] = name[b]
  BY <1>1 DEF GithubInv, CallsTyped
<1>8. ListsTyped' /\ HistoryInv' /\ CloneInv' /\ OnceInv' /\ SinceInv' /\ GapInv'
  BY <1>1, <1>5, <1>7, CallFrame
<1> QED  BY <1>2, <1>6, <1>8 DEF GithubInv

----------------------------------------------------------------------------
(* What a maintainer does to the repository.                               *)

\* A pull request that is shut is no longer open, and it was open once only.
LEMMA ShutFacts ==
  ASSUME GithubInv, NEW a, Shut(a), UNCHANGED reached
  PROVE  PullsInv' /\ a \in open /\ open' = open \ {a}
<1>1. PICK i \in DOMAIN pulls : pulls[i] = a /\ pulls' = RemoveAt(pulls, i)  BY DEF Shut
<1> DEFINE n == Len(pulls)
<1>2. pulls \in Seq(Attempts) /\ n \in Nat /\ DOMAIN pulls = 1 .. n /\ i \in 1 .. n
  BY DEF GithubInv, PullsInv
<1>3. /\ pulls' \in Seq(Attempts) /\ DOMAIN pulls' = 1 .. n - 1
      /\ \A j \in 1 .. n - 1 : pulls'[j] = IF j < i THEN pulls[j] ELSE pulls[j + 1]
  BY <1>1, <1>2, RemoveAtFacts
<1> HIDE DEF n
<1>4. \A j, k \in 1 .. n : pulls[j] = pulls[k] => j = k
  BY <1>2 DEF GithubInv, PullsInv
<1>5. \A j \in 1 .. n : j # i =>
        \E k \in 1 .. n - 1 : pulls'[k] = pulls[j]
  <2>1. ASSUME NEW j \in 1 .. n, j < i PROVE j \in 1 .. n - 1 /\ pulls'[j] = pulls[j]
    BY <1>2, <1>3, <2>1
  <2>2. ASSUME NEW j \in 1 .. n, j > i PROVE j - 1 \in 1 .. n - 1 /\ pulls'[j - 1] = pulls[j]
    <3>1. j - 1 \in 1 .. n - 1 /\ ~ (j - 1 < i) /\ j - 1 + 1 = j  BY <1>2, <2>2
    <3> QED  BY <1>3, <3>1
  <2> QED  BY <1>2, <2>1, <2>2
<1>6. \A j \in 1 .. n - 1 :
        \E k \in 1 .. n : k # i /\ pulls'[j] = pulls[k] /\ k = IF j < i THEN j ELSE j + 1
  BY <1>2, <1>3
<1>7. open' = open \ {a}
  <2>1. ASSUME NEW x \in open' PROVE x \in open \ {a}
    <3>1. PICK j \in 1 .. n - 1 : pulls'[j] = x  BY <1>3, <2>1 DEF open, ToSet
    <3> QED  BY <1>1, <1>2, <1>4, <1>6, <3>1 DEF open, ToSet
  <2>2. ASSUME NEW x \in open \ {a} PROVE x \in open'
    <3>1. PICK j \in 1 .. n : pulls[j] = x  BY <1>2, <2>2 DEF open, ToSet
    <3>2. j # i  BY <1>1, <2>2, <3>1
    <3> QED  BY <1>3, <1>5, <3>1, <3>2 DEF open, ToSet
  <2> QED  BY <2>1, <2>2
<1>8. \A j, k \in 1 .. n - 1 : pulls'[j] = pulls'[k] => j = k
  <2> SUFFICES ASSUME NEW j \in 1 .. n - 1, NEW k \in 1 .. n - 1, pulls'[j] = pulls'[k]
               PROVE  j = k
    OBVIOUS
  <2>1. PICK x \in 1 .. n : pulls'[j] = pulls[x] /\ x = IF j < i THEN j ELSE j + 1  BY <1>6
  <2>2. PICK y \in 1 .. n : pulls'[k] = pulls[y] /\ y = IF k < i THEN k ELSE k + 1  BY <1>6
  <2>3. x = y  BY <1>4, <2>1, <2>2
  <2> QED  BY <1>2, <2>1, <2>2, <2>3
<1>9. \A j \in 1 .. n - 1 : reached'[pulls'[j]] = "opened"
  BY <1>2, <1>6 DEF GithubInv, PullsInv
<1> QED  BY <1>1, <1>2, <1>3, <1>7, <1>8, <1>9 DEF PullsInv, open, ToSet

\* A file that is added and not dropped since is there.
LEMMA MergedExists ==
  ASSUME GithubInv, NEW a \in Attempts, NEW i \in DOMAIN history, history[i].of = a,
         NEW k \in Nat, i <= k, k <= Len(history),
         \A j \in i + 1 .. k : name[a] \notin history[j].drops
  PROVE  Exists(name[a], k)
<1>1. Len(history) \in Nat /\ DOMAIN history = 1 .. Len(history)
  BY DEF GithubInv, HistoryInv
<1>2. history[i].adds = {name[a]}  BY NilAssumption DEF GithubInv, HistoryInv, CommitSound
<1> QED  BY <1>1, <1>2 DEF Exists

\* Only one call of a name is merged at once.
LEMMA MergedUnique ==
  ASSUME GithubInv, NEW a \in Attempts, NEW b \in Attempts, Merged(a), Merged(b),
         name[a] = name[b]
  PROVE  a = b
<1> DEFINE n == Len(history)
<1>1. n \in Nat /\ DOMAIN history = 1 .. n  BY DEF GithubInv, HistoryInv
<1>2. PICK i \in 1 .. n : history[i].of = a /\ \A k \in i + 1 .. n : name[a] \notin history[k].drops
  BY <1>1 DEF Merged
<1>3. PICK j \in 1 .. n : history[j].of = b /\ \A k \in j + 1 .. n : name[b] \notin history[k].drops
  BY <1>1 DEF Merged
<1> HIDE DEF n
<1> SUFFICES ASSUME a # b PROVE FALSE  OBVIOUS
<1>4. a # Nil /\ b # Nil  BY NilAssumption
<1>5. i # j  BY <1>2, <1>3
<1>6. CASE i < j
  <2>1. PICK k \in i + 1 .. j : name[a] \in history[k].drops
    BY <1>1, <1>2, <1>3, <1>4, <1>6 DEF GithubInv, HistoryInv
  <2> QED  BY <1>1, <1>2, <1>3, <2>1
<1>7. CASE j < i
  <2>1. PICK k \in j + 1 .. i : name[b] \in history[k].drops
    BY <1>1, <1>2, <1>3, <1>4, <1>7 DEF GithubInv, HistoryInv
  <2> QED  BY <1>1, <1>2, <1>3, <2>1
<1> QED  BY <1>1, <1>5, <1>6, <1>7

\* The history grows by commits of a call that has no other, or by a commit of none.
LEMMA UpstreamFrame ==
  ASSUME GithubInv, UNCHANGED <<calls, clone, awaits, list, log, pos, unread, cached>>,
         PullsInv', open' \subseteq open,
         NEW n \in Nat, n = Len(history), NEW m \in Nat, n <= m,
         history' \in Seq(Commits), Len(history') = m,
         \A i \in 1 .. n : history'[i] = history[i],
         since' \in [Listers -> SUBSET Attempts],
         \A l \in Listers : since'[l] \subseteq since[l],
         SinceInv',
         \A i \in n + 1 .. m : CommitSound(history[i])',
         \/ \A i \in n + 1 .. m : history'[i].of = Nil
         \/ \E a \in open :
              /\ ~ Exists(name[a], n)
              /\ \A i \in n + 1 .. m : history'[i].of = a /\ history'[i].drops = {}
  PROVE  GithubInv'
<1>1. UNCHANGED <<shared, reached, name, branch, tree, awaits, list, log, pos, unread, cached>>
  BY DEF calls, clone
<1>2. DOMAIN history = 1 .. n /\ DOMAIN history' = 1 .. m  BY DEF GithubInv, HistoryInv
<1>3. CallsTyped' /\ BranchInv'  BY <1>1 DEF GithubInv, CallsTyped, BranchInv, Held, forkOwner
<1>4. ListsTyped' /\ OnceInv'
  BY <1>1 DEF GithubInv, ListsTyped, OnceInv, Once
<1>5. CloneInv'  BY <1>1 DEF GithubInv, ListsTyped, CloneInv
<1>6. GapInv'
  <2>1. \A l \in Listers : log[l] \in Nat /\ pos[l] \in Nat /\ log[l] <= n
    BY DEF GithubInv, ListsTyped, CloneInv
  <2>2. \A l \in Listers : \A i \in pos[l] + 1 .. log[l] : history'[i] = history[i]
    BY <2>1
  <2> QED  BY <1>1, <2>2 DEF GithubInv, GapInv, Has, Hidden
<1>7. \A i \in DOMAIN history' : CommitSound(history[i])'
  <2>1. ASSUME NEW i \in 1 .. n PROVE CommitSound(history[i])'
    BY <1>1, <1>2, <2>1 DEF GithubInv, HistoryInv, CommitSound
  <2> QED  BY <1>2, <2>1
<1>8. \A i \in 1 .. n, j \in n + 1 .. m :
        history[i].of # Nil /\ history'[j].of # Nil =>
          /\ history[i].of # history'[j].of
          /\ name[history[i].of] = name[history'[j].of] =>
               \E k \in i + 1 .. n : name[history[i].of] \in history[k].drops
  <2> SUFFICES ASSUME NEW i \in 1 .. n, NEW j \in n + 1 .. m,
                      history[i].of # Nil, history'[j].of # Nil
               PROVE  /\ history[i].of # history'[j].of
                      /\ name[history[i].of] = name[history'[j].of] =>
                           \E k \in i + 1 .. n : name[history[i].of] \in history[k].drops
    OBVIOUS
  <2>1. PICK a \in open : /\ ~ Exists(name[a], n) /\ history'[j].of = a
    OBVIOUS
  <2>2. history[i].of \in Attempts /\ history[i].of \notin open
    BY <1>2 DEF GithubInv, HistoryInv, CommitSound
  <2>3. ASSUME \A k \in i + 1 .. n : name[history[i].of] \notin history[k].drops
        PROVE  Exists(name[history[i].of], n)
    BY <1>2, <2>2, <2>3, MergedExists
  <2> QED  BY <2>1, <2>2, <2>3
<1>9. \A i, j \in n + 1 .. m : history'[i].of = history'[j].of
  OBVIOUS
<1>10. \A j \in n + 1 .. m : history'[j].of # Nil => \A k \in n + 1 .. m : history'[k].drops = {}
  OBVIOUS
<1>11. HistoryInv'
  <2> SUFFICES ASSUME NEW i \in 1 .. m, NEW j \in 1 .. m, i < j, history'[i].of # Nil
               PROVE  /\ history'[i].of = history'[j].of =>
                           \A k \in i + 1 .. j : name[history'[i].of] \notin history'[k].drops
                      /\ history'[j].of # Nil /\ history'[i].of # history'[j].of
                           /\ name[history'[i].of] = name[history'[j].of] =>
                             \E k \in i + 1 .. j : name[history'[i].of] \in history'[k].drops
    BY <1>1, <1>2, <1>7 DEF HistoryInv
  <2>1. CASE j <= n
    <3>1. i \in 1 .. n /\ j \in 1 .. n  BY <2>1
    <3>2. \A k \in i + 1 .. j : k \in 1 .. n  BY <3>1
    <3>3. history'[i] = history[i] /\ history'[j] = history[j]
          /\ \A k \in i + 1 .. j : history'[k] = history[k]
      BY <3>1, <3>2
    <3>4. history[i].of = history[j].of =>
            \A k \in i + 1 .. j : name[history[i].of] \notin history[k].drops
      BY <1>2, <3>1, <3>3 DEF GithubInv, HistoryInv
    <3>5. history[j].of # Nil /\ history[i].of # history[j].of
            /\ name[history[i].of] = name[history[j].of] =>
              \E k \in i + 1 .. j : name[history[i].of] \in history[k].drops
      BY <1>2, <3>1, <3>3 DEF GithubInv, HistoryInv
    <3> QED  BY <3>3, <3>4, <3>5
  <2>2. CASE i <= n /\ n < j
    <3>1. i \in 1 .. n /\ j \in n + 1 .. m /\ history'[i] = history[i]  BY <2>2
    <3>2. \A k \in i + 1 .. n : k \in i + 1 .. j /\ history'[k] = history[k]  BY <3>1
    <3> QED  BY <1>8, <3>1, <3>2
  <2>3. CASE n < i
    <3>1. i \in n + 1 .. m /\ j \in n + 1 .. m  BY <2>3
    <3>2. \A k \in i + 1 .. j : k \in n + 1 .. m  BY <3>1
    <3> QED  BY <1>9, <1>10, <3>1, <3>2
  <2> QED  BY <2>1, <2>2, <2>3
<1> QED  BY <1>3, <1>4, <1>5, <1>6, <1>11 DEF GithubInv

\* What is offered stays so while the history grows by commits that drop no file of it.
LEMMA SinceFrame ==
  ASSUME GithubInv, UNCHANGED calls, NEW n \in Nat, n = Len(history), NEW m \in Nat, n <= m,
         history' \in Seq(Commits), Len(history') = m,
         \A i \in 1 .. n : history'[i] = history[i],
         NEW a \in Attempts, Merged(a), \A i \in n + 1 .. m : name[a] \notin history'[i].drops
  PROVE  Merged(a)'
<1>1. name' = name /\ DOMAIN history = 1 .. n /\ DOMAIN history' = 1 .. m
  BY DEF calls, GithubInv, HistoryInv
<1>2. PICK i \in 1 .. n : history[i].of = a /\ \A j \in i + 1 .. n : name[a] \notin history[j].drops
  BY <1>1 DEF Merged
<1>3. \A j \in i + 1 .. m : j \in i + 1 .. n \/ j \in n + 1 .. m  BY <1>2
<1>4. \A j \in i + 1 .. n : history'[j] = history[j]  BY <1>2
<1>5. i \in 1 .. m /\ history'[i] = history[i]  BY <1>2
<1>6. \A j \in i + 1 .. m : name[a] \notin history'[j].drops  BY <1>2, <1>3, <1>4
<1> QED  BY <1>1, <1>2, <1>5, <1>6 DEF Merged

LEMMA MergeStep == ASSUME GithubInv, NEW a \in Attempts, Merge(a) PROVE GithubInv'
<1> DEFINE n == Len(history)
           By(hash) == Commit(a, hash, {name[a]}, {}, {})
<1>1. /\ Shut(a) /\ ~ Exists(name[a], n)
      /\ UNCHANGED calls
      /\ UNCHANGED <<clone, awaits, list, log, pos, since, unread, cached>>
  BY DEF Merge, Others, lists
<1>2. n \in Nat /\ history \in Seq(Commits)  BY DEF GithubInv, HistoryInv
<1>3. PullsInv' /\ a \in open /\ open' = open \ {a}  BY <1>1, ShutFacts DEF calls
<1>4. reached[a] = "opened"  BY <1>3, OpenFacts DEF GithubInv
<1>5. /\ By("head") \in Commits /\ By("merge") \in Commits
      /\ By("head").of = a /\ By("head").adds = {name[a]} /\ By("head").drops = {}
      /\ By("merge").of = a /\ By("merge").adds = {name[a]} /\ By("merge").drops = {}
  BY DEF Commit, Commits, Hashes, GithubInv, CallsTyped
<1>6. history' = history \o <<By("head"), By("merge")>> \/ history' = Append(history, By("merge"))
  BY DEF Merge
<1> HIDE DEF n, By
<1>7. PICK m \in Nat : /\ n < m /\ history' \in Seq(Commits) /\ Len(history') = m
                       /\ \A i \in 1 .. n : history'[i] = history[i]
                       /\ \A i \in n + 1 .. m : history'[i] \in {By("head"), By("merge")}
  <2>1. CASE history' = Append(history, By("merge"))
    <3>1. /\ history' \in Seq(Commits) /\ Len(history') = n + 1
          /\ \A i \in 1 .. n : history'[i] = history[i]
          /\ history'[n + 1] = By("merge")
      BY <1>2, <1>5, <2>1, AppendProperties DEF n
    <3>2. \A i \in n + 1 .. n + 1 : history'[i] = By("merge")  BY <1>2, <3>1
    <3> QED  BY <1>2, <3>1, <3>2
  <2>2. CASE history' = history \o <<By("head"), By("merge")>>
    <3> DEFINE t == <<By("head"), By("merge")>>
    <3>1. t \in Seq(Commits) /\ Len(t) = 2 /\ t[1] = By("head") /\ t[2] = By("merge")
      BY <1>5
    <3> HIDE DEF t
    <3>2. /\ history' \in Seq(Commits) /\ Len(history') = Len(history) + Len(t)
          /\ \A i \in 1 .. Len(history) + Len(t) :
               history'[i] = IF i <= Len(history) THEN history[i] ELSE t[i - Len(history)]
      BY <1>2, <2>2, <3>1, ConcatProperties, Zenon DEF t
    <3>3. Len(history') = n + 2 /\ \A i \in 1 .. n : history'[i] = history[i]
      BY <1>2, <3>1, <3>2 DEF n
    <3>4. \A i \in n + 1 .. n + 2 : history'[i] = t[i - n] /\ i - n \in {1, 2}
      BY <1>2, <3>1, <3>2 DEF n
    <3>5. \A i \in n + 1 .. n + 2 : history'[i] \in {By("head"), By("merge")}
      BY <3>1, <3>4
    <3> QED  BY <1>2, <3>2, <3>3, <3>5
  <2> QED  BY <1>6, <2>1, <2>2
<1>8. \A i \in n + 1 .. m : history'[i].of = a /\ history'[i].adds = {name[a]} /\ history'[i].drops = {}
  BY <1>5, <1>7
<1>9. DOMAIN history' = 1 .. m /\ UNCHANGED <<reached, name, since>>
  BY <1>1, <1>7 DEF calls
<1>10. \A i \in n + 1 .. m : CommitSound(history[i])'
  <2> SUFFICES ASSUME NEW i \in n + 1 .. m PROVE CommitSound(history[i])'  OBVIOUS
  <2> QED  BY <1>3, <1>4, <1>8, <1>9 DEF CommitSound
<1>11. SinceInv'
  <2> SUFFICES ASSUME NEW l \in Listers, NEW b \in since[l] PROVE b \in open' \/ Merged(b)'
    BY <1>9 DEF SinceInv
  <2>1. b \in Attempts /\ (b \in open \/ Merged(b))
    BY SinceOpened DEF GithubInv, SinceInv
  <2>2. CASE b = a
    <3>1. m \in 1 .. m /\ history'[m].of = b /\ m + 1 .. m = {}  BY <1>2, <1>7, <1>8, <2>2 DEF n
    <3> QED  BY <1>9, <3>1 DEF Merged
  <2>3. CASE b # a /\ b \in open  BY <1>3, <2>3
  <2>4. CASE Merged(b)
    BY <1>1, <1>2, <1>7, <1>8, <2>1, <2>4, SinceFrame DEF n
  <2> QED  BY <2>1, <2>2, <2>3, <2>4
<1> QED
  <2>1. open' \subseteq open  BY <1>3
  <2>2. since' \in [Listers -> SUBSET Attempts] /\ \A l \in Listers : since'[l] \subseteq since[l]
    BY <1>9 DEF GithubInv, ListsTyped
  <2>3. \A i \in n + 1 .. m : history'[i].of = a /\ history'[i].drops = {}  BY <1>8
  <2>4. UNCHANGED <<calls, clone, awaits, list, log, pos, unread, cached>>  BY <1>1
  <2> QED
    BY <1>1, <1>2, <1>3, <1>7, <1>10, <1>11, <2>1, <2>2, <2>3, <2>4, UpstreamFrame DEF n

LEMMA CloseStep == ASSUME GithubInv, NEW a \in Attempts, Close(a) PROVE GithubInv'
<1>1. /\ Shut(a) /\ Withdrawn(a) /\ history' = history
      /\ UNCHANGED <<calls, clone, awaits, list, log, pos, unread, cached>>
  BY DEF Close
<1>2. PullsInv' /\ open' = open \ {a}  BY <1>1, ShutFacts DEF calls
<1>3. /\ since' \in [Listers -> SUBSET Attempts]
      /\ \A l \in Listers : since'[l] = since[l] \ {a}
  BY <1>1 DEF Withdrawn, GithubInv, ListsTyped
<1>4. Len(history) \in Nat /\ history \in Seq(Commits)  BY DEF GithubInv, HistoryInv
<1>5. SinceInv'
  <2>1. \A b \in Attempts : Merged(b) => Merged(b)'  BY <1>1 DEF Merged, calls
  <2> QED  BY <1>2, <1>3, <2>1, SinceOpened DEF GithubInv, SinceInv
<1>6. PICK n \in Nat : n = Len(history)  BY <1>4
<1>7. n + 1 .. n = {}  BY <1>6
<1> QED  BY <1>1, <1>2, <1>3, <1>4, <1>5, <1>6, <1>7, UpstreamFrame

\* A commit of no call.
LEMMA OwnerlessStep ==
  ASSUME GithubInv, NEW c \in Commits, c.of = Nil, c.adds = {}, history' = Append(history, c),
         UNCHANGED <<calls, pulls, clone, awaits, list, log, pos, unread, cached>>,
         since' \in [Listers -> SUBSET Attempts],
         \A l \in Listers : since'[l] \subseteq since[l],
         \A l \in Listers : \A b \in since'[l] : b \in open \/ name[b] \notin c.drops
  PROVE  GithubInv'
<1>1. PICK n \in Nat : n = Len(history)  BY DEF GithubInv, HistoryInv
<1>2. history \in Seq(Commits)  BY DEF GithubInv, HistoryInv
<1>3. /\ history' \in Seq(Commits) /\ Len(history') = n + 1
      /\ \A i \in 1 .. n : history'[i] = history[i]
      /\ history'[n + 1] = c
  BY <1>1, <1>2, AppendProperties
<1>4. \A i \in n + 1 .. n + 1 : history'[i] = c  BY <1>1, <1>3
<1>5. open' = open /\ PullsInv' /\ UNCHANGED <<reached, name>>
  BY DEF open, calls, GithubInv, PullsInv
<1>6. \A i \in n + 1 .. n + 1 : CommitSound(history[i])'
  BY <1>4 DEF CommitSound
<1>7. SinceInv'
  <2> SUFFICES ASSUME NEW l \in Listers, NEW b \in since'[l] PROVE b \in open' \/ Merged(b)'
    BY DEF SinceInv
  <2>1. b \in Attempts /\ (b \in open \/ (Merged(b) /\ name[b] \notin c.drops))
    BY SinceOpened DEF GithubInv, SinceInv
  <2>2. n + 1 \in Nat /\ n <= n + 1  BY <1>1
  <2>3. ASSUME Merged(b), name[b] \notin c.drops PROVE Merged(b)'
    BY <1>1, <1>3, <1>4, <2>1, <2>2, <2>3, SinceFrame
  <2> QED  BY <1>5, <2>1, <2>3
<1>8. n + 1 \in Nat /\ n <= n + 1  BY <1>1
<1>9. \A i \in n + 1 .. n + 1 : history'[i].of = Nil  BY <1>4
<1>10. open' \subseteq open  BY <1>5
<1>11. UNCHANGED <<calls, clone, awaits, list, log, pos, unread, cached>>  OBVIOUS
<1> QED  BY <1>1, <1>3, <1>5, <1>6, <1>7, <1>8, <1>9, <1>10, <1>11, UpstreamFrame

LEMMA DropStep == ASSUME GithubInv, NEW a \in Attempts, Drop(a) PROVE GithubInv'
<1> DEFINE c == Commit(Nil, "drop", {}, {name[a]}, {})
<1>1. /\ Merged(a) /\ history' = Append(history, c) /\ Withdrawn(a)
      /\ UNCHANGED <<calls, pulls, clone, awaits, list, log, pos, unread, cached>>
  BY DEF Drop
<1>2. c \in Commits /\ c.of = Nil /\ c.adds = {} /\ c.drops = {name[a]}
  BY DEF Commit, Commits, Hashes, GithubInv, CallsTyped
<1> HIDE DEF c
<1>3. /\ since' \in [Listers -> SUBSET Attempts]
      /\ \A l \in Listers : since'[l] = since[l] \ {a}
  BY <1>1 DEF Withdrawn, GithubInv, ListsTyped
<1>4. ASSUME NEW l \in Listers, NEW b \in since'[l] PROVE b \in open \/ name[b] \notin c.drops
  <2>1. b # a /\ b \in Attempts /\ (b \in open \/ Merged(b))
    BY <1>3, <1>4, SinceOpened DEF GithubInv, SinceInv
  <2> QED  BY <1>1, <1>2, <2>1, MergedUnique
<1>5. \A l \in Listers : since'[l] \subseteq since[l]  BY <1>3
<1> QED  BY <1>1, <1>2, <1>3, <1>4, <1>5, OwnerlessStep

LEMMA AddRationaleStep == ASSUME GithubInv, NEW a \in Attempts, AddRationale(a) PROVE GithubInv'
<1> DEFINE c == Commit(Nil, "note", {}, {}, {name[a]})
<1>1. /\ history' = Append(history, c) /\ since' = since
      /\ UNCHANGED <<calls, pulls, clone, awaits, list, log, pos, unread, cached>>
  BY DEF AddRationale, Others, lists
<1>2. c \in Commits /\ c.of = Nil /\ c.adds = {} /\ c.drops = {}
  BY DEF Commit, Commits, Hashes, GithubInv, CallsTyped
<1> HIDE DEF c
<1>3. since' \in [Listers -> SUBSET Attempts]  BY <1>1 DEF GithubInv, ListsTyped
<1> QED  BY <1>1, <1>2, <1>3, OwnerlessStep

----------------------------------------------------------------------------
(* What the clone and the listers do.                                      *)

\* The calls and the repository are as they were: so is all that is said of them alone.
LEMMA ListingFrame ==
  ASSUME GithubInv, UNCHANGED Listing
  PROVE  /\ CallsTyped' /\ BranchInv' /\ PullsInv' /\ HistoryInv'
         /\ open' = open /\ \A a \in Attempts : Merged(a)' = Merged(a)
<1>1. UNCHANGED <<shared, reached, name, branch, pulls, history>>
  BY DEF Listing, calls, upstream
<1>2. open' = open /\ \A a \in Attempts : Merged(a)' = Merged(a)  BY <1>1 DEF open, Merged
<1>3. CallsTyped' /\ BranchInv'  BY <1>1 DEF GithubInv, CallsTyped, BranchInv, Held, forkOwner
<1>4. PullsInv'  BY <1>1 DEF GithubInv, PullsInv
<1>5. HistoryInv'  BY <1>1, <1>2 DEF GithubInv, HistoryInv, CommitSound
<1> QED  BY <1>2, <1>3, <1>4, <1>5

\* The clone moves, while no lister that moves with it visits commits.
LEMMA CloneFrame ==
  ASSUME GithubInv, UNCHANGED <<Listing, lists, cached>>, tree' \in {tree, Len(history)},
         NEW x \in Listers \cup {Cron}, NEW s \in Awaiting, s # "commits", Await(x, s)
  PROVE  GithubInv'
<1>1. UNCHANGED <<name, history, list, log, pos, since, unread, cached>>
      /\ awaits' = [awaits EXCEPT ![x] = s]
  BY DEF Listing, calls, upstream, lists, Await
<1>2. ListsTyped' /\ OnceInv'  BY <1>1 DEF GithubInv, ListsTyped, OnceInv, Once
<1>3. Len(history) \in Nat /\ tree <= Len(history) /\ tree \in Nat
  BY DEF GithubInv, HistoryInv, CloneInv
<1>4. tree' \in Nat /\ tree' <= Len(history) /\ tree <= tree'  BY <1>3
<1>5. CloneInv'
  BY <1>1, <1>3, <1>4 DEF GithubInv, ListsTyped, CloneInv
<1>6. SinceInv'  BY <1>1, ListingFrame, SinceOpened DEF GithubInv, SinceInv
<1>7. GapInv'
  <2>1. \A l \in Listers : awaits'[l] = "commits" => awaits[l] = "commits"
    BY <1>1 DEF GithubInv, ListsTyped
  <2> QED  BY <1>1, <2>1, ListingFrame DEF GithubInv, GapInv, Has, Hidden
<1> QED  BY <1>2, <1>5, <1>6, <1>7, ListingFrame DEF GithubInv

\* Some listers start over, and the others go on.
LEMMA EndsFrame ==
  ASSUME GithubInv, UNCHANGED Listing, tree' \in 0 .. tree,
         NEW X \in SUBSET (Listers \cup {Cron}), tree' = tree \/ Listers \subseteq X,
         awaits' = [x \in Listers \cup {Cron} |-> IF x \in X THEN "idle" ELSE awaits[x]],
         list' = [l \in Listers |-> IF l \in X THEN <<>> ELSE list[l]],
         log' = [l \in Listers |-> IF l \in X THEN 0 ELSE log[l]],
         pos' = [l \in Listers |-> IF l \in X THEN 0 ELSE pos[l]],
         since' = [l \in Listers |-> IF l \in X THEN {} ELSE since[l]],
         unread' = [l \in Listers |-> IF l \in X THEN {} ELSE unread[l]],
         cached' \in {cached} \cup {list[l] : l \in Listers}
  PROVE  GithubInv'
<1>1. UNCHANGED <<name, history>>  BY DEF Listing, calls, upstream
<1>2. ListsTyped'
  <2>1. <<>> \in Seq(ListItems) /\ "idle" \in Awaiting  BY DEF Awaiting
  <2>2. \A l \in Listers : list[l] \in Seq(ListItems)  BY DEF GithubInv, ListsTyped
  <2>3. cached' \in Seq(ListItems) \cup {Nil}  BY <2>2 DEF GithubInv, ListsTyped
  <2> QED  BY <2>1, <2>3 DEF GithubInv, ListsTyped
<1>3. OnceInv'
  <2>1. Once(<<>>)  BY DEF Once
  <2>2. \A l \in Listers : Once(list[l])  BY DEF GithubInv, OnceInv
  <2>3. ASSUME cached' # Nil PROVE Once(cached')
    BY <2>2, <2>3 DEF GithubInv, OnceInv
  <2>4. \A l \in Listers : Once(list'[l])  BY <2>1, <2>2
  <2> QED  BY <2>3, <2>4 DEF OnceInv, Once
<1>4. CloneInv'
  <2>1. tree \in Nat /\ tree <= Len(history) /\ Len(history) \in Nat
    BY DEF GithubInv, HistoryInv, CloneInv
  <2>2. tree' \in Nat /\ tree' <= Len(history)  BY <2>1
  <2>3. ASSUME NEW l \in Listers PROVE log'[l] <= tree' /\ pos'[l] <= log'[l]
    BY <2>1, <2>2 DEF GithubInv, CloneInv, ListsTyped
  <2> QED  BY <1>1, <2>2, <2>3 DEF CloneInv
<1>5. SinceInv'  BY ListingFrame, SinceOpened DEF GithubInv, SinceInv
<1>6. GapInv'
  <2> SUFFICES ASSUME NEW l \in Listers, awaits'[l] = "commits", NEW a \in since'[l]
               PROVE  \/ Has(list'[l], a)
                      \/ a \in unread'[l]
                      \/ a \notin open /\ \A i \in pos'[l] + 1 .. log'[l] : history[i].of # a
                      \/ \E i \in DOMAIN list'[l] : list'[l][i].file = name[a]
    BY <1>1, ListingFrame DEF GapInv, Has, Hidden
  <2>1. l \notin X  OBVIOUS
  <2>2. awaits[l] = "commits" /\ a \in since[l] /\ list'[l] = list[l] /\ unread'[l] = unread[l]
        /\ pos'[l] = pos[l] /\ log'[l] = log[l]
    BY <2>1
  <2> QED  BY <2>2 DEF GithubInv, GapInv, Hidden
<1> QED  BY <1>2, <1>3, <1>4, <1>5, <1>6, ListingFrame DEF GithubInv

LEMMA EndsStep ==
  ASSUME GithubInv, UNCHANGED <<Listing, tree>>, NEW x \in Listers \cup {Cron}, Ends(x),
         cached' \in {cached} \cup {list[l] : l \in Listers}
  PROVE  GithubInv'
<1>1. tree' \in 0 .. tree /\ tree' = tree  BY DEF GithubInv, CloneInv
<1>2. awaits' = [y \in Listers \cup {Cron} |-> IF y \in {x} THEN "idle" ELSE awaits[y]]
  BY DEF Ends, Await, GithubInv, ListsTyped
<1>3. /\ list' = [l \in Listers |-> IF l \in {x} THEN <<>> ELSE list[l]]
      /\ log' = [l \in Listers |-> IF l \in {x} THEN 0 ELSE log[l]]
      /\ pos' = [l \in Listers |-> IF l \in {x} THEN 0 ELSE pos[l]]
      /\ since' = [l \in Listers |-> IF l \in {x} THEN {} ELSE since[l]]
      /\ unread' = [l \in Listers |-> IF l \in {x} THEN {} ELSE unread[l]]
  BY DEF Ends
<1>4. {x} \in SUBSET (Listers \cup {Cron}) /\ UNCHANGED Listing  OBVIOUS
<1> QED  BY <1>1, <1>2, <1>3, <1>4, EndsFrame

LEMMA CrashStep == ASSUME GithubInv, Crash PROVE GithubInv'
<1> DEFINE X == Listers \cup {Cron}
<1>1. tree \in Nat  BY DEF GithubInv, CloneInv
<1>2. tree' \in 0 .. tree /\ UNCHANGED Listing /\ cached' = cached  BY <1>1 DEF Crash
<1>3. awaits' = [x \in Listers \cup {Cron} |-> IF x \in X THEN "idle" ELSE awaits[x]]
  BY DEF Crash, GithubInv, ListsTyped
<1>4. /\ list' = [l \in Listers |-> IF l \in X THEN <<>> ELSE list[l]]
      /\ log' = [l \in Listers |-> IF l \in X THEN 0 ELSE log[l]]
      /\ pos' = [l \in Listers |-> IF l \in X THEN 0 ELSE pos[l]]
      /\ since' = [l \in Listers |-> IF l \in X THEN {} ELSE since[l]]
      /\ unread' = [l \in Listers |-> IF l \in X THEN {} ELSE unread[l]]
  BY DEF Crash
<1>5. Listers \subseteq X /\ X \in SUBSET (Listers \cup {Cron})  OBVIOUS
<1> HIDE DEF X
<1> QED  BY <1>2, <1>3, <1>4, <1>5, EndsFrame

LEMMA ExpireListStep == ASSUME GithubInv, Expire PROVE GithubInv'
<1>1. UNCHANGED <<Listing, tree, awaits, list, log, pos, since, unread>> /\ cached' = Nil
  BY DEF Expire, clone, lists
<1>2. UNCHANGED <<name, history>>  BY <1>1 DEF Listing, calls, upstream
<1>3. ListsTyped' /\ OnceInv' /\ CloneInv'
  BY <1>1, <1>2 DEF GithubInv, ListsTyped, OnceInv, Once, CloneInv
<1>4. SinceInv'  BY <1>1, ListingFrame, SinceOpened DEF GithubInv, SinceInv
<1>5. GapInv'  BY <1>1, <1>2, ListingFrame DEF GithubInv, GapInv, Has, Hidden
<1> QED  BY <1>1, <1>3, <1>4, <1>5, ListingFrame DEF GithubInv

LEMMA ClonesStep == ASSUME GithubInv, NEW x \in Listers \cup {Cron}, Clones(x) PROVE GithubInv'
<1>1. {"idle", "clone", "pull", "log"} \subseteq Awaiting \ {"commits"} /\ After(x) \in {"idle", "log"}
  BY DEF Awaiting, After
<1>2. CASE Sync(x)
  <2>1. UNCHANGED <<Listing, lists, cached>> /\ tree' = tree /\ (Await(x, "clone") \/ Await(x, "pull"))
    BY <1>2 DEF Sync
  <2> QED  BY <1>1, <2>1, CloneFrame
<1>3. CASE Pull(x)
  <2>1. UNCHANGED <<Listing, lists, cached>> /\ tree' = Len(history) /\ Await(x, After(x))
    BY <1>3 DEF Pull
  <2> QED  BY <1>1, <2>1, CloneFrame
<1>4. CASE Clone(x)
  <2>1. UNCHANGED <<Listing, lists, cached>> /\ tree' = Len(history) /\ Await(x, After(x))
    BY <1>4 DEF Clone
  <2> QED  BY <1>1, <2>1, CloneFrame
<1>5. CASE CloneOver(x)
  BY <1>5, EndsStep DEF CloneOver, clone
<1>6. CASE CloneFails(x)
  BY <1>6, EndsStep DEF CloneFails
<1> QED  BY <1>2, <1>3, <1>4, <1>5, <1>6 DEF Clones

----------------------------------------------------------------------------
(* The making of a list.                                                   *)

\* What may be known of a lister: what it awaits, its list, its log, the commits still to
\* visit, what was offered and what was not read.
Possible(s, r, g, p, o, u) ==
  /\ s \in Awaiting /\ r \in Seq(ListItems) /\ g \in Nat /\ p \in Nat
  /\ o \in SUBSET Attempts /\ u \in SUBSET Attempts
  /\ Once(r) /\ g <= tree /\ p <= g
  /\ \A a \in o : a \in open \/ Merged(a)
  /\ s = "commits" =>
       \A a \in o : \/ Has(r, a)
                    \/ a \in u
                    \/ a \notin open /\ \A i \in p + 1 .. g : history[i].of # a
                    \/ Hidden(r, a)

Becomes(l, s, r, g, p, o, u) ==
  /\ awaits' = [awaits EXCEPT ![l] = s] /\ list' = [list EXCEPT ![l] = r]
  /\ log' = [log EXCEPT ![l] = g] /\ pos' = [pos EXCEPT ![l] = p]
  /\ since' = [since EXCEPT ![l] = o] /\ unread' = [unread EXCEPT ![l] = u]

\* One lister moves.
LEMMA ListFrame ==
  ASSUME GithubInv, UNCHANGED <<Listing, tree, cached>>, NEW l \in Listers,
         NEW s, NEW r, NEW g, NEW p, NEW o, NEW u,
         Possible(s, r, g, p, o, u), Becomes(l, s, r, g, p, o, u)
  PROVE  GithubInv'
<1>1. UNCHANGED <<name, history>>  BY DEF Listing, calls, upstream
<1>2. ListsTyped'  BY DEF GithubInv, ListsTyped, Possible, Becomes
<1>3. /\ awaits'[l] = s /\ list'[l] = r /\ log'[l] = g /\ pos'[l] = p /\ since'[l] = o
      /\ unread'[l] = u
      /\ \A k \in Listers : k # l =>
           /\ awaits'[k] = awaits[k] /\ list'[k] = list[k] /\ log'[k] = log[k]
           /\ pos'[k] = pos[k] /\ since'[k] = since[k] /\ unread'[k] = unread[k]
  BY DEF GithubInv, ListsTyped, Becomes
<1>4. OnceInv'
  <2>1. \A k \in Listers : Once(list'[k])  BY <1>3 DEF GithubInv, OnceInv, Possible
  <2> QED  BY <2>1 DEF GithubInv, OnceInv, Once
<1>5. CloneInv'
  BY <1>1, <1>3 DEF GithubInv, CloneInv, Possible
<1>6. SinceInv'
  <2>1. ASSUME NEW k \in Listers, NEW a \in since'[k] PROVE a \in open \/ Merged(a)
    BY <1>3 DEF GithubInv, SinceInv, Possible
  <2>2. \A k \in Listers : since'[k] \subseteq Attempts  BY <1>2 DEF ListsTyped
  <2> QED  BY <2>1, <2>2, ListingFrame DEF SinceInv
<1>7. GapInv'
  <2>1. ASSUME NEW k \in Listers, awaits'[k] = "commits", NEW a \in since'[k]
        PROVE  \/ Has(list'[k], a)
               \/ a \in unread'[k]
               \/ a \notin open /\ \A i \in pos'[k] + 1 .. log'[k] : history[i].of # a
               \/ Hidden(list'[k], a)
    <3>1. CASE k = l  BY <1>3, <2>1, <3>1 DEF Possible
    <3>2. CASE k # l  BY <1>3, <2>1, <3>2 DEF GithubInv, GapInv
    <3> QED  BY <3>1, <3>2
  <2> QED  BY <1>1, <2>1, ListingFrame DEF GapInv, Has, Hidden
<1> QED  BY <1>2, <1>4, <1>5, <1>6, <1>7, ListingFrame DEF GithubInv

\* What a lister leaves as it is.
LEMMA Kept ==
  ASSUME GithubInv, NEW l \in Listers
  PROVE  /\ list[l] \in Seq(ListItems) /\ list = [list EXCEPT ![l] = list[l]] /\ Once(list[l])
         /\ log[l] \in Nat /\ log = [log EXCEPT ![l] = log[l]] /\ log[l] <= tree
         /\ pos[l] \in Nat /\ pos = [pos EXCEPT ![l] = pos[l]] /\ pos[l] <= log[l]
         /\ since[l] \in SUBSET Attempts /\ since = [since EXCEPT ![l] = since[l]]
         /\ unread[l] \in SUBSET Attempts /\ unread = [unread EXCEPT ![l] = unread[l]]
         /\ awaits[l] \in Awaiting /\ awaits = [awaits EXCEPT ![l] = awaits[l]]
         /\ \A a \in since[l] : a \in open \/ Merged(a)
         /\ tree \in Nat
  BY DEF GithubInv, ListsTyped, OnceInv, CloneInv, SinceInv

LEMMA BeginStep == ASSUME GithubInv, NEW l \in Listers, Begin(l) PROVE GithubInv'
<1>1. PICK s \in {"log", "sync"} : awaits' = [awaits EXCEPT ![l] = s]  BY DEF Begin, Await
<1>2. /\ since' = [since EXCEPT ![l] = Offered]
      /\ UNCHANGED <<Listing, tree, list, log, pos, unread, cached>>
  BY DEF Begin, clone
<1>3. s \in Awaiting /\ s # "commits"  BY <1>1 DEF Awaiting
<1>4. Offered \in SUBSET Attempts /\ \A a \in Offered : a \in open \/ Merged(a)  BY DEF Offered
<1>5. Possible(s, list[l], log[l], pos[l], Offered, unread[l])
  BY <1>3, <1>4, Kept DEF Possible
<1>6. Becomes(l, s, list[l], log[l], pos[l], Offered, unread[l])
  BY <1>1, <1>2, Kept DEF Becomes
<1> QED  BY <1>2, <1>5, <1>6, ListFrame

LEMMA ReadLogStep == ASSUME GithubInv, NEW l \in Listers, ReadLog(l) PROVE GithubInv'
<1>1. /\ awaits' = [awaits EXCEPT ![l] = "pulls"] /\ log' = [log EXCEPT ![l] = tree]
      /\ UNCHANGED <<Listing, tree, list, pos, since, unread, cached>>
  BY DEF ReadLog, Await, clone
<1>2. "pulls" \in Awaiting  BY DEF Awaiting
<1>3. tree \in Nat /\ tree <= tree /\ pos[l] <= tree  BY Kept
<1>4. Possible("pulls", list[l], tree, pos[l], since[l], unread[l])
  BY <1>2, <1>3, Kept DEF Possible
<1>5. Becomes(l, "pulls", list[l], tree, pos[l], since[l], unread[l])
  BY <1>1, Kept DEF Becomes
<1> QED  BY <1>1, <1>4, <1>5, ListFrame

LEMMA ReadPullsStep == ASSUME GithubInv, NEW l \in Listers, ReadPulls(l) PROVE GithubInv'
<1> DEFINE k == IF PageSize < Len(pulls) THEN PageSize ELSE Len(pulls)
           page == SubSeq(Reverse(pulls), 1, k)
<1>1. PICK n \in 0 .. Len(page) : \E places \in [1 .. n -> DOMAIN page] :
        LET read == [i \in 1 .. n |-> page[places[i]]] IN
        /\ list' = [list EXCEPT ![l] = [i \in 1 .. n |-> Item(name[read[i]], "head", read[i], FALSE)]]
        /\ unread' = [unread EXCEPT ![l] = open \ ToSet(read)]
  BY DEF ReadPulls
<1>2. PICK places \in [1 .. n -> DOMAIN page] :
        LET read == [i \in 1 .. n |-> page[places[i]]] IN
        /\ list' = [list EXCEPT ![l] = [i \in 1 .. n |-> Item(name[read[i]], "head", read[i], FALSE)]]
        /\ unread' = [unread EXCEPT ![l] = open \ ToSet(read)]
  BY <1>1
<1> DEFINE read == [i \in 1 .. n |-> page[places[i]]]
           r == [i \in 1 .. n |-> Item(name[read[i]], "head", read[i], FALSE)]
           u == open \ ToSet(read)
<1>3. page \in Seq(Attempts)
  <2>1. pulls \in Seq(Attempts) /\ Len(pulls) \in Nat  BY DEF GithubInv, PullsInv
  <2>2. Reverse(pulls) \in Seq(Attempts) /\ Len(Reverse(pulls)) = Len(pulls)
    BY <2>1 DEF Reverse
  <2>3. k \in 0 .. Len(pulls)  BY <2>1, BoundAssumption
  <2> HIDE DEF k
  <2> QED  BY <2>1, <2>2, <2>3
<1>4. Len(page) \in Nat /\ DOMAIN page = 1 .. Len(page)  BY <1>3
<1>5. list' = [list EXCEPT ![l] = r] /\ unread' = [unread EXCEPT ![l] = u]
  BY <1>2
<1>6. /\ awaits' = [awaits EXCEPT ![l] = "commits"] /\ pos' = [pos EXCEPT ![l] = log[l]]
      /\ UNCHANGED <<Listing, tree, log, since, cached>>
  BY DEF ReadPulls, Await, Visit, clone
<1> HIDE DEF page, k
<1>7. n \in Nat /\ \A i \in 1 .. n : read[i] \in Attempts /\ read[i] = page[places[i]]
  BY <1>3, <1>4
<1>8. DOMAIN read = 1 .. n  OBVIOUS
<1> HIDE DEF read
<1>9. r \in Seq(ListItems) /\ DOMAIN r = 1 .. n /\ \A i \in 1 .. n : r[i].of = read[i] /\ ~ r[i].merged
  <2>1. ASSUME NEW i \in 1 .. n
        PROVE  r[i] \in ListItems /\ r[i].of = read[i] /\ r[i].merged = FALSE
    <3>1. read[i] \in Attempts /\ name[read[i]] \in FileNames
      BY <1>7 DEF GithubInv, CallsTyped
    <3> QED  BY <3>1 DEF Item, ListItems, Hashes
  <2>2. DOMAIN r = 1 .. n /\ r \in [1 .. n -> ListItems]  BY <2>1
  <2> HIDE DEF r
  <2>3. r \in Seq(ListItems)  BY <1>7, <2>2
  <2> QED  BY <2>1, <2>2, <2>3
<1>10. u \in SUBSET Attempts  BY OpenFacts DEF GithubInv
<1> DEFINE o == since[l]
           g == log[l]
<1>11. "commits" \in Awaiting  BY DEF Awaiting
<1>12. Once(r)  BY <1>9 DEF Once
<1>13. \A a \in o : \/ Has(r, a)
                    \/ a \in u
                    \/ a \notin open /\ \A i \in g + 1 .. g : history[i].of # a
                    \/ Hidden(r, a)
  <2> SUFFICES ASSUME NEW a \in o
               PROVE  Has(r, a) \/ a \in u \/ (a \notin open /\ \A i \in g + 1 .. g : history[i].of # a)
    OBVIOUS
  <2>1. CASE a \in open
    <3>1. a \in u \/ \E i \in 1 .. n : read[i] = a  BY <1>8, <2>1 DEF ToSet
    <3> QED  BY <1>9, <3>1 DEF Has
  <2>2. CASE a \notin open
    <3>1. g \in Nat  BY Kept
    <3>2. g + 1 .. g = {}  BY <3>1
    <3> QED  BY <2>2, <3>2
  <2> QED  BY <2>1, <2>2
<1>14. g <= g  BY Kept
<1> HIDE DEF r, u
<1>15. Possible("commits", r, g, g, o, u)
  BY <1>9, <1>10, <1>11, <1>12, <1>13, <1>14, Kept DEF Possible
<1>16. Becomes(l, "commits", r, g, g, o, u)
  BY <1>5, <1>6, Kept DEF Becomes
<1> QED  BY <1>6, <1>15, <1>16, ListFrame

\* Notes change no item but for its note.
LEMMA AnnotatedFacts ==
  ASSUME NEW s \in Seq(ListItems), NEW notes
  PROVE  LET t == Annotated(s, notes) IN
         /\ t \in Seq(ListItems) /\ DOMAIN t = DOMAIN s
         /\ \A i \in DOMAIN s : t[i].file = s[i].file /\ t[i].of = s[i].of /\ t[i].merged = s[i].merged
<1> DEFINE t == Annotated(s, notes)
<1>1. Len(s) \in Nat /\ DOMAIN s = 1 .. Len(s) /\ DOMAIN t = DOMAIN s  BY DEF Annotated
<1>2. ASSUME NEW i \in DOMAIN s
      PROVE  /\ t[i] \in ListItems
             /\ t[i].file = s[i].file /\ t[i].of = s[i].of /\ t[i].merged = s[i].merged
  <2>1. s[i] \in ListItems  OBVIOUS
  <2>2. t[i] = [s[i] EXCEPT !.note = @ \/ (s[i].file \in notes /\ \A j \in 1 .. i - 1 : s[j].file # s[i].file)]
    BY DEF Annotated
  <2>3. (s[i].note \/ (s[i].file \in notes /\ \A j \in 1 .. i - 1 : s[j].file # s[i].file)) \in BOOLEAN
    OBVIOUS
  <2> QED  BY <2>1, <2>2, <2>3 DEF ListItems
<1>3. t \in [1 .. Len(s) -> ListItems]  BY <1>1, <1>2 DEF Annotated
<1> QED  BY <1>1, <1>2, <1>3

\* A commit of a call that is merged still has its file in the clone.
LEMMA StillThere ==
  ASSUME GithubInv, NEW a \in Attempts, Merged(a), NEW p \in 1 .. tree, history[p].of = a
  PROVE  Exists(name[a], tree)
<1>1. tree \in Nat /\ tree <= Len(history) /\ Len(history) \in Nat
      /\ DOMAIN history = 1 .. Len(history)
  BY DEF GithubInv, HistoryInv, CloneInv
<1>2. PICK i \in DOMAIN history :
        history[i].of = a /\ \A j \in i + 1 .. Len(history) : name[a] \notin history[j].drops
  BY DEF Merged
<1>3. p \in DOMAIN history  BY <1>1
<1>4. \A j \in p + 1 .. Len(history) : name[a] \notin history[j].drops
  <2>1. CASE i <= p
    <3>1. \A j \in p + 1 .. Len(history) : j \in i + 1 .. Len(history)  BY <1>1, <1>3, <2>1
    <3> QED  BY <1>2, <3>1
  <2>2. CASE p < i
    <3>1. \A j \in p + 1 .. i : name[a] \notin history[j].drops
      BY <1>2, <1>3, <2>2, NilAssumption DEF GithubInv, HistoryInv
    <3>2. \A j \in p + 1 .. Len(history) : j \in p + 1 .. i \/ j \in i + 1 .. Len(history)
      BY <1>1, <1>3, <2>2
    <3> QED  BY <1>2, <3>1, <3>2
  <2> QED  BY <1>1, <1>3, <2>1, <2>2
<1>5. \A j \in p + 1 .. tree : j \in p + 1 .. Len(history)  BY <1>1
<1>6. p <= tree  BY <1>1
<1> QED  BY <1>1, <1>3, <1>4, <1>5, <1>6, MergedExists

LEMMA ReadCommitStep == ASSUME GithubInv, NEW l \in Listers, ReadCommit(l) PROVE GithubInv'
<1> DEFINE p == pos[l]
           c == history[p]
           s == list[l]
           S == {Item(n, c.hash, c.of, TRUE) : n \in Added(c, s)}
           items == SetToSeq(S)
           w == s \o items
           r == Annotated(w, c.notes)
           g == log[l]
           o == since[l]
           u == unread[l]
<1>1. /\ awaits[l] = "commits" /\ p > 0 /\ list' = [list EXCEPT ![l] = r]
      /\ pos' = [pos EXCEPT ![l] = p - 1]
      /\ UNCHANGED <<Listing, tree, awaits, log, since, unread, cached>>
  BY DEF ReadCommit, clone
<1>2. /\ s \in Seq(ListItems) /\ Once(s) /\ g \in Nat /\ g <= tree /\ p \in Nat /\ p <= g
      /\ o \in SUBSET Attempts /\ u \in SUBSET Attempts /\ tree \in Nat
      /\ \A a \in o : a \in open \/ Merged(a)
  BY Kept
<1>3. p \in 1 .. tree /\ p \in DOMAIN history
  BY <1>1, <1>2 DEF GithubInv, HistoryInv, CloneInv
<1>4. c \in Commits /\ CommitSound(c)  BY <1>3 DEF GithubInv, HistoryInv
<1>5. /\ S \subseteq ListItems /\ IsFiniteSet(S)
      /\ \A x \in S : x.of = c.of /\ x.file \in Added(c, s)
      /\ \A x, y \in S : x = y
  <2>1. c.adds \subseteq {name[c.of]}  BY <1>4 DEF CommitSound
  <2>2. Added(c, s) \subseteq c.adds /\ c.adds \subseteq FileNames
    BY <1>4 DEF Added, Commits
  <2>3. \A x \in S : \E n \in Added(c, s) : x = Item(n, c.hash, c.of, TRUE)  OBVIOUS
  <2>4. ASSUME NEW n \in Added(c, s)
        PROVE  LET x == Item(n, c.hash, c.of, TRUE) IN x \in ListItems /\ x.of = c.of /\ x.file = n
    BY <1>4, <2>2 DEF Item, ListItems, Commits
  <2>5. \A n, m \in Added(c, s) : n = m  BY <2>1, <2>2
  <2>6. \A x, y \in S : x = y  BY <2>3, <2>5
  <2>8. ASSUME NEW x \in S PROVE x \in ListItems /\ x.of = c.of /\ x.file \in Added(c, s)
    <3>1. PICK n \in Added(c, s) : x = Item(n, c.hash, c.of, TRUE)  BY <2>3
    <3> QED  BY <2>4, <3>1
  <2>7. IsFiniteSet(S)
    <3>1. CASE S = {}  BY <3>1, FS_EmptySet
    <3>2. CASE S # {}
      <4>1. PICK x \in S : TRUE  BY <3>2
      <4>2. S = {x}  BY <2>6, <4>1
      <4> QED  BY <4>2, FS_Singleton
    <3> QED  BY <3>1, <3>2
  <2> HIDE DEF S
  <2> QED  BY <2>6, <2>7, <2>8
<1>6. \A n \in Added(c, s) : n \notin Files(s) /\ Item(n, c.hash, c.of, TRUE) \in S
  BY DEF Added
<1>7. \A n \in c.adds : n \in Files(s) \/ ~ Exists(n, tree) \/ n \in Added(c, s)  BY DEF Added
<1> HIDE DEF S
<1>8. /\ items \in Seq(S)
      /\ \A x \in S : \E i \in DOMAIN items : items[i] = x
      /\ \A i, j \in DOMAIN items : items[i] = items[j] => i = j
  BY <1>5, SetToSeqFacts
<1>9. \A i \in DOMAIN items : items[i] \in S /\ items[i] \in ListItems  BY <1>5, <1>8
<1> HIDE DEF items
<1> DEFINE n == Len(s)
           m == Len(items)
<1>10. n \in Nat /\ m \in Nat /\ DOMAIN s = 1 .. n /\ DOMAIN items = 1 .. m
       /\ items \in Seq(ListItems)
  BY <1>2, <1>5, <1>8, <1>9
<1>11. /\ w \in Seq(ListItems) /\ Len(w) = n + m
       /\ \A i \in 1 .. n + m : w[i] = IF i <= n THEN s[i] ELSE items[i - n]
  BY <1>2, <1>10, ConcatProperties, Zenon
<1> HIDE DEF w, n, m
<1>12. /\ DOMAIN w = 1 .. n + m
       /\ \A i \in 1 .. n : i \in DOMAIN w /\ w[i] = s[i]
       /\ \A i \in 1 .. m : n + i \in DOMAIN w /\ w[n + i] = items[i]
       /\ \A i \in DOMAIN w : (i \in 1 .. n /\ w[i] = s[i]) \/ (i - n \in 1 .. m /\ w[i] = items[i - n])
  <2>1. DOMAIN w = 1 .. n + m  BY <1>10, <1>11
  <2>2. ASSUME NEW i \in 1 .. m PROVE n + i \in 1 .. n + m /\ ~ (n + i <= n) /\ (n + i) - n = i
    BY <1>10
  <2> QED  BY <1>10, <1>11, <2>1, <2>2
<1>13. /\ r \in Seq(ListItems) /\ DOMAIN r = DOMAIN w
       /\ \A i \in DOMAIN w : r[i].file = w[i].file /\ r[i].of = w[i].of /\ r[i].merged = w[i].merged
  BY <1>11, AnnotatedFacts
<1> HIDE DEF r
<1>14. Once(r)
  <2> SUFFICES ASSUME NEW i \in DOMAIN w, NEW j \in DOMAIN w, i < j, w[i].file = w[j].file
               PROVE  ~ w[j].merged
    BY <1>13 DEF Once
  <2>1. CASE i \in 1 .. n /\ w[i] = s[i] /\ j \in 1 .. n /\ w[j] = s[j]
    BY <1>2, <1>10, <2>1 DEF Once
  <2>2. CASE i \in 1 .. n /\ w[i] = s[i] /\ j - n \in 1 .. m /\ w[j] = items[j - n]
    <3>1. w[j].file \in Added(c, s)  BY <1>5, <1>9, <1>10, <2>2
    <3>2. w[i].file \in Files(s)  BY <1>10, <2>2 DEF Files
    <3>3. w[j].file \notin Files(s)  BY <1>6, <3>1
    <3> QED  BY <3>2, <3>3
  <2>3. CASE i - n \in 1 .. m /\ w[i] = items[i - n] /\ j \in 1 .. n
    BY <1>10, <1>12, <2>3
  <2>4. CASE i - n \in 1 .. m /\ w[i] = items[i - n] /\ j - n \in 1 .. m /\ w[j] = items[j - n]
    <3>1. items[i - n] = items[j - n]  BY <1>5, <1>9, <1>10, <2>4
    <3>2. i - n = j - n  BY <1>8, <1>10, <2>4, <3>1
    <3> QED  BY <1>10, <1>12, <3>2
  <2> QED  BY <1>12, <2>1, <2>2, <2>3, <2>4
<1>15. \A a \in o : \/ Has(r, a)
                    \/ a \in u
                    \/ a \notin open /\ \A i \in (p - 1) + 1 .. g : history[i].of # a
                    \/ Hidden(r, a)
  <2> SUFFICES ASSUME NEW a \in o
               PROVE  \/ Has(r, a)
                      \/ a \in u
                      \/ a \notin open /\ \A i \in (p - 1) + 1 .. g : history[i].of # a
                      \/ Hidden(r, a)
    OBVIOUS
  <2>1. CASE Has(s, a)
    <3>1. PICK i \in 1 .. n : s[i].of = a  BY <1>10, <2>1 DEF Has
    <3>2. i \in DOMAIN r /\ r[i].of = a  BY <1>12, <1>13, <3>1
    <3> QED  BY <3>2 DEF Has
  <2>2. CASE Hidden(s, a)
    <3>1. PICK i \in 1 .. n : s[i].file = name[a]  BY <1>10, <2>2 DEF Hidden
    <3>2. i \in DOMAIN r /\ r[i].file = name[a]  BY <1>12, <1>13, <3>1
    <3> QED  BY <3>2 DEF Hidden
  <2>3. CASE ~ Hidden(s, a) /\ a \notin open /\ \A i \in p + 1 .. g : history[i].of # a
    <3>1. CASE c.of = a
      <4>1. a \in Attempts /\ Merged(a)  BY <1>2, <2>3
      <4>2. Exists(name[a], tree)  BY <1>3, <3>1, <4>1, StillThere
      <4>3. c.adds = {name[a]}  BY <1>4, <3>1, <4>1, NilAssumption DEF CommitSound
      <4>4. name[a] \notin Files(s)  BY <2>3 DEF Hidden, Files
      <4>5. name[a] \in Added(c, s)  BY <1>7, <4>2, <4>3, <4>4
      <4>6. Item(name[a], c.hash, c.of, TRUE) \in S  BY <1>6, <4>5
      <4>7. PICK i \in DOMAIN items : items[i] = Item(name[a], c.hash, c.of, TRUE)
        <5>1. \A x \in S : \E i \in DOMAIN items : items[i] = x  BY <1>8
        <5> HIDE DEF c
        <5> QED  BY <4>6, <5>1
      <4>8. items[i].of = a  BY <1>5, <3>1, <4>6, <4>7
      <4>9. i \in 1 .. m  BY <1>10
      <4>10. n + i \in DOMAIN r /\ r[n + i].of = a  BY <1>12, <1>13, <4>8, <4>9
      <4> QED  BY <4>10 DEF Has
    <3>2. CASE c.of # a
      <4>1. \A i \in (p - 1) + 1 .. g : i = p \/ i \in p + 1 .. g  BY <1>2
      <4> QED  BY <2>3, <3>2, <4>1
    <3> QED  BY <3>1, <3>2
  <2> QED  BY <1>1, <2>1, <2>2, <2>3 DEF GithubInv, GapInv
<1>16. p - 1 \in Nat /\ p - 1 <= g  BY <1>1, <1>2
<1>17. awaits' = [awaits EXCEPT ![l] = "commits"] /\ "commits" \in Awaiting
  BY <1>1, Kept DEF Awaiting
<1>18. log' = [log EXCEPT ![l] = g] /\ since' = [since EXCEPT ![l] = o]
       /\ unread' = [unread EXCEPT ![l] = u]
  BY <1>1, Kept
<1>19. UNCHANGED <<Listing, tree, cached>>  BY <1>1
<1>20. Possible("commits", r, g, p - 1, o, u)
  BY <1>2, <1>13, <1>14, <1>15, <1>16, <1>17 DEF Possible
<1>21. Becomes(l, "commits", r, g, p - 1, o, u)
  BY <1>1, <1>17, <1>18 DEF Becomes
<1> QED  BY <1>19, <1>20, <1>21, ListFrame

LEMMA ListsStep == ASSUME GithubInv, NEW l \in Listers, Lists(l) PROVE GithubInv'
<1>1. CASE StoreList(l)
  BY <1>1, EndsStep DEF StoreList, clone
<1>2. CASE ListFails(l)
  BY <1>2, EndsStep DEF ListFails, clone
<1> QED  BY <1>1, <1>2, BeginStep, ReadLogStep, ReadPullsStep, ReadCommitStep DEF Lists

----------------------------------------------------------------------------
LEMMA GithubInitInv == GithubInit => GithubInv
<1> SUFFICES ASSUME GithubInit PROVE GithubInv  OBVIOUS
<1>1. CallsTyped  BY DEF GithubInit, CallsTyped, Reaches, FileNames
<1>2. ListsTyped
  BY DEF GithubInit, ListsTyped, Awaiting
<1>3. BranchInv  BY DEF GithubInit, BranchInv, Held
<1>4. pulls = <<>> /\ history = <<>> /\ tree = 0  BY DEF GithubInit
<1>5. PullsInv /\ HistoryInv  BY <1>4 DEF PullsInv, HistoryInv
<1>6. CloneInv /\ OnceInv /\ SinceInv /\ GapInv
  BY <1>4 DEF GithubInit, CloneInv, OnceInv, Once, SinceInv, GapInv
<1> QED  BY <1>1, <1>2, <1>3, <1>5, <1>6 DEF GithubInv

LEMMA GithubNextInv == GithubInv /\ [GithubNext]_githubVars => GithubInv'
<1> SUFFICES ASSUME GithubInv, [GithubNext]_githubVars PROVE GithubInv'  OBVIOUS
<1>1. CASE UNCHANGED githubVars
  <2>1. /\ UNCHANGED <<shared, name, branch, upstream, Others>>
        /\ UNCHANGED <<shared, reached, branch, name>>
    BY <1>1 DEF githubVars, calls, Others
  <2>2. CallsTyped' /\ BranchInv'
    BY <2>1 DEF GithubInv, CallsTyped, BranchInv, Held, forkOwner
  <2> QED  BY <2>1, <2>2, CallFrameQuiet
<1>2. ASSUME NEW a \in Attempts,
             Create(a) \/ CreateFails(a) \/ Merge(a) \/ Close(a) \/ Drop(a) \/ AddRationale(a)
      PROVE  GithubInv'
  BY <1>2, ForkStep, CreateBranchStep, ForceBranchStep, OpenPullStep, CreateFailsStep, MergeStep,
     CloseStep, DropStep, AddRationaleStep DEF Create
<1> QED  BY <1>1, <1>2, ClonesStep, ListsStep, ExpireListStep, CrashStep DEF GithubNext

LEMMA GithubInvariant == GithubSpec => []GithubInv
  BY GithubInitInv, GithubNextInv, PTL DEF GithubSpec

\* The types of the calls and of the lists, for every history.
THEOREM GithubTypeCorrect == GithubSpec => [](CallsTyped /\ ListsTyped)
<1>1. GithubInv => CallsTyped /\ ListsTyped  BY DEF GithubInv
<1> QED  BY GithubInvariant, <1>1, PTL

\* A call that has made its branch has it to itself, up to the pull request: the branch exists,
\* no other call has one of that name in that fork, and once it is forced it holds the text
\* of the call.
THEOREM BranchesOwned == GithubSpec => []BranchInv
<1>1. GithubInv => BranchInv  BY DEF GithubInv
<1> QED  BY GithubInvariant, <1>1, PTL

\* The pull request of a call adds the text of that call.
THEOREM PullHoldsProposalHolds == GithubSpec => []PullHoldsProposal
<1>1. GithubInv => PullHoldsProposal  BY DEF GithubInv, BranchInv, PullHoldsProposal
<1> QED  BY <1>1, GithubInvariant, PTL

\* No file is listed as merged and again.
THEOREM ListedOnceHolds == GithubSpec => []ListedOnce
<1>1. GithubInv => ListedOnce
  BY DEF GithubInv, OnceInv, Once, ListedOnce, Made
<1> QED  BY <1>1, GithubInvariant, PTL

\* A proposal that is offered all along is missing from a list for one of the named reasons.
THEOREM GapExplainedHolds == GithubSpec => []GapExplained
<1>1. GithubInv => GapExplained
  <2> SUFFICES ASSUME GithubInv, NEW l \in Listers, Complete(l), NEW a \in since[l]
               PROVE  \/ Has(list[l], a)
                      \/ a \in unread[l]
                      \/ a \notin open /\ \A i \in 1 .. log[l] : history[i].of # a
                      \/ \E i \in DOMAIN list[l] : list[l][i].file = name[a]
    BY DEF GapExplained
  <2>1. awaits[l] = "commits" /\ pos[l] = 0 /\ pos[l] + 1 = 1  BY DEF Complete
  <2> QED  BY <2>1 DEF GithubInv, GapInv, Hidden
<1> QED  BY <1>1, GithubInvariant, PTL

----------------------------------------------------------------------------
(* The status of a proposal on the chain.                                  *)

\* A status is computed from the epoch only for an open proposal that was read; what is
\* stored is a value.
Shape ==
  \A t \in Tasks : /\ at[t] = "epoch" => info[t] \notin {None, Closed}
                   /\ stage[t] = "store" => val[t] # None

TypedShape == TypeOK /\ Shape
Inv == TypedShape /\ NotAhead

Closure(S) ==
  /\ S \in [Keys -> SUBSET Value]
  /\ \A k \in Keys : None \in S[k]
  /\ Info(phase) \in S["proposal"]
  /\ Epoch(phase) \in S["epoch"]
  /\ Closed \in S["proposal"] => Closed \in S["status"]
  /\ S["proposal"] \subseteq {None, Closed} \/ S["epoch"] \subseteq S["status"]
  /\ S["status"] \subseteq S["list"]

StoresFit(S) == \A k \in Keys : remote[k] \in S[k] /\ \A x \in Procs : local[x][k] \in S[k]
TasksFit(S)  == \A t \in Tasks : val[t] \in S[at[t]] /\ info[t] \in S["proposal"]
Fits(S) == StoresFit(S) /\ TasksFit(S)

TasksTyped ==
  /\ at \in [Tasks -> Keys]
  /\ stage \in [Tasks -> Stages]
  /\ goal \in [Tasks -> Keys]
  /\ info \in [Tasks -> Value]
  /\ val \in [Tasks -> Value]

StoresTyped ==
  /\ remote \in [Keys -> Value]
  /\ local \in [Procs -> [Keys -> Value]]

\* What a step does to Redis and the memories, and to the tasks.
StoresGood(S) == StoresTyped /\ StoresFit(S)
TasksGood(S) == TasksTyped /\ Shape /\ TasksFit(S)

USE DEF Phases, Pending, Active, PendingClose, Closed, None

----------------------------------------------------------------------------
LEMMA KeyFacts ==
  /\ "proposal" \in Keys /\ "epoch" \in Keys /\ "status" \in Keys /\ "list" \in Keys
  /\ "idle" \in Stages /\ "lookup" \in Stages /\ "query" \in Stages /\ "raw" \in Stages
  /\ "store" \in Stages
BY DEF Keys, Stages

LEMMA HomeFacts == \A t \in Tasks : Home[t] \in Procs
BY HomeAssumption

LEMMA WarmerFacts == Warmer \in Tasks
BY DEF Tasks

\* The two ways of saying where the values are.
LEMMA FitsAmong ==
  ASSUME TypeOK, NEW S \in [Keys -> SUBSET Value]
  PROVE  Fits(S) <=> \A k \in Keys : Among(k, S[k])
BY KeyFacts DEF TypeOK, Fits, StoresFit, TasksFit, Among

LEMMA ChainValues ==
  ASSUME TypeOK
  PROVE  /\ Info(phase) \in Value /\ Info(phase) # None
         /\ Epoch(phase) \in Value /\ Epoch(phase) # None
         /\ None \in Value /\ Closed \in Value
BY DEF TypeOK, Info, Epoch, Value

\* One task moves.
LEMMA GotoStep ==
  ASSUME NEW S, Closure(S), TypedShape, TasksFit(S),
         NEW t \in Tasks, NEW k \in Keys, NEW s \in Stages, NEW i \in S["proposal"],
         NEW v \in S[k], Goto(t, k, s, i, v),
         goal' \in [Tasks -> Keys],
         k = "epoch" => i \notin {None, Closed},
         s = "store" => v # None
  PROVE  TasksGood(S)'
<1>1. i \in Value /\ v \in Value  BY KeyFacts DEF Closure
<1>2. TasksTyped'  BY <1>1 DEF TypedShape, TypeOK, TasksTyped, Goto
<1>3. Shape'  BY DEF TypedShape, TypeOK, Shape, Goto
<1>4. TasksFit(S)'  BY DEF TypedShape, TypeOK, TasksFit, Goto
<1> QED  BY <1>2, <1>3, <1>4 DEF TasksGood

LEMMA EndStep ==
  ASSUME NEW S, Closure(S), TypedShape, TasksFit(S), NEW t \in Tasks, End(t)
  PROVE  TasksGood(S)'
<1>1. goal' \in [Tasks -> Keys]  BY KeyFacts DEF End, TypedShape, TypeOK
<1>2. None \in S["proposal"] /\ None \in S["list"]  BY KeyFacts DEF Closure
<1> QED  BY <1>1, <1>2, GotoStep, KeyFacts DEF End

LEMMA StatusForStep ==
  ASSUME NEW S, Closure(S), TypedShape, TasksFit(S), NEW t \in Tasks,
         NEW i \in S["proposal"], i # None, StatusFor(t, i), goal' \in [Tasks -> Keys]
  PROVE  TasksGood(S)'
<1>1. None \in S["proposal"] /\ None \in S["epoch"]  BY KeyFacts DEF Closure
<1>2. CASE i = Closed
  <2>1. Goto(t, "status", "store", None, Closed)  BY <1>2 DEF StatusFor, Store
  <2>2. Closed \in S["status"]  BY <1>2 DEF Closure
  <2> QED  BY <1>1, <2>1, <2>2, GotoStep, KeyFacts
<1>3. CASE i # Closed
  <2>1. Goto(t, "epoch", "lookup", i, None)  BY <1>3 DEF StatusFor
  <2> QED  BY <1>1, <1>3, <2>1, GotoStep, KeyFacts
<1> QED  BY <1>2, <1>3

LEMMA ObtainStep ==
  ASSUME NEW S, Closure(S), TypedShape, TasksFit(S), NEW t \in Tasks,
         NEW k \in Keys, at[t] = k, NEW v \in S[k], v # None, Obtain(t, k, v)
  PROVE  TasksGood(S)'
<1>1. goal \in [Tasks -> Keys]  BY DEF TypedShape, TypeOK
<1>2. None \in S["proposal"]  BY KeyFacts DEF Closure
<1>3. CASE k = "proposal" /\ StatusFor(t, v) /\ UNCHANGED goal
  BY <1>1, <1>3, StatusForStep
<1>4. CASE k = "epoch" /\ StatusAt(t, v) /\ UNCHANGED goal
  <2>1. info[t] \in S["proposal"] /\ info[t] \notin {None, Closed}
    BY <1>4 DEF TypedShape, Shape, TasksFit
  <2>2. v \in S["status"]  BY <1>4, <2>1 DEF Closure
  <2> QED  BY <1>1, <1>2, <1>4, <2>2, GotoStep, KeyFacts DEF StatusAt, Store
<1>5. CASE k = "status" /\ Store(t, "list", v) /\ UNCHANGED goal
  <2>1. v \in S["list"]  BY <1>5 DEF Closure
  <2> QED  BY <1>1, <1>2, <1>5, <2>1, GotoStep, KeyFacts DEF Store
<1>6. CASE End(t)  BY <1>6, EndStep
<1>7. CASE k = "proposal" /\ Goto(t, "status", "lookup", v, None) /\ UNCHANGED goal
  <2>1. None \in S["status"]  BY KeyFacts DEF Closure
  <2> QED  BY <1>1, <1>7, <2>1, GotoStep, KeyFacts
<1> QED  BY <1>3, <1>4, <1>5, <1>6, <1>7 DEF Obtain

\* A process remembers a value.
LEMMA RememberStep ==
  ASSUME NEW S, Closure(S), TypeOK, StoresFit(S), NEW t \in Tasks, NEW k \in Keys,
         NEW v \in S[k], Remember(t, k, v), remote' = remote
  PROVE  StoresGood(S)'
<1>1. v \in Value  BY DEF Closure
<1>2. Home[t] \in Procs  BY HomeFacts
<1>3. local' = [local EXCEPT ![Home[t]][k] = v]  BY DEF Remember
<1>4. StoresTyped'  BY <1>1, <1>2, <1>3 DEF TypeOK, StoresTyped
<1>5. \A x \in Procs, d \in Keys : local'[x][d] \in S[d]
  BY <1>2, <1>3 DEF TypeOK, StoresFit
<1> QED  BY <1>4, <1>5 DEF StoresGood, StoresFit

\* A value is stored in Redis and remembered.
LEMMA WriteStep ==
  ASSUME NEW S, Closure(S), TypeOK, StoresFit(S), NEW t \in Tasks, NEW k \in Keys,
         NEW v \in S[k], Remember(t, k, v), remote' = [remote EXCEPT ![k] = v]
  PROVE  StoresGood(S)'
<1>1. v \in Value  BY DEF Closure
<1>2. Home[t] \in Procs  BY HomeFacts
<1>3. local' = [local EXCEPT ![Home[t]][k] = v]  BY DEF Remember
<1>4. StoresTyped'  BY <1>1, <1>2, <1>3 DEF TypeOK, StoresTyped
<1>5. \A x \in Procs, d \in Keys : local'[x][d] \in S[d]
  BY <1>2, <1>3 DEF TypeOK, StoresFit
<1>6. \A d \in Keys : remote'[d] \in S[d]  BY DEF TypeOK, StoresFit
<1> QED  BY <1>4, <1>5, <1>6 DEF StoresGood, StoresFit

LEMMA StoresKept ==
  ASSUME NEW S, TypeOK, StoresFit(S), UNCHANGED <<remote, local>>
  PROVE  StoresGood(S)'
BY DEF TypeOK, StoresTyped, StoresGood, StoresFit

LEMMA TasksKept ==
  ASSUME NEW S, TypedShape, TasksFit(S), UNCHANGED <<at, stage, goal, info, val>>
  PROVE  TasksGood(S)'
BY DEF TypedShape, TypeOK, TasksTyped, TasksGood, Shape, TasksFit

----------------------------------------------------------------------------
Good(S) == StoresGood(S) /\ TasksGood(S)

LEMMA ReadStep ==
  ASSUME NEW S, Closure(S), TypedShape, Fits(S), NEW t \in Tasks, NEW k \in Keys, Read(t, k)
  PROVE  Good(S)' /\ phase' = phase
<1> USE DEF Fits
<1>1. TypeOK /\ Home[t] \in Procs  BY HomeFacts DEF TypedShape
<1>2. local[Home[t]][k] \in S[k] /\ remote[k] \in S[k] /\ info[t] \in S["proposal"]
  BY <1>1 DEF StoresFit, TasksFit
<1>3. None \in S["proposal"] /\ None \in S[k]  BY KeyFacts DEF Closure
<1>4. goal \in [Tasks -> Keys]  BY DEF TypedShape, TypeOK
<1>5. CASE LocalHit(t, k)
  <2>1. StoresGood(S)'  BY <1>1, <1>5, StoresKept DEF LocalHit
  <2>2. TasksGood(S)'  BY <1>2, <1>5, ObtainStep DEF LocalHit, Lookup
  <2> QED  BY <1>5, <2>1, <2>2 DEF Good, LocalHit
<1>6. CASE RemoteHit(t, k)
  <2>1. StoresGood(S)'  BY <1>1, <1>2, <1>6, RememberStep DEF RemoteHit
  <2>2. TasksGood(S)'  BY <1>2, <1>6, ObtainStep DEF RemoteHit, Lookup
  <2> QED  BY <1>6, <2>1, <2>2 DEF Good, RemoteHit
<1>7. CASE Miss(t, k)
  <2>1. StoresGood(S)'  BY <1>1, <1>7, StoresKept DEF Miss
  <2>2. goal' \in [Tasks -> Keys]  BY <1>4, <1>7 DEF Miss
  <2>3. ASSUME Goto(t, "proposal", "lookup", info[t], None)
       PROVE  TasksGood(S)'
    BY <1>2, <1>3, <2>2, <2>3, GotoStep, KeyFacts
  <2>4. ASSUME k \in {"proposal", "epoch"} /\ Goto(t, k, "query", info[t], None)
       PROVE  TasksGood(S)'
    <3>1. k = "epoch" => info[t] \notin {None, Closed}
      BY <1>7 DEF Miss, Lookup, TypedShape, Shape
    <3> QED  BY <1>2, <1>3, <2>2, <2>4, <3>1, GotoStep, KeyFacts
  <2> QED  BY <1>7, <2>1, <2>3, <2>4 DEF Good, Miss
<1>8. CASE Query(t, k)
  <2>1. StoresGood(S)'  BY <1>1, <1>8, StoresKept DEF Query
  <2>2. goal' \in [Tasks -> Keys]  BY <1>4, <1>8 DEF Query
  <2>3. k = "epoch" => info[t] \notin {None, Closed}
    BY <1>8 DEF Query, TypedShape, Shape
  <2>4. /\ Info(phase) \in S["proposal"] /\ Info(phase) # None
        /\ Epoch(phase) \in S["epoch"] /\ Epoch(phase) # None
    BY <1>1, ChainValues DEF Closure
  <2>5. ASSUME k = "proposal" /\ Goto(t, k, "store", info[t], Info(phase))
       PROVE  TasksGood(S)'
    BY <1>2, <2>2, <2>4, <2>5, GotoStep, KeyFacts
  <2>6. ASSUME k = "epoch" /\ Goto(t, k, "store", info[t], Epoch(phase))
       PROVE  TasksGood(S)'
    BY <1>2, <2>2, <2>3, <2>4, <2>6, GotoStep, KeyFacts
  <2> QED  BY <1>8, <2>1, <2>5, <2>6 DEF Good, Query
<1>9. CASE Fill(t, k)
  <2>1. val[t] \in S[k] /\ val[t] # None /\ at[t] = k
    BY <1>9 DEF Fill, TasksFit, TypedShape, Shape
  <2>2. StoresGood(S)'  BY <1>1, <1>9, <2>1, WriteStep DEF Fill
  <2>3. TasksGood(S)'  BY <1>9, <2>1, ObtainStep DEF Fill
  <2> QED  BY <1>9, <2>2, <2>3 DEF Good, Fill
<1> QED  BY <1>5, <1>6, <1>7, <1>8, <1>9 DEF Read

LEMMA AskStep ==
  ASSUME NEW S, Closure(S), TypedShape, Fits(S), NEW t \in Tasks, NEW k \in Keys, Ask(t, k)
  PROVE  Good(S)' /\ phase' = phase
<1>1. None \in S["proposal"] /\ None \in S[k]  BY KeyFacts DEF Closure
<1>2. goal' \in [Tasks -> Keys]  BY DEF Ask, TypedShape, TypeOK
<1>3. TasksGood(S)'  BY <1>1, <1>2, GotoStep, KeyFacts DEF Ask, Fits
<1>4. StoresGood(S)'  BY StoresKept DEF Ask, Fits, TypedShape
<1> QED  BY <1>3, <1>4 DEF Good, Ask

LEMMA CronStep ==
  ASSUME NEW S, Closure(S), TypedShape, Fits(S), Warm \/ RawRead
  PROVE  Good(S)' /\ phase' = phase
<1>1. None \in S["proposal"] /\ Info(phase) \in S["proposal"]  BY KeyFacts DEF Closure
<1>2. Info(phase) # None  BY ChainValues DEF TypedShape
<1>3. goal' \in [Tasks -> Keys]
  BY KeyFacts, WarmerFacts DEF Warm, RawRead, TypedShape, TypeOK
<1>4. StoresGood(S)'  BY StoresKept DEF Warm, RawRead, Fits, TypedShape
<1>5. CASE Warm
  BY <1>1, <1>3, <1>4, <1>5, GotoStep, KeyFacts, WarmerFacts DEF Good, Warm, Fits
<1>6. CASE RawRead
  BY <1>1, <1>2, <1>3, <1>4, <1>6, GotoStep, KeyFacts, WarmerFacts
  DEF Good, RawRead, Store, Fits
<1> QED  BY <1>5, <1>6

LEMMA SetStep ==
  ASSUME NEW S, Closure(S), TypedShape, Fits(S), NEW k \in Keys, Set(k)
  PROVE  Good(S)' /\ phase' = phase
<1>1. Warmer \in Tasks /\ TypeOK  BY WarmerFacts DEF TypedShape
<1>2. val[Warmer] \in S[k] /\ val[Warmer] # None
  BY <1>1 DEF Set, Fits, TasksFit, TypedShape, Shape
<1>3. StoresGood(S)'  BY <1>1, <1>2, WriteStep DEF Set, Fits
<1>4. None \in S["proposal"] /\ None \in S["status"]  BY KeyFacts DEF Closure
<1>5. CASE k = "proposal" /\ goal' = [goal EXCEPT ![Warmer] = "status"]
             /\ StatusFor(Warmer, val[Warmer])
  <2>1. goal' \in [Tasks -> Keys]  BY <1>1, <1>5, KeyFacts DEF TypeOK
  <2> QED  BY <1>1, <1>2, <1>3, <1>5, <2>1, StatusForStep DEF Good, Set, Fits
<1>6. CASE k = "status" /\ goal' = [goal EXCEPT ![Warmer] = "list"]
             /\ Goto(Warmer, "proposal", "lookup", None, None)
  <2>1. goal' \in [Tasks -> Keys]  BY <1>1, <1>6, KeyFacts DEF TypeOK
  <2> QED  BY <1>1, <1>3, <1>4, <1>6, <2>1, GotoStep, KeyFacts DEF Good, Set, Fits
<1>7. CASE k = "list" /\ End(Warmer)
  BY <1>1, <1>3, <1>7, EndStep DEF Good, Set, Fits
<1> QED  BY <1>5, <1>6, <1>7 DEF Set

LEMMA FailStep ==
  ASSUME NEW S, Closure(S), TypedShape, Fits(S), NEW t \in Tasks, Fail(t)
  PROVE  Good(S)' /\ phase' = phase
BY EndStep, StoresKept DEF Good, Fail, Fits, TypedShape

LEMMA ExpireStep ==
  ASSUME NEW S, Closure(S), TypedShape, Fits(S), NEW k \in Keys,
         ExpireRemote(k) \/ \E x \in Procs : ExpireLocal(x, k)
  PROVE  Good(S)' /\ phase' = phase
<1>1. TasksGood(S)' /\ phase' = phase
  BY TasksKept DEF ExpireRemote, ExpireLocal, Fits
<1>2. None \in S[k]  BY DEF Closure
<1>3. CASE ExpireRemote(k)
  BY <1>1, <1>2, <1>3
  DEF ExpireRemote, Good, StoresGood, StoresTyped, StoresFit, Fits, TypedShape, TypeOK, Value
<1>4. ASSUME NEW x \in Procs, ExpireLocal(x, k) PROVE StoresGood(S)'
  <2>1. StoresTyped'  BY <1>4 DEF ExpireLocal, StoresTyped, TypedShape, TypeOK, Value
  <2>2. \A y \in Procs, d \in Keys : local'[y][d] \in S[d]
    BY <1>2, <1>4 DEF ExpireLocal, StoresFit, Fits, TypedShape, TypeOK
  <2> QED  BY <1>4, <2>1, <2>2 DEF ExpireLocal, StoresGood, StoresFit, Fits
<1> QED  BY <1>1, <1>3, <1>4 DEF Good

----------------------------------------------------------------------------
\* The lemma that carries the proofs: every step but those of the chain.
LEMMA Carried ==
  ASSUME NEW S, Closure(S), TypedShape, Fits(S), [Next]_vars, ~Advance
  PROVE  Good(S)' /\ phase' = phase
<1>1. ASSUME NEW k \in Keys, NEW t \in Tasks, Read(t, k) \/ Ask(t, k)
      PROVE  Good(S)' /\ phase' = phase
  BY <1>1, ReadStep, AskStep
<1>2. ASSUME NEW k \in Keys, Set(k) \/ ExpireRemote(k) PROVE Good(S)' /\ phase' = phase
  BY <1>2, SetStep, ExpireStep
<1>3. ASSUME NEW k \in Keys, NEW x \in Procs, ExpireLocal(x, k)
      PROVE  Good(S)' /\ phase' = phase
  BY <1>3, ExpireStep
<1>4. ASSUME NEW t \in Tasks, Fail(t) PROVE Good(S)' /\ phase' = phase
  BY <1>4, FailStep
<1>5. CASE Warm \/ RawRead  BY <1>5, CronStep
<1>6. CASE UNCHANGED vars
  BY <1>6, TasksKept, StoresKept DEF vars, Good, Fits, TypedShape
<1> QED  BY <1>1, <1>2, <1>3, <1>4, <1>5, <1>6 DEF Next

\* What Good says of the next state.
LEMMA GoodNext ==
  ASSUME NEW S, Good(S)', phase' \in Phases
  PROVE  TypedShape' /\ Fits(S)'
BY DEF Good, StoresGood, StoresTyped, TasksGood, TasksTyped, TypedShape, TypeOK, Fits

----------------------------------------------------------------------------
(* Every step keeps Inv.                                                   *)

LEMMA InitInv == Init => Inv
<1> SUFFICES ASSUME Init PROVE Inv
  OBVIOUS
<1>1. TypeOK  BY KeyFacts, PhaseAssumption DEF Init, TypeOK, Value
<1>2. Shape  BY KeyFacts DEF Init, Shape
<1>3. NotAhead
  BY PhaseAssumption DEF Init, NotAhead, Among
<1> QED  BY <1>1, <1>2, <1>3 DEF Inv, TypedShape

\* The epochs pass: what was not ahead of the chain is not ahead of it later.
LEMMA AdvanceStep == ASSUME Inv, Advance PROVE Inv'
<1>1. phase \in Phases /\ phase' \in Phases /\ phase' = phase + 1
  BY DEF Inv, TypedShape, TypeOK, Advance
<1>2. TypedShape'
  BY <1>1 DEF Advance, Inv, TypedShape, TypeOK, Shape
<1>3. (None .. phase) \subseteq (None .. phase')  BY <1>1
<1>4. NotAhead'  BY <1>3 DEF Inv, NotAhead, Among, Advance
<1> QED  BY <1>2, <1>4 DEF Inv

\* What has been true of the proposal and what is true of it, computed level by level.
LEMMA PastClosure ==
  ASSUME TypeOK, NEW n \in Phases, n = phase
  PROVE  Closure([k \in Keys |-> None .. n])
<1> DEFINE S == [k \in Keys |-> None .. n]
<1>1. \A k \in Keys : S[k] = None .. n  OBVIOUS
<1>2. (None .. n) \subseteq Value  BY DEF Value
<1>3. S \in [Keys -> SUBSET Value]  BY <1>2
<1>4. Info(phase) \in None .. n  BY DEF Info
<1>5. Epoch(phase) \in None .. n  BY DEF Epoch
<1>6. None \in None .. n  OBVIOUS
<1> HIDE DEF S
<1>7. Closure(S)  BY <1>1, <1>3, <1>4, <1>5, <1>6, KeyFacts DEF Closure
<1> QED  BY <1>7 DEF S

LEMMA NextInv == ASSUME Inv, [Next]_vars PROVE Inv'
<1>1. CASE Advance  BY <1>1, AdvanceStep
<1>2. CASE ~Advance
  <2>1. TypedShape /\ TypeOK  BY DEF Inv, TypedShape
  <2>2. PICK n \in Phases : n = phase  BY <2>1 DEF TypeOK
  <2> DEFINE S == [k \in Keys |-> None .. n]
  <2>3. \A k \in Keys : S[k] = None .. n  OBVIOUS
  <2>4. Closure(S)  BY <2>1, <2>2, PastClosure
  <2> HIDE DEF S
  <2>5. S \in [Keys -> SUBSET Value]  BY <2>4 DEF Closure
  <2>6. Fits(S)  BY <2>1, <2>2, <2>3, <2>5, FitsAmong DEF Inv, NotAhead
  <2>7. Good(S)' /\ phase' = phase  BY <1>2, <2>1, <2>4, <2>6, Carried
  <2>8. TypedShape' /\ Fits(S)'  BY <2>1, <2>7, GoodNext DEF TypeOK
  <2>9. \A k \in Keys : Among(k, S[k])'
    BY <2>5, <2>8, KeyFacts
    DEF TypedShape, TypeOK, Fits, StoresFit, TasksFit, Among
  <2>10. NotAhead'  BY <2>2, <2>3, <2>7, <2>9 DEF NotAhead
  <2> QED  BY <2>8, <2>10 DEF Inv
<1> QED  BY <1>1, <1>2

LEMMA InvHolds == Spec => []Inv
<1>1. Inv /\ [Next]_vars => Inv'  BY NextInv
<1> QED  BY <1>1, InitInv, PTL DEF Spec

----------------------------------------------------------------------------
(* A level that has settled stays settled.                                 *)

\* The keys that show the closing; nothing is known of the others.
Showing(ks) == [k \in Keys |-> IF k \in ks THEN {None, Closed} ELSE Value]

LEMMA ShowingClosure ==
  ASSUME phase = Closed,
         NEW ks \in {{"proposal"}, {"status", "proposal"}, {"list", "status", "proposal"}}
  PROVE  Closure(Showing(ks))
<1> DEFINE S == Showing(ks)
<1>1. \A k \in Keys : S[k] = IF k \in ks THEN {None, Closed} ELSE Value
  BY DEF Showing
<1>2. {None, Closed} \subseteq Value  BY DEF Value
<1>3. S \in [Keys -> SUBSET Value]  BY <1>2 DEF Showing
<1> HIDE DEF S
<1>4. S["proposal"] = {None, Closed} /\ S["epoch"] = Value
  <2>1. "proposal" \in ks /\ "epoch" \notin ks  OBVIOUS
  <2> QED  BY <1>1, <2>1, KeyFacts
<1>5. S["status"] = (IF "status" \in ks THEN {None, Closed} ELSE Value)
      /\ S["list"] = (IF "list" \in ks THEN {None, Closed} ELSE Value)
  BY <1>1, KeyFacts
<1>6. "list" \in ks => "status" \in ks  OBVIOUS
<1>7. Info(phase) = Closed /\ Epoch(phase) \in Value  BY DEF Info, Epoch, Value
<1>8. \A k \in Keys : None \in S[k]  BY <1>1, <1>2
<1>9. S["status"] \subseteq S["list"]  BY <1>2, <1>5, <1>6
<1> QED  BY <1>2, <1>3, <1>4, <1>5, <1>7, <1>8, <1>9 DEF Closure, S

LEMMA SettledStep ==
  ASSUME Inv, [Next]_vars, NEW k \in {"proposal", "status", "list"}, Settled(k)
  PROVE  Settled(k)'
<1> DEFINE ks == Below(k) \cup {k}
           S == Showing(ks)
<1>1. ks \in {{"proposal"}, {"status", "proposal"}, {"list", "status", "proposal"}}
  BY DEF Below
<1>2. ks \subseteq Keys /\ k \in ks  BY <1>1 DEF Keys
<1>3. phase = Closed /\ \A d \in ks : Among(d, {None, Closed})
  BY <1>2 DEF Settled, Shows
<1>4. Settled(k)' <=> phase' = Closed /\ \A d \in ks : Among(d, {None, Closed})'
  BY <1>2 DEF Settled, Shows
<1>5. Closure(S)  BY <1>1, <1>3, ShowingClosure
<1>6. \A d \in Keys : S[d] = IF d \in ks THEN {None, Closed} ELSE Value  BY DEF Showing
<1>7. TypedShape /\ TypeOK  BY DEF Inv, TypedShape
<1> HIDE DEF ks, S
<1>8. \A d \in Keys : Among(d, Value)  BY <1>7, KeyFacts DEF TypeOK, Among
<1>9. \A d \in Keys : Among(d, S[d])  BY <1>3, <1>6, <1>8
<1>10. S \in [Keys -> SUBSET Value]  BY <1>5 DEF Closure
<1>11. Fits(S)  BY <1>7, <1>9, <1>10, FitsAmong
<1>12. ~Advance  BY <1>3 DEF Advance
<1>13. Good(S)' /\ phase' = phase  BY <1>5, <1>7, <1>11, <1>12, Carried
<1>14. TypedShape' /\ Fits(S)'  BY <1>7, <1>13, GoodNext DEF TypeOK
<1>15. \A d \in Keys : Among(d, S[d])'
  BY <1>10, <1>14, KeyFacts DEF TypedShape, TypeOK, Fits, StoresFit, TasksFit, Among
<1>16. \A d \in ks : Among(d, {None, Closed})'  BY <1>2, <1>6, <1>15
<1> QED  BY <1>3, <1>4, <1>13, <1>16

----------------------------------------------------------------------------
\* Every variable keeps its type.
THEOREM TypeCorrect == Spec => []TypeOK
<1>1. Inv => TypeOK  BY DEF Inv, TypedShape
<1> QED  BY <1>1, InvHolds, PTL

\* No copy of the proposal, its status or the list, and no value a task holds, shows a phase
\* that has not come (getStatusForProposal over cached reads).
THEOREM NotAheadHolds == Spec => []NotAhead
<1>1. Inv => NotAhead  BY DEF Inv
<1> QED  BY <1>1, InvHolds, PTL

\* A level of the caches that shows the closing, over levels that do, shows it for ever.
THEOREM SettledStaysHolds == Spec => SettledStays
<1>1. Inv /\ [Next]_vars
        => [\A k \in {"proposal", "status", "list"} : Settled(k) => Settled(k)']_vars
  BY SettledStep
<1> QED  BY <1>1, InvHolds, PTL DEF Spec, SettledStays
=============================================================================
