----------------------------- MODULE GitRepoProofs -----------------------------
(***************************************************************************)
(* What git's commands of one session may never do to the work in the      *)
(* repository, however they follow one another and wherever a write is     *)
(* refused: lose what was stashed, or take commits off a branch.           *)
(***************************************************************************)
EXTENDS GitRepo, SequenceTheorems, WellFoundedInduction, TLAPS

-----------------------------------------------------------------------------
(* What a command does to the repository, whichever it is.                 *)

Trees  == [Paths -> Contents \cup {Absent, Empty}]
Heads  == Branches \cup {NoBranch}
Entry  == [commit : Nat, branch : Heads]
Stored == [tree : Trees, parent : Nat]

Step ==
    /\ worktree' \in Trees /\ index' \in Trees
    /\ \/ UNCHANGED commits
       \/ \E tree \in Trees : commits' = Append(commits, [tree |-> tree, parent |-> Tip])
    /\ refs' \in [Branches \cup Tags -> 0..Len(commits')]
    /\ head' \in [branch : Heads, at : 0..Len(commits')]
    /\ \/ UNCHANGED stash
       \/ stash' = <<>>
       \/ \E i \in DOMAIN stash : stash' = Without(i)
       \/ Len(commits') = Len(commits) + 1 /\ stash' = Noted(Len(commits) + 1)

(* What the variables are, the objects of the repository included.         *)
Typed ==
    /\ worktree \in Trees /\ index \in Trees
    /\ commits \in Seq([tree : Trees, parent : Nat])
    /\ \A c \in DOMAIN commits : commits[c].parent < c
    /\ refs \in [Branches \cup Tags -> 0..Len(commits)]
    /\ head \in [branch : Heads, at : 0..Len(commits)]
    /\ stash \in Seq([commit : Nat, branch : Heads])

(* The entries of the stash are different commits of the repository.       *)
StashKnown    == \A i \in DOMAIN stash : Known(stash[i].commit)
StashDistinct == \A i, j \in DOMAIN stash : stash[i].commit = stash[j].commit => i = j
GitInv        == Typed /\ StashKnown /\ StashDistinct

-----------------------------------------------------------------------------
LEMMA TipType == Typed => Tip \in 0..Len(commits)
BY DEF Typed, Tip, Heads

LEMMA CommitsDomain == Typed => DOMAIN commits = 1..Len(commits) /\ Len(commits) \in Nat
BY LenProperties DEF Typed

LEMMA CommitType ==
    ASSUME Typed, NEW c, Known(c)
    PROVE  c \in 1..Len(commits) /\ commits[c] \in Stored /\ commits[c].parent \in 0..Len(commits)
<1>1. commits \in Seq(Stored)
  BY DEF Typed, Stored
<1>2. c \in 1..Len(commits) /\ Len(commits) \in Nat
  BY CommitsDomain DEF Known
<1>3. commits[c] \in Stored
  BY <1>1, <1>2, ElementOfSeq
<1>4. commits[c].parent \in Nat /\ commits[c].parent < c
  BY <1>3 DEF Typed, Stored, Known
<1> QED
  BY <1>2, <1>3, <1>4

LEMMA TreeType == Typed => EmptyTree \in Trees /\ \A c \in 0..Len(commits) : TreeOf(c) \in Trees
<1> SUFFICES ASSUME Typed
             PROVE  EmptyTree \in Trees /\ \A c \in 0..Len(commits) : TreeOf(c) \in Trees
  OBVIOUS
<1>1. EmptyTree \in Trees
  BY DEF EmptyTree, Trees
<1>2. \A c \in 1..Len(commits) : commits[c].tree \in Trees
  BY CommitsDomain, CommitType DEF Known, Stored
<1> QED
  BY <1>1, <1>2, CommitsDomain DEF TreeOf

LEMMA HeadTypes ==
    /\ \A b \in Branches : On(b) \in [branch : Heads, at : 0..Len(commits')]
    /\ \A c \in 0..Len(commits') : Detached(c) \in [branch : Heads, at : 0..Len(commits')]
<1>1. Len(commits') \in Nat => 0 \in 0..Len(commits')
  OBVIOUS
<1> QED
  BY <1>1 DEF On, Detached, Heads

(* HEAD, or the branch it is on, moves to c.                               *)
LEMMA HeadMoves ==
    ASSUME Typed, NEW c \in 0..Len(commits'), Len(commits) <= Len(commits'), Len(commits') \in Nat,
           SetHeadCommit(c)
    PROVE  /\ refs' \in [Branches \cup Tags -> 0..Len(commits')]
           /\ head' \in [branch : Heads, at : 0..Len(commits')]
<1>0. 0..Len(commits) \subseteq 0..Len(commits')
  BY CommitsDomain
<1>1. refs \in [Branches \cup Tags -> 0..Len(commits')] /\ head \in [branch : Heads, at : 0..Len(commits')]
  BY <1>0 DEF Typed
<1>2. CASE head.branch = NoBranch
  BY <1>1, <1>2 DEF SetHeadCommit, Detached, Heads
<1>3. CASE head.branch # NoBranch
  BY <1>1, <1>3 DEF SetHeadCommit, Heads
<1> QED
  BY <1>2, <1>3

LEMMA HeadStays ==
    ASSUME Typed, NEW c \in 0..Len(commits), UNCHANGED commits, SetHeadCommit(c)
    PROVE  /\ refs' \in [Branches \cup Tags -> 0..Len(commits)]
           /\ head' \in [branch : Heads, at : 0..Len(commits)]
<1>1. Len(commits') = Len(commits) /\ Len(commits) \in Nat
  BY CommitsDomain
<1>2. c \in 0..Len(commits') /\ Len(commits) <= Len(commits') /\ Len(commits') \in Nat
  BY <1>1
<1>3. /\ refs' \in [Branches \cup Tags -> 0..Len(commits')]
      /\ head' \in [branch : Heads, at : 0..Len(commits')]
  BY <1>2, HeadMoves
<1> QED
  BY <1>1, <1>3

LEMMA CommitAppends ==
    ASSUME Typed, NEW tree \in Trees, commits' = Append(commits, [tree |-> tree, parent |-> Tip])
    PROVE  /\ commits' \in Seq(Stored)
           /\ Len(commits) \in Nat /\ Len(commits') = Len(commits) + 1
           /\ \A c \in 1..Len(commits) : commits'[c] = commits[c]
           /\ commits'[Len(commits) + 1] = [tree |-> tree, parent |-> Tip]
<1>1. [tree |-> tree, parent |-> Tip] \in Stored /\ commits \in Seq(Stored)
  BY TipType DEF Typed, Stored
<1> QED
  BY <1>1, AppendProperties, CommitsDomain

LEMMA CommitMoves ==
    ASSUME Typed, NEW tree \in Trees, CommitTree(tree)
    PROVE  /\ commits' = Append(commits, [tree |-> tree, parent |-> Tip])
           /\ Len(commits') = Len(commits) + 1
           /\ refs' \in [Branches \cup Tags -> 0..Len(commits')]
           /\ head' \in [branch : Heads, at : 0..Len(commits')]
<1>1. commits' = Append(commits, [tree |-> tree, parent |-> Tip]) /\ SetHeadCommit(Len(commits) + 1)
  BY DEF CommitTree
<1>2. Len(commits) \in Nat /\ Len(commits') = Len(commits) + 1
  BY <1>1, CommitAppends
<1>3. Len(commits) + 1 \in 0..Len(commits') /\ Len(commits) <= Len(commits') /\ Len(commits') \in Nat
  BY <1>2
<1>4. /\ refs' \in [Branches \cup Tags -> 0..Len(commits')]
      /\ head' \in [branch : Heads, at : 0..Len(commits')]
  BY <1>1, <1>3, HeadMoves
<1> QED
  BY <1>1, <1>2, <1>4

LEMMA WithoutIs ==
    ASSUME NEW i \in DOMAIN stash, stash \in Seq(Entry)
    PROVE  /\ Without(i) \in Seq(Entry)
           /\ Len(Without(i)) = Len(stash) - 1
           /\ \A j \in 1..(Len(stash) - 1) : Without(i)[j] = stash[IF j < i THEN j ELSE j + 1]
<1> DEFINE a == SubSeq(stash, 1, i - 1)
           b == SubSeq(stash, i + 1, Len(stash))
<1>1. i \in 1..Len(stash) /\ Len(stash) \in Nat /\ \A j \in 1..Len(stash) : stash[j] \in Entry
  BY LenProperties, ElementOfSeq
<1>2. /\ a \in Seq(Entry) /\ Len(a) = i - 1
      /\ \A j \in 1..(i - 1) : a[j] = stash[j]
  <2>1. \A j \in 1..(i - 1) : stash[j] \in Entry
    BY <1>1
  <2>2. /\ a \in Seq(Entry) /\ Len(a) = IF 1 <= i - 1 THEN i - 1 - 1 + 1 ELSE 0
        /\ \A j \in 1..(i - 1 - 1 + 1) : a[j] = stash[1 + j - 1]
    BY <1>1, <2>1, SubSeqProperties
  <2> HIDE DEF a
  <2> QED
    BY <1>1, <2>2
<1>3. /\ b \in Seq(Entry) /\ Len(b) = Len(stash) - i
      /\ \A j \in 1..(Len(stash) - i) : b[j] = stash[i + j]
  <2>1. \A j \in (i + 1)..Len(stash) : stash[j] \in Entry
    BY <1>1
  <2>2. /\ b \in Seq(Entry) /\ Len(b) = IF i + 1 <= Len(stash) THEN Len(stash) - (i + 1) + 1 ELSE 0
        /\ \A j \in 1..(Len(stash) - (i + 1) + 1) : b[j] = stash[i + 1 + j - 1]
    BY <1>1, <2>1, SubSeqProperties
  <2> HIDE DEF b
  <2> QED
    BY <1>1, <2>2
<1> HIDE DEF a, b
<1>4. /\ a \o b \in Seq(Entry) /\ Len(a \o b) = Len(a) + Len(b)
      /\ \A j \in 1..(Len(a) + Len(b)) : (a \o b)[j] = IF j <= Len(a) THEN a[j] ELSE b[j - Len(a)]
  BY <1>2, <1>3, ConcatProperties
<1>5. Len(a) + Len(b) = Len(stash) - 1 /\ Len(a) = i - 1
  BY <1>1, <1>2, <1>3
<1>6. \A j \in 1..(Len(stash) - 1) : (a \o b)[j] = IF j <= i - 1 THEN a[j] ELSE b[j - (i - 1)]
  BY <1>4, <1>5
<1>7. ASSUME NEW j \in 1..(Len(stash) - 1)
      PROVE  (a \o b)[j] = stash[IF j < i THEN j ELSE j + 1]
  <2>1. CASE j < i
    <3>1. j \in 1..(i - 1) /\ j <= i - 1
      BY <1>1, <2>1
    <3> QED
      BY <1>2, <1>6, <2>1, <3>1
  <2>2. CASE ~(j < i)
    <3>1. j - (i - 1) \in 1..(Len(stash) - i) /\ i + (j - (i - 1)) = j + 1
      BY <1>1, <2>2
    <3>2. (a \o b)[j] = b[j - (i - 1)]
      <4>1. j \in 1..(Len(stash) - 1) /\ ~(j <= i - 1)
        BY <1>1, <2>2
      <4> QED
        BY <1>6, <4>1
    <3> QED
      BY <1>3, <2>2, <3>1, <3>2
  <2> QED
    BY <2>1, <2>2
<1> QED
  BY <1>4, <1>5, <1>7 DEF Without, a, b

LEMMA NotedIs ==
    ASSUME Typed, NEW c \in Nat
    PROVE  /\ Noted(c) \in Seq(Entry)
           /\ Len(Noted(c)) = Len(stash) + 1
           /\ Noted(c)[1].commit = c
           /\ \A j \in 2..(Len(stash) + 1) : Noted(c)[j] = stash[j - 1]
<1> DEFINE e == [commit |-> c, branch |-> head.branch]
<1>1. e \in Entry /\ stash \in Seq(Entry) /\ Len(stash) \in Nat
  BY LenProperties DEF Typed, Entry
<1>2. <<e>> \in Seq(Entry) /\ Len(<<e>>) = 1 /\ <<e>>[1] = e
  BY <1>1
<1>3. e.commit = c
  OBVIOUS
<1> HIDE DEF e
<1>4. /\ <<e>> \o stash \in Seq(Entry) /\ Len(<<e>> \o stash) = Len(<<e>>) + Len(stash)
      /\ \A j \in 1..(Len(<<e>>) + Len(stash)) :
            (<<e>> \o stash)[j] = IF j <= Len(<<e>>) THEN <<e>>[j] ELSE stash[j - Len(<<e>>)]
  BY <1>1, <1>2, ConcatProperties
<1> QED
  BY <1>1, <1>2, <1>3, <1>4 DEF Noted, e

-----------------------------------------------------------------------------
(* What a step leaves of the invariant.                                    *)

LEMMA CommitsKept ==
    ASSUME Typed, Step
    PROVE  /\ commits' \in Seq(Stored)
           /\ Len(commits') \in Nat /\ Len(commits) \in Nat /\ Len(commits) <= Len(commits')
           /\ DOMAIN commits' = 1..Len(commits')
           /\ \A c \in DOMAIN commits' : commits'[c].parent < c
           /\ \A c \in DOMAIN commits : c \in DOMAIN commits' /\ commits'[c] = commits[c]
<1>1. CASE UNCHANGED commits
  BY <1>1, CommitsDomain DEF Typed, Stored
<1>2. ASSUME NEW tree \in Trees, commits' = Append(commits, [tree |-> tree, parent |-> Tip])
      PROVE  /\ commits' \in Seq(Stored)
             /\ Len(commits') \in Nat /\ Len(commits) \in Nat /\ Len(commits) <= Len(commits')
             /\ DOMAIN commits' = 1..Len(commits')
             /\ \A c \in DOMAIN commits' : commits'[c].parent < c
             /\ \A c \in DOMAIN commits : c \in DOMAIN commits' /\ commits'[c] = commits[c]
  <2>1. /\ commits' \in Seq(Stored)
        /\ Len(commits) \in Nat /\ Len(commits') = Len(commits) + 1
        /\ \A c \in 1..Len(commits) : commits'[c] = commits[c]
        /\ commits'[Len(commits) + 1] = [tree |-> tree, parent |-> Tip]
    BY <1>2, CommitAppends
  <2>2. DOMAIN commits' = 1..(Len(commits) + 1) /\ DOMAIN commits = 1..Len(commits)
    BY <2>1, LenProperties, CommitsDomain
  <2>3. commits'[Len(commits) + 1].parent = Tip
    BY <2>1
  <2>4. \A c \in 1..Len(commits) : commits'[c].parent < c
    BY <2>1, <2>2 DEF Typed
  <2>5. ASSUME NEW c \in DOMAIN commits' PROVE commits'[c].parent < c
    BY <2>1, <2>2, <2>3, <2>4, TipType
  <2> QED
    BY <2>1, <2>2, <2>5
<1> QED
  BY <1>1, <1>2 DEF Step

LEMMA StashType ==
    ASSUME Typed, Step
    PROVE  stash' \in Seq(Entry)
<1>1. stash \in Seq(Entry) /\ Len(commits) + 1 \in Nat
  BY CommitsDomain DEF Typed, Entry
<1>2. <<>> \in Seq(Entry)
  BY EmptySeq
<1>3. \A i \in DOMAIN stash : Without(i) \in Seq(Entry)
  BY <1>1, WithoutIs
<1>4. Noted(Len(commits) + 1) \in Seq(Entry)
  BY <1>1, NotedIs
<1> QED
  BY <1>1, <1>2, <1>3, <1>4 DEF Step

LEMMA StashCommits ==
    ASSUME GitInv, Step
    PROVE  StashKnown' /\ StashDistinct'
<1>0. /\ Typed /\ stash \in Seq(Entry) /\ Len(stash) \in Nat /\ DOMAIN stash = 1..Len(stash)
      /\ \A i \in DOMAIN stash : Known(stash[i].commit)
      /\ \A i, j \in DOMAIN stash : stash[i].commit = stash[j].commit => i = j
  BY LenProperties DEF GitInv, StashKnown, StashDistinct, Typed, Entry
<1>1. \A c : Known(c) => Known(c)'
  BY <1>0, CommitsKept DEF Known
<1>2. CASE UNCHANGED stash
  BY <1>0, <1>1, <1>2 DEF StashKnown, StashDistinct
<1>3. CASE stash' = <<>>
  <2>1. DOMAIN stash' = {}
    BY <1>3
  <2> QED
    BY <2>1 DEF StashKnown, StashDistinct
<1>4. ASSUME NEW i \in DOMAIN stash, stash' = Without(i)
      PROVE  StashKnown' /\ StashDistinct'
  <2> DEFINE Old(j) == IF j < i THEN j ELSE j + 1
  <2>1. /\ DOMAIN stash' = 1..(Len(stash) - 1)
        /\ \A j \in DOMAIN stash' : stash'[j] = stash[Old(j)]
    <3>1. /\ stash' \in Seq(Entry) /\ Len(stash') = Len(stash) - 1
          /\ \A j \in 1..(Len(stash) - 1) : stash'[j] = stash[IF j < i THEN j ELSE j + 1]
      BY <1>0, <1>4, WithoutIs
    <3> QED
      BY <3>1, LenProperties
  <2>2. /\ \A j \in DOMAIN stash' : Old(j) \in DOMAIN stash
        /\ \A j, k \in DOMAIN stash' : Old(j) = Old(k) => j = k
    BY <1>0, <2>1
  <2> HIDE DEF Old
  <2>3. \A j \in DOMAIN stash' : stash'[j].commit \in DOMAIN commits'
    BY <1>0, <1>1, <2>1, <2>2 DEF Known
  <2>4. \A j, k \in DOMAIN stash' : stash'[j].commit = stash'[k].commit => j = k
    BY <1>0, <2>1, <2>2
  <2> QED
    BY <2>3, <2>4 DEF StashKnown, StashDistinct, Known
<1>5. CASE Len(commits') = Len(commits) + 1 /\ stash' = Noted(Len(commits) + 1)
  <2> DEFINE n == Len(commits) + 1
  <2>1. n \in Nat /\ DOMAIN commits = 1..Len(commits) /\ DOMAIN commits' = 1..n
    BY <1>0, <1>5, CommitsDomain, CommitsKept
  <2>2. /\ DOMAIN stash' = 1..(Len(stash) + 1)
        /\ stash'[1].commit = n
        /\ \A j \in 2..(Len(stash) + 1) : stash'[j] = stash[j - 1]
    BY <1>0, <1>5, <2>1, NotedIs, LenProperties
  <2>3. \A j \in 2..(Len(stash) + 1) : stash'[j].commit \in 1..Len(commits)
    BY <1>0, <2>1, <2>2 DEF Known
  <2>4. n \in 1..n /\ n \notin 1..Len(commits) /\ 1..Len(commits) \subseteq 1..n
    BY <2>1
  <2>5. \A j \in 1..(Len(stash) + 1) : j = 1 \/ j \in 2..(Len(stash) + 1)
    BY <1>0
  <2> HIDE DEF n
  <2>6. \A j \in DOMAIN stash' : stash'[j].commit \in 1..n
    BY <2>2, <2>3, <2>4, <2>5
  <2>7. \A j, k \in 2..(Len(stash) + 1) : stash'[j].commit = stash'[k].commit => j = k
    BY <1>0, <2>2
  <2>8. \A j, k \in DOMAIN stash' : stash'[j].commit = stash'[k].commit => j = k
    BY <2>2, <2>3, <2>4, <2>5, <2>7
  <2> QED
    BY <2>1, <2>6, <2>8 DEF StashKnown, StashDistinct, Known
<1> QED
  BY <1>2, <1>3, <1>4, <1>5 DEF Step

LEMMA StepKeeps == GitInv /\ Step => GitInv'
<1> SUFFICES ASSUME GitInv, Step
             PROVE  GitInv'
  OBVIOUS
<1>1. Typed
  BY DEF GitInv
<1>2. Typed'
  BY <1>1, CommitsKept, StashType DEF Typed, Step, Entry, Stored
<1> QED
  BY <1>2, StashCommits DEF GitInv

-----------------------------------------------------------------------------
(* One lemma per command: it is a step.                                    *)

(* The commands that only work on files.                                   *)
LEMMA FilesStep ==
    ASSUME Typed, worktree' \in Trees, index' \in Trees, UNCHANGED <<commits, refs, head, stash>>
    PROVE  Step
BY DEF Typed, Step

LEMMA ResetType ==
    ASSUME Typed, NEW t \in Trees, ResetTo(t)
    PROVE  index' \in Trees /\ worktree' \in Trees
BY DEF Typed, ResetTo, Trees

LEMMA OverlayType ==
    ASSUME NEW t \in Trees, NEW u \in Trees, NEW S
    PROVE  Overlay(t, S, u) \in Trees
BY DEF Overlay, Trees

LEMMA EmptyType ==
    ASSUME NEW t \in Trees, NEW p \in Paths
    PROVE  [t EXCEPT ![p] = Empty] \in Trees
BY DEF Trees

LEMMA EditStep ==
    ASSUME Typed, NEW p \in Paths, NEW c \in Contents \cup {Absent}, Edit(p, c)
    PROVE  Step
<1>1. worktree' \in Trees /\ index' \in Trees /\ UNCHANGED <<commits, refs, head, stash>>
  BY DEF Edit, Typed, Trees
<1> QED
  BY <1>1, FilesStep

LEMMA AddStep ==
    ASSUME Typed, NEW S \in SUBSET Paths, Add(S)
    PROVE  Step
<1>1. worktree' \in Trees /\ index' \in Trees /\ UNCHANGED <<commits, refs, head, stash>>
  BY DEF Add, Typed, Trees
<1> QED
  BY <1>1, FilesStep

LEMMA RmStep ==
    ASSUME Typed, NEW p \in Paths, Rm(p)
    PROVE  Step
<1>1. worktree' \in Trees /\ index' \in Trees /\ UNCHANGED <<commits, refs, head, stash>>
  BY DEF Rm, Typed, Trees
<1> QED
  BY <1>1, FilesStep

LEMMA CheckoutPathStep ==
    ASSUME Typed, NEW p \in Paths, CheckoutPath(p)
    PROVE  Step
<1>1. TreeOf(Tip) \in Trees
  BY TreeType, TipType
<1>2. worktree' \in Trees /\ index' \in Trees /\ UNCHANGED <<commits, refs, head, stash>>
  BY <1>1 DEF CheckoutPath, Typed, Trees
<1> QED
  BY <1>2, FilesStep

LEMMA RestoreStep ==
    ASSUME Typed, NEW p \in Paths, NEW c, NEW staged \in BOOLEAN, Restore(p, c, staged)
    PROVE  Step
<1>1. Known(c)
  BY DEF Restore
<1>2. c \in 0..Len(commits)
  BY <1>1, CommitsDomain DEF Known
<1>3. TreeOf(c) \in Trees
  BY <1>2, TreeType
<1>4. worktree' \in Trees /\ index' \in Trees /\ UNCHANGED <<commits, refs, head, stash>>
  BY <1>3 DEF Restore, Typed, Trees
<1> QED
  BY <1>4, FilesStep

LEMMA ApplyStep ==
    ASSUME Typed, NEW p \in Paths, NEW c \in Contents, Apply(p, c)
    PROVE  Step
<1>1. worktree' \in Trees /\ index' \in Trees /\ UNCHANGED <<commits, refs, head, stash>>
  BY DEF Apply, Typed, Trees
<1> QED
  BY <1>1, FilesStep

(* The commands that move HEAD, a branch or a tag.                         *)
LEMMA RefsStep ==
    ASSUME Typed, worktree' \in Trees, index' \in Trees, UNCHANGED <<commits, stash>>,
           refs' \in [Branches \cup Tags -> 0..Len(commits)],
           head' \in [branch : Heads, at : 0..Len(commits)]
    PROVE  Step
BY DEF Typed, Step

LEMMA RefType ==
    ASSUME Typed, NEW r \in Branches \cup Tags, NEW c \in 0..Len(commits)
    PROVE  [refs EXCEPT ![r] = c] \in [Branches \cup Tags -> 0..Len(commits)]
BY DEF Typed

LEMMA ResetStep ==
    ASSUME Typed, NEW mode \in {"soft", "mixed", "hard"}, NEW c, Reset(mode, c)
    PROVE  Step
<1>1. c \in 0..Len(commits) /\ Len(commits) \in Nat
  BY CommitsDomain DEF Known, Reset
<1>2. TreeOf(c) \in Trees
  BY <1>1, TreeType
<1>3. UNCHANGED <<commits, stash>> /\ SetHeadCommit(c)
  BY DEF Reset
<1>4. refs' \in [Branches \cup Tags -> 0..Len(commits)] /\ head' \in [branch : Heads, at : 0..Len(commits)]
  BY <1>1, <1>3, HeadStays
<1>5. CASE mode = "soft"
  <2>1. UNCHANGED <<index, worktree>>
    BY <1>5 DEF Reset
  <2> QED
    BY <1>3, <1>4, <2>1, RefsStep DEF Typed
<1>6. CASE mode = "mixed"
  <2>1. index' = TreeOf(c) /\ UNCHANGED worktree
    BY <1>6 DEF Reset
  <2> QED
    BY <1>2, <1>3, <1>4, <2>1, RefsStep DEF Typed
<1>7. CASE mode = "hard"
  <2>1. ResetTo(TreeOf(c))
    BY <1>7 DEF Reset
  <2> QED
    BY <1>2, <1>3, <1>4, <2>1, RefsStep, ResetType
<1> QED
  BY <1>5, <1>6, <1>7

LEMMA MergeStep ==
    ASSUME Typed, NEW c, Merge(c)
    PROVE  Step
<1>1. c \in 0..Len(commits) /\ UNCHANGED <<commits, stash>>
  BY CommitsDomain DEF Known, Merge
<1>2. TreeOf(c) \in Trees
  BY <1>1, TreeType
<1>3. CASE ResetTo(TreeOf(c)) /\ SetHeadCommit(c)
  BY <1>1, <1>2, <1>3, HeadStays, ResetType, RefsStep
<1>4. CASE head' = Detached(c) /\ UNCHANGED <<index, worktree, refs>>
  <2>1. head' \in [branch : Heads, at : 0..Len(commits)]
    BY <1>1, <1>4 DEF Detached, Heads
  <2> QED
    BY <1>1, <1>4, <2>1, RefsStep DEF Typed
<1> QED
  BY <1>3, <1>4 DEF Merge

LEMMA SwitchStep ==
    ASSUME Typed, NEW b \in Branches, NEW create \in BOOLEAN, NEW force \in BOOLEAN,
           SwitchTo(b, create, force)
    PROVE  Step
<1>1. Target(b, create) \in 0..Len(commits)
  BY TipType DEF Target, Typed
<1>2. TreeOf(Target(b, create)) \in Trees
  BY <1>1, TreeType
<1>3. refs' \in [Branches \cup Tags -> 0..Len(commits)]
  BY <1>1, RefType DEF SwitchTo, CheckoutRefs, Typed
<1>4. head' \in [branch : Heads, at : 0..Len(commits)]
  <2>1. 0 \in 0..Len(commits)
    BY CommitsDomain
  <2> QED
    BY <2>1 DEF SwitchTo, CheckoutRefs, On, Heads
<1>5. index' \in Trees /\ worktree' \in Trees
  BY <1>2, ResetType DEF SwitchTo, Typed
<1> QED
  BY <1>3, <1>4, <1>5, RefsStep DEF SwitchTo

LEMMA LabelStep ==
    ASSUME Typed, NEW r \in Branches \cup Tags, NEW c \in 0..Len(commits),
           refs' = [refs EXCEPT ![r] = c], UNCHANGED <<worktree, index, commits, head, stash>>
    PROVE  Step
BY RefType, RefsStep DEF Typed

LEMMA BranchStep ==
    ASSUME Typed, NEW b \in Branches, Branch(b) \/ BranchDelete(b)
    PROVE  Step
<1>1. Tip \in 0..Len(commits) /\ 0 \in 0..Len(commits)
  BY CommitsDomain, TipType
<1>2. CASE Branch(b)
  BY <1>1, <1>2, LabelStep DEF Branch
<1>3. CASE BranchDelete(b)
  BY <1>1, <1>3, LabelStep DEF BranchDelete
<1> QED
  BY <1>2, <1>3

LEMMA TagStep ==
    ASSUME Typed, NEW t \in Tags
    PROVE  TagDelete(t) \/ (\E c \in DOMAIN commits : Tag(t, c)) => Step
<1>1. DOMAIN commits \subseteq 0..Len(commits) /\ 0 \in 0..Len(commits)
  BY CommitsDomain
<1>2. ASSUME NEW c \in DOMAIN commits, Tag(t, c)
      PROVE  Step
  BY <1>1, <1>2, LabelStep DEF Tag
<1>3. CASE TagDelete(t)
  BY <1>1, <1>3, LabelStep DEF TagDelete
<1> QED
  BY <1>2, <1>3

(* The commands that commit, and what some leave half done.                *)
LEMMA CommittedStep ==
    ASSUME Typed, worktree' \in Trees, index' \in Trees, UNCHANGED stash,
           NEW tree \in Trees, CommitTree(tree)
    PROVE  Step
BY CommitMoves DEF Step

LEMMA CommitStep ==
    ASSUME Typed, NEW allowEmpty \in BOOLEAN, Commit(allowEmpty)
    PROVE  Step
BY CommittedStep DEF Commit, Typed

LEMMA ReplayStep ==
    ASSUME Typed, NEW from \in Trees, NEW to \in Trees, Replay(from, to)
    PROVE  Step
<1>1. PICK S \in SUBSET Changed(from, to) :
        /\ index' = Staged(S, to)
        /\ \/ /\ S = Changed(from, to)
              /\ worktree' = Overlay(worktree, S, to)
              /\ IF CanCommit(index', FALSE)
                 THEN CommitTree(index')
                 ELSE UNCHANGED <<commits, refs, head>>
           \/ /\ QuotaFull
              /\ \E p \in Changed(from, to) \ S :
                    to[p] # Absent /\ worktree' = [Overlay(worktree, S, to) EXCEPT ![p] = Empty]
              /\ UNCHANGED <<commits, refs, head>>
  BY DEF Replay
<1>2. UNCHANGED stash
  BY DEF Replay
<1>3. worktree \in Trees /\ index \in Trees
  BY DEF Typed
<1>4. index' \in Trees /\ Overlay(worktree, S, to) \in Trees
  BY <1>1, <1>3, OverlayType DEF Staged
<1>5. worktree' \in Trees
  BY <1>1, <1>4, EmptyType DEF Changed
<1>6. CASE CommitTree(index')
  BY <1>2, <1>4, <1>5, <1>6, CommittedStep
<1>7. CASE UNCHANGED <<commits, refs, head>>
  BY <1>2, <1>4, <1>5, <1>7, FilesStep
<1> QED
  BY <1>1, <1>6, <1>7

LEMMA CherryPickStep ==
    ASSUME Typed, NEW c, CherryPick(c) \/ Revert(c)
    PROVE  Step
<1>1. Known(c)
  BY DEF CherryPick, Revert
<1>2. c \in 0..Len(commits) /\ commits[c].parent \in 0..Len(commits)
  BY <1>1, CommitType
<1>3. TreeOf(c) \in Trees /\ TreeOf(commits[c].parent) \in Trees
  BY <1>2, TreeType
<1> QED
  BY <1>3, ReplayStep DEF CherryPick, Revert

(* stash.                                                                  *)
LEMMA StashPushStep ==
    ASSUME Typed, StashPush
    PROVE  Step
<1>1. TreeOf(Tip) \in Trees /\ worktree \in Trees /\ index \in Trees
  BY TreeType, TipType DEF Typed
<1>2. CASE StashFails
  BY <1>1, <1>2, FilesStep DEF StashFails
<1>3. CASE /\ commits' = Append(commits, [tree |-> worktree, parent |-> Tip])
           /\ stash' = Noted(Len(commits) + 1)
           /\ index' = TreeOf(Tip) /\ worktree' = TreeOf(Tip)
           /\ UNCHANGED <<refs, head>>
  <2>1. Len(commits) \in Nat /\ Len(commits') = Len(commits) + 1
    BY <1>1, <1>3, CommitAppends
  <2>2. 0..Len(commits) \subseteq 0..Len(commits')
    BY <2>1
  <2>3. refs' \in [Branches \cup Tags -> 0..Len(commits')] /\ head' \in [branch : Heads, at : 0..Len(commits')]
    BY <1>3, <2>2 DEF Typed
  <2> QED
    BY <1>1, <1>3, <2>1, <2>3 DEF Step
<1>4. CASE CommitTree(worktree) /\ stash' = <<>> /\ index' = worktree /\ UNCHANGED worktree
  BY <1>1, <1>4, CommitMoves DEF Step
<1> QED
  BY <1>2, <1>3, <1>4 DEF StashPush, StashCommit

LEMMA StashWritesType ==
    ASSUME Typed, NEW i \in DOMAIN stash, Known(stash[i].commit),
           StashWrites(i) \/ StashFallsShort(i)
    PROVE  worktree' \in Trees /\ index' \in Trees /\ UNCHANGED <<commits, refs, head>>
<1> DEFINE t == TreeOf(stash[i].commit)
<1>1. t \in Trees
  BY CommitType, TreeType DEF TreeOf, Stored
<1>2. worktree \in Trees /\ index \in Trees
  BY DEF Typed
<1>3. \A S : Laid(t, S) \in Trees
  BY <1>1, <1>2, OverlayType DEF Laid
<1>4. CASE StashWrites(i)
  BY <1>3, <1>4 DEF StashWrites
<1>5. CASE StashFallsShort(i)
  <2>1. PICK S \in SUBSET Paths, p \in Paths : worktree' = [Laid(t, S) EXCEPT ![p] = Empty]
    BY <1>5 DEF StashFallsShort
  <2>2. [Laid(t, S) EXCEPT ![p] = Empty] \in Trees
    BY <1>3, EmptyType
  <2> QED
    BY <1>2, <1>5, <2>1, <2>2 DEF StashFallsShort
<1> QED
  BY <1>4, <1>5

LEMMA StashStep ==
    ASSUME Typed, worktree' \in Trees, index' \in Trees, UNCHANGED <<commits, refs, head>>,
           UNCHANGED stash \/ stash' = <<>> \/ \E i \in DOMAIN stash : stash' = Without(i)
    PROVE  Step
BY DEF Typed, Step

LEMMA StashTakesStep ==
    ASSUME Typed, StashKnown, NEW i \in DOMAIN stash, StashApply(i) \/ StashPop(i) \/ StashDrop(i)
    PROVE  Step
<1>1. Known(stash[i].commit)
  BY DEF StashKnown
<1>2. CASE StashApply(i)
  BY <1>1, <1>2, StashWritesType, StashStep DEF StashApply
<1>3. CASE StashPop(i)
  BY <1>1, <1>3, StashWritesType, StashStep DEF StashPop, WriteStash
<1>4. CASE StashDrop(i)
  BY <1>4, StashStep DEF StashDrop, WriteStash, Typed
<1> QED
  BY <1>2, <1>3, <1>4

LEMMA StashClearStep == Typed /\ StashClear => Step
BY StashStep DEF StashClear, Typed

LEMMA NextIsStep == GitInv /\ Next => Step
<1> SUFFICES ASSUME GitInv, Next
             PROVE  Step
  OBVIOUS
<1>1. Typed /\ StashKnown
  BY DEF GitInv
<1>2. ASSUME NEW p \in Paths, NEW c \in Contents \cup {Absent}, Edit(p, c)
      PROVE  Step
  BY <1>1, <1>2, EditStep
<1>3. CASE Add(Paths) \/ \E p \in Paths : Add({p}) \/ Rm(p) \/ CheckoutPath(p)
  BY <1>1, <1>3, AddStep, RmStep, CheckoutPathStep
<1>4. ASSUME NEW allowEmpty \in BOOLEAN, Commit(allowEmpty)
      PROVE  Step
  BY <1>1, <1>4, CommitStep
<1>5. ASSUME NEW c \in DOMAIN commits,
             \/ \E mode \in {"soft", "mixed", "hard"} : Reset(mode, c)
             \/ Merge(c) \/ CherryPick(c) \/ Revert(c)
             \/ \E p \in Paths, staged \in BOOLEAN : Restore(p, c, staged)
             \/ \E t \in Tags : Tag(t, c)
      PROVE  Step
  BY <1>1, <1>5, ResetStep, MergeStep, CherryPickStep, RestoreStep, TagStep
<1>6. ASSUME NEW t \in Tags, TagDelete(t)
      PROVE  Step
  BY <1>1, <1>6, TagStep
<1>7. ASSUME NEW b \in Branches, Switch(b) \/ Branch(b) \/ BranchDelete(b)
      PROVE  Step
  BY <1>1, <1>7, SwitchStep, BranchStep DEF Switch
<1>8. ASSUME NEW p \in Paths, NEW c \in Contents, Apply(p, c)
      PROVE  Step
  BY <1>1, <1>8, ApplyStep
<1>9. CASE StashPush \/ StashClear
  BY <1>1, <1>9, StashPushStep, StashClearStep
<1>10. ASSUME NEW i \in DOMAIN stash, StashApply(i) \/ StashPop(i) \/ StashDrop(i)
       PROVE  Step
  BY <1>1, <1>10, StashTakesStep
<1> QED
  BY <1>2, <1>3, <1>4, <1>5, <1>6, <1>7, <1>8, <1>9, <1>10 DEF Next

LEMMA GitInvInit == Init => GitInv
<1> SUFFICES ASSUME Init
             PROVE  GitInv
  OBVIOUS
<1>1. commits = <<>> /\ Len(commits) = 0 /\ DOMAIN commits = {} /\ commits \in Seq([tree : Trees, parent : Nat])
  BY DEF Init
<1>2. stash = <<>> /\ DOMAIN stash = {} /\ stash \in Seq([commit : Nat, branch : Heads])
  BY DEF Init
<1>3. worktree \in Trees /\ index \in Trees /\ 0 \in 0..Len(commits)
  BY <1>1 DEF Init, EmptyTree, Trees
<1>4. refs \in [Branches \cup Tags -> 0..Len(commits)] /\ head \in [branch : Heads, at : 0..Len(commits)]
  BY <1>3, MasterAssumption DEF Init, On, Heads
<1> QED
  BY <1>1, <1>2, <1>3, <1>4 DEF GitInv, Typed, StashKnown, StashDistinct

LEMMA GitInvNext == GitInv /\ [Next]_vars => GitInv'
<1>1. GitInv /\ Next => GitInv'
  BY NextIsStep, StepKeeps
<1>2. GitInv /\ UNCHANGED vars => GitInv'
  BY DEF GitInv, Typed, StashKnown, StashDistinct, Known, vars
<1> QED
  BY <1>1, <1>2

(* The repository is well formed at every step: the parent of a commit is  *)
(* an older one, branches, tags and HEAD point to commits there are, and   *)
(* the entries of the stash are different commits.                         *)
THEOREM GitInvariant == Spec => []GitInv
BY GitInvInit, GitInvNext, PTL DEF Spec

-----------------------------------------------------------------------------
(* The stash.                                                              *)

LEMMA PushKeeps == GitInv /\ [Next]_vars => PushKeepsWork
<1> SUFFICES ASSUME Typed, worktree' # worktree, StashPush
             PROVE  \E i \in DOMAIN stash' : commits'[stash'[i].commit].tree = worktree
  BY DEF PushKeepsWork, GitInv
<1>1. commits' = Append(commits, [tree |-> worktree, parent |-> Tip]) /\ stash' = Noted(Len(commits) + 1)
  BY DEF StashPush, StashFails, StashCommit
<1>2. worktree \in Trees /\ Len(commits) + 1 \in Nat /\ stash \in Seq(Entry)
  BY CommitsDomain DEF Typed, Entry
<1>3. commits'[Len(commits) + 1] = [tree |-> worktree, parent |-> Tip]
  BY <1>1, <1>2, CommitAppends
<1>4. stash'[1].commit = Len(commits) + 1 /\ 1 \in DOMAIN stash'
  <2>1. stash' \in Seq(Entry) /\ Len(stash') = Len(stash) + 1 /\ Len(stash) \in Nat
    BY <1>1, <1>2, NotedIs, LenProperties
  <2>2. stash'[1].commit = Len(commits) + 1
    BY <1>1, <1>2, NotedIs
  <2> QED
    BY <2>1, <2>2, LenProperties
<1> QED
  BY <1>3, <1>4

(* Which entry was dropped can be told from what is left.                  *)
LEMMA WithoutTells ==
    ASSUME Typed, StashDistinct, NEW i \in DOMAIN stash, NEW j \in DOMAIN stash, Without(i) = Without(j)
    PROVE  i = j
<1>1. stash \in Seq(Entry) /\ Len(stash) \in Nat /\ DOMAIN stash = 1..Len(stash)
  BY LenProperties DEF Typed, Entry
<1>2. ASSUME NEW k \in DOMAIN stash, NEW l \in DOMAIN stash, Without(k) = Without(l), k < l
      PROVE  FALSE
  <2>1. k \in 1..(Len(stash) - 1) /\ k \in Nat /\ k + 1 \in DOMAIN stash
    BY <1>1, <1>2
  <2>2. Without(k)[k] = stash[k + 1]
    <3>1. \A m \in 1..(Len(stash) - 1) : Without(k)[m] = stash[IF m < k THEN m ELSE m + 1]
      BY <1>1, WithoutIs
    <3>2. ~(k < k)
      BY <2>1
    <3> QED
      BY <2>1, <3>1, <3>2
  <2>3. Without(l)[k] = stash[k]
    BY <1>1, <1>2, <2>1, WithoutIs
  <2>4. k = k + 1
    BY <1>2, <2>1, <2>2, <2>3 DEF StashDistinct
  <2> QED
    BY <2>1, <2>4
<1> QED
  BY <1>1, <1>2

LEMMA NotShorter ==
    ASSUME Typed, NEW i \in DOMAIN stash
    PROVE  /\ Without(i) # stash
           /\ Without(i) # Noted(Len(commits) + 1)
<1>1. stash \in Seq(Entry) /\ Len(stash) \in Nat /\ Len(commits) + 1 \in Nat
  BY LenProperties, CommitsDomain DEF Typed, Entry
<1>2. Len(Without(i)) = Len(stash) - 1 /\ Len(Noted(Len(commits) + 1)) = Len(stash) + 1
  BY <1>1, WithoutIs, NotedIs
<1> QED
  BY <1>1, <1>2

(* The steps that touch the files and the stash at once are push and pop.  *)
LEMMA PopBrings == GitInv /\ [Next]_vars => PopBringsBack
<1> SUFFICES ASSUME GitInv, Next, NEW i \in DOMAIN stash, worktree' # worktree, stash' = Without(i),
                    NEW p \in Paths
             PROVE  TreeOf(stash[i].commit)[p] \in {Absent, worktree'[p]}
  BY DEF PopBringsBack, vars
<1>0. Typed /\ StashKnown /\ StashDistinct
  BY DEF GitInv
<1>1. stash' # stash /\ stash' # Noted(Len(commits) + 1)
  BY <1>0, NotShorter
<1>2. ~StashPush /\ ~StashClear
  BY <1>1 DEF StashPush, StashFails, StashCommit, StashClear
<1>3. PICK j \in DOMAIN stash : StashPop(j)
  <2>1. ASSUME NEW j \in DOMAIN stash, StashApply(j) \/ StashDrop(j)
        PROVE  FALSE
    BY <1>1, <2>1 DEF StashApply, StashDrop
  <2>2. ASSUME NEW c, Merge(c) \/ CherryPick(c) \/ Revert(c)
        PROVE  FALSE
    BY <1>1, <2>2 DEF Merge, CherryPick, Revert, Replay
  <2>3. ASSUME NEW c, NEW q, NEW m, Edit(q, c) \/ Apply(q, c) \/ Add(q) \/ Rm(q) \/ CheckoutPath(q)
                \/ Reset(m, c) \/ Restore(q, c, m) \/ Commit(c)
        PROVE  FALSE
    BY <1>1, <2>3 DEF Edit, Apply, Add, Rm, CheckoutPath, Reset, Restore, Commit
  <2>4. ASSUME NEW r, NEW c, Tag(r, c) \/ TagDelete(r) \/ Branch(r) \/ BranchDelete(r) \/ Switch(r)
        PROVE  FALSE
    BY <1>1, <2>4 DEF Tag, TagDelete, Branch, BranchDelete, Switch, SwitchTo
  <2> QED
    BY <1>2, <2>1, <2>2, <2>3, <2>4 DEF Next
<1>4. j = i
  <2>1. stash \in Seq(Entry) /\ Len(stash) \in Nat /\ DOMAIN stash = 1..Len(stash)
    BY <1>0, LenProperties DEF Typed, Entry
  <2>2. CASE stash' = Without(j)
    BY <1>0, <2>2, WithoutTells
  <2>3. CASE stash' = <<>>
    <3>1. Len(Without(i)) = Len(stash) - 1 /\ Without(i) = <<>>
      BY <2>1, <2>3, WithoutIs
    <3>2. Len(stash) = 1
      BY <2>1, <3>1
    <3> QED
      BY <2>1, <3>2
  <2> QED
    BY <1>1, <1>3, <2>2, <2>3 DEF StashPop, WriteStash
<1> DEFINE t == TreeOf(stash[i].commit)
<1>5. worktree' = Laid(t, Paths)
  BY <1>1, <1>3, <1>4 DEF StashPop, StashWrites
<1>6. t[p] # Absent => worktree'[p] = t[p]
  BY <1>5 DEF Laid, Overlay
<1> QED
  BY <1>6

(* Only push, pop, drop and clear write the stash at all.                  *)
LEMMA OthersKeep == GitInv /\ [Next]_vars => OthersStay
<1> SUFFICES ASSUME GitInv, Next, ~UNCHANGED stash
             PROVE  OthersStay
  BY DEF OthersStay, vars
<1>0. Typed /\ stash \in Seq(Entry) /\ Len(commits) + 1 \in Nat
  BY CommitsDomain DEF GitInv, Typed, Entry
<1>1. CASE StashPush
  <2>1. CASE stash' = Noted(Len(commits) + 1)
    <3>1. Len(stash') = Len(stash) + 1 /\ \A j \in 2..(Len(stash) + 1) : stash'[j] = stash[j - 1]
      BY <1>0, <2>1, NotedIs
    <3>2. DOMAIN stash = 1..Len(stash) /\ Len(stash) \in Nat
      BY <1>0, LenProperties
    <3>3. \A i \in DOMAIN stash : stash'[i + 1] = stash[i]
      BY <3>1, <3>2
    <3> QED
      BY <3>1, <3>3 DEF OthersStay
  <2>2. CASE QuotaFull /\ stash' = <<>>
    BY <1>1, <2>2 DEF OthersStay, Refused
  <2> QED
    BY <1>1, <2>1, <2>2 DEF StashPush, StashFails, StashCommit
<1>2. CASE StashClear
  BY <1>2 DEF OthersStay
<1>3. ASSUME NEW i \in DOMAIN stash, StashApply(i) \/ StashPop(i) \/ StashDrop(i)
      PROVE  OthersStay
  <2>1. StashPop(i) \/ StashDrop(i)
    BY <1>3 DEF StashApply
  <2>2. stash' = Without(i) \/ (QuotaFull /\ stash' = <<>>)
    BY <2>1 DEF StashPop, StashDrop, WriteStash
  <2> QED
    BY <2>1, <2>2 DEF OthersStay, Refused
<1>4. ASSUME NEW c, Merge(c) \/ CherryPick(c) \/ Revert(c)
      PROVE  FALSE
  BY <1>4 DEF Merge, CherryPick, Revert, Replay
<1>5. ASSUME NEW c, NEW q, NEW m, Edit(q, c) \/ Apply(q, c) \/ Add(q) \/ Rm(q) \/ CheckoutPath(q)
              \/ Reset(m, c) \/ Restore(q, c, m) \/ Commit(c)
      PROVE  FALSE
  BY <1>5 DEF Edit, Apply, Add, Rm, CheckoutPath, Reset, Restore, Commit
<1>6. ASSUME NEW r, NEW c, Tag(r, c) \/ TagDelete(r) \/ Branch(r) \/ BranchDelete(r) \/ Switch(r)
      PROVE  FALSE
  BY <1>6 DEF Tag, TagDelete, Branch, BranchDelete, Switch, SwitchTo
<1> QED
  BY <1>1, <1>2, <1>3, <1>4, <1>5, <1>6 DEF Next

LEMMA TypedOK == Typed => TypeOK
<1> SUFFICES ASSUME Typed
             PROVE  TypeOK
  OBVIOUS
<1>1. {worktree, index} \subseteq Trees /\ head.branch \in Heads /\ head.at \in 0..Len(commits)
  BY DEF Typed
<1>2. \A c \in DOMAIN commits : commits[c].parent \in 0..(c - 1)
  <2>1. \A c \in DOMAIN commits : c \in Nat /\ commits[c].parent \in Nat /\ commits[c].parent < c
    BY CommitsDomain, CommitType DEF Typed, Known
  <2> QED
    BY <2>1
<1> QED
  BY <1>1, <1>2 DEF TypeOK, Typed, Trees, Heads

(* Whatever the user does in between and wherever a write is refused, stash*)
(* push loses no file, the stash knows only commits there are, an entry    *)
(* leaves it by pop only when all its files are back, and no other entry   *)
(* leaves it but by clear, or where the stash itself cannot be written.    *)
THEOREM StashKeeps == Spec => StashKeepsWork
<1>1. GitInv => TypeOK /\ \A i \in DOMAIN stash : Known(stash[i].commit)
  BY TypedOK DEF GitInv, StashKnown
<1> QED
  BY <1>1, GitInvariant, PushKeeps, PopBrings, OthersKeep, PTL DEF Spec, StashKeepsWork

-----------------------------------------------------------------------------
(* The history.                                                            *)

IsChain(store, g) ==
    g = [d \in 0..Len(store) |-> IF d = 0 THEN <<>> ELSE <<d>> \o g[store[d].parent]]

(* What follows for a number from all smaller ones is so for all.          *)
LEMMA CourseOfValues ==
    ASSUME NEW n \in Nat, NEW G,
           \A d \in 0..n : (\A e \in 0..n : e < d => e \in G) => d \in G
    PROVE  \A d \in 0..n : d \in G
<1> SUFFICES ASSUME (0..n) \ G # {}
             PROVE  FALSE
  OBVIOUS
<1> DEFINE T == (0..n) \ G
<1>1. T \subseteq Nat /\ T # {}
  OBVIOUS
<1>2. PICK d \in T : \A e \in T : ~(<<e, d>> \in OpToRel(<, Nat))
  <2> HIDE DEF T
  <2> QED
    BY <1>1, NatLessThanWellFounded, WFMin
<1>3. \A e \in T : ~(e < d)
  BY <1>1, <1>2 DEF OpToRel
<1> QED
  BY <1>3

LEMMA StoreType ==
    ASSUME NEW store \in Seq(Stored), \A c \in DOMAIN store : store[c].parent < c
    PROVE  /\ Len(store) \in Nat /\ DOMAIN store = 1..Len(store)
           /\ \A c \in 1..Len(store) : store[c].parent \in Nat /\ store[c].parent < c
<1>1. Len(store) \in Nat /\ DOMAIN store = 1..Len(store)
  BY LenProperties
<1>2. \A c \in 1..Len(store) : store[c] \in Stored
  BY ElementOfSeq
<1>3. \A s \in Stored : s.parent \in Nat
  BY DEF Stored
<1> QED
  BY <1>1, <1>2, <1>3

LEMMA ChainExists ==
    ASSUME NEW store \in Seq(Stored), \A c \in DOMAIN store : store[c].parent < c
    PROVE  \E g : IsChain(store, g)
<1>0. Len(store) \in Nat /\ \A c \in 1..Len(store) : store[c].parent \in Nat /\ store[c].parent < c
  BY StoreType
<1> DEFINE Up(n, g) == g = [d \in 0..n |-> IF d = 0 THEN <<>> ELSE <<d>> \o g[store[d].parent]]
           G == {n \in 0..Len(store) : \E g : Up(n, g)}
<1>1. ASSUME NEW n \in 0..Len(store), \A m \in 0..Len(store) : m < n => m \in G
      PROVE  n \in G
  <2>1. CASE n = 0
    <3> DEFINE g == [d \in 0..n |-> <<>>]
    <3>1. Up(n, g)
      BY <2>1
    <3> QED
      BY <3>1
  <2>2. CASE n # 0
    <3>1. n - 1 \in 0..Len(store) /\ n - 1 < n
      BY <1>0, <2>2
    <3>2. PICK g : Up(n - 1, g)
      BY <1>1, <3>1
    <3> DEFINE h == [d \in 0..n |-> IF d = n THEN <<n>> \o g[store[n].parent] ELSE g[d]]
    <3>3. \A d \in 0..(n - 1) : h[d] = g[d]
      BY <1>0
    <3>4. h[n] = <<n>> \o g[store[n].parent]
      BY <1>0
    <3>5. \A d \in 1..n : store[d].parent \in 0..(n - 1)
      BY <1>0
    <3>6. ASSUME NEW d \in 0..n
          PROVE  h[d] = IF d = 0 THEN <<>> ELSE <<d>> \o h[store[d].parent]
      <4>1. CASE d = n
        <5>1. store[d].parent \in 0..(n - 1)
          BY <2>2, <3>5, <4>1, <1>0
        <5>2. h[store[d].parent] = g[store[d].parent]
          BY <3>3, <5>1
        <5> HIDE DEF h
        <5> QED
          BY <2>2, <3>4, <4>1, <5>2
      <4>2. CASE d # n
        <5>1. d \in 0..(n - 1)
          BY <1>0, <4>2
        <5>2. g[d] = IF d = 0 THEN <<>> ELSE <<d>> \o g[store[d].parent]
          BY <3>2, <5>1
        <5>3. d # 0 => store[d].parent \in 0..(n - 1)
          BY <3>5, <5>1, <1>0
        <5> HIDE DEF h, Up
        <5> QED
          BY <3>3, <5>1, <5>2, <5>3
      <4> QED
        BY <4>1, <4>2
    <3>7. Up(n, h)
      BY <3>6
    <3> HIDE DEF h
    <3> QED
      BY <3>7
  <2> QED
    BY <2>1, <2>2
<1>2. Len(store) \in G
  <2> HIDE DEF G
  <2>1. \A d \in 0..Len(store) : d \in G
    BY <1>0, <1>1, CourseOfValues
  <2> QED
    BY <1>0, <2>1
<1> QED
  BY <1>2 DEF IsChain

LEMMA ChainType ==
    ASSUME NEW store \in Seq(Stored), \A c \in DOMAIN store : store[c].parent < c, NEW g, IsChain(store, g)
    PROVE  \A d \in 0..Len(store) : g[d] \in Seq(Nat)
<1>0. Len(store) \in Nat /\ \A c \in 1..Len(store) : store[c].parent \in Nat /\ store[c].parent < c
  BY StoreType
<1> DEFINE G == {d \in 0..Len(store) : g[d] \in Seq(Nat)}
<1>1. ASSUME NEW d \in 0..Len(store), \A e \in 0..Len(store) : e < d => e \in G
      PROVE  d \in G
  <2>1. g[d] = IF d = 0 THEN <<>> ELSE <<d>> \o g[store[d].parent]
    BY DEF IsChain
  <2>2. CASE d = 0
    BY <2>1, <2>2, EmptySeq
  <2>3. CASE d # 0
    <3>1. store[d].parent \in 0..Len(store) /\ store[d].parent < d
      BY <1>0, <2>3
    <3>2. g[store[d].parent] \in Seq(Nat) /\ <<d>> \in Seq(Nat)
      BY <1>0, <1>1, <3>1
    <3>3. <<d>> \o g[store[d].parent] \in Seq(Nat)
      BY <3>2, ConcatProperties
    <3> QED
      BY <2>1, <2>3, <3>3
  <2> QED
    BY <2>2, <2>3
<1>2. \A d \in 0..Len(store) : d \in G
  <2> HIDE DEF G
  <2> QED
    BY <1>0, <1>1, CourseOfValues
<1> QED
  BY <1>2

(* The parent of a commit is the second of its chain.                      *)
LEMMA ParentFollows ==
    ASSUME NEW store \in Seq(Stored), \A c \in DOMAIN store : store[c].parent < c,
           NEW c \in DOMAIN store, store[c].parent # 0
    PROVE  \E i \in DOMAIN ChainIn(store, c) : ChainIn(store, c)[i] = store[c].parent
<1>0. /\ Len(store) \in Nat /\ c \in 1..Len(store)
      /\ \A d \in 1..Len(store) : store[d].parent \in Nat /\ store[d].parent < d
  BY StoreType
<1> DEFINE g == CHOOSE h : IsChain(store, h)
           p == store[c].parent
<1>1. IsChain(store, g)
  BY ChainExists
<1>2. ChainIn(store, c) = g[c]
  BY DEF ChainIn, IsChain
<1> HIDE DEF g
<1>3. p \in 1..Len(store) /\ store[p].parent \in 0..Len(store)
  BY <1>0
<1>4. g[c] = <<c>> \o g[p] /\ g[p] = <<p>> \o g[store[p].parent]
  <2>1. \A d \in 0..Len(store) : g[d] = IF d = 0 THEN <<>> ELSE <<d>> \o g[store[d].parent]
    BY <1>1 DEF IsChain
  <2>2. c \in 0..Len(store) /\ p \in 0..Len(store) /\ c # 0 /\ p # 0
    BY <1>0, <1>3
  <2> QED
    BY <2>1, <2>2
<1>5. g[store[p].parent] \in Seq(Nat) /\ g[p] \in Seq(Nat)
  BY <1>1, <1>3, <1>0, ChainType
<1> DEFINE r == g[store[p].parent]
<1>6. <<c>> \in Seq(Nat) /\ <<p>> \in Seq(Nat) /\ Len(<<c>>) = 1 /\ Len(<<p>>) = 1 /\ <<p>>[1] = p
  BY <1>0, <1>3
<1> HIDE DEF p, r
<1>7. /\ Len(<<p>> \o r) = 1 + Len(r) /\ Len(r) \in Nat
      /\ (<<p>> \o r)[1] = p
  BY <1>5, <1>6, ConcatProperties, LenProperties DEF r
<1>8. /\ <<c>> \o g[p] \in Seq(Nat) /\ Len(<<c>> \o g[p]) = 1 + Len(g[p])
      /\ 1 <= Len(g[p]) => (<<c>> \o g[p])[2] = g[p][1]
  BY <1>5, <1>6, ConcatProperties, LenProperties
<1>9. g[p][1] = p /\ 1 <= Len(g[p]) /\ Len(g[p]) \in Nat
  BY <1>4, <1>7 DEF r
<1>10. g[c][2] = p /\ Len(g[c]) = 1 + Len(g[p]) /\ g[c] \in Seq(Nat)
  BY <1>4, <1>8, <1>9
<1>11. 2 \in DOMAIN g[c]
  BY <1>9, <1>10, LenProperties
<1> QED
  BY <1>2, <1>10, <1>11 DEF p

-----------------------------------------------------------------------------
(* What becomes of a branch or a tag r.                                    *)
Follows(r) ==
    \E i \in DOMAIN ChainIn(commits', refs'[r]) : ChainIn(commits', refs'[r])[i] = refs[r]
Forward(r) ==
    refs[r] # 0 /\ refs'[r] \notin {0, refs[r]} =>
        \/ r \in Branches /\ Follows(r)
        \/ \E c \in DOMAIN commits, mode \in {"soft", "mixed", "hard"} : Reset(mode, c)
        \/ Branch(r)

LEMMA CommitForward ==
    ASSUME Typed, NEW tree \in Trees, CommitTree(tree), NEW r
    PROVE  refs[r] # 0 /\ refs'[r] \notin {0, refs[r]} => r \in Branches /\ Follows(r)
<1> SUFFICES ASSUME refs[r] # 0, refs'[r] # refs[r]
             PROVE  r \in Branches /\ Follows(r)
  OBVIOUS
<1>1. SetHeadCommit(Len(commits) + 1) /\ commits' = Append(commits, [tree |-> tree, parent |-> Tip])
  BY DEF CommitTree
<1>2. head.branch # NoBranch /\ refs' = [refs EXCEPT ![head.branch] = Len(commits) + 1]
  BY <1>1 DEF SetHeadCommit
<1>3. head.branch \in Branches
  BY <1>2 DEF Typed, Heads
<1>4. r = head.branch /\ refs'[r] = Len(commits) + 1 /\ refs[r] = Tip
  BY <1>2, <1>3 DEF Typed, Tip
<1>5. /\ commits' \in Seq(Stored) /\ Len(commits) \in Nat /\ Len(commits') = Len(commits) + 1
      /\ \A c \in 1..Len(commits) : commits'[c] = commits[c]
      /\ commits'[Len(commits) + 1] = [tree |-> tree, parent |-> Tip]
  BY <1>1, CommitAppends
<1>6. commits'[Len(commits) + 1].parent = Tip /\ DOMAIN commits' = 1..(Len(commits) + 1)
  BY <1>5, LenProperties
<1>7. \A c \in DOMAIN commits' : commits'[c].parent < c
  <2>1. \A c \in 1..Len(commits) : commits'[c].parent < c
    BY <1>5, CommitsDomain DEF Typed
  <2> QED
    BY <1>5, <1>6, <2>1, TipType
<1>8. Len(commits) + 1 \in DOMAIN commits' /\ commits'[Len(commits) + 1].parent # 0
  BY <1>4, <1>5, <1>6
<1>9. \E i \in DOMAIN ChainIn(commits', Len(commits) + 1) : ChainIn(commits', Len(commits) + 1)[i] = Tip
  BY <1>5, <1>6, <1>7, <1>8, ParentFollows
<1> QED
  BY <1>3, <1>4, <1>9 DEF Follows

LEMMA StaysForward == ASSUME NEW r, UNCHANGED refs PROVE Forward(r)
BY DEF Forward

LEMMA MergeForward ==
    ASSUME Typed, NEW c, Merge(c), NEW r
    PROVE  Forward(r)
<1>1. CASE UNCHANGED refs
  BY <1>1, StaysForward
<1>2. CASE SetHeadCommit(c) /\ ~UNCHANGED refs
  <2>1. head.branch \in Branches /\ refs' = [refs EXCEPT ![head.branch] = c] /\ Tip = refs[head.branch]
    BY <1>2 DEF SetHeadCommit, Typed, Heads, Tip
  <2>2. CASE r # head.branch
    BY <2>1, <2>2 DEF Forward, Typed
  <2>3. CASE r = head.branch
    <3>1. refs[r] = Tip /\ refs'[r] = c /\ UNCHANGED commits
      BY <2>1, <2>3 DEF Typed, Merge
    <3>2. \E i \in DOMAIN ChainIn(commits, c) : ChainIn(commits, c)[i] = Tip
      BY DEF Merge, IsFastForward
    <3> QED
      BY <2>1, <2>3, <3>1, <3>2 DEF Forward, Follows
  <2> QED
    BY <2>2, <2>3
<1> QED
  BY <1>1, <1>2 DEF Merge

LEMMA CommitsForward ==
    ASSUME Typed, NEW r
    PROVE  /\ \A allowEmpty : Commit(allowEmpty) => Forward(r)
           /\ \A c : CherryPick(c) \/ Revert(c) => Forward(r)
           /\ StashPush => Forward(r)
<1>0. worktree \in Trees /\ index \in Trees
  BY DEF Typed
<1>1. ASSUME NEW tree \in Trees, CommitTree(tree)
      PROVE  Forward(r)
  BY <1>1, CommitForward DEF Forward
<1>2. ASSUME NEW from \in Trees, NEW to \in Trees, Replay(from, to)
      PROVE  Forward(r)
  <2>1. PICK S \in SUBSET Changed(from, to) :
          index' = Staged(S, to) /\ (CommitTree(index') \/ UNCHANGED refs)
    BY <1>2 DEF Replay
  <2>2. index' \in Trees
    BY <1>0, <2>1, OverlayType DEF Staged
  <2> QED
    BY <1>1, <2>1, <2>2, StaysForward
<1>3. ASSUME NEW c, Known(c)
      PROVE  TreeOf(c) \in Trees /\ TreeOf(commits[c].parent) \in Trees
  BY <1>3, CommitType, TreeType
<1>4. \A c : CherryPick(c) \/ Revert(c) => Forward(r)
  BY <1>2, <1>3 DEF CherryPick, Revert
<1>5. \A allowEmpty : Commit(allowEmpty) => Forward(r)
  BY <1>0, <1>1 DEF Commit
<1>6. StashPush => Forward(r)
  BY <1>0, <1>1, StaysForward DEF StashPush, StashFails, StashCommit
<1> QED
  BY <1>4, <1>5, <1>6

(* A tag, and a branch that a switch creates, were not there before.       *)
LEMMA LabelsForward ==
    ASSUME Typed, NEW r
    PROVE  /\ \A t \in Tags : \A c : Tag(t, c) => Forward(r)
           /\ \A t \in Tags : TagDelete(t) => Forward(r)
           /\ \A b \in Branches : Branch(b) \/ BranchDelete(b) \/ Switch(b) => Forward(r)
<1>1. \A t \in Tags : \A c : Tag(t, c) => Forward(r)
  BY DEF Typed, Tag, Forward
<1>2. \A t \in Tags : TagDelete(t) => Forward(r)
  BY DEF Typed, TagDelete, Forward
<1>3. ASSUME NEW b \in Branches, Branch(b)
      PROVE  Forward(r)
  <2>1. CASE r = b
    BY <1>3, <2>1 DEF Forward
  <2>2. CASE r # b
    BY <1>3, <2>2 DEF Branch, Typed, Forward
  <2> QED
    BY <2>1, <2>2
<1>4. \A b \in Branches : BranchDelete(b) => Forward(r)
  BY DEF Typed, BranchDelete, Forward
<1>5. ASSUME NEW b \in Branches, NEW create \in BOOLEAN, NEW force \in BOOLEAN, SwitchTo(b, create, force)
      PROVE  Forward(r)
  <2>1. CASE create
    <3>1. refs[b] = 0 /\ refs' = [refs EXCEPT ![b] = Target(b, create)]
      BY <1>5, <2>1 DEF SwitchTo, CanCheckout, CheckoutRefs
    <3> QED
      BY <3>1 DEF Typed, Forward
  <2>2. CASE ~create
    BY <1>5, <2>2, StaysForward DEF SwitchTo, CheckoutRefs
  <2> QED
    BY <2>1, <2>2
<1> QED
  BY <1>1, <1>2, <1>3, <1>4, <1>5 DEF Switch

LEMMA NextForward ==
    ASSUME GitInv, [Next]_vars, NEW r
    PROVE  Forward(r)
<1>0. Typed
  BY DEF GitInv
<1>1. ASSUME NEW p, NEW c, NEW s, Edit(p, c) \/ Add(p) \/ Rm(p) \/ CheckoutPath(p) \/ Apply(p, c) \/ Restore(p, c, s)
      PROVE  Forward(r)
  BY <1>1, StaysForward DEF Edit, Add, Rm, CheckoutPath, Apply, Restore
<1>2. ASSUME NEW i, StashApply(i) \/ StashPop(i) \/ StashDrop(i)
      PROVE  Forward(r)
  BY <1>2, StaysForward DEF StashApply, StashPop, StashDrop, StashWrites, StashFallsShort
<1>3. StashClear => Forward(r)
  BY StaysForward DEF StashClear
<1>4. ASSUME NEW c \in DOMAIN commits, NEW mode \in {"soft", "mixed", "hard"}, Reset(mode, c)
      PROVE  Forward(r)
  BY <1>4 DEF Forward
<1>5. UNCHANGED vars => Forward(r)
  BY StaysForward DEF vars
<1> QED
  BY <1>0, <1>1, <1>2, <1>3, <1>4, <1>5, MergeForward, CommitsForward, LabelsForward DEF Next

(* No command but reset and branch takes a commit off a branch, and none   *)
(* moves a tag: what a branch pointed to is in the history of what it      *)
(* points to next, also where stash, merge and cherry-pick fail halfway.   *)
THEOREM RefsForward == Spec => RefsMoveForward
<1>1. GitInv /\ [Next]_vars =>
        [ \A r \in Branches \cup Tags :
            refs[r] # 0 /\ refs'[r] \notin {0, refs[r]} =>
                \/ /\ r \in Branches
                   /\ \E i \in DOMAIN ChainIn(commits', refs'[r]) : ChainIn(commits', refs'[r])[i] = refs[r]
                \/ \E c \in DOMAIN commits, mode \in {"soft", "mixed", "hard"} : Reset(mode, c)
                \/ Branch(r) ]_vars
  BY NextForward DEF Forward, Follows
<1> QED
  BY <1>1, GitInvariant, PTL DEF Spec, RefsMoveForward
=============================================================================
