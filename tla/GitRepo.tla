------------------------------- MODULE GitRepo ------------------------------
(***************************************************************************)
(* native/git: the subcommands of git that work on one repository of the   *)
(* session's filesystem.  A path holds a content or nothing; a commit is   *)
(* the tree it records and its parent; a command of the user is one action.*)
(*                                                                         *)
(* go-git is external.  Of its Worktree this module says what the commands *)
(* rely on: Add, Remove, Commit (which refuses a commit that changes       *)
(* nothing), Reset, and Checkout, which moves HEAD before it finds out     *)
(* whether uncommitted changes stand in its way.  Whether files that no    *)
(* commit knows survive a reset of the worktree is left open.              *)
(***************************************************************************)
EXTENDS Naturals, Sequences, FiniteSets

CONSTANTS
    Paths, Contents,
    Absent,         \* no file
    Empty,          \* what a write that failed left of a file
    Branches, Master,
    Tags,
    WalkLimit,      \* how many commits a merge looks at: 1000
    MaxCommits,     \* bound: commits
    MaxStash,       \* bound: entries of the stash
    QuotaFull       \* BOOLEAN: a write to the filesystem may fail

ASSUME MasterAssumption == Master \in Branches

VARIABLES
    worktree,       \* the files
    index,          \* what is staged
    commits,        \* the object store: tree and parent of each commit
    refs,           \* branches and tags: a commit, 0 for none
    head,           \* HEAD: a branch, or a commit when detached
    stash           \* .git/memsh_stash: commit and branch, newest first

vars == <<worktree, index, commits, refs, head, stash>>

-----------------------------------------------------------------------------
NoBranch  == "none"
EmptyTree == [p \in Paths |-> Absent]
Tip       == IF head.branch = NoBranch THEN head.at ELSE refs[head.branch]
TreeOf(c) == IF c = 0 THEN EmptyTree ELSE commits[c].tree

On(b)       == [branch |-> b, at |-> 0]
Detached(c) == [branch |-> NoBranch, at |-> c]

(* A commit and its ancestors, as repo.Log walks them.                     *)
ChainIn(store, c) ==
    LET chain[d \in 0..Len(store)] == IF d = 0 THEN <<>> ELSE <<d>> \o chain[store[d].parent]
    IN chain[c]
Known(c) == c \in DOMAIN commits

(* Worktree.Status: nothing staged, nothing changed, nothing untracked.    *)
IsClean    == worktree = index /\ index = TreeOf(Tip)
Unstaged   == {p \in Paths : index[p] # Absent /\ worktree[p] # index[p]}
Untracked(t) == {p \in Paths : index[p] = Absent /\ t[p] = Absent}

-----------------------------------------------------------------------------
(* go-git.                                                                 *)

(* A branch that HEAD is on moves; a detached HEAD moves itself.           *)
SetHeadCommit(c) ==
    IF head.branch = NoBranch
    THEN head' = Detached(c) /\ UNCHANGED refs
    ELSE refs' = [refs EXCEPT ![head.branch] = c] /\ UNCHANGED head

(* Index and worktree become the tree t.                                   *)
ResetTo(t) ==
    /\ index' = t
    /\ \E kept \in SUBSET Untracked(t) :
        worktree' = [p \in Paths |-> IF p \in kept THEN worktree[p] ELSE t[p]]

CanCommit(tree, allowEmpty) ==
    /\ Len(commits) < MaxCommits
    /\ allowEmpty \/ tree # TreeOf(Tip)

CommitTree(tree) ==
    /\ commits' = Append(commits, [tree |-> tree, parent |-> Tip])
    /\ SetHeadCommit(Len(commits) + 1)

(* Worktree.Checkout of a branch, created at HEAD or there already; target *)
(* is its commit.                                                          *)
CheckoutRefs(b, create, target) ==
    /\ refs' = IF create THEN [refs EXCEPT ![b] = target] ELSE refs
    /\ head' = On(b)

Target(b, create) == IF create THEN Tip ELSE refs[b]
CanCheckout(b, create) == IF create THEN refs[b] = 0 /\ Tip # 0 ELSE refs[b] # 0

-----------------------------------------------------------------------------
(* The user's other commands: an editor, rm, a redirection.                *)
Edit(p, c) ==
    /\ worktree[p] # c
    /\ worktree' = [worktree EXCEPT ![p] = c]
    /\ UNCHANGED <<index, commits, refs, head, stash>>

Add(S) ==
    /\ \E p \in S : worktree[p] # index[p]
    /\ index' = [p \in Paths |-> IF p \in S THEN worktree[p] ELSE index[p]]
    /\ UNCHANGED <<worktree, commits, refs, head, stash>>

(* --cached is accepted and does not matter.                               *)
Rm(p) ==
    /\ index[p] # Absent
    /\ index' = [index EXCEPT ![p] = Absent]
    /\ worktree' = [worktree EXCEPT ![p] = Absent]
    /\ UNCHANGED <<commits, refs, head, stash>>

Commit(allowEmpty) ==
    /\ CanCommit(index, allowEmpty)
    /\ CommitTree(index)
    /\ UNCHANGED <<worktree, index, stash>>

Reset(mode, c) ==
    /\ Known(c)
    /\ SetHeadCommit(c)
    /\ CASE mode = "soft"  -> UNCHANGED <<index, worktree>>
         [] mode = "mixed" -> index' = TreeOf(c) /\ UNCHANGED worktree
         [] mode = "hard"  -> ResetTo(TreeOf(c))
    /\ UNCHANGED <<commits, stash>>

(* Worktree.Reset asks for changes of tracked files that are not staged:   *)
(* what is staged only, and untracked files, it writes over.               *)
InTheWay(force) == ~force /\ Unstaged # {}

(* checkout BRANCH, checkout -b, switch, switch -c; where changes are in   *)
(* the way, HEAD has moved by then.  switch -C resets over them.           *)
SwitchTo(b, create, force) ==
    /\ CanCheckout(b, create)
    /\ CheckoutRefs(b, create, Target(b, create))
    /\ IF InTheWay(force)
       THEN UNCHANGED <<index, worktree>>
       ELSE ResetTo(TreeOf(Target(b, create)))
    /\ UNCHANGED <<commits, stash>>

Switch(b) == \E create, force \in BOOLEAN : (force => create) /\ SwitchTo(b, create, force)

(* checkout PATH comes after a checkout of a branch of that name failed.   *)
CheckoutPath(p) ==
    /\ Tip # 0 /\ TreeOf(Tip)[p] # Absent
    /\ worktree' = [worktree EXCEPT ![p] = TreeOf(Tip)[p]]
    /\ UNCHANGED <<index, commits, refs, head, stash>>

(* restore, with --staged through the worktree.                            *)
Restore(p, c, staged) ==
    /\ Known(c) /\ TreeOf(c)[p] # Absent
    /\ worktree' = [worktree EXCEPT ![p] = TreeOf(c)[p]]
    /\ index' = IF staged THEN [index EXCEPT ![p] = TreeOf(c)[p]] ELSE index
    /\ UNCHANGED <<commits, refs, head, stash>>

(* A branch of that name that there is already is moved to HEAD.           *)
Branch(b) ==
    /\ Tip # 0
    /\ refs' = [refs EXCEPT ![b] = Tip]
    /\ UNCHANGED <<worktree, index, commits, head, stash>>

(* The branch that HEAD is on may be deleted like any other.               *)
BranchDelete(b) ==
    /\ refs[b] # 0
    /\ refs' = [refs EXCEPT ![b] = 0]
    /\ UNCHANGED <<worktree, index, commits, head, stash>>

(* Mutant: a tag that exists is moved, as a branch is.                     *)
Tag_Moves(t, c) ==
    /\ Known(c)
    /\ refs' = [refs EXCEPT ![t] = c]
    /\ UNCHANGED <<worktree, index, commits, head, stash>>
Tag(t, c) ==
    /\ Known(c) /\ refs[t] = 0
    /\ refs' = [refs EXCEPT ![t] = c]
    /\ UNCHANGED <<worktree, index, commits, head, stash>>

TagDelete(t) ==
    /\ refs[t] # 0
    /\ refs' = [refs EXCEPT ![t] = 0]
    /\ UNCHANGED <<worktree, index, commits, head, stash>>

-----------------------------------------------------------------------------
(* merge: HEAD must be among the commits that the walk from the target     *)
(* sees.                                                                   *)
IsFastForward(c) ==
    /\ c # Tip
    /\ \E i \in DOMAIN ChainIn(commits, c) : i <= WalkLimit + 1 /\ ChainIn(commits, c)[i] = Tip

(* HEAD is detached, index and worktree are reset over what was changed,   *)
(* the branch follows and HEAD returns to it.                              *)
Merge(c) ==
    /\ Tip # 0 /\ Known(c)
    /\ IsFastForward(c)
    /\ \/ /\ ResetTo(TreeOf(c))
          /\ SetHeadCommit(c)
       \/ /\ QuotaFull
          /\ head' = Detached(c)
          /\ UNCHANGED <<index, worktree, refs>>
    /\ UNCHANGED <<commits, stash>>

(* The commit's changes to its parent, written over the worktree and       *)
(* staged one by one; a deletion is not staged.  A write that fails leaves *)
(* the changes before it and an empty file, and no commit.                 *)
Changed(from, to) == {p \in Paths : from[p] # to[p]}
Overlay(tree, S, to) == [p \in Paths |-> IF p \in S THEN to[p] ELSE tree[p]]
Staged(S, to) == Overlay(index, {p \in S : to[p] # Absent}, to)

Replay(from, to) ==
    /\ Tip # 0
    /\ \E S \in SUBSET Changed(from, to) :
        /\ index' = Staged(S, to)
        /\ \/ /\ S = Changed(from, to)
              /\ worktree' = Overlay(worktree, S, to)
              /\ IF CanCommit(index', FALSE)
                 THEN CommitTree(index')
                 ELSE UNCHANGED <<commits, refs, head>>
           \/ /\ QuotaFull
              /\ \E p \in Changed(from, to) \ S :
                    to[p] # Absent /\ worktree' = [Overlay(worktree, S, to) EXCEPT ![p] = Empty]
              /\ UNCHANGED <<commits, refs, head>>
    /\ UNCHANGED stash

CherryPick(c) == Known(c) /\ Replay(TreeOf(commits[c].parent), TreeOf(c))
Revert(c)     == Known(c) /\ Replay(TreeOf(c), TreeOf(commits[c].parent))

(* apply: the patched file is written and staged.                          *)
Apply(p, c) ==
    /\ worktree' = [worktree EXCEPT ![p] = c]
    /\ index' = [index EXCEPT ![p] = c]
    /\ UNCHANGED <<commits, refs, head, stash>>

-----------------------------------------------------------------------------
(* writeStash truncates the file before it writes: a refused write leaves  *)
(* no entry at all.                                                        *)
WriteStash(s) == stash' = s \/ (QuotaFull /\ stash' = <<>>)

(* stash push: everything is staged and committed, the commit is noted in  *)
(* the stash, and the branch is reset to where it was.                     *)
(* Mutant: the file is written with the new entry alone.                   *)
Noted_Alone(c) == <<[commit |-> c, branch |-> head.branch]>>
Noted(c)      == <<[commit |-> c, branch |-> head.branch]>> \o stash
CanStashPush  == ~IsClean /\ Tip # 0

(* Everything is staged and cannot be committed: HEAD has it already, or   *)
(* the commit is refused.  The stash is not touched.                       *)
(* Mutant: the stash is written before the commit.                         *)
StashFails_Noted ==
    /\ worktree = TreeOf(Tip) /\ Len(stash) < MaxStash
    /\ index' = worktree
    /\ stash' = Noted(Len(commits) + 1)
    /\ UNCHANGED <<worktree, commits, refs, head>>
StashFails ==
    /\ worktree = TreeOf(Tip) \/ QuotaFull
    /\ index' = worktree
    /\ UNCHANGED <<worktree, commits, refs, head, stash>>

(* A stash that cannot be written leaves the commit on the branch, and all *)
(* older entries are gone.                                                 *)
(* Mutant: the branch is reset before the stash is written.                *)
StashCommit_ResetFirst ==
    /\ CanCommit(worktree, FALSE) /\ Len(stash) < MaxStash
    /\ commits' = Append(commits, [tree |-> worktree, parent |-> Tip])
    /\ index' = TreeOf(Tip) /\ worktree' = TreeOf(Tip)
    /\ (stash' = Noted(Len(commits) + 1)) \/ (QuotaFull /\ stash' = <<>>)
    /\ UNCHANGED <<refs, head>>

StashCommit ==
    /\ CanCommit(worktree, FALSE) /\ Len(stash) < MaxStash
    /\ \/ /\ commits' = Append(commits, [tree |-> worktree, parent |-> Tip])
          /\ stash' = Noted(Len(commits) + 1)
          /\ index' = TreeOf(Tip) /\ worktree' = TreeOf(Tip)
          /\ UNCHANGED <<refs, head>>
       \/ /\ QuotaFull
          /\ CommitTree(worktree)
          /\ stash' = <<>> /\ index' = worktree
          /\ UNCHANGED worktree

StashPush == CanStashPush /\ (StashFails \/ StashCommit)

(* Every file of the stashed tree is written, and everything is staged.    *)
(* A write that fails leaves what is written by then and an empty file.    *)
Laid(t, S) == Overlay(worktree, {p \in S : t[p] # Absent}, t)

StashWrites(i) ==
    LET t == TreeOf(stash[i].commit) IN
    /\ worktree' = Laid(t, Paths)
    /\ index' = worktree'
    /\ UNCHANGED <<commits, refs, head>>

StashFallsShort(i) ==
    LET t == TreeOf(stash[i].commit) IN
    /\ QuotaFull
    /\ \E S \in SUBSET Paths : \E p \in Paths \ S :
        t[p] # Absent /\ worktree' = [Laid(t, S) EXCEPT ![p] = Empty]
    /\ UNCHANGED <<index, commits, refs, head>>

StashApply(i) == (StashWrites(i) \/ StashFallsShort(i)) /\ UNCHANGED stash

Without(i) == SubSeq(stash, 1, i - 1) \o SubSeq(stash, i + 1, Len(stash))

(* pop drops what was applied, and nothing where that fell short.          *)
(* Mutant: it drops in any case.                                           *)
StashPop_Anyway(i) == (StashWrites(i) \/ StashFallsShort(i)) /\ stash' = Without(i)
StashPop(i) == (StashWrites(i) /\ WriteStash(Without(i))) \/ (StashFallsShort(i) /\ UNCHANGED stash)

StashDrop(i) == WriteStash(Without(i)) /\ UNCHANGED <<worktree, index, commits, refs, head>>
StashClear   == stash # <<>> /\ stash' = <<>> /\ UNCHANGED <<worktree, index, commits, refs, head>>

-----------------------------------------------------------------------------
Init ==
    /\ worktree = EmptyTree /\ index = EmptyTree
    /\ commits = <<>>
    /\ refs = [r \in Branches \cup Tags |-> 0]
    /\ head = On(Master)
    /\ stash = <<>>

Next ==
    \/ \E p \in Paths, c \in Contents \cup {Absent} : Edit(p, c)
    \/ Add(Paths) \/ \E p \in Paths : Add({p}) \/ Rm(p) \/ CheckoutPath(p)
    \/ \E allowEmpty \in BOOLEAN : Commit(allowEmpty)
    \/ \E c \in DOMAIN commits :
        \/ \E mode \in {"soft", "mixed", "hard"} : Reset(mode, c)
        \/ Merge(c) \/ CherryPick(c) \/ Revert(c)
        \/ \E p \in Paths, staged \in BOOLEAN : Restore(p, c, staged)
        \/ \E t \in Tags : Tag(t, c)
    \/ \E t \in Tags : TagDelete(t)
    \/ \E b \in Branches : Switch(b) \/ Branch(b) \/ BranchDelete(b)
    \/ \E p \in Paths, c \in Contents : Apply(p, c)
    \/ StashPush \/ StashClear
    \/ \E i \in DOMAIN stash : StashApply(i) \/ StashPop(i) \/ StashDrop(i)

Spec == Init /\ [][Next]_vars

-----------------------------------------------------------------------------
TypeOK ==
    /\ {worktree, index} \subseteq [Paths -> Contents \cup {Absent, Empty}]
    /\ \A c \in DOMAIN commits : commits[c].parent \in 0..(c - 1)
    /\ refs \in [Branches \cup Tags -> 0..Len(commits)]
    /\ head.branch \in Branches \cup {NoBranch} /\ head.at \in 0..Len(commits)
    /\ stash \in Seq([commit : Nat, branch : Branches \cup {NoBranch}])

(* Only reset and branch move a branch off its history: whatever commit,   *)
(* merge, cherry-pick, revert, switch and stash do, and where they fail on *)
(* the way, the commits of a branch stay on it.  Tags do not move at all.  *)
RefsMoveForward ==
    [][ \A r \in Branches \cup Tags :
            refs[r] # 0 /\ refs'[r] \notin {0, refs[r]} =>
                \/ /\ r \in Branches
                   /\ \E i \in DOMAIN ChainIn(commits', refs'[r]) : ChainIn(commits', refs'[r])[i] = refs[r]
                \/ \E c \in DOMAIN commits, mode \in {"soft", "mixed", "hard"} : Reset(mode, c)
                \/ Branch(r) ]_vars

(* stash push loses no file, wherever it fails: the files are where they   *)
(* were, or in a commit that the stash knows.                              *)
PushKeepsWork ==
    worktree' # worktree /\ StashPush =>
        \E i \in DOMAIN stash' : commits'[stash'[i].commit].tree = worktree

(* An entry leaves the stash by pop only when all its files are back.      *)
PopBringsBack ==
    \A i \in DOMAIN stash : worktree' # worktree /\ stash' = Without(i) =>
        \A p \in Paths : TreeOf(stash[i].commit)[p] \in {Absent, worktree'[p]}

(* Every other entry stays, in its order: push, pop and drop touch one, and*)
(* only clear all of them; unless the file system refuses to write the     *)
(* stash back.                                                             *)
Refused == QuotaFull /\ (StashPush \/ \E i \in DOMAIN stash : StashPop(i) \/ StashDrop(i)) /\ stash' = <<>>
OthersStay ==
    \/ UNCHANGED stash \/ StashClear \/ Refused
    \/ Len(stash') = Len(stash) + 1 /\ \A i \in DOMAIN stash : stash'[i + 1] = stash[i]
    \/ \E i \in DOMAIN stash : stash' = Without(i) /\ (StashPop(i) \/ StashDrop(i))

(* The stash knows only commits there are, and loses no work.              *)
StashKeepsWork ==
    /\ [](TypeOK /\ \A i \in DOMAIN stash : Known(stash[i].commit))
    /\ [][PushKeepsWork /\ PopBringsBack /\ OthersStay]_vars

(* "Prepend to stash file." (stash.go 175): a push keeps what was stashed. *)
PushPrepends == [][StashPush => \A i \in DOMAIN stash : \E j \in DOMAIN stash' : stash'[j] = stash[i]]_vars
=============================================================================
