------------------------------- MODULE Patches ------------------------------
(***************************************************************************)
(* What compares two versions of a file and what applies the difference:   *)
(* diff (native/diff.go), git diff (native/git/diff.go) and git apply      *)
(* (native/git/patch.go).  A text is a sequence of lines; where the code   *)
(* counts from 0, positions here count from 1.                             *)
(***************************************************************************)
EXTENDS Integers, Sequences, FiniteSets, SequencesExt, FiniteSetsExt

CONSTANTS
    Lines,          \* what a line may be
    Dashed,         \* the lines that begin with "-- "
    MaxLines,       \* bound: lines of a version
    Contexts        \* the N of diff -U N

VARIABLES
    old, new,       \* two versions of a file
    patch,          \* what a diff of them printed
    file            \* the file that git apply patches, once it has

vars == <<old, new, patch, file>>

NoLines == <<>>
Texts   == UNION {[1..n -> Lines] : n \in 0..MaxLines}

-----------------------------------------------------------------------------
(* The longest common subsequence of the first i and the first j lines.    *)
dp(a, b) ==
    LET len[i \in 0..Len(a), j \in 0..Len(b)] ==
            IF i = 0 \/ j = 0 THEN 0
            ELSE IF a[i] = b[j] THEN len[i - 1, j - 1] + 1
            ELSE Max({len[i - 1, j], len[i, j - 1]})
    IN len

Op(kind, i, j) == [kind |-> kind, a |-> i, b |-> j]

(* The way back through the table, in the order of the lines.              *)
(* Mutant: where both ways are open it goes the worse.                     *)
diffLCS_Worse(a, b) ==
    LET table == dp(a, b)
        ops[i \in 0..Len(a), j \in 0..Len(b)] ==
            CASE i = 0 /\ j = 0 -> <<>>
              [] i > 0 /\ j > 0 /\ a[i] = b[j] -> Append(ops[i - 1, j - 1], Op("keep", i, j))
              [] j > 0 /\ (i > 0 => table[i, j - 1] <= table[i - 1, j] /\ a[i] # b[j]) ->
                    Append(ops[i, j - 1], Op("insert", i + 1, j))
              [] OTHER -> Append(ops[i - 1, j], Op("delete", i, j + 1))
    IN ops[Len(a), Len(b)]
diffLCS(a, b) ==
    LET table == dp(a, b)
        ops[i \in 0..Len(a), j \in 0..Len(b)] ==
            CASE i = 0 /\ j = 0 -> <<>>
              [] i > 0 /\ j > 0 /\ a[i] = b[j] -> Append(ops[i - 1, j - 1], Op("keep", i, j))
              [] j > 0 /\ (i > 0 => table[i, j - 1] >= table[i - 1, j] /\ a[i] # b[j]) ->
                    Append(ops[i, j - 1], Op("insert", i + 1, j))
              [] OTHER -> Append(ops[i - 1, j], Op("delete", i, j + 1))
    IN ops[Len(a), Len(b)]

Of(ops, kinds) == SelectSeq(ops, LAMBDA op : op.kind \in kinds)
Changes(ops)   == {i \in DOMAIN ops : ops[i].kind # "keep"}

-----------------------------------------------------------------------------
(* diff -U n: hunks as ranges of the operations.                           *)

(* Past the changes that lie within n lines of one another.  After a second*)
(* change the loop goes on to the next, however far it is.                 *)
HunkEnd(ops, n, i) ==
    LET end[e \in i..Len(ops) + 1] ==
            IF e > Len(ops) THEN e
            ELSE IF ops[e].kind = "keep" THEN end[e + 1]
            ELSE LET near == Changes(ops) \cap e + 1..Min({e + n, Len(ops)})
                 IN IF near = {} THEN e + 1 ELSE end[Min(near) + 1]
    IN end[i]

(* Mutant: the lines after a change that are shown are looked at again.    *)
Hunks_Again(ops, n) ==
    LET hunks[i \in 1..Len(ops) + 1] ==
            IF i > Len(ops) THEN <<>>
            ELSE IF ops[i].kind = "keep" THEN hunks[i + 1]
            ELSE LET last == Min({HunkEnd(ops, n, i) + n - 1, Len(ops)})
                 IN <<[first |-> Max({1, i - n}), last |-> last]>> \o hunks[i + 1]
    IN hunks[1]
Hunks(ops, n) ==
    LET hunks[i \in 1..Len(ops) + 1] ==
            IF i > Len(ops) THEN <<>>
            ELSE IF ops[i].kind = "keep" THEN hunks[i + 1]
            ELSE LET last == Min({HunkEnd(ops, n, i) + n - 1, Len(ops)})
                 IN <<[first |-> Max({1, i - n}), last |-> last]>> \o hunks[last + 1]
    IN hunks[1]

(* The first line of the old version that a hunk shows; 1 if it shows none.*)
aStart(ops) == IF Of(ops, {"keep", "delete"}) = <<>> THEN 1 ELSE Of(ops, {"keep", "delete"})[1].a

(* A line of a patch: a mark, what follows it, and for @@ where it starts. *)
Line(mark, text) == [mark |-> mark, text |-> text, from |-> 0]
(* Headers show the names of the files; of them it matters whether the new *)
(* one is below b/.                                                        *)
Header(name)     == <<Line("---", ""), Line("+++", name)>>
At(from)         == <<[mark |-> "@@", text |-> "", from |-> from]>>
Shown(ops)       == [i \in DOMAIN ops |->
    CASE ops[i].kind = "keep"   -> Line(" ", old[ops[i].a])
      [] ops[i].kind = "delete" -> Line("-", old[ops[i].a])
      [] ops[i].kind = "insert" -> Line("+", new[ops[i].b])]

diffUnified(n, name) ==
    LET ops == diffLCS(old, new)
        body(h) == SubSeq(ops, h.first, h.last)
    IN Header(name) \o FlattenSeq([i \in DOMAIN Hunks(ops, n) |->
            At(aStart(body(Hunks(ops, n)[i]))) \o Shown(body(Hunks(ops, n)[i]))])

(* git diff: one hunk that removes every line and adds every line.         *)
unifiedDiff ==
    Header("b/") \o At(1) \o [i \in DOMAIN old |-> Line("-", old[i])]
                    \o [i \in DOMAIN new |-> Line("+", new[i])]

-----------------------------------------------------------------------------
(* diff without -u: a header and its lines for each run of changes, and    *)
(* the line of the other version it comes after.                           *)
Chunks(ops) ==
    { [first |-> i, last |-> j] : i, j \in Changes(ops) }
Whole(ops) == {c \in Chunks(ops) :
    /\ c.first..c.last # {} /\ c.first..c.last \subseteq Changes(ops)
    /\ {c.first - 1, c.last + 1} \cap Changes(ops) = {}}

(* Mutant: a deletion and an insertion look up each other's line.          *)
Before_Other(ops, i) ==
    IF \E k \in 1..i - 1 : ops[k].kind = "keep"
    THEN LET k == Max({k \in 1..i - 1 : ops[k].kind = "keep"}) IN [a |-> ops[k].b, b |-> ops[k].a]
    ELSE [a |-> 0, b |-> 0]
Before(ops, i) ==
    IF \E k \in 1..i - 1 : ops[k].kind = "keep"
    THEN LET k == Max({k \in 1..i - 1 : ops[k].kind = "keep"}) IN [a |-> ops[k].a, b |-> ops[k].b]
    ELSE [a |-> 0, b |-> 0]

Header1(ops, c) ==
    LET in       == SubSeq(ops, c.first, c.last)
        deleted  == {in[i].a : i \in {k \in DOMAIN in : in[k].kind = "delete"}}
        inserted == {in[i].b : i \in {k \in DOMAIN in : in[k].kind = "insert"}}
    IN [ from    |-> IF deleted = {} THEN Before(ops, c.first).a ELSE Max(deleted),
         to      |-> IF inserted = {} THEN Before(ops, c.first).b ELSE Max(inserted),
         deleted |-> deleted, inserted |-> inserted ]
diffNormal == LET ops == diffLCS(old, new) IN {Header1(ops, c) : c \in Whole(ops)}

-----------------------------------------------------------------------------
(* applyPatch reads a patch line by line.  A header ends the hunk, and a   *)
(* removed line that begins with "-- " looks like one.                     *)
MarkRead(l) == IF l.mark = "-" /\ l.text \in Dashed THEN "---" ELSE l.mark

(* Only "+++ b/" names a file.                                             *)
IsFile(l)    == MarkRead(l) = "+++" /\ l.text = "b/"
NamesFile(p) == \E i \in DOMAIN p : IsFile(p[i])

Parsed(p) ==
    LET Read(st, l) ==
            CASE IsFile(l)           -> [hunks |-> <<>>, file |-> TRUE, open |-> FALSE]
              [] MarkRead(l) = "---" -> [st EXCEPT !.open = FALSE]
              [] MarkRead(l) = "@@"  ->
                    IF st.file
                    THEN [st EXCEPT !.hunks = Append(@, [from |-> l.from, lines |-> <<>>]), !.open = TRUE]
                    ELSE st
              [] OTHER -> IF st.open THEN [st EXCEPT !.hunks[Len(st.hunks)].lines = Append(@, l)] ELSE st
    IN FoldLeft(Read, [hunks |-> <<>>, file |-> FALSE, open |-> FALSE], p).hunks

(* The lines before the hunk, the hunk, and what is left; lines that are   *)
(* kept are taken from the file, whatever the patch says they are.         *)
(* Mutant: the hunk begins after the line it names.                        *)
ApplyHunk_OffByOne(text, h) ==
    LET start == Min({h.from, Len(text)})
        Step(st, l) ==
            CASE l.mark = "+" -> [st EXCEPT !.out = Append(@, l.text)]
              [] l.mark = " " -> [at |-> st.at + 1, out |-> st.out \o SubSeq(text, st.at + 1, Min({st.at + 1, Len(text)}))]
              [] l.mark = "-" -> [st EXCEPT !.at = @ + 1]
        end == FoldLeft(Step, [at |-> start, out |-> SubSeq(text, 1, start)], h.lines)
    IN end.out \o SubSeq(text, end.at + 1, Len(text))
ApplyHunk(text, h) ==
    LET start == Min({Max({h.from - 1, 0}), Len(text)})
        Step(st, l) ==
            CASE l.mark = "+" -> [st EXCEPT !.out = Append(@, l.text)]
              [] l.mark = " " -> [at |-> st.at + 1, out |-> st.out \o SubSeq(text, st.at + 1, Min({st.at + 1, Len(text)}))]
              [] l.mark = "-" -> [st EXCEPT !.at = @ + 1]
        end == FoldLeft(Step, [at |-> start, out |-> SubSeq(text, 1, start)], h.lines)
    IN end.out \o SubSeq(text, end.at + 1, Len(text))

(* A file always ends in a newline: one that lost all its lines has one.  A*)
(* patch that names none leaves it as it is, and is no error.              *)
applyPatch(text, p) ==
    LET out == FoldLeft(ApplyHunk, text, Parsed(p))
    IN IF out = <<>> /\ NamesFile(p) THEN <<"">> ELSE out

-----------------------------------------------------------------------------
Init ==
    /\ old \in Texts /\ new \in Texts
    /\ patch = <<>> /\ file = NoLines

Fresh == patch = <<>> /\ old # new

Diff(n, name) == Fresh /\ patch' = diffUnified(n, name) /\ UNCHANGED <<old, new, file>>
GitDiff == Fresh /\ patch' = unifiedDiff /\ UNCHANGED <<old, new, file>>
Apply   == patch # <<>> /\ file = NoLines /\ file' = applyPatch(old, patch) /\ UNCHANGED <<old, new, patch>>

Next == GitDiff \/ Apply \/ \E n \in Contexts, name \in {"b/", ""} : Diff(n, name)
Spec == Init /\ [][Next]_vars

-----------------------------------------------------------------------------
(* diff takes one version to the other, line by line and in order, and     *)
(* keeps as many lines as can be kept.                                     *)
Subsequences(t) == {[i \in 1..Cardinality(S) |-> t[SetToSortSeq(S, <)[i]]] : S \in SUBSET DOMAIN t}
Longest(a, b)   == Max({Len(s) : s \in Subsequences(a) \cap Subsequences(b)})
ScriptIsShortest ==
    Fresh =>
        LET ops == diffLCS(old, new)
            inOld == Of(ops, {"keep", "delete"})
            inNew == Of(ops, {"keep", "insert"})
        IN /\ [i \in DOMAIN inOld |-> inOld[i].a] = [i \in DOMAIN old |-> i]
           /\ [i \in DOMAIN inNew |-> inNew[i].b] = [i \in DOMAIN new |-> i]
           /\ \A i \in DOMAIN ops : ops[i].kind = "keep" => old[ops[i].a] = new[ops[i].b]
           /\ Len(Of(ops, {"keep"})) = Longest(old, new)

(* Every change is shown in one hunk and no other, with the lines around it*)
HunksHoldChanges ==
    Fresh => \A n \in Contexts :
        LET ops == diffLCS(old, new)
            hs  == Hunks(ops, n)
            In(h, i) == i \in hs[h].first..hs[h].last
        IN \A i \in Changes(ops) : \E h \in DOMAIN hs :
                /\ In(h, i) /\ \A k \in DOMAIN hs \ {h} : ~In(k, i)
                /\ \A k \in DOMAIN ops \cap i - n..i + n : In(h, k)

(* The headers of a diff without -u say where its lines go: old and new    *)
(* can each be made from the other one.                                    *)
Rebuilt(from, to, gone, come, at) ==
    FlattenSeq([k \in 1..Len(from) + 1 |->
        (IF k > 1 /\ k - 1 \notin gone THEN <<from[k - 1]>> ELSE <<>>)
            \o FlattenSeq([j \in DOMAIN to |-> IF j \in come /\ at[j] = k - 1 THEN <<to[j]>> ELSE <<>>])])
ChunksSayWhere ==
    Fresh =>
        LET gone == UNION {c.deleted : c \in diffNormal}
            come == UNION {c.inserted : c \in diffNormal}
            newAt == [j \in come |-> (CHOOSE c \in diffNormal : j \in c.inserted).from]
            oldAt == [j \in gone |-> (CHOOSE c \in diffNormal : j \in c.deleted).to]
        IN /\ Rebuilt(old, new, gone, come, newAt) = new
           /\ Rebuilt(new, old, come, gone, oldAt) = old

(* git apply turns the old version into the new one if the patch names a   *)
(* file, is one hunk that shows a line of the old version, or there is none*)
(* to show, and nothing in it looks like a header.  A file that is to      *)
(* become empty gets an empty line.                                        *)
OneHunk(p) ==
    /\ NamesFile(p)
    /\ Len(SelectSeq(p, LAMBDA l : l.mark = "@@")) = 1
    /\ old = <<>> \/ \E i \in DOMAIN p : p[i].mark \in {" ", "-"}
    /\ \A i \in DOMAIN p : MarkRead(p[i]) = p[i].mark
OneHunkApplies == file # NoLines /\ OneHunk(patch) => file = IF new = <<>> THEN <<"">> ELSE new

(* "applyPatch parses a unified diff patch and applies it to fs under root"*)
(* (patch.go 474): of several hunks too, as long as it names the file, no  *)
(* line is shown in two of them and no file becomes empty.                 *)
Disjoint(hs) ==
    \A k \in 1..Len(hs) - 1 :
        hs[k].from + Len(SelectSeq(hs[k].lines, LAMBDA l : l.mark # "+")) <= hs[k + 1].from
PatchApplies ==
    file # NoLines /\ new # <<>> /\ NamesFile(patch) /\ Disjoint(Parsed(patch)) => file = new

(* What diff shows is what it takes to make one version from the other.    *)
DiffsAreTrue == ScriptIsShortest /\ HunksHoldChanges /\ ChunksSayWhere /\ OneHunkApplies
=============================================================================
