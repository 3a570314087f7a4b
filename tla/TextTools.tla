------------------------------ MODULE TextTools -----------------------------
(***************************************************************************)
(* The filters of native/: head, tail, grep, uniq, sort, shuf, tac, rev,   *)
(* tr, fold, cut, paste, nl, wc and seq.  A text is a sequence of lines, a *)
(* line a sequence of characters; where the code counts from 0, positions  *)
(* count from 1.  A regular expression is the character that it looks for, *)
(* the sets of tr have no newline, and every text ends in one.  Left out:  *)
(* sort -n and its keys, names and numbers printed before lines, counts in *)
(* bytes, and the options that only change how a line is shown.            *)
(***************************************************************************)
EXTENDS Integers, Sequences, FiniteSets, SequencesExt, FiniteSetsExt

CONSTANTS
    Chars,          \* the characters, in their order: a sequence
    Blank, Delim,   \* the space, and what separates fields
    MaxChars,       \* bound: characters of a text
    MaxText,        \* bound: lines of a text
    MaxNumber       \* bound: counts, widths and positions

VARIABLES
    text, other,    \* the input of a filter and, for some, a second file
    filter          \* what has been run: "" before

vars == <<text, other, filter>>

Alphabet == {Chars[i] : i \in DOMAIN Chars}
LinesOf(n) == UNION {[1..k -> Alphabet] : k \in 0..n}
Size(t)  == FoldLeft(LAMBDA n, line : n + Len(line), 0, t)
Texts    ==
    LET lines[k \in 0..MaxText] ==
            IF k = 0 THEN {<<>>}
            ELSE lines[k - 1] \cup UNION {{Append(t, l) : l \in LinesOf(MaxChars - Size(t))} : t \in lines[k - 1]}
    IN lines[MaxText]

-----------------------------------------------------------------------------
head(t, n) == SubSeq(t, 1, Min({n, Len(t)}))
(* Mutant: one line short.                                                 *)
tail_Short(t, n) == SubSeq(t, Len(t) - n + 2, Len(t))
tail(t, n) == SubSeq(t, Max({Len(t) - n, 0}) + 1, Len(t))

Has(line, c) == \E i \in DOMAIN line : line[i] = c
grep(t, c, invert) == SelectSeq(t, LAMBDA line : Has(line, c) # invert)
grepCount(t, c, invert) == Len(grep(t, c, invert))

(* The runs of equal lines; -d keeps the longer ones, -u the others.       *)
runs(t) ==
    LET Add(rs, line) ==
            IF rs # <<>> /\ rs[Len(rs)].line = line
            THEN [rs EXCEPT ![Len(rs)].n = @ + 1]
            ELSE Append(rs, [line |-> line, n |-> 1])
    IN FoldLeft(Add, <<>>, t)
uniq(t, onlyDups, onlyUniq) ==
    LET shown == SelectSeq(runs(t), LAMBDA r : (onlyDups => r.n > 1) /\ (onlyUniq => r.n = 1))
    IN [i \in DOMAIN shown |-> shown[i].line]

Rank(c) == CHOOSE i \in DOMAIN Chars : Chars[i] = c
(* The order of strings: at the first difference, or the shorter one.      *)
Below(a, b) ==
    \/ \E i \in DOMAIN a \cap DOMAIN b : Rank(a[i]) < Rank(b[i]) /\ SubSeq(a, 1, i - 1) = SubSeq(b, 1, i - 1)
    \/ Len(a) < Len(b) /\ SubSeq(b, 1, Len(a)) = a
Before(a, b, reverse) == IF reverse THEN Below(b, a) ELSE Below(a, b)
(* Mutant: -u looks no further than at the line before.                    *)
sort_Unsorted(t, reverse, unique) ==
    LET Less(i, j) == Before(t[i], t[j], reverse) \/ (t[i] = t[j] /\ i < j)
        order == SetToSortSeq(DOMAIN t, Less)
        lines == [k \in DOMAIN t |-> t[order[k]]]
    IN IF unique THEN uniq(t, FALSE, FALSE) ELSE lines
sort(t, reverse, unique) ==
    LET Less(i, j) == Before(t[i], t[j], reverse) \/ (t[i] = t[j] /\ i < j)
        order == SetToSortSeq(DOMAIN t, Less)
        lines == [k \in DOMAIN t |-> t[order[k]]]
    IN IF unique THEN uniq(lines, FALSE, FALSE) ELSE lines

(* What shuf may print: rand.Shuffle, then the count.                      *)
(* Mutant: the lines are drawn one by one.                                 *)
shuf_Draws(t, n) == {head(drawn, n) : drawn \in [DOMAIN t -> ToSet(t)]}
shuf(t, n) ==
    {head([i \in DOMAIN t |-> t[order[i]]], n) : order \in SetToSeqs(DOMAIN t)}

tac(t) == Reverse(t)
rev(t) == [i \in DOMAIN t |-> Reverse(t[i])]

(* tr: -d drops the characters of the set, -c takes the others, -s leaves  *)
(* one of several; without -d a second set is translated to, its last      *)
(* character standing for those that it lacks.                             *)
Complement(set) == SelectSeq(Chars, LAMBDA c : ~Has(set, c))
tr(line, set1, set2, delete, squeeze) ==
    LET Index(c) == CHOOSE i \in DOMAIN set1 : set1[i] = c /\ \A j \in 1..i - 1 : set1[j] # c
        Put(out, c) ==
            LET mapped == IF Has(set1, c) /\ set2 # <<>> THEN set2[Min({Index(c), Len(set2)})] ELSE c
            IN CASE delete -> IF Has(set1, c) THEN out ELSE Append(out, c)
                 [] squeeze /\ Has(set1, c) /\ out # <<>> /\ out[Len(out)] = mapped -> out
                 [] OTHER -> Append(out, mapped)
    IN FoldLeft(Put, <<>>, line)

(* Pieces of a line; -s ends one after its last space, if it has one.      *)
(* Mutant: before it.                                                      *)
foldPos_Before(line, width, breakSpaces) ==
    LET spaces == {i \in 1..width : line[i] = Blank}
    IN IF breakSpaces /\ spaces \ {1} # {} THEN Max(spaces) - 1 ELSE width
foldPos(line, width, breakSpaces) ==
    LET spaces == {i \in 1..width : line[i] = Blank}
    IN IF breakSpaces /\ spaces # {} THEN Max(spaces) ELSE width
fold(line, width, breakSpaces) ==
    LET from[i \in 1..Len(line) + 1] ==
            LET rest == SubSeq(line, i, Len(line)) IN
            IF Len(rest) <= width THEN <<rest>>
            ELSE LET pos == foldPos(rest, width, breakSpaces)
                 IN <<SubSeq(rest, 1, pos)>> \o from[i + pos]
    IN from[1]

(* cut -f: the fields of a line, and those of a list that there are.       *)
Split(line) ==
    LET Add(fs, c) == IF c = Delim THEN Append(fs, <<>>) ELSE [fs EXCEPT ![Len(fs)] = Append(@, c)]
    IN FoldLeft(Add, <<(<<>>)>>, line)
Join(fs) == FoldLeft(LAMBDA line, f : line \o <<Delim>> \o f, Head(fs), Tail(fs))
(* A list: 0 stands for an end that is left open.                          *)
(* Mutant: a range without an end has its beginning.                       *)
parseRangeList_Open(ranges, max) ==
    SetToSortSeq(UNION {(IF r.lo = 0 THEN 1 ELSE r.lo)..(IF r.hi = 0 THEN r.lo ELSE r.hi) : r \in ranges} \cap 1..max, <)
parseRangeList(ranges, max) ==
    SetToSortSeq(UNION {(IF r.lo = 0 THEN 1 ELSE r.lo)..(IF r.hi = 0 THEN max ELSE r.hi) : r \in ranges} \cap 1..max, <)
Chosen(s, ranges) == LET at == parseRangeList(ranges, Len(s)) IN [i \in DOMAIN at |-> s[at[i]]]
cutFields(t, ranges) ==
    LET out(line) == Chosen(Split(line), ranges)
    IN [i \in DOMAIN t |-> IF out(t[i]) = <<>> THEN <<>> ELSE Join(out(t[i]))]
cutChars(t, ranges) == [i \in DOMAIN t |-> Chosen(t[i], ranges)]

(* Line by line, a file that has ended giving empty ones.                  *)
Nth(t, i) == IF i <= Len(t) THEN t[i] ELSE <<>>
paste(ts) ==
    [i \in 1..Max({Len(ts[k]) : k \in DOMAIN ts}) |-> Join([k \in DOMAIN ts |-> Nth(ts[k], i)])]
pasteSerial(t) == IF t = <<>> THEN <<>> ELSE Join(t)

(* nl -b t: the number of each line, 0 for one that is blank; files are    *)
(* numbered on.                                                            *)
IsBlank(line) == \A i \in DOMAIN line : line[i] = Blank
(* Mutant: every file from 1.                                              *)
nl_Again(t, first) == [i \in DOMAIN t |-> IF IsBlank(t[i]) THEN 0
                            ELSE 1 + Cardinality({j \in 1..i - 1 : ~IsBlank(t[j])})]
nl(t, first) == [i \in DOMAIN t |-> IF IsBlank(t[i]) THEN 0
                            ELSE first + Cardinality({j \in 1..i - 1 : ~IsBlank(t[j])})]
nlAll(ts) ==
    LET Next1(st, t) == [out |-> st.out \o nl(t, st.next),
                         next |-> st.next + Cardinality({i \in DOMAIN t : ~IsBlank(t[i])})]
    IN FoldLeft(Next1, [out |-> <<>>, next |-> 1], ts).out

(* Words are what lies between blanks.                                     *)
wcCount(t) ==
    [lines |-> Len(t), bytes |-> Size(t) + Len(t),
     words |-> FoldLeft(LAMBDA n, line : n + Cardinality({i \in DOMAIN line :
                    line[i] # Blank /\ (i > 1 => line[i - 1] = Blank)}), 0, t)]

(* seq prints before it looks, so it goes one step past an end it does not *)
(* meet.  A step of 0 stands for one that is not given.                    *)
seq(first, step, last) ==
    LET by == IF step # 0 THEN step ELSE IF first <= last THEN 1 ELSE -1
        Ended(i) == (by > 0 /\ i >= last) \/ (by < 0 /\ i <= last)
        n == Min({k \in 0..2 * MaxNumber : Ended(first + k * by)})
    IN [k \in 1..n + 1 |-> first + (k - 1) * by]

-----------------------------------------------------------------------------
Init ==
    /\ text \in Texts /\ other \in {<<>>} \cup {<<l>> : l \in LinesOf(1)}
    /\ filter = ""

(* A filter reads one or two texts and prints one.                         *)
Run(name, out) == filter = "" /\ filter' = name /\ text' = out /\ UNCHANGED other

Numbers == 0..MaxNumber
Ranges  == {r \in [lo : Numbers, hi : Numbers] : r.lo + r.hi > 0}

Selects ==
    \/ \E n \in Numbers : Run("head", head(text, n)) \/ Run("tail", tail(text, n))
    \/ \E c \in Alphabet, invert \in BOOLEAN : Run("grep", grep(text, c, invert))
    \/ \E d, u \in BOOLEAN : Run("uniq", uniq(text, d, u))
    \/ \E n \in Numbers : \E out \in shuf(text, n) : Run("shuf", out)
    \/ \E reverse, unique \in BOOLEAN : Run("sort", sort(text, reverse, unique))
    \/ Run("tac", tac(text))

Rewrites ==
    \/ Run("rev", rev(text))
    \/ \E a, b \in Alphabet, delete, squeeze \in BOOLEAN :
            Run("tr", [i \in DOMAIN text |-> tr(text[i], <<a>>, IF delete THEN <<>> ELSE <<b>>, delete, squeeze)])
    \/ \E width \in 1..MaxNumber, s \in BOOLEAN :
            Run("fold", FlattenSeq([i \in DOMAIN text |-> fold(text[i], width, s)]))
    \/ \E r \in Ranges : Run("cut", cutFields(text, {r})) \/ Run("cut", cutChars(text, {r}))
    \/ Run("paste", paste(<<text, other>>)) \/ Run("paste", <<pasteSerial(text)>>)

(* The next command has not read anything yet.                             *)
Again == filter # "" /\ filter' = "" /\ text' = <<>> /\ UNCHANGED other

Next == Selects \/ Rewrites \/ Again
Spec == Init /\ [][Next]_vars

-----------------------------------------------------------------------------
(* What selects lines prints lines it has read, none more often than it    *)
(* has read it.                                                            *)
Times(t, line) == Cardinality({i \in DOMAIN t : t[i] = line})
LinesWereRead ==
    filter' \in {"head", "tail", "grep", "uniq", "shuf", "sort", "tac"} =>
        \A i \in DOMAIN text' : Times(text', text'[i]) <= Times(text, text'[i])

(* Two halves of a text are the text: what head prints and tail leaves,    *)
(* what grep prints and grep -v does, and of each line what tr -d drops    *)
(* and tr -c -d keeps.                                                     *)
PartsMakeWhole ==
    filter = "" =>
        /\ \A n \in 0..Len(text) : head(text, n) \o tail(text, Len(text) - n) = text
        /\ \A c \in Alphabet :
            /\ \A l \in Range(text) : Times(grep(text, c, TRUE), l) + Times(grep(text, c, FALSE), l) = Times(text, l)
            /\ grepCount(text, c, TRUE) + grepCount(text, c, FALSE) = wcCount(text).lines
            /\ \A i \in DOMAIN text :
                tr(text[i], <<c>>, <<>>, TRUE, FALSE) = SelectSeq(text[i], LAMBDA x : ~Has(tr(text[i], Complement(<<c>>), <<>>, TRUE, FALSE), x))

(* sort puts the lines in order, and sort -u is what uniq leaves of that;  *)
(* uniq -d and -u share out what uniq prints.                              *)
SortedOnce ==
    filter = "" =>
        /\ \A reverse \in BOOLEAN :
            LET sorted == sort(text, reverse, FALSE)
                unique == sort(text, reverse, TRUE)
            IN /\ \A l \in Range(text) : Times(sorted, l) = Times(text, l)
               /\ \A i \in 1..Len(sorted) - 1 : ~Before(sorted[i + 1], sorted[i], reverse)
               /\ unique = uniq(sorted, FALSE, FALSE)
               /\ \A l \in Range(text) : Times(unique, l) = 1
        /\ \A l \in Range(text) : Times(uniq(text, TRUE, FALSE), l) + Times(uniq(text, FALSE, TRUE), l) = Times(uniq(text, FALSE, FALSE), l)

(* The pieces of a folded line make it, none is wider than asked for nor   *)
(* empty, and under -s a line with a space in reach is broken after it.    *)
FoldRestores ==
    filter = "" =>
        \A i \in DOMAIN text, width \in 1..MaxNumber, s \in BOOLEAN :
            LET pieces == fold(text[i], width, s) IN
            /\ FlattenSeq(pieces) = text[i]
            /\ \A k \in DOMAIN pieces : Len(pieces[k]) <= width /\ (Len(pieces) > 1 => pieces[k] # <<>>)
            /\ s => \A k \in 1..Len(pieces) - 1 :
                    Has(pieces[k], Blank) => pieces[k][Len(pieces[k])] = Blank

(* cut takes apart what paste has put together, and the fields up to one   *)
(* and those from the next on are all of them.                             *)
CutUndoesPaste ==
    filter = "" =>
        LET ts == <<text, other>>
            plain == {i \in DOMAIN paste(ts) : \A k \in DOMAIN ts : ~Has(Nth(ts[k], i), Delim)}
            upTo(k) == {[lo |-> 0, hi |-> k]}
            from(k) == {[lo |-> k, hi |-> 0]}
        IN /\ \A k \in {1, 2}, i \in plain :
                cutFields(paste(ts), {[lo |-> k, hi |-> k]})[i] = Nth(ts[k], i)
           /\ \A i \in DOMAIN text, k \in 1..MaxNumber :
                Chosen(text[i], upTo(k)) \o Chosen(text[i], from(k + 1)) = text[i]

(* nl numbers the lines that are not blank through all of its files, with  *)
(* the numbers that seq prints.                                            *)
NumbersGoOn ==
    filter = "" =>
        LET out == nlAll(<<text, other>>)
            numbered == SelectSeq(out, LAMBDA n : n # 0)
        IN /\ Len(out) = wcCount(text).lines + wcCount(other).lines
           /\ numbered # <<>> => numbered = seq(1, 0, Len(numbered)) /\ tac(numbered) = seq(Len(numbered), 0, 1)
           /\ Len(numbered) = Cardinality({i \in DOMAIN text : wcCount(<<text[i]>>).words > 0})
                                + Cardinality({i \in DOMAIN other : wcCount(<<other[i]>>).words > 0})

(* The filters agree with one another.                                     *)
FiltersAgree == PartsMakeWhole /\ SortedOnce /\ FoldRestores /\ CutUndoesPaste /\ NumbersGoOn
=============================================================================
