------------------------------- MODULE Sqlite -------------------------------
(***************************************************************************)
(* native/sqlite.go: sqlite3 on a file of the session.  The engine needs a *)
(* file of the host: a command copies the database there, works on the     *)
(* copy and writes the whole of it back at its end, read or changed, while *)
(* other commands of the session may do the same.  The engine is external; *)
(* of a database only the insertions made in it are kept.                  *)
(***************************************************************************)
EXTENDS Integers, Sequences, FiniteSets

CONSTANTS
    Procs,          \* sqlite3 commands that may run at a time
    MaxText,        \* bound: pieces of a text of SQL
    MaxStmts,       \* bound: statements of a command
    QuotaFull,      \* BOOLEAN: a write to the filesystem may fail
    Absent

VARIABLES
    file,           \* the database in the session: the insertions in it
    proc,           \* what each command is at
    settled,        \* history: insertions whose command has ended
    shared,         \* history: two commands had the file open at a time
    refused         \* history: a write has failed

vars == <<file, proc, settled, shared, refused>>

-----------------------------------------------------------------------------
(* Texts of SQL, character by character, and how they are cut.             *)

Pieces == { <<"a">>, <<";">>, <<"'">>, <<".">>, <<"nl">>, <<"-", "-">>, <<"/", "*">>, <<"*", "/">> }
Blank  == {"nl"}

Concat(ps) ==
    LET cat[i \in 0..Len(ps)] == IF i = 0 THEN <<>> ELSE cat[i - 1] \o ps[i] IN cat[Len(ps)]
Texts == {Concat(ps) : ps \in UNION {[1..n -> Pieces] : n \in 0..MaxText}}

Trimmed(s) ==
    LET inked == {i \in DOMAIN s : s[i] \notin Blank}
        first == CHOOSE i \in inked : \A j \in inked : i <= j
        last  == CHOOSE i \in inked : \A j \in inked : i >= j
    IN IF inked = {} THEN <<>> ELSE SubSeq(s, first, last)
Flushed(stmts, cur) == IF Trimmed(cur) = <<>> THEN stmts ELSE Append(stmts, Trimmed(cur))

LineEnd(s, i) ==
    LET nls == {j \in i..Len(s) : s[j] = "nl"}
    IN IF nls = {} THEN Len(s) + 1 ELSE CHOOSE j \in nls : \A k \in nls : j <= k

(* A quote ends at the next one, unless that is doubled.                   *)
QuoteEnd(s, i) ==
    LET end[k \in i..Len(s) + 2] ==
            IF k > Len(s) THEN Len(s) + 1
            ELSE IF s[k] # "'" THEN end[k + 1]
            ELSE IF k < Len(s) /\ s[k + 1] = "'" THEN end[k + 2]
            ELSE k + 1
    IN end[i]
BlockEnd(s, i) ==
    LET ends == {j \in i..Len(s) - 1 : s[j] = "*" /\ s[j + 1] = "/"}
    IN IF ends = {} THEN Len(s) + 1 ELSE (CHOOSE j \in ends : \A k \in ends : j <= k) + 2

(* Where what begins at i ends: a comment, a quotation or one character.   *)
(* Mutant: comments are not looked at.                                     *)
PieceEnd_NoComments(s, i) == IF s[i] = "'" THEN QuoteEnd(s, i + 1) ELSE i + 1
PieceEnd(s, i) ==
    LET next == IF i < Len(s) THEN s[i + 1] ELSE "nl" IN
    CASE s[i] = "-" /\ next = "-" -> LineEnd(s, i + 2)
      [] s[i] = "/" /\ next = "*" -> BlockEnd(s, i + 2)
      [] s[i] = "'"               -> QuoteEnd(s, i + 1)
      [] OTHER                    -> i + 1

(* A dot command is one only where nothing has been read for a statement   *)
(* yet, wherever on the line that is, and goes to the end of the line.     *)
splitStatements(s) ==
    LET cut[i \in 1..Len(s) + 1, from \in 1..Len(s) + 1] ==
            IF i > Len(s) THEN Flushed(<<>>, SubSeq(s, from, Len(s)))
            ELSE IF s[i] = "." /\ Trimmed(SubSeq(s, from, i - 1)) = <<>>
                 THEN <<SubSeq(s, i, LineEnd(s, i) - 1)>> \o cut[LineEnd(s, i), LineEnd(s, i)]
            ELSE IF s[i] = ";" THEN Flushed(<<>>, SubSeq(s, from, i)) \o cut[i + 1, i + 1]
            ELSE cut[PieceEnd(s, i), from]
    IN cut[1, 1]

-----------------------------------------------------------------------------
(* The commands.                                                           *)
Stmts == {"insert", "select", "wrong", "quit"}
Scripts == UNION {[1..n -> Stmts] : n \in 0..MaxStmts}

Idle == [step |-> "idle", db |-> {}, todo |-> <<>>, bail |-> FALSE, batch |-> TRUE, failed |-> FALSE]
At(p) == {q \in Procs : proc[q].step \in {"working", "truncated"}} \ {p}

(* openDB: a file that cannot be read is an empty database.                *)
(* Mutant: each command begins with one.                                   *)
Copied_New == {}
Copied == IF file = Absent THEN {} ELSE file

openDB(p, script, bail, batch) ==
    /\ proc[p].step = "idle"
    /\ proc' = [proc EXCEPT ![p] = [step |-> "working", db |-> Copied, todo |-> script,
                                    bail |-> bail, batch |-> batch, failed |-> FALSE]]
    /\ shared' = (shared \/ At(p) # {})
    /\ UNCHANGED <<file, settled, refused>>

(* .quit ends a REPL; elsewhere it counts as a statement that fails, which *)
(* ends the command only under -bail.  The REPL does not know -bail.       *)
(* Mutant: only what the engine reports is a failure.                      *)
Stops_NotAtQuit(p, stmt) == proc[p].batch /\ proc[p].bail /\ stmt = "wrong"
Stops(p, stmt) ==
    \/ ~proc[p].batch /\ stmt = "quit"
    \/ proc[p].batch /\ proc[p].bail /\ stmt \in {"wrong", "quit"}

execStatement(p) ==
    /\ proc[p].step = "working" /\ proc[p].todo # <<>>
    /\ LET stmt == Head(proc[p].todo) IN
        proc' = [proc EXCEPT ![p].db = IF stmt = "insert" THEN @ \cup {p} ELSE @,
                             ![p].failed = @ \/ stmt \in {"wrong", "quit"},
                             ![p].todo = IF Stops(p, stmt) THEN <<>> ELSE Tail(@)]
    /\ UNCHANGED <<file, settled, shared, refused>>

(* The command's context ends: what is left fails, the file is written.    *)
Cancel(p) ==
    /\ proc[p].step = "working" /\ proc[p].todo # <<>>
    /\ proc' = [proc EXCEPT ![p].todo = <<>>]
    /\ UNCHANGED <<file, settled, shared, refused>>

(* cleanup: WriteFile truncates and writes; that it could not is not told. *)
Truncate(p) ==
    /\ proc[p].step = "working" /\ proc[p].todo = <<>>
    /\ \/ file' = {} /\ proc' = [proc EXCEPT ![p].step = "truncated"] /\ UNCHANGED refused
       \/ QuotaFull /\ UNCHANGED file /\ proc' = [proc EXCEPT ![p].step = "ended"] /\ refused' = TRUE
    /\ UNCHANGED <<settled, shared>>
Write(p) ==
    /\ proc[p].step = "truncated"
    /\ \/ file' = proc[p].db /\ UNCHANGED refused
       \/ QuotaFull /\ UNCHANGED file /\ refused' = TRUE
    /\ settled' = settled \cup (proc[p].db \cap {p})
    /\ proc' = [proc EXCEPT ![p].step = "ended"]
    /\ UNCHANGED shared

-----------------------------------------------------------------------------
Init ==
    /\ file = Absent
    /\ proc = [p \in Procs |-> Idle]
    /\ settled = {} /\ shared = FALSE /\ refused = FALSE

Next ==
    \E p \in Procs :
        \/ \E script \in Scripts, bail, batch \in BOOLEAN : openDB(p, script, bail, batch)
        \/ execStatement(p) \/ Cancel(p) \/ Truncate(p) \/ Write(p)

Spec == Init /\ [][Next]_vars

-----------------------------------------------------------------------------
(* Nothing of a text gets lost where it is cut, and it is cut at the       *)
(* semicolons that are neither quoted nor in a comment, and only there.    *)
Inked(s) == SelectSeq(s, LAMBDA c : c \notin Blank)
Inside(s) ==
    LET Change(m, c) ==
            CASE m = "quote" -> IF c = "'" THEN "sql" ELSE "quote"
              [] m = "line"  -> IF c = "nl" THEN "sql" ELSE "line"
              [] m = "block" -> IF c = "*" THEN "star" ELSE "block"
              [] m = "star"  -> IF c = "/" THEN "sql" ELSE IF c = "*" THEN "star" ELSE "block"
              [] m = "dash"  /\ c = "-" -> "line"
              [] m = "slash" /\ c = "*" -> "block"
              [] OTHER -> CASE c = "-" -> "dash" [] c = "/" -> "slash" [] c = "'" -> "quote" [] OTHER -> "sql"
        mode[i \in 1..Len(s) + 1] == IF i = 1 THEN "sql" ELSE Change(mode[i - 1], s[i - 1])
    IN mode
Ends(s) == {i \in DOMAIN s : s[i] = ";" /\ Inside(s)[i] \in {"sql", "dash", "slash"}}
CutsAtSemicolons(s) ==
    LET stmts == splitStatements(s) IN
    /\ Inked(Concat(stmts)) = Inked(s)
    /\ \A k \in DOMAIN stmts :
        IF stmts[k][1] = "." THEN \A i \in DOMAIN stmts[k] : stmts[k][i] # "nl"
        ELSE /\ Ends(stmts[k]) \subseteq {Len(stmts[k])}
             /\ k < Len(stmts) => Ends(stmts[k]) # {}
StatementsWhole == proc = [p \in Procs |-> Idle] => \A s \in Texts : CutsAtSemicolons(s)

(* What a command has inserted stays in the database, whatever ran before  *)
(* and after it, as long as no two commands had the file at a time and     *)
(* every write went through.                                               *)
InsertionsStay ==
    ~shared /\ ~refused /\ (\A p \in Procs : proc[p].step \in {"idle", "ended"}) =>
        settled \subseteq IF file = Absent THEN {} ELSE file

(* Under -bail nothing is executed after a statement that failed, not even *)
(* after .quit.                                                            *)
BailStops ==
    \A p \in Procs : proc[p].step = "working" /\ proc[p].bail /\ proc[p].batch /\ proc[p].failed =>
        proc[p].todo = <<>>

(* Batches are cut, executed, stopped and kept as they should be.          *)
BatchesKept == StatementsWhole /\ InsertionsStay /\ BailStops
=============================================================================
