----------------------------- MODULE LocalShell -----------------------------
(***************************************************************************)
(* memsh on a terminal, with a pipe, a script or -c, and a session kept in *)
(* a file by --session-store and --session-id (cmd/root.go,                *)
(* LoadShellSession and SaveShellSession of internal/session).  A process  *)
(* loads the session when it starts and writes all of it when it ends; the *)
(* limits are looked at before and after every script.                     *)
(*                                                                         *)
(* Of a filesystem the names are kept, of a line what it does and whether  *)
(* it asks for another one.  What ~/.memshrc does is left out.             *)
(***************************************************************************)
EXTENDS Integers, Sequences, FiniteSets

CONSTANTS
    Procs,          \* processes that may run at a time
    Modes,          \* [Procs -> SUBSET {"-c", "piped", "interactive"}]
    Commands,       \* what a line may do
    Dotted,         \* the names that hold ".."
    AliasesFile,    \* /.memsh_session_aliases
    MaxFiles,       \* --max-files
    MaxRuntime,     \* --max-runtime
    MaxLines,       \* bound: lines of a script
    MaxStarts,      \* bound: processes altogether
    NoRecord

VARIABLES
    record,         \* the file of the session
    proc,           \* the processes
    starts,         \* how many there have been
    rcs,            \* history: how often ~/.memshrc was loaded
    spent,          \* history: the time all scripts took
    parted          \* history: two had the session at a time, or one was killed

vars == <<record, proc, starts, rcs, spent, parted>>

(* What a line does: write and remove a file, or leave.  exit and quit are *)
(* looked for where a line begins; elsewhere exit is the interpreter's,    *)
(* which ends the script, and quit a command, which ends the shell.        *)
Write(n)   == [does |-> "write", name |-> n, first |-> TRUE]
Remove(n)  == [does |-> "remove", name |-> n, first |-> TRUE]
Exit(b)    == [does |-> "exit", name |-> "", first |-> b]
Quit(b)    == [does |-> "quit", name |-> "", first |-> b]
Leaves(c)  == c.does \in {"exit", "quit"} /\ c.first

Off == [step |-> "off", mode |-> "-c", fs |-> {}, used |-> 0, rc |-> FALSE, pending |-> <<>>]

Running(p) == proc[p].step = "running"

-----------------------------------------------------------------------------
Effect(fs, c) ==
    CASE c.does = "write"  -> fs \cup {c.name}
      [] c.does = "remove" -> fs \ {c.name}
      [] OTHER             -> fs
After(fs, script, k) ==
    LET at[i \in 0..k] == IF i = 0 THEN fs ELSE Effect(at[i - 1], script[i]) IN at[k]

(* The lines up to the one that leaves.                                    *)
Stop(script) ==
    LET ends == {i \in DOMAIN script : script[i].does \in {"exit", "quit"}}
    IN IF ends = {} THEN Len(script) ELSE CHOOSE i \in ends : \A j \in ends : i <= j
Quits(script) == script # <<>> /\ script[Stop(script)].does = "quit"

ValidateFS(fs)        == Cardinality(fs) <= MaxFiles
ValidateRuntime(used) == used < MaxRuntime

(* Mutant: the limits are only looked at afterwards.                       *)
MayRun_Always(p) == TRUE
MayRun(p) == ValidateRuntime(proc[p].used) /\ ValidateFS(proc[p].fs)

(* A script ends by itself, at Ctrl-C or when the runtime is used up.  An  *)
(* error of the limits takes the place of the one that ends the shell.     *)
Outcome(script, k, fs, used) ==
    [fs |-> fs, used |-> used,
     quits |-> k = Stop(script) /\ Quits(script) /\ ValidateFS(fs) /\ ValidateRuntime(used)]
runWithLocalLimits(p, script) ==
    IF MayRun(p)
    THEN { Outcome(script, k, After(proc[p].fs, script, k), used) :
             k \in 0..Stop(script), used \in proc[p].used..MaxRuntime }
    ELSE {[fs |-> proc[p].fs, used |-> proc[p].used, quits |-> FALSE]}

-----------------------------------------------------------------------------
(* The process loads the session, or has an empty one if there is none.    *)
LoadShellSession ==
    IF record = NoRecord THEN [fs |-> {}, used |-> 0, rc |-> FALSE] ELSE record

(* RestoreSnapshot refuses the names that TakeSnapshot has kept.           *)
Restorable == LoadShellSession.fs \cap Dotted = {}

loadsRc(mode) == mode = "interactive" /\ ~LoadShellSession.rc

Start(p, mode) ==
    /\ proc[p].step = "off" /\ starts < MaxStarts /\ Restorable
    /\ proc' = [proc EXCEPT ![p] =
            [step |-> "running", mode |-> mode, fs |-> LoadShellSession.fs,
             used |-> LoadShellSession.used, rc |-> loadsRc(mode), pending |-> <<>>]]
    /\ rcs' = IF loadsRc(mode) THEN rcs + 1 ELSE rcs
    /\ starts' = starts + 1
    /\ parted' = (parted \/ \E q \in Procs \ {p} : proc[q].step # "off")
    /\ UNCHANGED <<record, spent>>

(* "failed to load session": the process ends without a shell.             *)
StartFails(p) ==
    /\ proc[p].step = "off" /\ starts < MaxStarts /\ ~Restorable
    /\ starts' = starts + 1
    /\ UNCHANGED <<record, proc, rcs, spent, parted>>

(* A script of a process: it goes on with the next line or ends.           *)
Ran(p, script, last) ==
    /\ \E out \in runWithLocalLimits(p, script) :
        /\ proc' = [proc EXCEPT ![p].fs = out.fs, ![p].used = out.used, ![p].pending = <<>>,
                                ![p].step = IF last \/ out.quits THEN "saving" ELSE "running"]
        /\ spent' = spent + out.used - proc[p].used
    /\ UNCHANGED <<record, starts, rcs, parted>>

Ends(p) ==
    /\ proc' = [proc EXCEPT ![p].step = "saving", ![p].pending = <<>>]
    /\ UNCHANGED <<record, starts, rcs, spent, parted>>

(* -c, or a script from a file: one script, and it ends.                   *)
RunE(p, script) == Running(p) /\ proc[p].mode = "-c" /\ Ran(p, script, TRUE)

(* runPiped: every line by itself.  What follows the last newline is       *)
(* dropped at the end of the input.                                        *)
runPiped(p, c) ==
    /\ Running(p) /\ proc[p].mode = "piped"
    /\ IF Leaves(c) THEN Ends(p) ELSE Ran(p, <<c>>, FALSE)

(* runInteractive: a line that asks for another one is put aside; the      *)
(* first that does not completes the script.                               *)
needsContinuation(p, c) ==
    /\ Running(p) /\ proc[p].mode = "interactive" /\ Len(proc[p].pending) + 1 < MaxLines
    /\ proc' = [proc EXCEPT ![p].pending = Append(@, c)]
    /\ UNCHANGED <<record, starts, rcs, spent, parted>>
runInteractive(p, c) ==
    /\ Running(p) /\ proc[p].mode = "interactive"
    /\ LET script == Append(proc[p].pending, c)
       IN IF Leaves(script[1]) THEN Ends(p) ELSE Ran(p, script, FALSE)

(* Ctrl-C at the prompt.                                                   *)
ErrInterrupt(p) ==
    /\ Running(p) /\ proc[p].pending # <<>>
    /\ proc' = [proc EXCEPT ![p].pending = <<>>]
    /\ UNCHANGED <<record, starts, rcs, spent, parted>>

EOF(p) == Running(p) /\ proc[p].mode # "-c" /\ Ends(p)

(* The deferred save: the aliases, which no limit is asked for, and then   *)
(* all of the session, whatever the file holds by now.  The rc file counts *)
(* as loaded whether it was or not.                                        *)
(* Mutant: a session starts with no time used.                             *)
SaveShellSession_NoTime(p) ==
    /\ proc[p].step = "saving"
    /\ record' = [fs |-> proc[p].fs \cup {AliasesFile}, used |-> 0, rc |-> TRUE]
    /\ proc' = [proc EXCEPT ![p] = Off]
    /\ UNCHANGED <<starts, rcs, spent, parted>>
(* Mutant: the rc file counts as loaded if this process loaded it.         *)
SaveShellSession_RcOfProcess(p) ==
    /\ proc[p].step = "saving"
    /\ record' = [fs |-> proc[p].fs \cup {AliasesFile}, used |-> proc[p].used, rc |-> proc[p].rc]
    /\ proc' = [proc EXCEPT ![p] = Off]
    /\ UNCHANGED <<starts, rcs, spent, parted>>
SaveShellSession(p) ==
    /\ proc[p].step = "saving"
    /\ record' = [fs |-> proc[p].fs \cup {AliasesFile}, used |-> proc[p].used, rc |-> TRUE]
    /\ proc' = [proc EXCEPT ![p] = Off]
    /\ UNCHANGED <<starts, rcs, spent, parted>>

(* A signal outside of a script: nothing is saved.                         *)
Kill(p) ==
    /\ proc[p].step # "off"
    /\ proc' = [proc EXCEPT ![p] = Off]
    /\ parted' = TRUE
    /\ UNCHANGED <<record, starts, rcs, spent>>

(* After so many starts, a session of another --session-id.                *)
AnotherSession ==
    /\ starts = MaxStarts /\ \A p \in Procs : proc[p].step = "off"
    /\ record' = NoRecord
    /\ starts' = 0 /\ rcs' = 0 /\ spent' = 0 /\ parted' = FALSE
    /\ UNCHANGED proc

-----------------------------------------------------------------------------
Init ==
    /\ record = NoRecord
    /\ proc = [p \in Procs |-> Off]
    /\ starts = 0 /\ rcs = 0 /\ spent = 0 /\ parted = FALSE

Scripts == UNION {[1..n -> Commands] : n \in 0..MaxLines}

Next ==
    \/ AnotherSession
    \/ \E p \in Procs :
        \/ \E mode \in Modes[p] : Start(p, mode)
        \/ \E script \in Scripts : RunE(p, script)
        \/ \E c \in Commands : runPiped(p, c) \/ needsContinuation(p, c) \/ runInteractive(p, c)
        \/ StartFails(p) \/ ErrInterrupt(p) \/ EOF(p) \/ SaveShellSession(p) \/ Kill(p)

Spec == Init /\ [][Next]_vars

-----------------------------------------------------------------------------
(* --max-runtime is the "Maximum cumulative runtime" (root.go 461): of all *)
(* the processes of the session together, as long as they have it one      *)
(* after the other and none is killed before it saves.                     *)
RuntimeCumulates == ~parted => spent <= MaxRuntime

(* Under the same condition ~/.memshrc is loaded once in the life of a     *)
(* session, not by every terminal it is opened in.                         *)
RcLoadedOnce == ~parted => rcs <= 1

(* A session that has more files than --max-files stays as it is: rm is    *)
(* refused like any other script, in this process and in the next.         *)
OverStays ==
    starts' >= starts /\ ~parted' /\ record # NoRecord /\ ~ValidateFS(record.fs) => record'.fs = record.fs

(* A session goes on from process to process as one.                       *)
SessionGoesOn == [](RuntimeCumulates /\ RcLoadedOnce) /\ [][OverStays]_vars
=============================================================================
