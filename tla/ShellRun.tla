------------------------------ MODULE ShellRun ------------------------------
(***************************************************************************)
(* pkg/shell/shell.go: the directory a shell is in.  There are three       *)
(* notions of it: Shell.cwd, the directory of the interpreter (one for     *)
(* each subshell that runs), and, when the interpreter was started in a    *)
(* temporary directory of the host, the virtual directory this one stands  *)
(* for.  Commands, redirections, cd, source and the builtins that other    *)
(* commands run (timeout, xargs, time, watch) each use one of them.        *)
(*                                                                         *)
(* A script and a subshell of it go on at the same time.  source, run by   *)
(* another command, is a Run within the Run: whoever sources a script, it  *)
(* is the runner that runs it, so that a subshell and its script may move  *)
(* the runner, a job in the background even when the Run is over.          *)
(*                                                                         *)
(* mvdan.cc/sh is external: its cd joins a relative path with the          *)
(* directory it is in and asks StatHandler, a subshell (also the left side *)
(* of a pipe, or a job in the background) begins where its parent is, and  *)
(* a redirection passes its path as it was written.                        *)
(***************************************************************************)
EXTENDS Integers, Sequences, SequencesExt

CONSTANTS
    StartDir,       \* the directory given with WithCwd
    OnHost,         \* BOOLEAN: the host has a directory of that name
    Tree,           \* the virtual directories, as sequences of names
    Relative,       \* names a relative path may be; ".." is one
    MaxSource,      \* maxSourceDepth
    LostUpdates,    \* BOOLEAN: two workers may count a level of source at the same moment
    None

VARIABLES
    cwd,            \* Shell.cwd
    dir,            \* directory of the runner, and of a subshell or None
    fs,             \* the virtual directories there are
    running,        \* is a script running?
    depth,          \* Shell.sourceDepth
    levels,         \* sourced scripts that a worker, runner or subshell, is in
    counting,       \* where a worker is in sourceDepth++ or sourceDepth--
    moved,          \* has the script moved the runner?
    asked           \* the path the filesystem was last asked for

vars == <<cwd, dir, fs, running, depth, levels, counting, moved, asked>>

-----------------------------------------------------------------------------
Temp == <<"tmp", "memsh-cwd">>
Here == "."

realCwd  == IF OnHost THEN StartDir ELSE Temp
startCwd == StartDir

(* filepath.Join of a directory and a relative path of one name.           *)
Join(d, p) == CASE p = ".." -> IF d = <<>> THEN d ELSE Front(d)
                [] p = Here -> d
                [] OTHER -> Append(d, p)

(* Mutant: the runner's directory is taken as it is.                       *)
virtualDir_Raw(d) == d
virtualDir(d) == IF d = realCwd THEN startCwd ELSE d

resolvePath(p) == Join(cwd, p)

Workers == {w \in DOMAIN dir : dir[w] # None}

sourceVars == <<depth, levels, counting>>
Outside    == [step |-> "outside", to |-> 0]

Active(w) == w \in Workers /\ (w = "runner" => running) /\ counting[w] = Outside

(* The runner runs what is sourced.                                        *)
At(w) == IF levels[w] = 0 THEN w ELSE "runner"

-----------------------------------------------------------------------------
(* Run.                                                                    *)
Run ==
    /\ ~running
    /\ running' = TRUE
    /\ moved' = (moved /\ levels["subshell"] > 0)
    /\ UNCHANGED <<cwd, dir, fs, sourceVars, asked>>

(* Mutant: the shell's own directory is left as it was.                    *)
Return_Stale ==
    /\ Active("runner") /\ levels["runner"] = 0
    /\ running' = FALSE
    /\ UNCHANGED <<cwd, dir, fs, sourceVars, moved, asked>>

(* A job in the background goes on.                                        *)
Return ==
    /\ Active("runner") /\ levels["runner"] = 0
    /\ running' = FALSE
    /\ cwd' = virtualDir(dir["runner"])
    /\ UNCHANGED <<dir, fs, sourceVars, moved, asked>>

Subshell ==
    /\ Active("runner") /\ dir["subshell"] = None
    /\ dir' = [dir EXCEPT !["subshell"] = dir["runner"]]
    /\ UNCHANGED <<cwd, fs, running, sourceVars, moved, asked>>

SubshellEnds ==
    /\ Active("subshell") /\ levels["subshell"] = 0
    /\ dir' = [dir EXCEPT !["subshell"] = None]
    /\ UNCHANGED <<cwd, fs, running, sourceVars, moved, asked>>

(* cd of the interpreter; an absolute path is joined with nothing.         *)
InterpCd(w, target) ==
    /\ asked' = target
    /\ IF target \in fs
       THEN /\ dir' = [dir EXCEPT ![At(w)] = target]
            /\ moved' = (moved \/ At(w) = "runner")
       ELSE UNCHANGED <<dir, moved>>
    /\ UNCHANGED <<cwd, fs, running, sourceVars>>

Cd(w) == Active(w) /\ \E p \in Relative : InterpCd(w, Join(dir[At(w)], p))
CdAbs(w) == Active(w) /\ \E d \in Tree : InterpCd(w, d)

(* changeDir: cd run by another command, in whatever subshell.             *)
changeDir(w, p) ==
    /\ Active(w)
    /\ asked' = resolvePath(p)
    /\ IF resolvePath(p) \in fs
       THEN /\ cwd' = resolvePath(p)
            /\ dir' = [dir EXCEPT !["runner"] = resolvePath(p)]
       ELSE UNCHANGED <<cwd, dir>>
    /\ UNCHANGED <<fs, running, sourceVars, moved>>

(* execHandler: a command resolves its arguments where it runs.            *)
Exec(w, p) ==
    /\ Active(w)
    /\ asked' = Join(virtualDir(dir[At(w)]), p)
    /\ UNCHANGED <<cwd, dir, fs, running, sourceVars, moved>>

(* openHandler.                                                            *)
Redirect(w, p) ==
    /\ Active(w)
    /\ asked' = resolvePath(p)
    /\ UNCHANGED <<cwd, dir, fs, running, sourceVars, moved>>

(* mkdir and rm -r.                                                        *)
MakeDir(w, d) ==
    /\ Active(w) /\ d \notin fs /\ Front(d) \in fs
    /\ fs' = fs \cup {d}
    /\ UNCHANGED <<cwd, dir, running, sourceVars, moved, asked>>

RemoveDir(w, d) ==
    /\ Active(w) /\ d \in fs \ {<<>>}
    /\ fs' = {e \in fs : ~IsPrefix(d, e)}
    /\ UNCHANGED <<cwd, dir, running, sourceVars, moved, asked>>

-----------------------------------------------------------------------------
(* source, run by another command.  Nothing guards sourceDepth: it is read *)
(* and written in two steps, between which another worker's may come.      *)

Alone(w) == LostUpdates \/ \A v \in DOMAIN counting \ {w} : counting[v] = Outside

Leaves(w, level) == [counting EXCEPT ![w] = [step |-> "leaves", to |-> level - 1]]

Source(w) ==
    /\ Active(w) /\ Alone(w)
    /\ counting' = [counting EXCEPT ![w] = [step |-> "enters", to |-> depth + 1]]
    /\ UNCHANGED <<cwd, dir, fs, running, depth, levels, moved, asked>>

(* The file is looked for in Shell.cwd.  Too deep, missing or unreadable,  *)
(* the level is given back.                                                *)
(* Mutant: only a successful source gives its level back.                  *)
SourceFails_Counts(w, p) ==
    /\ counting[w].step = "enters"
    /\ depth' = counting[w].to
    /\ asked' = IF depth' > MaxSource THEN asked ELSE resolvePath(p)
    /\ counting' = [counting EXCEPT ![w] = Outside]
    /\ UNCHANGED <<cwd, dir, fs, running, levels, moved>>

SourceFails(w, p) ==
    /\ counting[w].step = "enters"
    /\ depth' = counting[w].to
    /\ asked' = IF depth' > MaxSource THEN asked ELSE resolvePath(p)
    /\ counting' = Leaves(w, depth')
    /\ UNCHANGED <<cwd, dir, fs, running, levels, moved>>

SourceRuns(w, p) ==
    /\ counting[w].step = "enters"
    /\ depth' = counting[w].to /\ depth' <= MaxSource
    /\ asked' = resolvePath(p)
    /\ levels' = [levels EXCEPT ![w] = @ + 1]
    /\ counting' = [counting EXCEPT ![w] = Outside]
    /\ UNCHANGED <<cwd, dir, fs, running, moved>>

(* The inner Run is over, and so sets Shell.cwd.                           *)
SourceReturns(w) ==
    /\ Active(w) /\ Alone(w) /\ levels[w] > 0
    /\ levels' = [levels EXCEPT ![w] = @ - 1]
    /\ counting' = Leaves(w, depth)
    /\ cwd' = virtualDir(dir["runner"])
    /\ UNCHANGED <<dir, fs, running, depth, moved, asked>>

SourceLeft(w) ==
    /\ counting[w].step = "leaves"
    /\ depth' = counting[w].to
    /\ counting' = [counting EXCEPT ![w] = Outside]
    /\ UNCHANGED <<cwd, dir, fs, running, levels, moved, asked>>

-----------------------------------------------------------------------------
Init ==
    /\ cwd = StartDir
    /\ dir = [w \in {"runner", "subshell"} |-> IF w = "runner" THEN realCwd ELSE None]
    /\ fs = Tree
    /\ running = FALSE /\ depth = 0 /\ moved = FALSE
    /\ levels = [w \in {"runner", "subshell"} |-> 0]
    /\ counting = [w \in {"runner", "subshell"} |-> Outside]
    /\ asked = StartDir

Next ==
    \/ Run \/ Return \/ Subshell \/ SubshellEnds
    \/ \E w \in {"runner", "subshell"} :
        \/ Cd(w) \/ CdAbs(w) \/ Source(w) \/ SourceReturns(w) \/ SourceLeft(w)
        \/ \E p \in Relative : changeDir(w, p) \/ Exec(w, p) \/ Redirect(w, p)
                               \/ SourceRuns(w, p) \/ SourceFails(w, p)
        \/ \E d \in Tree \ {<<>>} : MakeDir(w, d) \/ RemoveDir(w, d)

Spec == Init /\ [][Next]_vars

-----------------------------------------------------------------------------
(* "that dir stands for the virtual start directory and must never be      *)
(* reported ..." (shell.go 520): what Cwd, pwd, the session and the prompt *)
(* see is a virtual directory, that of the temporary one included.         *)
NeverReported ==
    ~OnHost => /\ ~IsPrefix(Temp, cwd)
               /\ \A w \in Workers : ~IsPrefix(Temp, virtualDir(dir[w]))

(* "... or used as a path" (shell.go 521): arguments, redirections and     *)
(* scripts never name the temporary directory; only the interpreter's own  *)
(* cd to a relative path does.                                             *)
AskedByCd ==
    asked' # asked /\ ~OnHost /\ IsPrefix(Temp, asked') => \E w \in Workers : Cd(w)

(* Whatever failed on the way, sourceDepth is the number of sourced scripts*)
(* that go on, those of a job in the background that outlives its Run      *)
(* among them; together they are no deeper than the limit.                 *)
LevelsReturned ==
    (\A w \in DOMAIN counting : counting[w] = Outside) =>
        depth = levels["runner"] + levels["subshell"] /\ depth <= MaxSource

(* Between Runs, and within one until a script's own cd, a redirection     *)
(* means the same file as the argument of a command.                       *)
RedirectsAgree ==
    ~(moved /\ (running \/ levels["subshell"] > 0)) => cwd = virtualDir(dir["runner"])

(* "maxSourceDepth limits recursive `source` calls to prevent stack        *)
(* overflow" (shell.go 28): scripts that source each other stop there.     *)
RecursionLimited == \A w \in DOMAIN levels : levels[w] <= MaxSource

(* Shell and interpreter agree on where they are.                          *)
PlacesAgree == NeverReported /\ LevelsReturned /\ RedirectsAgree
=============================================================================
