------------------------------- MODULE MCTools ------------------------------
(***************************************************************************)
(* The shell and what its commands work with, each a part of its own: the  *)
(* quota of the filesystem, the table of WASI descriptors, the table of    *)
(* commands, the directories of a shell, patches, the crontab and sqlite3. *)
(* part says which of them a behaviour is about; the others do not move.   *)
(***************************************************************************)
EXTENDS QuotaFs, Sequences, TLC

CONSTANTS
    Parts,                                                                 \* those looked at
    Calls, Files, NoFile, MaxFd,                                           \* WasmHost
    CommandNames, Defaults, Gated, OnVirtual, OnHost, Broken, MaxOptions,  \* CommandTable
    ShellStart, Tree, Relative, MaxSource, LostUpdates,                    \* ShellRun
    Lines, Dashed, MaxLines, Contexts,                                     \* Patches
    QuotaFull,                                                             \* Crontab and Sqlite
    Crontabs, Today, MaxTime,                                              \* Crontab
    Procs, MaxText, MaxStmts, NoDb                                         \* Sqlite

(* Nobody uses the name that os.MkdirTemp makes up; a day of a crontab is a*)
(* number or a range of numbers; no file is not an empty one.              *)
ASSUME ToolsAssumption ==
    /\ {MaxFd, MaxSource, Today, MaxTime} \subseteq Nat
    /\ LostUpdates \in BOOLEAN
    /\ NoFile \notin Files /\ \A inserted \in SUBSET Procs : NoDb # inserted
    /\ ShellStart \in Tree /\ Tree \subseteq Seq(STRING)
    /\ \A d \in Tree : \A i \in DOMAIN d : d[i] # "memsh-cwd"
    /\ "memsh-cwd" \notin Relative
    /\ Crontabs \subseteq Seq([kind : STRING, dow : Seq([lo : Nat, hi : Nat]), command : STRING])

VARIABLES
    part,
    host, fds, freeFds, nextFd, guest,
    builtins, nativePlugins, plugins, compiled, pluginFilter, flags, network, phase, given, dropped,
    cwd, dir, fs, running, depth, levels, counting, moved, asked,
    old, new, patch, patched,
    now, tick, tab, installing, sweeps, direct,
    db, proc, settled, shared, refused

quotaVars   == vars
wasmVars    == <<host, fds, freeFds, nextFd, guest>>
commandVars == <<builtins, nativePlugins, plugins, compiled, pluginFilter, flags, network, phase, given, dropped>>
runVars     == <<cwd, dir, fs, running, depth, levels, counting, moved, asked>>
patchVars   == <<old, new, patch, patched>>
cronVars    == <<now, tick, tab, installing, sweeps, direct>>
sqliteVars  == <<db, proc, settled, shared, refused>>

(* A shell that starts in a directory the host does not have.              *)
StartW    == <<"w">>
SmallTree == {<<>>, <<"w">>, <<"w", "d">>}

(* Crontabs: a list with a seven and a comment, a range, a range that runs *)
(* to seven, a line without a command.                                     *)
Days(lo, hi)      == [lo |-> lo, hi |-> hi]
On(days, command) == [kind |-> "fields", dow |-> days, command |-> command]
Daily(command)    == [kind |-> "@daily", dow |-> <<Days(0, 6)>>, command |-> command]
Comment           == [kind |-> "comment", dow |-> <<>>, command |-> ""]
SomeCrontabs ==
    { <<Comment, On(<<Days(1, 1), Days(7, 7)>>, "a"), Daily("b")>>,
      <<On(<<Days(0, 2)>>, "c")>>,
      <<On(<<Days(5, 7)>>, "d"), Daily("e")>>,
      <<Daily("")>> }

Wasm  == INSTANCE WasmHost WITH None <- NoFile
Table == INSTANCE CommandTable WITH Names <- CommandNames
Run   == INSTANCE ShellRun WITH StartDir <- ShellStart, OnHost <- FALSE, None <- NoFile
Patch == INSTANCE Patches WITH file <- patched
Cron  == INSTANCE Crontab WITH Tabs <- Crontabs
Sql   == INSTANCE Sqlite WITH file <- db, Absent <- NoDb

-----------------------------------------------------------------------------
(* What does not move is empty.                                            *)
ToolsInit ==
    /\ part \in Parts
    /\ Init       /\ (part # "quota" => Linked = {})
    /\ Patch!Init /\ (part # "patch" => old = <<>> /\ new = <<>>)
    /\ Wasm!Init /\ Table!Init /\ Run!Init /\ Cron!Init /\ Sql!Init

ToolsNext ==
    /\ UNCHANGED part
    /\ \/ part = "quota"    /\ Next
          /\ UNCHANGED <<wasmVars, commandVars, runVars, patchVars, cronVars, sqliteVars>>
       \/ part = "wasm"     /\ Wasm!Next
          /\ UNCHANGED <<quotaVars, commandVars, runVars, patchVars, cronVars, sqliteVars>>
       \/ part = "commands" /\ Table!Next
          /\ UNCHANGED <<quotaVars, wasmVars, runVars, patchVars, cronVars, sqliteVars>>
       \/ part = "run"      /\ Run!Next
          /\ UNCHANGED <<quotaVars, wasmVars, commandVars, patchVars, cronVars, sqliteVars>>
       \/ part = "patch"    /\ Patch!Next
          /\ UNCHANGED <<quotaVars, wasmVars, commandVars, runVars, cronVars, sqliteVars>>
       \/ part = "cron"     /\ Cron!Next
          /\ UNCHANGED <<quotaVars, wasmVars, commandVars, runVars, patchVars, sqliteVars>>
       \/ part = "sqlite"   /\ Sql!Next
          /\ UNCHANGED <<quotaVars, wasmVars, commandVars, runVars, patchVars, cronVars>>

allVars == <<part, quotaVars, wasmVars, commandVars, runVars, patchVars, cronVars, sqliteVars>>

ToolsSpec == ToolsInit /\ [][ToolsNext]_allVars

(* Commands, names and files of the quota are interchangeable.             *)
Interchangeable == Permutations(Commands) \cup Permutations(Names) \cup Permutations(Inodes)

-----------------------------------------------------------------------------
(* A script that sources itself is stopped at the limit (ShellRun).        *)
RecursionLimited == part = "run" => Run!RecursionLimited

(* Descriptors are given out once, by one plugin at a time (WasmHost).     *)
FdsKeptApart == part = "wasm" => Wasm!FdsKeptApart

(* What which, help and completion say of a command, what filters keep out *)
(* and the network a shell is given (CommandTable).                        *)
ShellAsAsked == part = "commands" => Table!ShellAsAsked

(* The temporary directory that stands in for one the host does not have is*)
(* neither seen nor used; source ends every level it began; redirections   *)
(* and commands agree on the directory (ShellRun).                         *)
PlacesAgree ==
    /\ [](part = "run" => Run!PlacesAgree)
    /\ [][part = "run" => Run!AskedByCd]_runVars

(* What diff shows is what it takes to make one version from the other, in *)
(* hunks and in chunks, and git apply can make it from one hunk (Patches). *)
DiffsAreTrue == part = "patch" => Patch!DiffsAreTrue

(* The scheduler runs what is due, and crontab lets nothing in that would  *)
(* keep it from that (Crontab).                                            *)
JobsRun == part = "cron" => Cron!JobsRun

(* sqlite3 cuts a text where its statements end, keeps what was inserted   *)
(* and stops where -bail says (Sqlite).                                    *)
BatchesKept == part = "sqlite" => Sql!BatchesKept
=============================================================================
