------------------------------ MODULE MCFronts ------------------------------
(***************************************************************************)
(* The parts of the process that stand between its clients and the shells, *)
(* and the trees and texts that the shells' commands work on.  They share  *)
(* no state: one run checks them all.  part says which of them a behaviour *)
(* is about; the others stay in an initial state.                          *)
(***************************************************************************)
EXTENDS GitTransport, TLC

CONSTANTS
    Handlers, Clients, limit, window, LoopbackOnly, CORSOrigin, APIKey,  \* HttpServer
    Pooled, maxSessions, sessionGrace, SlowBind,                         \* McpPool
    Conns, Addresses, maxConns, authFailLimit, authFailWindow,           \* SshFront
    DirNames, Dotted, Values, Nothing, QuotaFull, MaxNodes, MaxEntries,  \* Files
    MaxChars, MaxText, MaxNumber                                         \* TextTools

VARIABLES
    part,
    handling, bucket, sincePrune, admitted, guesses, process, cut,
    running, entries, open, session, age,
    state, from, conns, once, fails,
    data, linked, archive,          \* a tree without plugins, no archives
    data2, linked2, archive2,       \* one with plugins and archives
    text, other, filter

gitVars  == vars
httpVars == <<handling, bucket, sincePrune, admitted, guesses, process, cut>>
mcpVars  == <<running, entries, open, session, age>>
sshVars  == <<state, from, conns, once, fails>>
plainVars == <<data, linked, archive>>
guestVars == <<data2, linked2, archive2>>
treeVars  == <<plainVars, guestVars>>
textVars  == <<text, other, filter>>

(* A browser on the page, a script with the key, one that guesses, a       *)
(* foreign page, a preflight, a rebound host name, a health check.         *)
Request(method, path, origin, host, key, client) ==
    [method |-> method, path |-> path, origin |-> origin, host |-> host, key |-> key, from |-> client]
Requests ==
    { Request("GET",     "/",       "absent",  "loopback", "absent", "a"),
      Request("POST",    "/run",    "absent",  "loopback", "right",  "a"),
      Request("POST",    "/run",    "same",    "loopback", "wrong",  "a"),
      Request("POST",    "/run",    "foreign", "loopback", "right",  "b"),
      Request("POST",    "/run",    "listed",  "loopback", "right",  "b"),
      Request("OPTIONS", "/run",    "foreign", "loopback", "absent", "b"),
      Request("GET",     "/run",    "absent",  "other",    "right",  "b"),
      Request("GET",     "/health", "absent",  "other",    "absent", "b") }

(* A file and its compressed form, a directory that may be moved.          *)
Gz         == "f" :> "f.gz"
PlainPaths == {<<>>, <<"d">>, <<"f">>, <<"f.gz">>, <<"e">>, <<"d", "f">>, <<"e", "d">>, <<"e", "d", "f">>}

(* Two files, in the root and in a directory.                              *)
GuestPaths == {<<>>, <<"d">>, <<"f">>, <<"g">>, <<"d", "f">>, <<"d", "g">>}

Web == INSTANCE HttpServer
Mcp == INSTANCE McpPool WITH Shells <- Pooled
Ssh == INSTANCE SshFront WITH n <- conns
Plain == INSTANCE Files WITH Paths <- PlainPaths, Plugins <- FALSE, MaxEntries <- 0
Guest == INSTANCE Files WITH Paths <- GuestPaths, Gz <- <<>>, Plugins <- TRUE, MaxNodes <- 4,
             data <- data2, linked <- linked2, archive <- archive2
Text == INSTANCE TextTools WITH Chars <- <<"_", ",", "a">>, Blank <- "_", Delim <- ","

-----------------------------------------------------------------------------
FrontsInit ==
    /\ part \in {"git", "http", "mcp", "ssh", "plain", "guest", "text"}
    /\ Text!Init /\ (part # "text" => text = <<>> /\ other = <<>>)
    /\ Init /\ Web!Init /\ Mcp!Init /\ Ssh!Init /\ Plain!Init /\ Guest!Init
    /\ part # "ssh" => \A c, d \in Conns : from[c] = from[d] /\ from[c] = CHOOSE a \in Addresses : TRUE

FrontsNext ==
    /\ UNCHANGED part
    /\ \/ part = "git"   /\ Next       /\ UNCHANGED <<httpVars, mcpVars, sshVars, textVars, treeVars>>
       \/ part = "http"  /\ Web!Next   /\ UNCHANGED <<gitVars, mcpVars, sshVars, textVars, treeVars>>
       \/ part = "mcp"   /\ Mcp!Next   /\ UNCHANGED <<gitVars, httpVars, sshVars, textVars, treeVars>>
       \/ part = "ssh"   /\ Ssh!Next   /\ UNCHANGED <<gitVars, httpVars, mcpVars, textVars, treeVars>>
       \/ part = "plain" /\ Plain!Next /\ UNCHANGED <<gitVars, httpVars, mcpVars, sshVars, guestVars, textVars>>
       \/ part = "guest" /\ Guest!Next /\ UNCHANGED <<gitVars, httpVars, mcpVars, sshVars, plainVars, textVars>>
       \/ part = "text"  /\ Text!Next  /\ UNCHANGED <<gitVars, httpVars, mcpVars, sshVars, treeVars>>

(* Each part under its own fairness; in a behaviour about another part,    *)
(* its actions are not enabled.                                            *)
FrontsSpec ==
    /\ FrontsInit
    /\ [][FrontsNext]_<<part, gitVars, httpVars, mcpVars, sshVars, treeVars, textVars>>
    /\ \A s \in Shells : /\ WF_vars(part = "git" /\ Inside(s))
                         /\ SF_vars(part = "git" /\ Acquire(s))
    /\ WF_mcpVars(part = "mcp" /\ Mcp!Sweep)
    /\ WF_mcpVars(part = "mcp" /\ Mcp!Tick)
    /\ \A p \in Pooled : WF_mcpVars(part = "mcp" /\ session[p] = "pending" /\ (Mcp!Bind(p) \/ Mcp!End(p)))
    /\ WF_sshVars(part = "ssh" /\ Ssh!Tick)

-----------------------------------------------------------------------------
(* Every git command gets its turn (GitTransport, whose invariant the run  *)
(* checks under its own name).                                             *)
GitTurns == CommandsFinish

(* What handlers get has passed every middleware; two windows' worth of    *)
(* requests and of guesses at most (HttpServer).                           *)
MiddlewareHolds == Web!MiddlewareHolds

(* The shells of MCP sessions: never too many, never closed under a client,*)
(* and closed when it is gone (McpPool).                                   *)
PoolKept    == Mcp!PoolKept
ShellsClose == Mcp!ShellsClose

(* SSH connections are counted, guesses bounded, lockouts end (SshFront).  *)
FrontHolds  == Ssh!FrontHolds
LockoutEnds == Ssh!LockoutEnds

(* No command loses or hides a file, or puts one outside of where it was   *)
(* asked to (Files): without plugins, and with them and archives.          *)
KeepsFiles ==
    [][ /\ part = "plain" => Plain!HidesNothing /\ Plain!LosesNothing
        /\ part = "guest" => Guest!UnpacksInside /\ Guest!AddsToArchive ]_treeVars

(* All commands that show a tree show the same one, and a snapshot brings  *)
(* it back (Files).                                                        *)
TreesShown ==
    /\ part = "plain" => Plain!TypeOK /\ Plain!WalksAgree
    /\ part = "guest" => Guest!TypeOK /\ Guest!SnapshotsRestore

(* The parts of a text make it, sort, fold and cut keep what they should,  *)
(* nothing is printed that was not read, and nl counts on (TextTools).     *)
TextsKept ==
    /\ [](part = "text" => Text!FiltersAgree)
    /\ [][part = "text" => Text!LinesWereRead]_textVars
=============================================================================
