----------------------------- MODULE MCWorkspace ----------------------------
(***************************************************************************)
(* What commands of one session keep between them, component by component: *)
(* a git repository, metered connections, the known hosts of ssh and the   *)
(* session that memsh keeps on a terminal.  part says which of them a      *)
(* behaviour is about; the others stay in one initial state.               *)
(***************************************************************************)
EXTENDS GitRepo, TLC

CONSTANTS
    Parts,                                                        \* those a run looks at
    Conns, Addrs, NoAddr, Private, MaxRequests, MaxBytes, Chunk, MaxAge, MaxDials,
                                                                  \* NetworkMeter
    Commands, Hosts, Keys, MaxEntries,                            \* KnownHosts
    Terminals, Pipes, MaxFiles, MaxRuntime, MaxLines, MaxStarts, AliasesFile, Dotted, NoRecord
                                                                  \* LocalShell

VARIABLES
    part,
    policy, usage, conn, moved, openTime,
    file, pc, offer, existing, confirmed,
    record, proc, starts, rcs, spent, parted

gitVars   == vars
netVars   == <<policy, usage, conn, moved, openTime>>
hostVars  == <<file, pc, offer, existing, confirmed>>
localVars == <<record, proc, starts, rcs, spent, parted>>

(* Everything, everything public, one domain and what is below it, one     *)
(* private range, nothing.                                                 *)
Policy(mode, denyPrivate, cidrs, domains, ports) ==
    [mode |-> mode, denyPrivate |-> denyPrivate, cidrs |-> cidrs, domains |-> domains, ports |-> ports]
Policies ==
    { Policy("full", FALSE, {}, {}, {}), Policy("full", TRUE, {}, {}, {443}),
      Policy("allowlist", TRUE, {}, {[name |-> <<"b">>, wild |-> TRUE]}, {}),
      Policy("allowlist", TRUE, {"priv"}, {}, {}), Policy("off", TRUE, {}, {}, {}) }

(* A name below that domain and a private address; what the resolver says. *)
Dests   == { [name |-> <<"a", "b">>, ip |-> "none", port |-> 443],
             [name |-> <<>>, ip |-> "priv", port |-> 80] }
Answers == { <<>>, <<"pub">>, <<"priv">>, <<"pub", "priv">> }

(* Two keys of one type and one of another.                                *)
KeyType == ("r1" :> "rsa") @@ ("r2" :> "rsa") @@ ("e1" :> "ed25519")

(* What lines do at a terminal and in a pipe, and who may type what.       *)
Line(does, name, first) == [does |-> does, name |-> name, first |-> first]
ShellLines ==
    { Line("write", "a", TRUE), Line("write", "a..b", TRUE), Line("remove", "a", TRUE),
      Line("exit", "", TRUE), Line("exit", "", FALSE), Line("quit", "", FALSE) }
ShellModes == [p \in Terminals \cup Pipes |-> IF p \in Terminals THEN {"-c", "piped", "interactive"} ELSE {"-c"}]

Net   == INSTANCE NetworkMeter
Trust == INSTANCE KnownHosts
Local == INSTANCE LocalShell WITH Procs <- Terminals \cup Pipes, Modes <- ShellModes, Commands <- ShellLines

-----------------------------------------------------------------------------
(* Two looks at a repository: all commands, and one commit and one stash   *)
(* less than the bounds; or only those of somebody who stashes.            *)
Shallow  == Len(commits') < MaxCommits /\ Len(stash') < MaxStash
Stashing ==
    \/ \E p \in Paths, c \in Contents \cup {Absent} : Edit(p, c)
    \/ Add(Paths) \/ Commit(FALSE) \/ StashPush \/ StashClear
    \/ \E i \in DOMAIN stash : StashApply(i) \/ StashPop(i) \/ StashDrop(i)

WorkspaceInit ==
    /\ part \in Parts
    /\ Init /\ Net!Init /\ Trust!Init /\ Local!Init
    /\ part # "net" => policy = Policy("full", FALSE, {}, {}, {})

WorkspaceNext ==
    /\ UNCHANGED part
    /\ \/ part = "git"   /\ Next /\ Shallow /\ UNCHANGED <<netVars, hostVars, localVars>>
       \/ part = "stash" /\ Stashing   /\ UNCHANGED <<netVars, hostVars, localVars>>
       \/ part = "net"   /\ Net!Next   /\ UNCHANGED <<gitVars, hostVars, localVars>>
       \/ part = "hosts" /\ Trust!Next /\ UNCHANGED <<gitVars, netVars, localVars>>
       \/ part = "local" /\ Local!Next /\ UNCHANGED <<gitVars, netVars, hostVars>>

WorkspaceSpec ==
    WorkspaceInit /\ [][WorkspaceNext]_<<part, gitVars, netVars, hostVars, localVars>>

(* Files, connections and ssh commands are interchangeable; the same values*)
(* stand for them.                                                         *)
Interchangeable == Permutations(Paths)

-----------------------------------------------------------------------------
(* What the meter knows of connections, and whom they reach (NetworkMeter).*)
UsageMetered          == Net!UsageMetered
ConnectedWithinPolicy == Net!ConnectedWithinPolicy

(* ssh trusts no host key the user has not seen (KnownHosts).              *)
AcceptedWasConfirmed == Trust!AcceptedWasConfirmed

(* The runtime and the rc file of a session on terminals, one after the    *)
(* other, and what a session over its limit may still do (LocalShell).     *)
SessionGoesOn == Local!SessionGoesOn
=============================================================================
