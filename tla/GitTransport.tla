---------------------------- MODULE GitTransport ----------------------------
(***************************************************************************)
(* git/transport.go and the commands that reach a remote (clone, fetch,    *)
(* pull, push, ls-remote): go-git keeps one table of transports for the    *)
(* whole process, and each command must dial through the policy of its own *)
(* shell.  withPolicyHTTPTransport changes the table for the duration of a *)
(* command, under a mutex, one protocol after the other, and puts back     *)
(* what it found.                                                          *)
(***************************************************************************)
EXTENDS Naturals, FiniteSets

CONSTANTS
    Shells,         \* each runs git commands, one after the other
    Nobody

ASSUME TransportAssumption == Nobody \notin Shells

VARIABLES
    table,          \* gitclient.Protocols: whose transport a protocol uses
    mu,             \* gitTransportMu
    pc,             \* where the command of each shell is
    prev,           \* prevHTTP, prevHTTPS and prevOther of each command
    used            \* history: the transport a command has used last

vars == <<table, mu, pc, prev, used>>

-----------------------------------------------------------------------------
Http       == {"http", "https"}
Sandboxed  == {"file", "ssh", "git"}
Protocols  == Http \cup Sandboxed
Stock      == [p \in Protocols |-> "stock"]

Goto(s, to) == pc' = [pc EXCEPT ![s] = to]
With(ps, t) == [p \in Protocols |-> IF p \in ps THEN t ELSE table[p]]

(* A command whose remote is refused by checkRemoteURL, for any scheme but *)
(* http and https, ends at once; the others wait for the mutex.            *)
Command(s) ==
    /\ pc[s] = "idle"
    /\ Goto(s, "waiting")
    /\ used' = [used EXCEPT ![s] = Nobody]
    /\ UNCHANGED <<table, mu, prev>>

(* Mutant: the mutex is not waited for.                                    *)
Acquire_Anyway(s) ==
    /\ pc[s] = "waiting"
    /\ mu' = s
    /\ Goto(s, "locked")
    /\ UNCHANGED <<table, prev, used>>
Acquire(s) ==
    /\ pc[s] = "waiting" /\ mu = Nobody
    /\ mu' = s
    /\ Goto(s, "locked")
    /\ UNCHANGED <<table, prev, used>>

Disable(s) ==
    /\ pc[s] = "locked"
    /\ prev' = [prev EXCEPT ![s] = table]
    /\ table' = With(Sandboxed, "disabled")
    /\ Goto(s, "disabled")
    /\ UNCHANGED <<mu, used>>

Install(s) ==
    /\ pc[s] = "disabled"
    /\ table' = With(Http, s)
    /\ Goto(s, "running")
    /\ UNCHANGED <<mu, prev, used>>

(* fn: go-git opens sessions, for the remote and for whatever it redirects *)
(* to or contains, by looking the protocol up in the table.                *)
OpenSession(s) ==
    /\ pc[s] = "running"
    /\ \E p \in Protocols : used' = [used EXCEPT ![s] = table[p]]
    /\ UNCHANGED <<table, mu, pc, prev>>

(* fn returns, or panics; the deferred functions run, first that which     *)
(* restores.  Mutant: one that did not get through tries again first.      *)
Return_Retries(s) ==
    /\ pc[s] = "running"
    /\ \/ Goto(s, "disabled") /\ used[s] # s
       \/ Goto(s, "returned") /\ used[s] = s
    /\ UNCHANGED <<table, mu, prev, used>>
Return(s) ==
    /\ pc[s] = "running"
    /\ Goto(s, "returned")
    /\ UNCHANGED <<table, mu, prev, used>>

(* Mutant: only what was replaced by a client of one's own is put back.    *)
Restore_HttpOnly(s) ==
    /\ pc[s] = "returned"
    /\ table' = [p \in Protocols |-> IF p \in Http THEN prev[s][p] ELSE table[p]]
    /\ Goto(s, "restored")
    /\ UNCHANGED <<mu, prev, used>>
Restore(s) ==
    /\ pc[s] = "returned"
    /\ table' = [p \in Protocols |-> prev[s][p]]
    /\ Goto(s, "restored")
    /\ UNCHANGED <<mu, prev, used>>

Unlock(s) ==
    /\ pc[s] = "restored"
    /\ mu' = Nobody
    /\ Goto(s, "idle")
    /\ UNCHANGED <<table, prev, used>>

-----------------------------------------------------------------------------
Init ==
    /\ table = Stock
    /\ mu = Nobody
    /\ pc = [s \in Shells |-> "idle"]
    /\ prev = [s \in Shells |-> Stock]
    /\ used = [s \in Shells |-> Nobody]

Inside(s) == Disable(s) \/ Install(s) \/ Return(s) \/ Restore(s) \/ Unlock(s)

Next == \E s \in Shells : Command(s) \/ Acquire(s) \/ Inside(s) \/ OpenSession(s)

Spec == Init /\ [][Next]_vars

(* A command that holds the mutex goes on, which for Return assumes that   *)
(* its remote answers or hangs up: the command's own timeout does not      *)
(* reach go-git.  sync.Mutex does not starve a waiter.                     *)
Fairness == \A s \in Shells : WF_vars(Inside(s)) /\ SF_vars(Acquire(s))
LiveSpec == Spec /\ Fairness

-----------------------------------------------------------------------------
(* Whatever other shells do meanwhile, a command goes to the network       *)
(* through its own shell's dialer or not at all.                           *)
OwnDialerOnly == \A s \in Shells : used[s] \in {Nobody, s, "disabled"}

(* While no command is at it, the process has the transports it had.       *)
TableRestored == mu = Nobody => table = Stock

(* Every command gets its turn, if remotes answer.                         *)
CommandsFinish == \A s \in Shells : pc[s] = "waiting" ~> pc[s] = "idle"

(* Both: the transports of the process serve their owner and are put back. *)
TransportsKept == OwnDialerOnly /\ TableRestored
=============================================================================
