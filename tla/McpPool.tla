------------------------------- MODULE McpPool ------------------------------
(***************************************************************************)
(* internal/mcp/pool.go: one shell per client session of the MCP server's  *)
(* HTTP and SSE transports.                                                *)
(*                                                                         *)
(* The MCP SDK is external: it calls GetServer when a client opens a       *)
(* session, binds the session to the server it got some time later, or     *)
(* never if the client goes away, and drops it when it ends or has been    *)
(* idle for --session-ttl.  The pool is told of none of this: it looks at  *)
(* the server's sessions when it sweeps, and spares the servers younger    *)
(* than sessionGrace, which may be waiting for theirs.                     *)
(***************************************************************************)
EXTENDS Naturals, FiniteSets

CONSTANTS
    Shells,         \* bound: shells that exist at a time
    maxSessions,    \* Pool.maxSessions; 0 means unlimited
    sessionGrace,   \* in ticks
    SlowBind        \* TRUE when binding a session may take longer than sessionGrace

VARIABLES
    running,        \* the context of Run is not done
    entries,        \* Pool.entries: the shells the pool knows of
    open,           \* the shells that run
    session,        \* where the client session of each shell is
    age             \* of each entry, up to where nothing depends on it

vars == <<running, entries, open, session, age>>

-----------------------------------------------------------------------------
Ages  == 0..(sessionGrace + 1)
Bound == {s \in Shells : session[s] = "bound"}      \* hasSessions

(* Mutant: a server is swept as soon as it has no session.                 *)
Stale_NoGrace == entries \ Bound
Stale == {s \in entries : age[s] > sessionGrace} \ Bound

(* Mutant: what the pool forgets goes on running.                          *)
Close_Forgets(gone) == UNCHANGED open
Close(gone) == open' = open \ gone

sweepLocked == Close(Stale) /\ entries' = entries \ Stale

(* Mutant: the cap is compared after the insertion.                        *)
HasRoom_OffByOne == maxSessions > 0 => Cardinality(entries \ Stale) <= maxSessions
HasRoom == maxSessions > 0 => Cardinality(entries \ Stale) < maxSessions

-----------------------------------------------------------------------------
(* A client opens a session and gets a shell, after a sweep.               *)
GetServer(s) ==
    /\ HasRoom
    /\ s \notin open /\ session[s] = "none"
    /\ entries' = (entries \ Stale) \cup {s}
    /\ open'    = (open \ Stale) \cup {s}
    /\ session' = [session EXCEPT ![s] = "pending"]
    /\ age'     = [age EXCEPT ![s] = 0]
    /\ UNCHANGED running

(* Refused: the pool is full, or no shell can be made.                     *)
Refuse == sweepLocked /\ UNCHANGED <<running, session, age>>

Bind(s) == /\ session[s] = "pending"
           /\ session' = [session EXCEPT ![s] = "bound"]
           /\ UNCHANGED <<running, entries, open, age>>

(* The session ends, or never comes.                                       *)
End(s) == /\ session[s] \in {"pending", "bound"}
          /\ session' = [session EXCEPT ![s] = "none"]
          /\ UNCHANGED <<running, entries, open, age>>

Sweep == running /\ sweepLocked /\ UNCHANGED <<running, session, age>>

(* Run's context is done: every shell is closed.  The HTTP server still    *)
(* finishes the requests it has.                                           *)
Stop == /\ running
        /\ running' = FALSE
        /\ Close(entries)
        /\ entries' = {}
        /\ UNCHANGED <<session, age>>

(* Mutant: ages are not cut off where nothing depends on them any more.    *)
Tick_Unbounded == /\ age' = [s \in Shells |-> age[s] + 1]
                  /\ UNCHANGED <<running, entries, open, session>>
Tick == /\ SlowBind \/ \A s \in Shells : session[s] = "pending" => age[s] < sessionGrace
        /\ age' = [s \in Shells |-> IF s \in entries /\ age[s] <= sessionGrace
                                    THEN age[s] + 1 ELSE age[s]]
        /\ UNCHANGED <<running, entries, open, session>>

Init == /\ running = TRUE
        /\ entries = {} /\ open = {}
        /\ session = [s \in Shells |-> "none"]
        /\ age = [s \in Shells |-> 0]

Next == \/ \E s \in Shells : GetServer(s) \/ Bind(s) \/ End(s)
        \/ Refuse \/ Sweep \/ Stop \/ Tick

Spec == Init /\ [][Next]_vars

(* Run's ticker fires, time passes and the SDK binds a session or drops it.*)
Fairness == /\ WF_vars(Sweep) /\ WF_vars(Tick)
            /\ \A s \in Shells : WF_vars(session[s] = "pending" /\ (Bind(s) \/ End(s)))

LiveSpec == Spec /\ Fairness

-----------------------------------------------------------------------------
(* Properties.                                                             *)

TypeOK ==
    /\ running \in BOOLEAN
    /\ entries \subseteq Shells /\ open \subseteq Shells
    /\ session \in [Shells -> {"none", "pending", "bound"}]
    /\ age \in [Shells -> Ages]

(* However fast sessions come and go, no more shells run than              *)
(* --max-sessions allows (GetServer, pool.go 66).                          *)
ShellsCapped == maxSessions > 0 => Cardinality(open) <= maxSessions

(* A client never works with a shell that has been closed under it, until  *)
(* the server stops.                                                       *)
SessionsHaveShells == running => Bound \subseteq open

(* Every shell whose client is gone is eventually closed, so that others   *)
(* can have its place.                                                     *)
ShellsClose == \A s \in Shells :
    session[s] = "none" /\ s \in open /\ running ~> s \notin open \/ ~running

(* The pool is sound: never too many shells, none closed under its client. *)
PoolKept == TypeOK /\ ShellsCapped /\ SessionsHaveShells
=============================================================================
