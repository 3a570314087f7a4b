------------------------------ MODULE SshFront ------------------------------
(***************************************************************************)
(* internal/ssh/server.go up to the session handler: the cap on concurrent *)
(* connections (connLimiter) and the lockout of addresses that guess the   *)
(* password (authThrottle).                                                *)
(*                                                                         *)
(* Each connection has a goroutine of its own and may try several          *)
(* passwords.  PasswordHandler asks the throttle, compares and reports a   *)
(* failure in three critical sections, so that other connections of the    *)
(* same address come between.  A connection is closed by the client, by    *)
(* the idle timeout and by the library, possibly more than once.           *)
(***************************************************************************)
EXTENDS Naturals, FiniteSets, FiniteSetsExt

CONSTANTS
    Conns,          \* bound: connections with a goroutine at a time
    Addresses,      \* source addresses
    maxConns,
    authFailLimit,
    authFailWindow  \* in ticks

VARIABLES
    state,          \* where the goroutine of each connection is
    from,           \* the address of each connection
    n,              \* connLimiter.n
    once,           \* limitedConn.once is done: the connection is closed
    fails           \* authThrottle.fails: how many failures of each age, per address

vars == <<state, from, n, once, fails>>

-----------------------------------------------------------------------------
States == {"none", "open", "checking", "session"}
Ages   == 0..(authFailWindow - 1)

Accepted   == {c \in Conns : state[c] # "none" /\ ~once[c]}
recent(a)  == MapThenSumSet(LAMBDA t : fails[a][t], Ages)
locked(a)  == recent(a) >= authFailLimit

Goto(c, s) == state' = [state EXCEPT ![c] = s]

(* Bound: more failures than MaxFails are not counted.                     *)
MaxFails == authFailLimit + Cardinality(Conns)
fail(a)  == fails' = [fails EXCEPT ![a][0] = IF @ < MaxFails THEN @ + 1 ELSE @]

-----------------------------------------------------------------------------
(* Mutant: the cap is compared after the insertion.                        *)
HasPlace_OffByOne == n <= maxConns
HasPlace == n < maxConns

(* ConnCallback: wrap counts the connection or closes it.                  *)
Connect(c) ==
    /\ state[c] = "none"
    /\ HasPlace
    /\ \E a \in Addresses : from' = [from EXCEPT ![c] = a]
    /\ n' = n + 1
    /\ once' = [once EXCEPT ![c] = FALSE]
    /\ Goto(c, "open")
    /\ UNCHANGED fails

(* At the cap, the client is refused at once.                              *)
Refuse == ~HasPlace /\ UNCHANGED vars

(* Mutants: the throttle is not asked; tries of an address that is locked  *)
(* out count as failures.                                                  *)
Try_Unasked(c) ==
    /\ state[c] = "open" /\ ~once[c]
    /\ Goto(c, "checking")
    /\ UNCHANGED <<from, n, once, fails>>

Try_LockedCounts(c) ==
    /\ state[c] = "open" /\ ~once[c]
    /\ IF locked(from[c])
       THEN fail(from[c]) /\ UNCHANGED state
       ELSE Goto(c, "checking") /\ UNCHANGED fails
    /\ UNCHANGED <<from, n, once>>

(* The client sends a password; a locked address is turned away unread.    *)
Try(c) ==
    /\ state[c] = "open" /\ ~once[c]
    /\ Goto(c, IF locked(from[c]) THEN "open" ELSE "checking")
    /\ UNCHANGED <<from, n, once, fails>>

(* The password is compared: the session starts, or the failure is counted.*)
Compare(c) ==
    /\ state[c] = "checking"
    /\ \/ /\ Goto(c, "session")
          /\ UNCHANGED fails
       \/ /\ Goto(c, "open")
          /\ fail(from[c])
    /\ UNCHANGED <<from, n, once>>

(* Mutant: every Close gives a place back.                                 *)
Close_EveryTime(c) ==
    /\ state[c] # "none"
    /\ n > 0 /\ n' = n - 1
    /\ once' = [once EXCEPT ![c] = TRUE]
    /\ UNCHANGED <<state, from, fails>>

(* A password that is being compared still is when its connection closes.  *)
Close(c) ==
    /\ state[c] # "none"
    /\ n' = IF once[c] THEN n ELSE n - 1
    /\ once' = [once EXCEPT ![c] = TRUE]
    /\ UNCHANGED <<state, from, fails>>

(* The goroutine of a closed connection returns.                           *)
Return(c) ==
    /\ state[c] \in {"open", "session"} /\ once[c]
    /\ Goto(c, "none")
    /\ UNCHANGED <<from, n, once, fails>>

(* Time passes: a failure is recent for authFailWindow.                    *)
Tick == /\ fails' = [a \in Addresses |-> [t \in Ages |-> IF t = 0 THEN 0 ELSE fails[a][t - 1]]]
        /\ UNCHANGED <<state, from, n, once>>

Init == /\ state = [c \in Conns |-> "none"]
        /\ from \in [Conns -> Addresses]
        /\ n = 0
        /\ once = [c \in Conns |-> FALSE]
        /\ fails = [a \in Addresses |-> [t \in Ages |-> 0]]

Next == \/ \E c \in Conns : Connect(c) \/ Try(c) \/ Compare(c) \/ Close(c) \/ Return(c)
        \/ Refuse \/ Tick

Spec == Init /\ [][Next]_vars

Fairness == WF_vars(Tick)
LiveSpec == Spec /\ Fairness

-----------------------------------------------------------------------------
(* Properties.                                                             *)

TypeOK ==
    /\ state \in [Conns -> States]
    /\ from \in [Conns -> Addresses]
    /\ n \in 0..maxConns
    /\ once \in [Conns -> BOOLEAN]
    /\ fails \in [Addresses -> [Ages -> Nat]]

(* There are never more than maxConns connections, however often each of   *)
(* them is closed, and none of the places is lost (wrap, Close).           *)
ConnsCounted == n = Cardinality(Accepted) /\ n <= maxConns

(* An address gets no more guesses within authFailWindow than authFailLimit*)
(* and one for each connection that was already past the throttle: asking  *)
(* and reporting are not one step.                                         *)
GuessesBounded == \A a \in Addresses :
    recent(a) + Cardinality({c \in Conns : state[c] = "checking" /\ from[c] = a})
        <= authFailLimit - 1 + Cardinality(Conns)

(* A lockout ends, however eagerly the address keeps trying.               *)
LockoutEnds == \A a \in Addresses : locked(a) ~> ~locked(a)

(* The front holds: connections and guesses stay within their limits.      *)
FrontHolds == TypeOK /\ ConnsCounted /\ GuessesBounded
=============================================================================
