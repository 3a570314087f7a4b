---------------------------- MODULE NetworkMeter ----------------------------
(***************************************************************************)
(* pkg/network: the policy on destinations, the dialer that enforces it,   *)
(* and the meter that the connections of a shell share; and the commands   *)
(* that dial, nc and curl.                                                 *)
(*                                                                         *)
(* Commands of one shell (a pipeline, a background job) dial, transfer and *)
(* close at the same time.  A request is counted before anything else is   *)
(* known of it; bytes are counted after they have gone; the runtime of a   *)
(* connection is counted when it closes.  When the shell ends, its usage   *)
(* seeds the meter of the session's next shell; a connection that is still *)
(* open (one that curl left idle, a background job's) keeps the old meter, *)
(* which nobody reads any more.                                            *)
(***************************************************************************)
EXTENDS Naturals, Sequences, FiniteSets, FiniteSetsExt, SequencesExt

CONSTANTS
    Conns,          \* bound: connections of one shell at a time
    Policies,       \* the policies considered
    Dests,          \* the destinations dialled: [name, ip, port]
    Addrs, NoAddr,  \* IP addresses; the invalid one
    Private,        \* those that are private or reserved
    Answers,        \* what a resolver may answer: sequences of addresses
    MaxRequests, MaxBytes,   \* Limits: 0 is no limit
    Chunk,          \* bound: the most bytes one Read or Write moves
    MaxAge,         \* bound: how long a connection stays open, in ticks
    MaxDials        \* bound: requests of a session

Directions == {"sent", "received"}

VARIABLES
    policy,         \* Dialer.policy
    usage,          \* Meter.usage: requests, sent, received, runtime
    conn,           \* each connection of the current shell
    moved,          \* history: bytes that went through connections of this meter
    openTime        \* history: how long connections of this meter were open, summed

vars == <<policy, usage, conn, moved, openTime>>

-----------------------------------------------------------------------------
(* The policy.  A name is the sequence of its labels; a rule is a name,    *)
(* with a wildcard or not.                                                 *)
DomainAllowed(p, name) ==
    \E rule \in p.domains :
        \/ name = rule.name
        \/ rule.wild /\ IsSuffix(rule.name, name)

PortAllowed(p, port) == p.ports = {} \/ port \in p.ports

(* Mutant: the private ranges are checked in allowlist mode only.          *)
Blocked_AllowlistOnly(p, ip) ==
    p.mode = "allowlist" /\ p.denyPrivate /\ ip \notin p.cidrs /\ ip \in Private
Blocked(p, ip) == p.denyPrivate /\ ip \notin p.cidrs /\ ip \in Private

Outside(p, dest, ip) ==
    /\ p.mode = "allowlist"
    /\ ip \notin p.cidrs
    /\ dest.name = <<>> \/ ~DomainAllowed(p, dest.name)

(* What EvaluateAddress returns when the resolver answers with ips: a      *)
(* refusal, the address to dial, or none, when the dialer may resolve the  *)
(* name itself.                                                            *)
EvaluateAddress(p, dest, ips) ==
    LET candidates == IF dest.name = <<>> THEN <<dest.ip>> ELSE ips IN
    IF p.mode = "off" \/ ~PortAllowed(p, dest.port) THEN "denied"
    ELSE IF p.mode = "full" /\ ~p.denyPrivate THEN NoAddr
    ELSE IF \/ candidates = <<>>
            \/ \E i \in DOMAIN candidates :
                  Blocked(p, candidates[i]) \/ Outside(p, dest, candidates[i])
    THEN "denied"
    ELSE Head(candidates)

-----------------------------------------------------------------------------
(* The dialer.  A connection is none, evaluating, dialing, open, closing   *)
(* (marked closed, its runtime not yet counted) or closed.                 *)
Idle == [pc |-> "none", by |-> "none", dest |-> "none", ip |-> NoAddr, under |-> FALSE,
         age |-> 0, flight |-> [d \in Directions |-> 0]]

SetConn(c, r) == conn' = [conn EXCEPT ![c] = r]

(* Mutant: a request over the limit is refused only after one more.        *)
beforeRequest_OffByOne ==
    /\ MaxRequests > 0 => usage.requests <= MaxRequests
    /\ usage' = [usage EXCEPT !.requests = @ + 1]
beforeRequest ==
    /\ MaxRequests > 0 => usage.requests < MaxRequests
    /\ usage' = [usage EXCEPT !.requests = @ + 1]

(* DialContext counts the request whatever comes of it.                    *)
Dial(c, by, dest) ==
    /\ conn[c].pc = "none"
    /\ usage.requests < MaxDials
    /\ beforeRequest
    /\ SetConn(c, [Idle EXCEPT !.pc = "evaluating", !.by = by, !.dest = dest])
    /\ UNCHANGED <<policy, moved, openTime>>

(* nc HOST PORT; nc -z with each port of its ranges, closed at once; curl. *)
Nc(c)   == \E d \in Dests : Dial(c, "nc", d)
Scan(c) == \E d \in Dests : Dial(c, "scan", d)
Curl(c) == \E d \in Dests : Dial(c, "curl", d)

Evaluate(c) ==
    /\ conn[c].pc = "evaluating"
    /\ \E ips \in Answers :
        LET target == EvaluateAddress(policy, conn[c].dest, ips) IN
        SetConn(c, IF target = "denied" THEN Idle
                   ELSE [conn[c] EXCEPT !.pc = "dialing", !.ip = target])
    /\ UNCHANGED <<policy, usage, moved, openTime>>

(* The addresses the base dialer may reach for an address it is given: the *)
(* evaluated one, or what it resolves the name to.                         *)
(* Mutant: the name is dialled, and so resolved anew.                      *)
Reached_ByName(c) ==
    IF conn[c].dest.name = <<>> THEN {conn[c].dest.ip} ELSE UNION {Range(a) : a \in Answers}
Reached(c) ==
    IF conn[c].ip # NoAddr THEN {conn[c].ip}
    ELSE IF conn[c].dest.name = <<>> THEN {conn[c].dest.ip}
    ELSE UNION {Range(a) : a \in Answers}

DialFails(c) ==
    /\ conn[c].pc = "dialing"
    /\ SetConn(c, Idle)
    /\ UNCHANGED <<policy, usage, moved, openTime>>

Connect(c) ==
    /\ conn[c].pc = "dialing"
    /\ \E ip \in Reached(c) :
        SetConn(c, [conn[c] EXCEPT !.pc = "open", !.ip = ip, !.under = TRUE])
    /\ UNCHANGED <<policy, usage, moved, openTime>>

(* meteredConn.Read and Write: the transfer, and the accounting after it.  *)
(* nc relays both ways at once; a scanned port transfers nothing.          *)
Transfer(c, d) ==
    /\ conn[c].pc = "open" /\ conn[c].under /\ conn[c].by # "scan"
    /\ conn[c].flight[d] = 0
    /\ \E k \in 1..Chunk :
        /\ SetConn(c, [conn[c] EXCEPT !.flight[d] = k])
        /\ moved' = [moved EXCEPT ![d] = @ + k]
    /\ UNCHANGED <<policy, usage, openTime>>

(* Mutants: a connection over the limit is not closed; bytes are counted   *)
(* only while within the limit.                                            *)
Account_KeepsOpen(c, d) ==
    LET total == usage[d] + conn[c].flight[d] IN
    /\ conn[c].flight[d] > 0
    /\ usage' = [usage EXCEPT ![d] = total]
    /\ SetConn(c, [conn[c] EXCEPT !.flight[d] = 0])
    /\ UNCHANGED <<policy, moved, openTime>>

Account_WithinLimit(c, d) ==
    LET total == usage[d] + conn[c].flight[d]
        over  == MaxBytes > 0 /\ total > MaxBytes
    IN
    /\ conn[c].flight[d] > 0
    /\ usage' = IF over THEN usage ELSE [usage EXCEPT ![d] = total]
    /\ SetConn(c, [conn[c] EXCEPT !.flight[d] = 0, !.under = @ /\ ~over])
    /\ UNCHANGED <<policy, moved, openTime>>

Account(c, d) ==
    LET total == usage[d] + conn[c].flight[d]
        over  == MaxBytes > 0 /\ total > MaxBytes
    IN
    /\ conn[c].flight[d] > 0
    /\ usage' = [usage EXCEPT ![d] = total]
    /\ SetConn(c, [conn[c] EXCEPT !.flight[d] = 0, !.under = @ /\ ~over])
    /\ UNCHANGED <<policy, moved, openTime>>

(* Close, as often as its callers like.                                    *)
(* Mutant: a second Close is not told from the first.                      *)
Close_Again(c) ==
    /\ conn[c].pc \in {"open", "closed"}
    /\ SetConn(c, [conn[c] EXCEPT !.pc = "closing"])
    /\ UNCHANGED <<policy, usage, moved, openTime>>
Close(c) ==
    /\ conn[c].pc = "open"
    /\ SetConn(c, [conn[c] EXCEPT !.pc = "closing"])
    /\ UNCHANGED <<policy, usage, moved, openTime>>

(* The error of addRuntime is dropped: MaxRuntime stops nothing.           *)
Charge(c) ==
    /\ conn[c].pc = "closing"
    /\ usage' = [usage EXCEPT !.runtime = @ + conn[c].age]
    /\ SetConn(c, [conn[c] EXCEPT !.pc = "closed", !.under = FALSE])
    /\ UNCHANGED <<policy, moved, openTime>>

Release(c) ==
    /\ conn[c].pc = "closed"
    /\ \A d \in Directions : conn[c].flight[d] = 0
    /\ SetConn(c, Idle)
    /\ UNCHANGED <<policy, usage, moved, openTime>>

-----------------------------------------------------------------------------
Timed == {c \in Conns : conn[c].pc \in {"open", "closing"}}

Tick ==
    /\ Timed # {} /\ \A c \in Timed : conn[c].age < MaxAge
    /\ conn' = [c \in Conns |-> IF c \in Timed THEN [conn[c] EXCEPT !.age = @ + 1] ELSE conn[c]]
    /\ openTime' = openTime + Cardinality(Timed)
    /\ UNCHANGED <<policy, usage, moved>>

(* The next shell of the session gets a meter that starts from the usage   *)
(* the last one reports (NetworkUsage, WithNetworkUsage).                  *)
(* Mutant: it starts from nothing (NewMeter).                              *)
Carried_Fresh(u) == [requests |-> 0, sent |-> 0, received |-> 0, runtime |-> 0]
Carried(u) == u

NextShell ==
    /\ usage' = Carried(usage)
    /\ conn' = [c \in Conns |-> Idle]
    /\ moved' = [d \in Directions |-> usage[d]]
    /\ openTime' = usage.runtime
    /\ UNCHANGED policy

-----------------------------------------------------------------------------
Init ==
    /\ policy \in Policies
    /\ usage = [requests |-> 0, sent |-> 0, received |-> 0, runtime |-> 0]
    /\ conn = [c \in Conns |-> Idle]
    /\ moved = [d \in Directions |-> 0]
    /\ openTime = 0

Next ==
    \/ \E c \in Conns :
        \/ Nc(c) \/ Scan(c) \/ Curl(c)
        \/ Evaluate(c) \/ DialFails(c) \/ Connect(c)
        \/ \E d \in Directions : Transfer(c, d) \/ Account(c, d)
        \/ Close(c) \/ Charge(c) \/ Release(c)
    \/ Tick
    \/ NextShell

Spec == Init /\ [][Next]_vars

-----------------------------------------------------------------------------
(* However connections of a shell interleave, the bytes moved exceed the   *)
(* limit by no more than one transfer for each request of the session: a   *)
(* connection that learns of the excess is closed.                         *)
OvershootBounded ==
    MaxBytes > 0 => \A d \in Directions : moved[d] <= MaxBytes + Chunk * usage.requests

(* The meter knows of every byte that its connections moved, except those  *)
(* of transfers whose accounting is still to come; in particular of those  *)
(* beyond the limit.                                                       *)
BytesAccountedFor ==
    \A d \in Directions :
        moved[d] = usage[d] + MapThenSumSet(LAMBDA c : conn[c].flight[d], Conns)

(* The time that a shell's connections were open is charged once each,     *)
(* however often a connection is closed, when it closes and not before.    *)
RuntimeAccountedFor ==
    openTime = usage.runtime + MapThenSumSet(LAMBDA c : conn[c].age, Timed)

(* No connection is open to an address its policy forbids, whatever the    *)
(* resolver answered at first and answers later.                           *)
ConnectedWithinPolicy ==
    \A c \in Conns : conn[c].pc = "open" =>
        /\ policy.mode # "off"
        /\ policy.denyPrivate => conn[c].ip \notin Private \ policy.cidrs
        /\ policy.mode = "allowlist" =>
              \/ conn[c].ip \in policy.cidrs
              \/ DomainAllowed(policy, conn[c].dest.name)

(* Over all shells of a session, no more requests than allowed start.      *)
RequestsBounded == MaxRequests > 0 => usage.requests <= MaxRequests

(* The meter accounts for what connections do, over all shells of the      *)
(* session.                                                                *)
UsageMetered ==
    OvershootBounded /\ BytesAccountedFor /\ RuntimeAccountedFor /\ RequestsBounded
=============================================================================
