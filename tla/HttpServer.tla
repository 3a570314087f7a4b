----------------------------- MODULE HttpServer -----------------------------
(***************************************************************************)
(* internal/server/http.go and middleware.go, and the life of the process  *)
(* in cmd/serve.go: what a request passes before it reaches a handler      *)
(* (SessionServer has the handlers), and what a signal does to the         *)
(* requests that are being handled.                                        *)
(*                                                                         *)
(* A request goes through the whole chain in the one step that asks the    *)
(* rate limiter, the only middleware with state of its own.  Times are     *)
(* ages in ticks.  runServe waits in ListenAndServe; the goroutine that    *)
(* gets the signal calls Shutdown, which closes the listener first and     *)
(* then waits for the requests; but ListenAndServe returns as soon as the  *)
(* listener is closed, and with it runServe and the process.               *)
(***************************************************************************)
EXTENDS Naturals, Integers, FiniteSets, FiniteSetsExt

CONSTANTS
    Handlers,       \* bound: requests handled at a time
    Requests,       \* requests that clients make
    Clients,        \* their addresses
    limit, window,  \* of the rate limiter, not 0; window in ticks
    LoopbackOnly,   \* IsLoopbackAddr(cfg.Addr)
    CORSOrigin,     \* "none" (not configured), "any" or "listed"
    APIKey          \* is one configured

VARIABLES
    handling,       \* the request of each handler, or NoRequest
    bucket,         \* RateLimitMiddleware.buckets: count and time to reset
    sincePrune,     \* how long ago lastPrune is
    admitted,       \* history: how many requests of each age the limiter let through
    guesses,        \* history: how many wrong keys of each age were compared
    process,        \* "up", "signalled", "closed" (the listener), "exited"
    cut             \* history: requests that the end of the process cut off

vars == <<handling, bucket, sincePrune, admitted, guesses, process, cut>>

-----------------------------------------------------------------------------
NoRequest == [method |-> "none", path |-> "none", origin |-> "none",
              host |-> "none", key |-> "none", from |-> "none"]
NoBucket == [count |-> 0, left |-> -window - 1]
Ages     == 0..(window - 1)
Busy     == {h \in Handlers : handling[h] # NoRequest}
Recent(history, a) == MapThenSumSet(LAMBDA t : history[a][t], Ages)

(* APIKeyMiddleware: paths that need no key.                               *)
Excluded == {"/", "/health"}

(* CORSMiddleware answers preflights itself.                               *)
Preflight(r) == CORSOrigin # "none" /\ r.method = "OPTIONS"

(* Mutant: a null origin passes, and so does any the page claims.          *)
originAllowed_Any(r) == r.origin \in {"same", "foreign"} \/ CORSOrigin # "none"
originAllowed(r) ==
    \/ CORSOrigin = "any"
    \/ CORSOrigin = "listed" /\ r.origin = "listed"
    \/ r.origin = "same"

OriginGuard(r) ==
    /\ LoopbackOnly => r.host = "loopback"
    /\ r.origin # "absent" => originAllowed(r)

(* Mutant: any token is as good as the key.                                *)
Authorized_AnyToken(r) == APIKey /\ r.path \notin Excluded => r.key # "absent"
Authorized(r) == APIKey /\ r.path \notin Excluded => r.key = "right"

(* The limiter leaves the page and the health check alone.                 *)
Free(r) == r.method = "GET" /\ r.path \in Excluded

-----------------------------------------------------------------------------
(* One critical section of the limiter: prune, renew the client's bucket   *)
(* when it has expired (now.After(reset)), count.                          *)
PruneDue == sincePrune > window

(* Mutant: a bucket is renewed by whatever prunes, expired or not.         *)
Kept_None(a) == NoBucket
Kept(a)      == IF PruneDue /\ bucket[a].left < 0 THEN NoBucket ELSE bucket[a]

Count(a) ==
    LET b == IF Kept(a).left < 0 THEN [count |-> 0, left |-> window] ELSE Kept(a)
    IN  [b EXCEPT !.count = @ + 1]

(* Bound: counts beyond the limit are alike.                               *)
Capped(b) == IF b.count > limit THEN [b EXCEPT !.count = limit + 1] ELSE b

RateLimit(a) ==
    /\ bucket' = [c \in Clients |-> IF c = a THEN Capped(Count(a)) ELSE Kept(c)]
    /\ sincePrune' = IF PruneDue THEN 0 ELSE sincePrune

Over(a) == Count(a).count > limit

(* Bound: histories count no further than Ceiling.                         *)
Ceiling == 2 * limit + 1
Noted(history, a) == [history EXCEPT ![a][0] = IF @ < Ceiling THEN @ + 1 ELSE @]

(* The server is reachable while its listener is open.                     *)
Listening == process \in {"up", "signalled"}

(* New: preflights, the origin guard, security headers, the rate limiter,  *)
(* authentication, the routes.                                             *)
(* Mutant: authentication comes before the limiter.                        *)
Arrive_KeyFirst(h, r) ==
    /\ Listening /\ h \notin Busy
    /\ ~Preflight(r) /\ OriginGuard(r)
    /\ IF ~Authorized(r)
       THEN guesses' = Noted(guesses, r.from) /\ UNCHANGED <<handling, bucket, sincePrune, admitted>>
       ELSE /\ RateLimit(r.from)
            /\ admitted' = IF Over(r.from) THEN admitted ELSE Noted(admitted, r.from)
            /\ handling' = IF Over(r.from) THEN handling ELSE [handling EXCEPT ![h] = r]
            /\ UNCHANGED guesses
    /\ UNCHANGED <<process, cut>>

Arrive(h, r) ==
    /\ Listening /\ h \notin Busy
    /\ ~Preflight(r) /\ OriginGuard(r)
    /\ IF Free(r)
       THEN /\ handling' = [handling EXCEPT ![h] = r]
            /\ UNCHANGED <<bucket, sincePrune, admitted, guesses>>
       ELSE LET passed == ~Over(r.from) IN
            /\ RateLimit(r.from)
            /\ admitted' = IF passed THEN Noted(admitted, r.from) ELSE admitted
            /\ guesses' = IF passed /\ ~Authorized(r) /\ r.key = "wrong"
                          THEN Noted(guesses, r.from) ELSE guesses
            /\ handling' = IF passed /\ Authorized(r) THEN [handling EXCEPT ![h] = r] ELSE handling
    /\ UNCHANGED <<process, cut>>

Answer(h) ==
    /\ h \in Busy /\ process # "exited"
    /\ handling' = [handling EXCEPT ![h] = NoRequest]
    /\ UNCHANGED <<bucket, sincePrune, admitted, guesses, process, cut>>

Older(history) == [a \in Clients |-> [t \in Ages |-> IF t = 0 THEN 0 ELSE history[a][t - 1]]]

Tick ==
    /\ process # "exited"
    /\ bucket' = [a \in Clients |-> [bucket[a] EXCEPT !.left = IF @ < -window THEN @ ELSE @ - 1]]
    /\ sincePrune' = IF sincePrune > 2 * window THEN sincePrune ELSE sincePrune + 1
    /\ admitted' = Older(admitted)
    /\ guesses' = Older(guesses)
    /\ UNCHANGED <<handling, process, cut>>

-----------------------------------------------------------------------------
(* A second signal finds the buffer of sigCh full, or nobody reading it.   *)
Signal ==
    /\ process = "up"
    /\ process' = "signalled"
    /\ UNCHANGED <<handling, bucket, sincePrune, admitted, guesses, cut>>

(* srv.Shutdown closes the listener.                                       *)
Shutdown ==
    /\ process = "signalled"
    /\ process' = "closed"
    /\ UNCHANGED <<handling, bucket, sincePrune, admitted, guesses, cut>>

(* ListenAndServe has returned, so runServe returns, main ends.            *)
Exit ==
    /\ process = "closed"
    /\ process' = "exited"
    /\ cut' = Busy
    /\ handling' = [h \in Handlers |-> NoRequest]
    /\ UNCHANGED <<bucket, sincePrune, admitted, guesses>>

(* The process is started again, with limiters that remember nothing.      *)
StartAgain ==
    /\ process = "exited"
    /\ process' = "up"
    /\ cut' = {}
    /\ bucket' = [a \in Clients |-> NoBucket]
    /\ sincePrune' = 2 * window + 1
    /\ admitted' = [a \in Clients |-> [t \in Ages |-> 0]]
    /\ guesses' = [a \in Clients |-> [t \in Ages |-> 0]]
    /\ UNCHANGED handling

-----------------------------------------------------------------------------
Init ==
    /\ handling = [h \in Handlers |-> NoRequest]
    /\ bucket = [a \in Clients |-> NoBucket]
    /\ sincePrune = 2 * window + 1
    /\ admitted = [a \in Clients |-> [t \in Ages |-> 0]]
    /\ guesses = [a \in Clients |-> [t \in Ages |-> 0]]
    /\ process = "up"
    /\ cut = {}

Next ==
    \/ \E h \in Handlers : (\E r \in Requests : Arrive(h, r)) \/ Answer(h)
    \/ Tick
    \/ Signal \/ Shutdown \/ Exit \/ StartAgain

Spec == Init /\ [][Next]_vars

-----------------------------------------------------------------------------
(* Handlers see only requests that every middleware would let through: not *)
(* of a foreign page, not for a foreign host on a loopback server, and not *)
(* without the key, except for the page and the health check.              *)
HandledIsAllowed ==
    \A h \in Busy :
        LET r == handling[h] IN
        /\ LoopbackOnly => r.host = "loopback"
        /\ CORSOrigin # "any" => r.origin # "foreign"
        /\ APIKey => r.key = "right" \/ r.path \in Excluded

(* A fixed window lets at most two of its limits through in any stretch of *)
(* its own length, around a boundary; pruning the buckets of others, in    *)
(* the same critical section, opens no third.                              *)
TwoWindowsAtMost == \A a \in Clients : Recent(admitted, a) <= 2 * limit

(* The limiter stands before the key: wrong keys are tried no faster.      *)
GuessesBounded == \A a \in Clients : Recent(guesses, a) <= 2 * limit

(* "Graceful shutdown": no request that was accepted is cut off.           *)
ShutdownGraceful == cut = {}

(* The chain holds: whom it lets through, and how many at a time.          *)
MiddlewareHolds == HandledIsAllowed /\ TwoWindowsAtMost /\ GuessesBounded
=============================================================================
