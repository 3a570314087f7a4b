----------------------------- MODULE FrontsProofs -----------------------------
(***************************************************************************)
(* What stands between clients and the shells holds for any number of them:*)
(* the caps and throttles of SSH and HTTP, the middleware, the pool of MCP *)
(* shells, and the transports that git commands of all shells share.       *)
(***************************************************************************)
EXTENDS MCFronts, Sums

-----------------------------------------------------------------------------
(* Each step is one of at most one part.                                   *)
LEMMA StepOfPart ==
    ASSUME [FrontsNext]_<<part, gitVars, httpVars, mcpVars, sshVars, treeVars, textVars>>
    PROVE  [Web!Next]_httpVars /\ [Mcp!Next]_mcpVars /\ [Ssh!Next]_sshVars
<1>1. CASE FrontsNext
  BY <1>1 DEF FrontsNext
<1> QED
  BY <1>1

-----------------------------------------------------------------------------
(* SSH connections and guesses.                                            *)

SshLimits == /\ IsFiniteSet(Conns)
             /\ maxConns \in Nat /\ authFailLimit \in Nat \ {0} /\ authFailWindow \in Nat \ {0}

Guessing(a) == {c \in Conns : state[c] = "checking" /\ from[c] = a}
Bound(a)    == Ssh!recent(a) + Cardinality(Guessing(a)) <= authFailLimit - 1 + Cardinality(Conns)

Counted     == conns = Cardinality(Ssh!Accepted) /\ conns <= maxConns
SshInv      == Ssh!TypeOK /\ Counted /\ \A a \in Addresses : Bound(a)

(* The instance counts as this module does.                                *)
LEMMA SshCounts == ASSUME NEW S PROVE Ssh!Cardinality(S) = Cardinality(S)
BY Zenon DEF Ssh!Cardinality, Cardinality, Ssh!IsFiniteSet, IsFiniteSet

(* The failures an address is known for.                                   *)
LEMMA AgesFinite ==
    ASSUME SshLimits
    PROVE  IsFiniteSet(Ssh!Ages) /\ Ssh!Ages \subseteq Nat /\ 0 \in Ssh!Ages
BY FS_Interval DEF SshLimits, Ssh!Ages

LEMMA RecentIs ==
    ASSUME SshLimits, Ssh!TypeOK, NEW a \in Addresses
    PROVE  /\ \A t \in Ssh!Ages : fails[a][t] \in Nat
           /\ Ssh!recent(a) = Sum(fails[a], Ssh!Ages) /\ Ssh!recent(a) \in Nat
<1>1. \A t \in Ssh!Ages : fails[a][t] \in Nat
  BY DEF Ssh!TypeOK
<1>2. Ssh!recent(a) = Sum(fails[a], Ssh!Ages)
  BY AgesFinite, FoldIsSum DEF Ssh!recent, Ssh!MapThenSumSet, MapThenSumSet, Ssh!MapThenFoldSet, MapThenFoldSet
<1>3. Sum(fails[a], Ssh!Ages) \in Nat
  BY <1>1, AgesFinite, SumNotNegative
<1> QED
  BY <1>1, <1>2, <1>3

LEMMA RecentNext ==
    ASSUME SshLimits, Ssh!TypeOK', NEW a \in Addresses
    PROVE  /\ \A t \in Ssh!Ages : fails'[a][t] \in Nat
           /\ Ssh!recent(a)' = Sum(fails'[a], Ssh!Ages) /\ Ssh!recent(a)' \in Nat
<1>1. \A t \in Ssh!Ages : fails'[a][t] \in Nat
  BY DEF Ssh!TypeOK
<1>2. Ssh!recent(a)' = Sum(fails'[a], Ssh!Ages)
  BY AgesFinite, FoldIsSum DEF Ssh!recent, Ssh!MapThenSumSet, MapThenSumSet, Ssh!MapThenFoldSet, MapThenFoldSet
<1>3. Sum(fails'[a], Ssh!Ages) \in Nat
  BY <1>1, AgesFinite, SumNotNegative
<1> QED
  BY <1>1, <1>2, <1>3

LEMMA GuessingFinite ==
    ASSUME SshLimits, NEW S \in SUBSET Conns
    PROVE  IsFiniteSet(S) /\ Cardinality(S) \in Nat /\ Cardinality(S) <= Cardinality(Conns)
           /\ Cardinality(Conns) \in Nat
BY FS_Subset, FS_CardinalityType DEF SshLimits

(* Fewer guesses under way and no more failures.                           *)
LEMMA BoundStays ==
    ASSUME SshLimits, Ssh!TypeOK, Ssh!TypeOK', NEW a \in Addresses, Bound(a),
           Guessing(a)' \subseteq Guessing(a), Ssh!recent(a)' <= Ssh!recent(a)
    PROVE  Bound(a)'
<1>1. Guessing(a) \in SUBSET Conns /\ Guessing(a)' \in SUBSET Conns
  BY DEF Guessing
<1>2. Cardinality(Guessing(a)') <= Cardinality(Guessing(a))
  BY <1>1, GuessingFinite, FS_Subset
<1>3. /\ Cardinality(Guessing(a)') \in Nat /\ Cardinality(Guessing(a)) \in Nat /\ Cardinality(Conns) \in Nat
      /\ Ssh!recent(a) \in Nat /\ Ssh!recent(a)' \in Nat
  BY <1>1, GuessingFinite, RecentIs, RecentNext
<1>4. authFailLimit \in Nat
  BY DEF SshLimits
<1> QED
  BY <1>2, <1>3, <1>4 DEF Bound

(* The same connections and failures.                                      *)
LEMMA SameBound ==
    ASSUME SshLimits, Ssh!TypeOK, Ssh!TypeOK', UNCHANGED fails,
           NEW a \in Addresses, Bound(a), Guessing(a)' = Guessing(a)
    PROVE  Bound(a)'
<1>1. Ssh!recent(a)' = Ssh!recent(a)
  BY RecentIs, RecentNext
<1> QED
  BY <1>1 DEF Bound

-----------------------------------------------------------------------------
LEMMA ConnectKeeps ==
    ASSUME SshLimits, SshInv, NEW c \in Conns, Ssh!Connect(c)
    PROVE  SshInv'
<1>0. Ssh!TypeOK /\ Counted /\ \A a \in Addresses : Bound(a)
  BY DEF SshInv
<1>1. /\ state[c] = "none" /\ state' = [state EXCEPT ![c] = "open"]
      /\ once' = [once EXCEPT ![c] = FALSE] /\ conns' = conns + 1 /\ conns < maxConns /\ UNCHANGED fails
  BY DEF Ssh!Connect, Ssh!Goto, Ssh!HasPlace
<1>2. PICK b \in Addresses : from' = [from EXCEPT ![c] = b]
  BY DEF Ssh!Connect
<1>3. Ssh!TypeOK'
  BY <1>0, <1>1, <1>2 DEF Ssh!TypeOK, Ssh!States, SshLimits
<1>4. Counted'
  <2>1. Ssh!Accepted' = Ssh!Accepted \cup {c} /\ c \notin Ssh!Accepted
    BY <1>0, <1>1 DEF Ssh!Accepted, Ssh!TypeOK
  <2>2. Ssh!Accepted \in SUBSET Conns
    BY DEF Ssh!Accepted
  <2>3. Cardinality(Ssh!Accepted') = Cardinality(Ssh!Accepted) + 1
    BY <2>1, <2>2, GuessingFinite, FS_AddElement
  <2> QED
    BY <1>0, <1>1, <2>3 DEF Counted, Ssh!TypeOK, SshLimits
<1>5. ASSUME NEW a \in Addresses
      PROVE  Bound(a)'
  <2>1. Guessing(a)' = Guessing(a)
    BY <1>0, <1>1, <1>2 DEF Guessing, Ssh!TypeOK
  <2> QED
    BY <1>0, <1>1, <2>1, <1>3, SameBound
<1> QED
  BY <1>3, <1>4, <1>5, Zenon DEF SshInv

(* A locked address does not get past the throttle; another one has failed *)
(* less than authFailLimit times, however many it tries at once.           *)
LEMMA TryKeeps ==
    ASSUME SshLimits, SshInv, NEW c \in Conns, Ssh!Try(c)
    PROVE  SshInv'
<1>0. Ssh!TypeOK /\ Counted /\ \A a \in Addresses : Bound(a)
  BY DEF SshInv
<1>1. /\ state[c] = "open" /\ UNCHANGED <<from, conns, once, fails>>
      /\ state' = [state EXCEPT ![c] = IF Ssh!locked(from[c]) THEN "open" ELSE "checking"]
  BY DEF Ssh!Try, Ssh!Goto
<1>3. Ssh!TypeOK'
  BY <1>0, <1>1 DEF Ssh!TypeOK, Ssh!States
<1>4. Counted'
  <2>1. Ssh!Accepted' = Ssh!Accepted
    BY <1>0, <1>1 DEF Ssh!Accepted, Ssh!TypeOK
  <2> QED
    BY <1>0, <1>1, <2>1 DEF Counted
<1>5. ASSUME NEW a \in Addresses
      PROVE  Bound(a)'
  <2>1. CASE a = from[c] /\ ~Ssh!locked(a)
    <3>1. Ssh!recent(a)' = Ssh!recent(a) /\ Ssh!recent(a) < authFailLimit /\ Ssh!recent(a) \in Nat
      BY <1>0, <1>1, <1>3, <2>1, RecentIs, RecentNext DEF Ssh!locked, SshLimits
    <3>2. Guessing(a)' \in SUBSET Conns
      BY DEF Guessing
    <3>3. /\ Cardinality(Guessing(a)') \in Nat /\ Cardinality(Conns) \in Nat
          /\ Cardinality(Guessing(a)') <= Cardinality(Conns)
      BY <3>2, GuessingFinite
    <3> QED
      BY <3>1, <3>3 DEF Bound, SshLimits
  <2>2. CASE ~(a = from[c] /\ ~Ssh!locked(a))
    <3>1. Guessing(a)' = Guessing(a)
      BY <1>0, <1>1, <2>2 DEF Guessing, Ssh!TypeOK
    <3> QED
      BY <1>0, <1>1, <3>1, <1>3, SameBound
  <2> QED
    BY <2>1, <2>2
<1> QED
  BY <1>3, <1>4, <1>5, Zenon DEF SshInv

(* A guess that fails is counted and no longer under way.                  *)
LEMMA CompareKeeps ==
    ASSUME SshLimits, SshInv, NEW c \in Conns, Ssh!Compare(c)
    PROVE  SshInv'
<1>0. Ssh!TypeOK /\ Counted /\ \A a \in Addresses : Bound(a)
  BY DEF SshInv
<1> DEFINE k == from[c]
           old == fails[k][0]
           now == IF old < Ssh!MaxFails THEN old + 1 ELSE old
<1>1. /\ state[c] = "checking" /\ UNCHANGED <<from, conns, once>> /\ k \in Addresses
      /\ \/ state' = [state EXCEPT ![c] = "session"] /\ UNCHANGED fails
         \/ state' = [state EXCEPT ![c] = "open"] /\ fails' = [fails EXCEPT ![k][0] = now]
  BY <1>0 DEF Ssh!Compare, Ssh!Goto, Ssh!fail, Ssh!TypeOK
<1>2. /\ fails \in [Addresses -> [Ssh!Ages -> Nat]] /\ 0 \in Ssh!Ages
      /\ old \in Nat /\ now \in Nat /\ now <= old + 1
  BY <1>0, <1>1, AgesFinite DEF Ssh!TypeOK
<1> HIDE DEF old, now
<1>3. Ssh!TypeOK'
  <2>1. [fails EXCEPT ![k][0] = now] \in [Addresses -> [Ssh!Ages -> Nat]]
    BY <1>2
  <2>2. fails' \in [Addresses -> [Ssh!Ages -> Nat]]
    BY <1>1, <1>2, <2>1
  <2>3. state' \in [Conns -> Ssh!States]
    BY <1>0, <1>1 DEF Ssh!TypeOK, Ssh!States
  <2> QED
    BY <1>0, <1>1, <2>2, <2>3 DEF Ssh!TypeOK
<1>4. Counted'
  <2>1. Ssh!Accepted' = Ssh!Accepted
    BY <1>0, <1>1 DEF Ssh!Accepted, Ssh!TypeOK
  <2> QED
    BY <1>0, <1>1, <2>1 DEF Counted
<1>5. ASSUME NEW a \in Addresses
      PROVE  Bound(a)'
  <2>1. Guessing(a)' = Guessing(a) \ {c}
    BY <1>0, <1>1 DEF Guessing, Ssh!TypeOK
  <2>2. CASE a # k \/ UNCHANGED fails
    <3>1. fails'[a] = fails[a]
      BY <1>1, <1>2, <2>2
    <3>2. Ssh!recent(a)' = Ssh!recent(a) /\ Ssh!recent(a) \in Nat
      BY <1>0, <1>3, <3>1, RecentIs, RecentNext
    <3> QED
      BY <1>0, <1>3, <2>1, <3>2, BoundStays
  <2>3. CASE a = k /\ ~UNCHANGED fails
    <3>1. fails'[a] = [fails[a] EXCEPT ![0] = now] /\ fails[a][0] = old
      BY <1>1, <1>2, <2>3 DEF old
    <3>2. Sum(fails'[a], Ssh!Ages) = Sum(fails[a], Ssh!Ages) - old + now
      <4>1. \A t \in Ssh!Ages : fails[a][t] \in Int /\ fails'[a][t] \in Int
        BY <1>2, <3>1
      <4>2. \A t \in Ssh!Ages \ {0} : fails[a][t] = fails'[a][t]
        BY <1>2, <3>1
      <4>3. fails'[a][0] = now
        BY <1>2, <3>1
      <4> QED
        BY <1>2, <3>1, <4>1, <4>2, <4>3, AgesFinite, SumChanges
    <3>3. Ssh!recent(a)' <= Ssh!recent(a) + 1 /\ Ssh!recent(a) \in Nat /\ Ssh!recent(a)' \in Nat
      BY <1>0, <1>2, <1>3, <3>2, RecentIs, RecentNext
    <3>4. c \in Guessing(a) /\ Guessing(a) \in SUBSET Conns
      BY <1>1, <2>3 DEF Guessing
    <3>5. /\ Cardinality(Guessing(a)') = Cardinality(Guessing(a)) - 1
          /\ Cardinality(Guessing(a)) \in Nat /\ Cardinality(Conns) \in Nat
      BY <2>1, <3>4, GuessingFinite, FS_RemoveElement
    <3>6. authFailLimit \in Nat /\ Bound(a)
      BY <1>0 DEF SshLimits
    <3> QED
      BY <3>3, <3>5, <3>6 DEF Bound
  <2> QED
    BY <2>2, <2>3
<1> QED
  BY <1>3, <1>4, <1>5, Zenon DEF SshInv

(* Only the first Close gives the place back.                              *)
LEMMA CloseKeeps ==
    ASSUME SshLimits, SshInv, NEW c \in Conns, Ssh!Close(c)
    PROVE  SshInv'
<1>0. Ssh!TypeOK /\ Counted /\ \A a \in Addresses : Bound(a)
  BY DEF SshInv
<1>1. /\ state[c] # "none" /\ UNCHANGED <<state, from, fails>>
      /\ conns' = IF once[c] THEN conns ELSE conns - 1
      /\ once' = [once EXCEPT ![c] = TRUE]
  BY DEF Ssh!Close
<1>2. Ssh!Accepted \in SUBSET Conns
  BY DEF Ssh!Accepted
<1>3. IsFiniteSet(Ssh!Accepted) /\ Cardinality(Ssh!Accepted) \in Nat /\ conns = Cardinality(Ssh!Accepted)
  BY <1>0, <1>2, GuessingFinite DEF Counted
<1>4. conns' = Cardinality(Ssh!Accepted') /\ conns' \in 0..maxConns
  <2>1. CASE once[c]
    <3>1. Ssh!Accepted' = Ssh!Accepted
      BY <1>0, <1>1, <2>1 DEF Ssh!Accepted, Ssh!TypeOK
    <3> QED
      BY <1>0, <1>1, <1>3, <2>1, <3>1 DEF Ssh!TypeOK
  <2>2. CASE ~once[c]
    <3>1. Ssh!Accepted' = Ssh!Accepted \ {c} /\ c \in Ssh!Accepted
      BY <1>0, <1>1, <2>2 DEF Ssh!Accepted, Ssh!TypeOK
    <3>2. Cardinality(Ssh!Accepted') = conns - 1 /\ Cardinality(Ssh!Accepted') \in Nat
      BY <1>3, <3>1, FS_RemoveElement, FS_CardinalityType
    <3> QED
      BY <1>0, <1>1, <2>2, <3>2 DEF Ssh!TypeOK, SshLimits
  <2> QED
    BY <2>1, <2>2
<1>5. Ssh!TypeOK' /\ Counted'
  BY <1>0, <1>1, <1>4 DEF Ssh!TypeOK, Counted, SshLimits
<1>6. ASSUME NEW a \in Addresses
      PROVE  Bound(a)'
  <2>1. Guessing(a)' = Guessing(a)
    BY <1>1 DEF Guessing
  <2> QED
    BY <1>0, <1>1, <2>1, <1>5, SameBound
<1> QED
  BY <1>5, <1>6, Zenon DEF SshInv

LEMMA ReturnKeeps ==
    ASSUME SshLimits, SshInv, NEW c \in Conns, Ssh!Return(c)
    PROVE  SshInv'
<1>0. Ssh!TypeOK /\ Counted /\ \A a \in Addresses : Bound(a)
  BY DEF SshInv
<1>1. /\ state[c] \in {"open", "session"} /\ once[c]
      /\ state' = [state EXCEPT ![c] = "none"] /\ UNCHANGED <<from, conns, once, fails>>
  BY DEF Ssh!Return, Ssh!Goto
<1>2. Ssh!TypeOK'
  BY <1>0, <1>1 DEF Ssh!TypeOK, Ssh!States
<1>3. Ssh!Accepted' = Ssh!Accepted
  BY <1>0, <1>1 DEF Ssh!Accepted, Ssh!TypeOK
<1>4. Counted'
  BY <1>0, <1>1, <1>3 DEF Counted
<1>5. ASSUME NEW a \in Addresses
      PROVE  Bound(a)'
  <2>1. Guessing(a)' = Guessing(a)
    BY <1>0, <1>1 DEF Guessing, Ssh!TypeOK
  <2> QED
    BY <1>0, <1>1, <2>1, <1>2, SameBound
<1> QED
  BY <1>2, <1>4, <1>5, Zenon DEF SshInv

(* Time takes failures away.                                               *)
LEMMA SshTickKeeps ==
    ASSUME SshLimits, SshInv, Ssh!Tick
    PROVE  SshInv'
<1>0. Ssh!TypeOK /\ Counted /\ \A a \in Addresses : Bound(a)
  BY DEF SshInv
<1>1. /\ fails' = [a \in Addresses |-> [t \in Ssh!Ages |-> IF t = 0 THEN 0 ELSE fails[a][t - 1]]]
      /\ UNCHANGED <<state, from, conns, once>>
  BY DEF Ssh!Tick
<1>2. \A t \in Ssh!Ages : t # 0 => t - 1 \in Ssh!Ages
  BY DEF Ssh!Ages, SshLimits
<1>3. Ssh!TypeOK'
  BY <1>0, <1>1, <1>2 DEF Ssh!TypeOK
<1>4. Counted'
  BY <1>0, <1>1 DEF Counted, Ssh!Accepted
<1>5. ASSUME NEW a \in Addresses
      PROVE  Bound(a)'
  <2>1. Guessing(a)' = Guessing(a)
    BY <1>1 DEF Guessing
  <2>2. \A t \in Ssh!Ages : fails[a][t] \in Nat
    BY <1>0, RecentIs
  <2>3. \A t \in Ssh!Ages : IF t = 0 THEN fails'[a][t] = 0
                            ELSE t - 1 \in Ssh!Ages /\ fails'[a][t] = fails[a][t - 1]
    BY <1>1, <1>2
  <2>4. Sum(fails'[a], Ssh!Ages) <= Sum(fails[a], Ssh!Ages)
    BY <2>2, <2>3, AgesFinite, SumAges
  <2>5. Ssh!recent(a)' <= Ssh!recent(a)
    BY <1>0, <1>3, <2>4, RecentIs, RecentNext
  <2> QED
    BY <1>0, <1>3, <2>1, <2>5, BoundStays
<1> QED
  BY <1>3, <1>4, <1>5, Zenon DEF SshInv

LEMMA SshInit ==
    ASSUME SshLimits, Ssh!Init
    PROVE  SshInv
<1>1. Ssh!TypeOK
  BY DEF Ssh!Init, Ssh!TypeOK, Ssh!States, SshLimits
<1>2. Counted
  <2>1. Ssh!Accepted = {}
    BY DEF Ssh!Accepted, Ssh!Init
  <2> QED
    BY <2>1, FS_EmptySet DEF Counted, Ssh!Init, SshLimits
<1>3. ASSUME NEW a \in Addresses
      PROVE  Bound(a)
  <2>1. Guessing(a) = {}
    BY DEF Guessing, Ssh!Init
  <2>2. \A t \in Ssh!Ages : fails[a][t] = 0
    BY DEF Ssh!Init
  <2>3. Ssh!recent(a) = 0
    BY <1>1, <2>2, RecentIs, AgesFinite, SumOfZeros
  <2>4. Cardinality(Conns) \in Nat /\ Cardinality({}) = 0
    BY FS_EmptySet, FS_CardinalityType DEF SshLimits
  <2> QED
    BY <2>1, <2>3, <2>4 DEF Bound, SshLimits
<1> QED
  BY <1>1, <1>2, <1>3 DEF SshInv

LEMMA SshStutters == SshLimits /\ SshInv /\ UNCHANGED sshVars => SshInv'
<1> SUFFICES ASSUME SshLimits, SshInv, UNCHANGED sshVars
             PROVE  SshInv'
  OBVIOUS
<1>1. UNCHANGED <<state, from, conns, once, fails>>
  BY DEF sshVars
<1>2. Ssh!TypeOK' /\ Counted'
  BY <1>1 DEF SshInv, Ssh!TypeOK, Counted, Ssh!Accepted
<1>3. ASSUME NEW a \in Addresses
      PROVE  Bound(a)'
  <2>1. Guessing(a)' = Guessing(a)
    BY <1>1 DEF Guessing
  <2> QED
    BY <1>1, <2>1, <1>2, SameBound DEF SshInv
<1> QED
  BY <1>2, <1>3, Zenon DEF SshInv

LEMMA SshSuffices == SshInv => Ssh!FrontHolds
<1> SUFFICES ASSUME SshInv
             PROVE  Ssh!FrontHolds
  OBVIOUS
<1>1. Ssh!ConnsCounted
  BY SshCounts, Zenon DEF SshInv, Counted, Ssh!ConnsCounted
<1>2. Ssh!GuessesBounded
  <2> SUFFICES ASSUME NEW a \in Addresses
               PROVE  Ssh!recent(a) + Ssh!Cardinality(Guessing(a))
                        <= authFailLimit - 1 + Ssh!Cardinality(Conns)
    BY DEF Ssh!GuessesBounded, Guessing
  <2> QED
    BY SshCounts DEF SshInv, Bound
<1> QED
  BY <1>1, <1>2 DEF SshInv, Ssh!FrontHolds

LEMMA SshKeeps ==
    ASSUME SshLimits, SshInv, [Ssh!Next]_sshVars
    PROVE  SshInv'
<1>1. CASE Ssh!Refuse
  BY <1>1, SshStutters DEF Ssh!Refuse, Ssh!vars, sshVars
<1> QED
  BY <1>1, ConnectKeeps, TryKeeps, CompareKeeps, CloseKeeps, ReturnKeeps, SshTickKeeps, SshStutters
     DEF Ssh!Next

(* The connections are counted as often as they are open, whoever closes   *)
(* them how often, and an address gets no more guesses within the window   *)
(* than the limit and one for each connection already past the throttle    *)
(* (connLimiter and authThrottle of ssh/server.go).                        *)
THEOREM SshHolds == ASSUME SshLimits PROVE FrontsSpec => []FrontHolds
<1>1. FrontsInit => SshInv
  BY SshInit DEF FrontsInit
<1>2. SshInv /\ [FrontsNext]_<<part, gitVars, httpVars, mcpVars, sshVars, treeVars, textVars>>
        => SshInv'
  BY StepOfPart, SshKeeps
<1>3. SshInv => FrontHolds
  BY SshSuffices DEF FrontHolds
<1> QED
  BY <1>1, <1>2, <1>3, PTL DEF FrontsSpec

-----------------------------------------------------------------------------
(* The middleware.                                                         *)

HttpLimits == /\ limit \in Nat \ {0} /\ window \in Nat \ {0}
              /\ \A r \in Requests : r.from \in Clients

(* The ages that belong to a bucket with so much time left.                *)
Young(left) == {t \in Web!Ages : t <= window - left}

Buckets == [count : Nat, left : {n \in Int : n <= window}]
History == [Clients -> [Web!Ages -> Nat]]

HttpTypes ==
    /\ handling \in [Handlers -> Requests \cup {Web!NoRequest}]
    /\ bucket \in [Clients -> Buckets]
    /\ sincePrune \in Int
    /\ admitted \in History /\ guesses \in History

(* What a bucket knows: it has counted what was let through since it began,*)
(* one that has expired all there is.                                      *)
Window(b, f) ==
    /\ b.left < 0  => f[0] = 0 /\ Sum(f, Web!Ages) <= limit
    /\ b.left >= 0 => /\ Sum(f, Young(b.left)) <= b.count
                      /\ Sum(f, Young(b.left)) <= limit
                      /\ Sum(f, Web!Ages \ Young(b.left)) <= limit

Windows == \A a \in Clients : Window(bucket[a], admitted[a])
Guessed == \A a \in Clients, t \in Web!Ages : guesses[a][t] <= admitted[a][t]

HttpInv == HttpTypes /\ Windows /\ Guessed /\ Web!HandledIsAllowed

-----------------------------------------------------------------------------
LEMMA HttpAges ==
    ASSUME HttpLimits
    PROVE  IsFiniteSet(Web!Ages) /\ Web!Ages \subseteq Nat /\ 0 \in Web!Ages
           /\ \A t \in Web!Ages : t # 0 => t - 1 \in Web!Ages
<1>1. IsFiniteSet(Web!Ages)
  BY FS_Interval DEF HttpLimits, Web!Ages
<1> QED
  BY <1>1 DEF HttpLimits, Web!Ages

LEMMA YoungFinite ==
    ASSUME HttpLimits, NEW S \in SUBSET Web!Ages
    PROVE  IsFiniteSet(S)
BY HttpAges, FS_Subset

(* No bucket lets more than two limits through.                            *)
LEMMA WindowBounds ==
    ASSUME HttpLimits, NEW f \in [Web!Ages -> Nat], NEW b \in Buckets, Window(b, f)
    PROVE  Sum(f, Web!Ages) \in Nat /\ Sum(f, Web!Ages) <= 2 * limit /\ f[0] <= 2 * limit
<1>0. IsFiniteSet(Web!Ages) /\ 0 \in Web!Ages /\ \A t \in Web!Ages : f[t] \in Nat
  BY HttpAges
<1>1. Sum(f, Web!Ages) \in Nat
  BY <1>0, SumNotNegative
<1>2. Sum(f, Web!Ages) <= 2 * limit
  <2>1. CASE b.left < 0
    BY <1>1, <2>1 DEF Window, HttpLimits
  <2>2. CASE b.left >= 0
    <3>1. Young(b.left) \in SUBSET Web!Ages
      BY DEF Young
    <3>2. Sum(f, Web!Ages) = Sum(f, Young(b.left)) + Sum(f, Web!Ages \ Young(b.left))
      BY <1>0, <3>1, SumSplits
    <3>3. Sum(f, Young(b.left)) \in Nat /\ Sum(f, Web!Ages \ Young(b.left)) \in Nat
      BY <1>0, <3>1, SumNotNegative
    <3> QED
      BY <2>2, <3>2, <3>3 DEF Window, HttpLimits
  <2> QED
    BY <2>1, <2>2 DEF Buckets
<1>3. Sum(f, Web!Ages) = f[0] + Sum(f, Web!Ages \ {0})
  BY <1>0, SumRemoves
<1>4. Sum(f, Web!Ages \ {0}) \in Nat /\ f[0] \in Nat
  BY <1>0, SumNotNegative
<1> QED
  BY <1>1, <1>2, <1>3, <1>4 DEF HttpLimits

(* One more is let through and counted.                                    *)
LEMMA WindowCounts ==
    ASSUME HttpLimits, NEW f \in [Web!Ages -> Nat], NEW b \in Buckets, Window(b, f), b.left >= 0,
           b.count + 1 <= limit, NEW h, h = [f EXCEPT ![0] = f[0] + 1],
           NEW d \in Buckets, d.left = b.left, d.count = b.count + 1
    PROVE  Window(d, h)
<1> DEFINE Y == Young(b.left)
<1>0. IsFiniteSet(Web!Ages) /\ 0 \in Web!Ages /\ \A t \in Web!Ages : f[t] \in Nat /\ h[t] \in Nat
  BY HttpAges
<1>1. Y \in SUBSET Web!Ages /\ Web!Ages \ Y \in SUBSET Web!Ages /\ 0 \in Y
  BY <1>0 DEF Young, Buckets, HttpLimits
<1> HIDE DEF Y
<1>2. IsFiniteSet(Y) /\ IsFiniteSet(Web!Ages \ Y)
  BY <1>1, YoungFinite
<1>3. Sum(h, Y) = Sum(f, Y) - f[0] + h[0] /\ h[0] = f[0] + 1
  <2>1. \A y \in Y : f[y] \in Int /\ h[y] \in Int
    BY <1>0, <1>1
  <2>2. \A y \in Y \ {0} : f[y] = h[y]
    BY <1>1
  <2>3. h[0] = f[0] + 1
    BY <1>0
  <2>4. Sum(h, Y) = Sum(f, Y) - f[0] + h[0]
    BY ONLY <1>1, <1>2, <2>1, <2>2, SumChanges
  <2> QED
    BY <2>3, <2>4
<1>4. Sum(h, Web!Ages \ Y) = Sum(f, Web!Ages \ Y)
  <2>1. \A y \in Web!Ages \ Y : h[y] = f[y]
    BY <1>1
  <2> QED
    BY <1>2, <2>1, SumSame
<1>5. Sum(f, Y) \in Nat /\ f[0] \in Nat
  BY <1>0, <1>1, SumNotNegative
<1>6. Sum(f, Y) <= b.count /\ Sum(f, Web!Ages \ Y) <= limit
  BY DEF Window, Y
<1>7. b.count \in Nat /\ d.left = b.left
  BY DEF Buckets
<1>8. Sum(h, Y) <= d.count /\ Sum(h, Y) <= limit /\ Sum(h, Web!Ages \ Y) <= limit
  BY <1>3, <1>4, <1>5, <1>6, <1>7 DEF HttpLimits
<1>9. Young(d.left) = Y /\ d.left >= 0 /\ d.left \in Int
  BY <1>7 DEF Y, Buckets
<1> QED
  BY <1>8, <1>9 DEF Window

(* A bucket begins anew: what it was left with belongs to the old one.     *)
LEMMA WindowRenews ==
    ASSUME HttpLimits, NEW f \in [Web!Ages -> Nat], NEW b \in Buckets, Window(b, f), b.left < 0,
           NEW h, h = [f EXCEPT ![0] = f[0] + 1],
           NEW d \in Buckets, d.left = window, d.count = 1
    PROVE  Window(d, h)
<1>0. /\ IsFiniteSet(Web!Ages) /\ 0 \in Web!Ages /\ Web!Ages \subseteq Nat
      /\ \A t \in Web!Ages : f[t] \in Nat /\ h[t] \in Nat
  BY HttpAges
<1>1. Young(window) = {0}
  <2>1. window - window = 0
    BY DEF HttpLimits
  <2>2. \A t \in Web!Ages : t <= 0 <=> t = 0
    BY <1>0
  <2> QED
    BY <1>0, <2>1, <2>2 DEF Young
<1>2. h[0] = 1 /\ Sum(f, Web!Ages) <= limit
  BY <1>0 DEF Window
<1>3. Sum(h, {0}) = 1
  <2>1. IsFiniteSet({0}) /\ {0} \ {0} = {} /\ IsFiniteSet({})
    BY FS_Singleton, FS_EmptySet
  <2>2. Sum(h, {}) = 0
    BY <2>1, SumUnfolds
  <2>3. Sum(h, {0}) = h[0] + Sum(h, {0} \ {0})
    <3>1. \A x \in {0} : h[x] \in Int
      BY <1>0
    <3>2. {0} \in SUBSET {0} /\ 0 \in {0}
      OBVIOUS
    <3>3. \A s \in SUBSET {0} : \A x \in s : Sum(h, s) = h[x] + Sum(h, s \ {x})
      BY ONLY <2>1, <3>1, SumRemoves
    <3> QED
      BY <3>2, <3>3
  <2> QED
    BY <1>2, <2>1, <2>2, <2>3
<1>4. Sum(h, Web!Ages \ {0}) <= limit
  <2>1. \A y \in Web!Ages \ {0} : h[y] = f[y]
    OBVIOUS
  <2>2. Sum(h, Web!Ages \ {0}) = Sum(f, Web!Ages \ {0})
    BY <2>1, YoungFinite, SumSame
  <2>3. Sum(f, Web!Ages \ {0}) <= Sum(f, Web!Ages)
    BY <1>0, SumOfPart
  <2>4. Sum(f, Web!Ages \ {0}) \in Nat /\ Sum(f, Web!Ages) \in Nat
    BY <1>0, SumNotNegative
  <2> QED
    BY <1>2, <2>2, <2>3, <2>4 DEF HttpLimits
<1> QED
  BY <1>1, <1>3, <1>4 DEF Window, HttpLimits

(* Time passes over a bucket and what it let through.                      *)
LEMMA WindowAges ==
    ASSUME HttpLimits, NEW f \in [Web!Ages -> Nat], NEW b \in Buckets, Window(b, f),
           NEW h, h = [t \in Web!Ages |-> IF t = 0 THEN 0 ELSE f[t - 1]],
           NEW d \in Buckets, d.count = b.count,
           d.left = IF b.left < -window THEN b.left ELSE b.left - 1
    PROVE  Window(d, h)
<1>0. /\ IsFiniteSet(Web!Ages) /\ 0 \in Web!Ages /\ Web!Ages \subseteq Nat
      /\ \A t \in Web!Ages : f[t] \in Nat /\ h[t] \in Nat
      /\ \A t \in Web!Ages : t # 0 => t - 1 \in Web!Ages
      /\ b.left \in Int /\ b.left <= window /\ window \in Nat /\ b.count \in Nat /\ limit \in Nat
  BY HttpAges DEF Buckets, HttpLimits
<1>1. ASSUME NEW A \in SUBSET Web!Ages, NEW B \in SUBSET Web!Ages, \A t \in B : t = 0 \/ t - 1 \in A
      PROVE  Sum(h, B) <= Sum(f, A) /\ Sum(h, B) \in Nat /\ Sum(f, A) \in Nat
  <2>1. IsFiniteSet(A) /\ IsFiniteSet(B)
    BY YoungFinite
  <2>2. \A t \in B : IF t = 0 THEN h[t] = 0 ELSE t - 1 \in A /\ h[t] = f[t - 1]
    BY <1>1
  <2>3. A \subseteq Nat /\ B \subseteq Nat /\ \A t \in A : f[t] \in Nat
    BY <1>0
  <2>4. Sum(h, B) <= Sum(f, A)
    BY <2>1, <2>2, <2>3, SumAges
  <2> QED
    BY <1>0, <2>4, SumNotNegative
<1>2. CASE d.left < 0
  <2>1. Sum(f, Web!Ages) <= limit
    <3>1. CASE b.left < 0
      BY <3>1 DEF Window
    <3>2. CASE b.left >= 0
      <4>1. b.left = 0
        BY <1>0, <1>2, <3>2
      <4>2. Young(b.left) = Web!Ages
        BY <4>1 DEF Young, Web!Ages, HttpLimits
      <4> QED
        BY <3>2, <4>2 DEF Window
    <3> QED
      BY <1>0, <3>1, <3>2
  <2>2. Sum(h, Web!Ages) <= Sum(f, Web!Ages) /\ Sum(h, Web!Ages) \in Nat /\ Sum(f, Web!Ages) \in Nat
    BY <1>0, <1>1
  <2>3. h[0] = 0
    BY <1>0
  <2> QED
    BY <1>0, <1>2, <2>1, <2>2, <2>3 DEF Window
<1>3. CASE d.left >= 0
  <2> DEFINE Y == Young(b.left)
             Z == Young(d.left)
  <2>1. b.left >= 0 /\ d.left = b.left - 1
    BY <1>0, <1>3
  <2>2. /\ Y \in SUBSET Web!Ages /\ Z \in SUBSET Web!Ages
        /\ Web!Ages \ Y \in SUBSET Web!Ages /\ Web!Ages \ Z \in SUBSET Web!Ages
    BY DEF Young
  <2>3. \A t \in Z : t = 0 \/ t - 1 \in Y
    BY <1>0, <2>1 DEF Young
  <2>4. \A t \in Web!Ages \ Z : t = 0 \/ t - 1 \in Web!Ages \ Y
    BY <1>0, <2>1 DEF Young
  <2> HIDE DEF Y, Z
  <2>5. Sum(h, Z) <= Sum(f, Y) /\ Sum(h, Z) \in Nat /\ Sum(f, Y) \in Nat
    BY <1>1, <2>2, <2>3
  <2>6. /\ Sum(h, Web!Ages \ Z) <= Sum(f, Web!Ages \ Y)
        /\ Sum(h, Web!Ages \ Z) \in Nat /\ Sum(f, Web!Ages \ Y) \in Nat
    BY <1>1, <2>2, <2>4
  <2>7. Sum(f, Y) <= b.count /\ Sum(f, Y) <= limit /\ Sum(f, Web!Ages \ Y) <= limit
    BY <2>1 DEF Window, Y
  <2>8. Sum(h, Z) <= d.count /\ Sum(h, Z) <= limit /\ Sum(h, Web!Ages \ Z) <= limit
    BY <1>0, <2>5, <2>6, <2>7
  <2> QED
    BY <1>0, <1>3, <2>8 DEF Window, Z
<1> QED
  BY <1>0, <1>2, <1>3

-----------------------------------------------------------------------------
(* What the chain lets pass.                                               *)
Allowed(r) ==
    /\ LoopbackOnly => r.host = "loopback"
    /\ CORSOrigin # "any" => r.origin # "foreign"
    /\ APIKey => r.key = "right" \/ r.path \in Web!Excluded

LEMMA PassedIsAllowed ==
    ASSUME NEW r, Web!OriginGuard(r), Web!Authorized(r)
    PROVE  Allowed(r)
<1>1. r.origin = "foreign" => CORSOrigin = "any"
  BY DEF Web!OriginGuard, Web!originAllowed
<1> QED
  BY <1>1 DEF Allowed, Web!OriginGuard, Web!Authorized

LEMMA HandlingAllowed ==
    ASSUME HttpTypes, Web!HandledIsAllowed, NEW h \in Handlers, NEW r \in Requests, Allowed(r),
           handling' = [handling EXCEPT ![h] = r] \/ UNCHANGED handling
    PROVE  Web!HandledIsAllowed' /\ handling' \in [Handlers -> Requests \cup {Web!NoRequest}]
BY DEF HttpTypes, Web!HandledIsAllowed, Web!Busy, Allowed

(* The limiter, for the client that asks, and for the others.              *)
LEMMA KeptIs ==
    ASSUME HttpLimits, HttpTypes, NEW a \in Clients
    PROVE  /\ Web!Kept(a) \in Buckets
           /\ Web!Kept(a) = bucket[a] \/ (bucket[a].left < 0 /\ Web!Kept(a).left < 0)
<1>1. bucket[a] \in Buckets
  BY DEF HttpTypes
<1>2. Web!NoBucket \in Buckets /\ Web!NoBucket.left < 0
  BY DEF Web!NoBucket, Buckets, HttpLimits
<1> QED
  BY <1>1, <1>2 DEF Web!Kept

LEMMA OthersKept ==
    ASSUME HttpLimits, HttpTypes, Windows, NEW a \in Clients
    PROVE  Window(Web!Kept(a), admitted[a])
<1>1. Window(bucket[a], admitted[a])
  BY DEF Windows
<1>2. CASE Web!Kept(a) # bucket[a]
  <2>1. bucket[a].left < 0 /\ Web!Kept(a).left < 0 /\ Web!Kept(a) \in Buckets
    BY <1>2, KeptIs
  <2> QED
    BY <1>1, <2>1 DEF Window, Buckets
<1> QED
  BY <1>1, <1>2

LEMMA CountIs ==
    ASSUME HttpLimits, HttpTypes, NEW a \in Clients
    PROVE  /\ Web!Count(a) \in Buckets /\ Web!Capped(Web!Count(a)) \in Buckets
           /\ bucket[a].left < 0 => Web!Count(a).count = 1 /\ Web!Count(a).left = window
           /\ bucket[a].left >= 0 =>
                 Web!Count(a).count = bucket[a].count + 1 /\ Web!Count(a).left = bucket[a].left
           /\ Web!Capped(Web!Count(a)).left = Web!Count(a).left
           /\ Web!Capped(Web!Count(a)).count =
                 IF Web!Count(a).count > limit THEN limit + 1 ELSE Web!Count(a).count
<1> DEFINE k == Web!Kept(a)
           b == IF k.left < 0 THEN [count |-> 0, left |-> window] ELSE k
           d == [b EXCEPT !.count = b.count + 1]
<1>1. k \in Buckets /\ bucket[a] \in Buckets /\ (k = bucket[a] \/ (bucket[a].left < 0 /\ k.left < 0))
  BY KeptIs DEF HttpTypes
<1>2. Web!Count(a) = d
  BY DEF Web!Count
<1> HIDE DEF k
<1>3. b \in Buckets
  BY <1>1 DEF Buckets, HttpLimits
<1>4. d \in Buckets /\ d.count = b.count + 1 /\ d.left = b.left
  BY <1>3 DEF Buckets
<1>5. bucket[a].left < 0 => b.count = 0 /\ b.left = window
  BY <1>1
<1>6. bucket[a].left >= 0 => b = bucket[a]
  BY <1>1 DEF Buckets
<1> HIDE DEF b, d
<1>7. /\ Web!Capped(d) \in Buckets /\ Web!Capped(d).left = d.left
      /\ Web!Capped(d).count = IF d.count > limit THEN limit + 1 ELSE d.count
  BY <1>4 DEF Web!Capped, Buckets, HttpLimits
<1>8. bucket[a].left < 0 => d.count = 1
  BY <1>4, <1>5
<1> QED
  BY <1>2, <1>4, <1>5, <1>6, <1>7, <1>8

LEMMA NotedIs ==
    ASSUME HttpLimits, NEW f \in History, NEW a \in Clients, f[a][0] <= 2 * limit
    PROVE  Web!Noted(f, a) = [f EXCEPT ![a] = [f[a] EXCEPT ![0] = f[a][0] + 1]]
<1>1. f[a] \in [Web!Ages -> Nat] /\ f[a][0] \in Nat
  BY HttpAges DEF History
<1>2. f[a][0] < Web!Ceiling
  BY <1>1 DEF Web!Ceiling, HttpLimits
<1> QED
  BY <1>2 DEF Web!Noted

(* The bucket of the client that asks, when it passes and when not.        *)
LEMMA AskedWindow ==
    ASSUME HttpLimits, HttpInv, NEW a \in Clients, ~Web!Over(a),
           NEW h, h = [admitted[a] EXCEPT ![0] = admitted[a][0] + 1]
    PROVE  Window(Web!Capped(Web!Count(a)), h)
<1>1. bucket[a] \in Buckets /\ admitted[a] \in [Web!Ages -> Nat] /\ Window(bucket[a], admitted[a])
  BY DEF HttpInv, HttpTypes, History, Windows
<1>2. ~(Web!Count(a).count > limit)
  BY DEF Web!Over
<1> DEFINE d == Web!Capped(Web!Count(a))
<1>3. /\ d \in Buckets
      /\ bucket[a].left < 0 => d.count = 1 /\ d.left = window
      /\ bucket[a].left >= 0 => /\ d.count = bucket[a].count + 1 /\ d.left = bucket[a].left
                                /\ bucket[a].count + 1 <= limit
  BY <1>2, CountIs DEF HttpInv, Buckets, HttpTypes, HttpLimits
<1> HIDE DEF d
<1>4. CASE bucket[a].left < 0
  BY <1>1, <1>3, <1>4, WindowRenews DEF d
<1>5. CASE bucket[a].left >= 0
  BY <1>1, <1>3, <1>5, WindowCounts DEF d
<1> QED
  BY <1>1, <1>4, <1>5 DEF Buckets

LEMMA RefusedWindow ==
    ASSUME HttpLimits, HttpInv, NEW a \in Clients, Web!Over(a)
    PROVE  Window(Web!Capped(Web!Count(a)), admitted[a])
<1>1. bucket[a] \in Buckets /\ admitted[a] \in [Web!Ages -> Nat] /\ Window(bucket[a], admitted[a])
  BY DEF HttpInv, HttpTypes, History, Windows
<1>2. Web!Count(a).count > limit
  BY DEF Web!Over
<1> DEFINE d == Web!Capped(Web!Count(a))
<1>3. bucket[a].left >= 0 /\ d.left = bucket[a].left /\ d.count = limit + 1 /\ d \in Buckets
  BY <1>1, <1>2, CountIs DEF HttpInv, HttpLimits, Buckets
<1>4. Sum(admitted[a], Young(bucket[a].left)) \in Nat
  <2>1. Young(bucket[a].left) \in SUBSET Web!Ages /\ \A t \in Web!Ages : admitted[a][t] \in Nat
    BY <1>1 DEF Young
  <2> QED
    BY <2>1, HttpAges, SumNotNegative
<1> HIDE DEF d
<1>5. Window(d, admitted[a])
  BY <1>1, <1>3, <1>4 DEF Window, HttpLimits, Buckets
<1> QED
  BY <1>5 DEF d

-----------------------------------------------------------------------------
LEMMA ArriveKeeps ==
    ASSUME HttpLimits, HttpInv, NEW h \in Handlers, NEW r \in Requests, Web!Arrive(h, r)
    PROVE  HttpInv'
<1>0. HttpTypes /\ Windows /\ Guessed /\ Web!HandledIsAllowed /\ Web!OriginGuard(r)
  BY DEF HttpInv, Web!Arrive
<1>1. CASE Web!Free(r)
  <2>1. handling' = [handling EXCEPT ![h] = r] /\ UNCHANGED <<bucket, sincePrune, admitted, guesses>>
    BY <1>1 DEF Web!Arrive
  <2>2. Allowed(r)
    BY <1>0, <1>1, PassedIsAllowed DEF Web!Free, Web!Authorized
  <2>3. Web!HandledIsAllowed' /\ handling' \in [Handlers -> Requests \cup {Web!NoRequest}]
    BY <1>0, <2>1, <2>2, HandlingAllowed
  <2> QED
    BY <1>0, <2>1, <2>3 DEF HttpInv, HttpTypes, Windows, Guessed
<1>2. CASE ~Web!Free(r)
  <2> DEFINE a == r.from
             f == [admitted[a] EXCEPT ![0] = admitted[a][0] + 1]
             g == [guesses[a] EXCEPT ![0] = guesses[a][0] + 1]
  <2>0. a \in Clients
    BY DEF HttpLimits
  <2>1. /\ bucket' = [c \in Clients |-> IF c = a THEN Web!Capped(Web!Count(a)) ELSE Web!Kept(c)]
        /\ sincePrune' = IF Web!PruneDue THEN 0 ELSE sincePrune
        /\ admitted' = IF ~Web!Over(a) THEN Web!Noted(admitted, a) ELSE admitted
        /\ guesses' = IF ~Web!Over(a) /\ ~Web!Authorized(r) /\ r.key = "wrong"
                      THEN Web!Noted(guesses, a) ELSE guesses
        /\ handling' = IF ~Web!Over(a) /\ Web!Authorized(r) THEN [handling EXCEPT ![h] = r] ELSE handling
    BY <1>2 DEF Web!Arrive, Web!RateLimit
  <2>2. Web!HandledIsAllowed' /\ handling' \in [Handlers -> Requests \cup {Web!NoRequest}]
    <3>1. CASE ~Web!Over(a) /\ Web!Authorized(r)
      BY <1>0, <2>1, <3>1, PassedIsAllowed, HandlingAllowed
    <3>2. CASE ~(~Web!Over(a) /\ Web!Authorized(r))
      <4>1. handling' = handling
        BY <2>1, <3>2
      <4> QED
        BY <1>0, <4>1 DEF HttpTypes, Web!HandledIsAllowed, Web!Busy
    <3> QED
      BY <3>1, <3>2
  <2>3. /\ admitted[a] \in [Web!Ages -> Nat] /\ guesses[a] \in [Web!Ages -> Nat]
        /\ admitted[a][0] <= 2 * limit /\ guesses[a][0] <= admitted[a][0]
        /\ admitted[a][0] \in Nat /\ guesses[a][0] \in Nat /\ limit \in Nat
    <3>1. bucket[a] \in Buckets /\ Window(bucket[a], admitted[a]) /\ admitted[a] \in [Web!Ages -> Nat]
      BY <1>0, <2>0 DEF HttpTypes, Windows, History
    <3>2. admitted[a][0] <= 2 * limit
      BY <3>1, WindowBounds
    <3> QED
      BY <1>0, <2>0, <3>1, <3>2, HttpAges DEF HttpTypes, History, Guessed, HttpLimits
  <2>4. Web!Noted(admitted, a) = [admitted EXCEPT ![a] = f]
    BY <1>0, <2>0, <2>3, NotedIs DEF HttpTypes
  <2>5. Web!Noted(guesses, a) = [guesses EXCEPT ![a] = g]
    <3>1. guesses[a][0] <= 2 * limit
      BY <2>3
    <3> QED
      BY <1>0, <2>0, <3>1, NotedIs DEF HttpTypes
  <2>6. f \in [Web!Ages -> Nat] /\ g \in [Web!Ages -> Nat] /\ 0 \in Web!Ages
    BY <2>3, HttpAges
  <2>7. bucket' \in [Clients -> Buckets]
    <3>1. \A c \in Clients : Web!Kept(c) \in Buckets /\ Web!Capped(Web!Count(a)) \in Buckets
      BY <1>0, <2>0, KeptIs, CountIs
    <3> QED
      BY <2>1, <3>1
  <2>8. Windows'
    <3> SUFFICES ASSUME NEW c \in Clients
                 PROVE  Window(bucket'[c], admitted'[c])
      BY DEF Windows, Window, Young, Web!Ages
    <3>1. CASE c # a
      <4>1. bucket'[c] = Web!Kept(c) /\ admitted'[c] = admitted[c]
        BY <1>0, <2>0, <2>1, <2>4, <3>1 DEF HttpTypes, History
      <4> QED
        BY <1>0, <4>1, OthersKept
    <3>2. CASE c = a /\ ~Web!Over(a)
      <4>1. bucket'[c] = Web!Capped(Web!Count(a)) /\ admitted'[c] = f
        BY <1>0, <2>0, <2>1, <2>4, <3>2 DEF HttpTypes, History
      <4>2. Window(Web!Capped(Web!Count(a)), f)
        BY <2>0, <3>2, AskedWindow
      <4> QED
        BY <4>1, <4>2
    <3>3. CASE c = a /\ Web!Over(a)
      <4>1. bucket'[c] = Web!Capped(Web!Count(a)) /\ admitted'[c] = admitted[a]
        BY <2>0, <2>1, <3>3
      <4>2. Window(Web!Capped(Web!Count(a)), admitted[a])
        BY <2>0, <3>3, RefusedWindow
      <4> QED
        BY <4>1, <4>2
    <3> QED
      BY <3>1, <3>2, <3>3
  <2> HIDE DEF f, g
  <2>9. admitted' \in History /\ guesses' \in History
    BY <1>0, <2>0, <2>1, <2>4, <2>5, <2>6 DEF HttpTypes, History
  <2>10. Guessed'
    <3> SUFFICES ASSUME NEW c \in Clients, NEW t \in Web!Ages
                 PROVE  guesses'[c][t] <= admitted'[c][t]
      BY DEF Guessed, Web!Ages
    <3>1. guesses[c][t] <= admitted[c][t] /\ guesses[c][t] \in Nat /\ admitted[c][t] \in Nat
      BY <1>0 DEF Guessed, HttpTypes, History
    <3>2. CASE c # a \/ Web!Over(a)
      <4>1. guesses'[c] = guesses[c] /\ admitted'[c] = admitted[c]
        BY <1>0, <2>0, <2>1, <2>4, <2>5, <3>2 DEF HttpTypes, History
      <4> QED
        BY <3>1, <4>1
    <3>3. CASE c = a /\ ~Web!Over(a)
      <4>1. admitted'[c] = f /\ guesses'[c] \in {guesses[a], g}
        BY <1>0, <2>0, <2>1, <2>4, <2>5, <3>3 DEF HttpTypes, History
      <4>2. f[t] = IF t = 0 THEN admitted[a][0] + 1 ELSE admitted[a][t]
        BY <2>3 DEF f
      <4>3. g[t] = IF t = 0 THEN guesses[a][0] + 1 ELSE guesses[a][t]
        BY <2>3 DEF g
      <4> QED
        BY <2>3, <3>1, <3>3, <4>1, <4>2, <4>3
    <3> QED
      BY <3>2, <3>3
  <2>11. sincePrune' \in Int
    BY <1>0, <2>1 DEF HttpTypes
  <2>12. HttpTypes'
    BY <2>2, <2>7, <2>9, <2>11 DEF HttpTypes, Buckets, History, Web!NoRequest, Web!Ages
  <2> QED
    BY <2>2, <2>8, <2>10, <2>12 DEF HttpInv
<1> QED
  BY <1>1, <1>2

LEMMA HttpTickKeeps ==
    ASSUME HttpLimits, HttpInv, Web!Tick
    PROVE  HttpInv'
<1>0. HttpTypes /\ Windows /\ Guessed /\ Web!HandledIsAllowed
  BY DEF HttpInv
<1>1. /\ bucket' = [a \in Clients |-> [bucket[a] EXCEPT !.left = IF @ < -window THEN @ ELSE @ - 1]]
      /\ sincePrune' = IF sincePrune > 2 * window THEN sincePrune ELSE sincePrune + 1
      /\ admitted' = Web!Older(admitted) /\ guesses' = Web!Older(guesses) /\ UNCHANGED handling
  BY DEF Web!Tick
<1>2. ASSUME NEW f \in History
      PROVE  /\ Web!Older(f) \in History
             /\ \A a \in Clients : /\ f[a] \in [Web!Ages -> Nat]
                                   /\ Web!Older(f)[a] = [t \in Web!Ages |-> IF t = 0 THEN 0 ELSE f[a][t - 1]]
  BY HttpAges DEF Web!Older, History
<1>3. \A a \in Clients : /\ bucket[a] \in Buckets /\ bucket'[a] \in Buckets /\ bucket'[a].count = bucket[a].count
                         /\ bucket'[a].left = IF bucket[a].left < -window THEN bucket[a].left ELSE bucket[a].left - 1
  BY <1>0, <1>1 DEF HttpTypes, Buckets, HttpLimits
<1>4. HttpTypes'
  <2>1. bucket' \in [Clients -> Buckets]
    BY <1>1, <1>3
  <2>2. admitted' \in History /\ guesses' \in History
    BY <1>0, <1>1, <1>2 DEF HttpTypes
  <2>3. sincePrune' \in Int
    BY <1>0, <1>1 DEF HttpTypes, HttpLimits
  <2> QED
    BY <1>0, <1>1, <2>1, <2>2, <2>3 DEF HttpTypes, Buckets, History, Web!NoRequest, Web!Ages
<1>5. Windows'
  <2> SUFFICES ASSUME NEW a \in Clients
               PROVE  Window(bucket'[a], admitted'[a])
    BY DEF Windows, Window, Young, Web!Ages
  <2>1. Window(bucket[a], admitted[a]) /\ admitted[a] \in [Web!Ages -> Nat]
    BY <1>0, <1>2 DEF Windows, HttpTypes
  <2>2. admitted'[a] = [t \in Web!Ages |-> IF t = 0 THEN 0 ELSE admitted[a][t - 1]]
    BY <1>0, <1>1, <1>2 DEF HttpTypes
  <2> QED
    BY <1>3, <2>1, <2>2, WindowAges
<1>6. Guessed'
  <2> SUFFICES ASSUME NEW a \in Clients, NEW t \in Web!Ages
               PROVE  guesses'[a][t] <= admitted'[a][t]
    BY DEF Guessed, Web!Ages
  <2>0. admitted \in History /\ guesses \in History
    BY <1>0 DEF HttpTypes
  <2>1. /\ guesses'[a][t] = IF t = 0 THEN 0 ELSE guesses[a][t - 1]
        /\ admitted'[a][t] = IF t = 0 THEN 0 ELSE admitted[a][t - 1]
    <3>1. /\ Web!Older(guesses)[a] = [u \in Web!Ages |-> IF u = 0 THEN 0 ELSE guesses[a][u - 1]]
          /\ Web!Older(admitted)[a] = [u \in Web!Ages |-> IF u = 0 THEN 0 ELSE admitted[a][u - 1]]
      BY <1>2, <2>0
    <3> QED
      BY <1>1, <3>1
  <2>2. t # 0 => guesses[a][t - 1] <= admitted[a][t - 1]
    BY <1>0, HttpAges DEF Guessed
  <2> QED
    BY <2>1, <2>2
<1>7. Web!HandledIsAllowed'
  BY <1>0, <1>1 DEF Web!HandledIsAllowed, Web!Busy
<1> QED
  BY <1>4, <1>5, <1>6, <1>7 DEF HttpInv

(* A limiter that remembers nothing.                                       *)
LEMMA NoBucketIs == ASSUME HttpLimits PROVE Web!NoBucket \in Buckets /\ Web!NoBucket.left < 0
BY DEF Web!NoBucket, Buckets, HttpLimits

LEMMA FreshWindow ==
    ASSUME HttpLimits, NEW f, \A t \in Web!Ages : f[t] = 0
    PROVE  Window(Web!NoBucket, f)
<1>1. Sum(f, Web!Ages) = 0 /\ f[0] = 0
  BY HttpAges, SumOfZeros
<1> QED
  BY <1>1, NoBucketIs DEF Window, HttpLimits, Buckets

LEMMA StartKeeps ==
    ASSUME HttpLimits, HttpInv, Web!StartAgain
    PROVE  HttpInv'
<1>1. /\ bucket' = [a \in Clients |-> Web!NoBucket] /\ sincePrune' = 2 * window + 1
      /\ admitted' = [a \in Clients |-> [t \in Web!Ages |-> 0]]
      /\ guesses' = [a \in Clients |-> [t \in Web!Ages |-> 0]] /\ UNCHANGED handling
  BY DEF Web!StartAgain
<1>2. HttpTypes'
  <2>1. bucket' \in [Clients -> Buckets]
    BY <1>1, NoBucketIs
  <2>2. admitted' \in History /\ guesses' \in History
    BY <1>1 DEF History
  <2>3. sincePrune' \in Int
    BY <1>1 DEF HttpLimits
  <2> QED
    BY <1>1, <2>1, <2>2, <2>3 DEF HttpInv, HttpTypes, Buckets, History, Web!NoRequest, Web!Ages
<1>3. Windows'
  <2> SUFFICES ASSUME NEW a \in Clients
               PROVE  Window(bucket'[a], admitted'[a])
    BY DEF Windows, Window, Young, Web!Ages
  <2>1. bucket'[a] = Web!NoBucket /\ \A t \in Web!Ages : admitted'[a][t] = 0
    BY <1>1
  <2> QED
    BY <2>1, FreshWindow
<1>4. Guessed'
  BY <1>1 DEF Guessed, Web!Ages
<1>5. Web!HandledIsAllowed'
  BY <1>1 DEF HttpInv, Web!HandledIsAllowed, Web!Busy
<1> QED
  BY <1>2, <1>3, <1>4, <1>5 DEF HttpInv

LEMMA SameHistory ==
    ASSUME HttpInv, UNCHANGED <<bucket, sincePrune, admitted, guesses>>,
           handling' \in [Handlers -> Requests \cup {Web!NoRequest}], Web!HandledIsAllowed'
    PROVE  HttpInv'
BY DEF HttpInv, HttpTypes, Windows, Guessed, Window, Young, Buckets, History, Web!Ages, Web!NoRequest

LEMMA HttpKeeps ==
    ASSUME HttpLimits, HttpInv, [Web!Next]_httpVars
    PROVE  HttpInv'
<1>0. handling \in [Handlers -> Requests \cup {Web!NoRequest}] /\ Web!HandledIsAllowed
  BY DEF HttpInv, HttpTypes
<1>1. ASSUME NEW h \in Handlers, Web!Answer(h)
      PROVE  HttpInv'
  <2>1. handling' = [handling EXCEPT ![h] = Web!NoRequest] /\ UNCHANGED <<bucket, sincePrune, admitted, guesses>>
    BY <1>1 DEF Web!Answer
  <2>2. handling' \in [Handlers -> Requests \cup {Web!NoRequest}] /\ Web!HandledIsAllowed'
    BY <1>0, <2>1 DEF Web!HandledIsAllowed, Web!Busy
  <2> QED
    BY <2>1, <2>2, SameHistory
<1>2. CASE Web!Signal \/ Web!Shutdown \/ UNCHANGED httpVars
  <2>1. UNCHANGED <<handling, bucket, sincePrune, admitted, guesses>>
    BY <1>2 DEF Web!Signal, Web!Shutdown, httpVars
  <2>2. handling' \in [Handlers -> Requests \cup {Web!NoRequest}] /\ Web!HandledIsAllowed'
    BY <1>0, <2>1 DEF Web!HandledIsAllowed, Web!Busy
  <2> QED
    BY <2>1, <2>2, SameHistory
<1>3. CASE Web!Exit
  <2>1. handling' = [h \in Handlers |-> Web!NoRequest] /\ UNCHANGED <<bucket, sincePrune, admitted, guesses>>
    BY <1>3 DEF Web!Exit
  <2>2. handling' \in [Handlers -> Requests \cup {Web!NoRequest}] /\ Web!HandledIsAllowed'
    BY <2>1 DEF Web!HandledIsAllowed, Web!Busy
  <2> QED
    BY <2>1, <2>2, SameHistory
<1> QED
  BY <1>1, <1>2, <1>3, StartKeeps, ArriveKeeps, HttpTickKeeps DEF Web!Next

LEMMA HttpInvSuffices ==
    ASSUME HttpLimits, HttpInv
    PROVE  Web!MiddlewareHolds
<1> SUFFICES ASSUME NEW a \in Clients
             PROVE  Web!Recent(admitted, a) <= 2 * limit /\ Web!Recent(guesses, a) <= 2 * limit
  BY DEF HttpInv, Web!MiddlewareHolds, Web!TwoWindowsAtMost, Web!GuessesBounded
<1>1. /\ bucket[a] \in Buckets /\ Window(bucket[a], admitted[a])
      /\ admitted[a] \in [Web!Ages -> Nat] /\ guesses[a] \in [Web!Ages -> Nat]
  BY DEF HttpInv, HttpTypes, Windows, History
<1>2. Web!Recent(admitted, a) = Sum(admitted[a], Web!Ages) /\ Web!Recent(guesses, a) = Sum(guesses[a], Web!Ages)
  BY HttpAges, FoldIsSum DEF Web!Recent, Web!MapThenSumSet, MapThenSumSet, Web!MapThenFoldSet, MapThenFoldSet
<1>3. Sum(admitted[a], Web!Ages) <= 2 * limit /\ Sum(admitted[a], Web!Ages) \in Nat
  BY <1>1, WindowBounds
<1>4. Sum(guesses[a], Web!Ages) <= Sum(admitted[a], Web!Ages) /\ Sum(guesses[a], Web!Ages) \in Nat
  <2>1. \A t \in Web!Ages : /\ guesses[a][t] \in Nat /\ admitted[a][t] \in Nat
                            /\ guesses[a][t] <= admitted[a][t]
    BY <1>1 DEF HttpInv, Guessed
  <2> QED
    BY <2>1, HttpAges, SumGrows, SumNotNegative
<1> QED
  BY <1>2, <1>3, <1>4 DEF HttpLimits

(* Handlers see only what the chain may let through; over any stretch of   *)
(* the limiter's window a client gets at most two limits of requests, and  *)
(* of tries at the API key, through, whenever buckets are pruned and       *)
(* however often the process is started again (middleware.go).             *)
THEOREM ChainHolds == ASSUME HttpLimits PROVE FrontsSpec => []MiddlewareHolds
<1>1. FrontsInit => HttpInv
  <2> SUFFICES ASSUME Web!Init
               PROVE  HttpInv
    BY DEF FrontsInit
  <2>1. HttpTypes
    BY NoBucketIs DEF Web!Init, HttpTypes, History, HttpLimits
  <2>2. Windows
    BY FreshWindow DEF Web!Init, Windows
  <2>3. Guessed /\ Web!HandledIsAllowed
    BY DEF Web!Init, Guessed, Web!HandledIsAllowed, Web!Busy
  <2> QED
    BY <2>1, <2>2, <2>3 DEF HttpInv
<1>2. HttpInv /\ [FrontsNext]_<<part, gitVars, httpVars, mcpVars, sshVars, treeVars, textVars>> => HttpInv'
  BY StepOfPart, HttpKeeps
<1>3. HttpInv => MiddlewareHolds
  BY HttpInvSuffices DEF MiddlewareHolds
<1> QED
  BY <1>1, <1>2, <1>3, PTL DEF FrontsSpec

-----------------------------------------------------------------------------
(* The shells of MCP sessions.                                             *)

PoolLimits == maxSessions \in Nat /\ sessionGrace \in Nat

LEMMA McpCounts == ASSUME NEW S PROVE Mcp!Cardinality(S) = Cardinality(S)
BY Zenon DEF Mcp!Cardinality, Cardinality, Mcp!IsFiniteSet, IsFiniteSet

PoolTypes ==
    /\ running \in BOOLEAN
    /\ entries \subseteq Pooled /\ IsFiniteSet(entries)
    /\ session \in [Pooled -> {"none", "pending", "bound"}]
    /\ age \in [Pooled -> Mcp!Ages]

(* The cap is asked of the map; what runs is what the map holds.           *)
PoolIsAll == open = entries
PoolCapped    == maxSessions > 0 => Cardinality(entries) <= maxSessions
PoolCapInv    == PoolTypes /\ PoolIsAll /\ PoolCapped

(* Until the server stops, the shell of a session, or of one that is still *)
(* to come, is in the pool; the latter is too young to be swept.           *)
PoolSpares == running =>
    \A s \in Pooled : /\ session[s] # "none" => s \in entries
                      /\ session[s] = "pending" => age[s] <= sessionGrace
PoolInv == PoolCapInv /\ PoolSpares

-----------------------------------------------------------------------------
(* A sweep only takes from the pool.                                       *)
LEMMA SweepShrinks ==
    ASSUME PoolCapInv, PoolLimits, NEW E, E \subseteq entries
    PROVE  IsFiniteSet(E) /\ (maxSessions > 0 => Cardinality(E) <= maxSessions)
<1>1. IsFiniteSet(E) /\ Cardinality(E) <= Cardinality(entries)
      BY FS_Subset DEF PoolCapInv, PoolTypes
<1>2. Cardinality(E) \in Nat /\ Cardinality(entries) \in Nat
      BY <1>1, FS_CardinalityType DEF PoolCapInv, PoolTypes
<1> QED BY <1>1, <1>2 DEF PoolCapInv, PoolCapped, PoolLimits

LEMMA StaleInPool == Mcp!Stale \subseteq entries
BY DEF Mcp!Stale

LEMMA GetServerCapped ==
    ASSUME PoolCapInv, PoolLimits, NEW s \in Pooled, Mcp!GetServer(s) PROVE PoolCapInv'
<1> DEFINE E == entries \ Mcp!Stale
<1>1. IsFiniteSet(E) /\ E \subseteq entries BY SweepShrinks
<1>2. entries' = E \cup {s} /\ open' = (open \ Mcp!Stale) \cup {s} BY DEF Mcp!GetServer
<1>3. s \notin E BY DEF Mcp!GetServer, PoolCapInv, PoolIsAll
<1>4. IsFiniteSet(entries') /\ Cardinality(entries') = Cardinality(E) + 1
      BY <1>1, <1>2, <1>3, FS_AddElement
<1>5. Cardinality(E) \in Nat BY <1>1, FS_CardinalityType
<1>6. PoolCapped'
  <2>1. maxSessions > 0 => Cardinality(E) < maxSessions BY McpCounts DEF Mcp!GetServer, Mcp!HasRoom
  <2>2. maxSessions' = maxSessions OBVIOUS
  <2> QED BY <2>1, <1>4, <1>5 DEF PoolCapped, PoolLimits
<1>7. PoolTypes' BY <1>1, <1>2, <1>4 DEF PoolCapInv, PoolTypes, Mcp!GetServer, Mcp!Ages, PoolLimits
<1>8. PoolIsAll' BY <1>2 DEF PoolCapInv, PoolIsAll
<1> QED BY <1>6, <1>7, <1>8 DEF PoolCapInv

LEMMA SweptCapped ==
    ASSUME PoolCapInv, PoolLimits, Mcp!sweepLocked, UNCHANGED <<running, session, age>> PROVE PoolCapInv'
<1>1. entries' = entries \ Mcp!Stale /\ open' = open \ Mcp!Stale BY DEF Mcp!sweepLocked, Mcp!Close
<1>2. IsFiniteSet(entries') /\ (maxSessions > 0 => Cardinality(entries') <= maxSessions)
      BY <1>1, SweepShrinks
<1> QED BY <1>1, <1>2 DEF PoolCapInv, PoolTypes, PoolIsAll, PoolCapped

LEMMA PoolStopCapped ==
    ASSUME PoolCapInv, PoolLimits, Mcp!Stop PROVE PoolCapInv'
<1>1. entries' = {} /\ open' = {} BY DEF Mcp!Stop, Mcp!Close, PoolCapInv, PoolIsAll
<1>2. IsFiniteSet(entries') /\ Cardinality(entries') = 0 BY <1>1, FS_EmptySet
<1>3. PoolTypes' BY <1>1, <1>2 DEF Mcp!Stop, PoolCapInv, PoolTypes
<1>4. PoolCapped' BY <1>2 DEF PoolCapped, PoolLimits
<1> QED BY <1>1, <1>3, <1>4 DEF PoolCapInv, PoolIsAll

LEMMA PoolTickCapped ==
    ASSUME PoolCapInv, PoolLimits, Mcp!Tick PROVE PoolCapInv'
BY DEF Mcp!Tick, PoolCapInv, PoolTypes, PoolIsAll, PoolCapped, Mcp!Ages, PoolLimits

LEMMA PoolCapKept ==
    ASSUME PoolLimits, PoolCapInv, [Mcp!Next]_mcpVars PROVE PoolCapInv'
<1>1. ASSUME NEW s \in Pooled, Mcp!GetServer(s) PROVE PoolCapInv' BY <1>1, GetServerCapped
<1>2. ASSUME NEW s \in Pooled, Mcp!Bind(s) \/ Mcp!End(s) PROVE PoolCapInv'
      BY <1>2 DEF Mcp!Bind, Mcp!End, PoolCapInv, PoolTypes, PoolIsAll, PoolCapped
<1>3. CASE Mcp!Refuse BY <1>3, SweptCapped DEF Mcp!Refuse
<1>4. CASE Mcp!Sweep BY <1>4, SweptCapped DEF Mcp!Sweep
<1>5. CASE Mcp!Stop BY <1>5, PoolStopCapped
<1>6. CASE Mcp!Tick BY <1>6, PoolTickCapped
<1>7. CASE UNCHANGED mcpVars BY <1>7 DEF mcpVars, PoolCapInv, PoolTypes, PoolIsAll, PoolCapped
<1> QED BY <1>1, <1>2, <1>3, <1>4, <1>5, <1>6, <1>7 DEF Mcp!Next

LEMMA PoolInit == PoolLimits /\ Mcp!Init => PoolInv
<1> SUFFICES ASSUME PoolLimits, Mcp!Init PROVE PoolInv OBVIOUS
<1>1. IsFiniteSet({}) /\ Cardinality({}) = 0 BY FS_EmptySet
<1>2. PoolCapInv BY <1>1 DEF Mcp!Init, PoolCapInv, PoolTypes, PoolIsAll, PoolCapped, PoolLimits, Mcp!Ages
<1>3. PoolSpares BY DEF Mcp!Init, PoolSpares
<1> QED BY <1>2, <1>3 DEF PoolInv

-----------------------------------------------------------------------------
(* Who has a session or waits for one is not stale.                        *)
LEMMA SpareTheKept ==
    ASSUME PoolInv, PoolLimits, running, NEW s \in Pooled, session[s] # "none"
    PROVE  s \in entries /\ s \notin Mcp!Stale
<1>1. s \in entries BY DEF PoolInv, PoolSpares
<1>2. CASE session[s] = "bound" BY <1>1, <1>2 DEF Mcp!Stale, Mcp!Bound
<1>3. CASE session[s] = "pending"
  <2>1. age[s] <= sessionGrace /\ age[s] \in Nat BY <1>3 DEF PoolInv, PoolSpares, PoolCapInv, PoolTypes, Mcp!Ages, PoolLimits
  <2> QED BY <1>1, <2>1 DEF Mcp!Stale, PoolLimits
<1> QED BY <1>1, <1>2, <1>3 DEF PoolInv, PoolCapInv, PoolTypes

LEMMA PoolKeeps ==
    ASSUME PoolLimits, ~SlowBind, PoolInv, [Mcp!Next]_mcpVars PROVE PoolInv'
<1>0. PoolCapInv' BY PoolCapKept DEF PoolInv
<1> SUFFICES PoolSpares' BY <1>0 DEF PoolInv
<1>1. ASSUME NEW s \in Pooled, Mcp!GetServer(s), running' PROVE PoolSpares'
  <2> SUFFICES ASSUME NEW t \in Pooled
               PROVE  /\ session'[t] # "none" => t \in entries'
                      /\ session'[t] = "pending" => age'[t] <= sessionGrace
      BY DEF PoolSpares
  <2>1. CASE t = s BY <1>1, <2>1 DEF Mcp!GetServer, PoolInv, PoolCapInv, PoolTypes, PoolLimits
  <2>2. CASE t # s
    <3>1. session'[t] = session[t] /\ age'[t] = age[t] /\ running
          BY <1>1, <2>2 DEF Mcp!GetServer, PoolInv, PoolCapInv, PoolTypes
    <3>2. session[t] # "none" => t \in entries' BY <1>1, <3>1, SpareTheKept DEF Mcp!GetServer
    <3> QED BY <3>1, <3>2 DEF PoolInv, PoolSpares
  <2> QED BY <2>1, <2>2
<1>2. ASSUME NEW s \in Pooled, Mcp!Bind(s) \/ Mcp!End(s) PROVE PoolSpares'
      BY <1>2 DEF Mcp!Bind, Mcp!End, PoolInv, PoolSpares, PoolCapInv, PoolTypes
<1>3. CASE Mcp!Refuse \/ Mcp!Sweep
      BY <1>3, SpareTheKept DEF Mcp!Refuse, Mcp!Sweep, Mcp!sweepLocked, PoolInv, PoolSpares
<1>4. CASE Mcp!Stop BY <1>4 DEF Mcp!Stop, PoolSpares
<1>5. CASE Mcp!Tick
  <2> SUFFICES ASSUME running, NEW t \in Pooled
               PROVE  /\ session[t] # "none" => t \in entries
                      /\ session[t] = "pending" => age'[t] <= sessionGrace
      BY <1>5 DEF Mcp!Tick, PoolSpares
  <2>1. session[t] = "pending" => age[t] < sessionGrace BY <1>5 DEF Mcp!Tick
  <2>2. age[t] \in Nat /\ age'[t] \in {age[t], age[t] + 1} BY <1>5 DEF Mcp!Tick, PoolInv, PoolCapInv, PoolTypes, Mcp!Ages, PoolLimits
  <2> QED BY <2>1, <2>2 DEF PoolInv, PoolSpares, PoolLimits
<1>6. CASE UNCHANGED mcpVars BY <1>6 DEF mcpVars, PoolInv, PoolSpares
<1>7. running' \/ PoolSpares' BY DEF PoolSpares
<1> QED BY <1>1, <1>2, <1>3, <1>4, <1>5, <1>6, <1>7 DEF Mcp!Next

-----------------------------------------------------------------------------
(* The pool never runs more shells than --max-sessions, however fast       *)
(* sessions come and go and however late they are bound (GetServer, pool.go*)
(* 66).                                                                    *)
THEOREM PoolCapHolds == ASSUME PoolLimits PROVE FrontsSpec => []Mcp!ShellsCapped
<1>1. FrontsInit => PoolCapInv
  BY PoolInit DEF PoolInv, FrontsInit
<1>2. PoolCapInv /\ [FrontsNext]_<<part, gitVars, httpVars, mcpVars, sshVars, treeVars, textVars>>
        => PoolCapInv'
  BY StepOfPart, PoolCapKept
<1>3. PoolCapInv => Mcp!ShellsCapped
  BY McpCounts DEF PoolCapInv, PoolIsAll, PoolCapped, Mcp!ShellsCapped
<1> QED
  BY <1>1, <1>2, <1>3, PTL DEF FrontsSpec

(* No client works with a shell that was closed under it, until the server *)
(* stops, if no session is bound later than sessionGrace after its shell.  *)
THEOREM PoolHolds == ASSUME PoolLimits, ~SlowBind PROVE FrontsSpec => []PoolKept
<1>1. FrontsInit => PoolInv
  BY PoolInit DEF FrontsInit
<1>2. PoolInv /\ [FrontsNext]_<<part, gitVars, httpVars, mcpVars, sshVars, treeVars, textVars>>
        => PoolInv'
  BY StepOfPart, PoolKeeps
<1>3. PoolInv => PoolKept
  <2> SUFFICES ASSUME PoolInv
               PROVE  Mcp!TypeOK /\ Mcp!ShellsCapped /\ Mcp!SessionsHaveShells
    BY DEF PoolKept, Mcp!PoolKept
  <2>1. Mcp!TypeOK
    BY DEF PoolInv, PoolCapInv, PoolTypes, PoolIsAll, Mcp!TypeOK
  <2>2. Mcp!ShellsCapped
    BY McpCounts DEF PoolInv, PoolCapInv, PoolIsAll, PoolCapped, Mcp!ShellsCapped
  <2>3. Mcp!SessionsHaveShells
    BY DEF PoolInv, PoolCapInv, PoolIsAll, PoolSpares, Mcp!SessionsHaveShells, Mcp!Bound
  <2> QED
    BY <2>1, <2>2, <2>3
<1> QED
  BY <1>1, <1>2, <1>3, PTL DEF FrontsSpec

-----------------------------------------------------------------------------
(* The transports of git.                                                  *)

Transports == Shells \cup {"stock", "disabled"}
Steps      == {"idle", "waiting", "locked", "disabled", "running", "returned", "restored"}
Holding(s) == pc[s] \in Steps \ {"idle", "waiting"}

(* What the table holds on the way through withPolicyHTTPTransport.        *)
Closed  == [p \in Protocols |-> IF p \in Sandboxed THEN "disabled" ELSE "stock"]
Open(s) == [p \in Protocols |-> IF p \in Http THEN s ELSE "disabled"]

GitTypes ==
    /\ table \in [Protocols -> Transports]
    /\ mu \in Shells \cup {Nobody}
    /\ pc \in [Shells -> Steps]
    /\ prev \in [Shells -> [Protocols -> Transports]]
    /\ used \in [Shells -> Transports \cup {Nobody}]

HolderHasMutex == \A s \in Shells : Holding(s) <=> mu = s

TableFollows ==
    \A s \in Shells :
        /\ pc[s] \in {"locked", "restored"}  => table = Stock
        /\ pc[s] = "disabled"                => table = Closed /\ prev[s] = Stock
        /\ pc[s] = "running"                 => table = Open(s) /\ prev[s] = Stock
        /\ pc[s] = "returned"                => prev[s] = Stock

(* The properties alone are not inductive: what Restore puts back is what  *)
(* Disable saw, which is Stock because no two commands are inside at once. *)
GitInv == GitTypes /\ HolderHasMutex /\ TableFollows /\ TableRestored /\ OwnDialerOnly

-----------------------------------------------------------------------------
LEMMA ProtocolsSplit == Protocols = Http \cup Sandboxed /\ Http \cap Sandboxed = {}
BY DEF Protocols, Http, Sandboxed

LEMMA StockTyped == Stock \in [Protocols -> Transports]
BY DEF Stock, Transports

(* Only the holder moves inside the mutex, and nobody else is there.       *)
LEMMA OneInside ==
    ASSUME GitInv, NEW s \in Shells, Holding(s)
    PROVE  mu = s /\ \A t \in Shells \ {s} : ~Holding(t)
BY TransportAssumption DEF GitInv, HolderHasMutex

-----------------------------------------------------------------------------
LEMMA GitInit == Init => GitInv
<1> SUFFICES ASSUME Init PROVE GitInv OBVIOUS
<1>1. GitTypes BY StockTyped DEF Init, GitTypes, Steps
<1>2. HolderHasMutex BY TransportAssumption DEF Init, HolderHasMutex, Holding, Steps
<1>3. TableFollows BY DEF Init, TableFollows
<1>4. TableRestored BY DEF Init, TableRestored
<1>5. OwnDialerOnly BY DEF Init, OwnDialerOnly
<1> QED BY <1>1, <1>2, <1>3, <1>4, <1>5 DEF GitInv

(* Outside of the mutex: a command comes, and gets it.                     *)
LEMMA CommandKeeps == ASSUME GitInv, NEW s \in Shells, Command(s) PROVE GitInv'
<1>1. GitTypes' BY DEF GitInv, GitTypes, Command, Goto, Steps
<1>2. HolderHasMutex' BY TransportAssumption DEF GitInv, GitTypes, HolderHasMutex, Holding, Steps, Command, Goto
<1>3. TableFollows' BY DEF GitInv, GitTypes, TableFollows, Command, Goto, Closed, Open, Stock
<1>4. TableRestored' BY DEF GitInv, TableRestored, Command, Stock
<1>5. OwnDialerOnly' BY DEF GitInv, GitTypes, OwnDialerOnly, Command
<1> QED BY <1>1, <1>2, <1>3, <1>4, <1>5 DEF GitInv

LEMMA AcquireKeeps == ASSUME GitInv, NEW s \in Shells, Acquire(s) PROVE GitInv'
<1>1. GitTypes' BY DEF GitInv, GitTypes, Acquire, Goto, Steps
<1>2. HolderHasMutex' BY TransportAssumption DEF GitInv, GitTypes, HolderHasMutex, Holding, Steps, Acquire, Goto
<1>3. TableFollows' BY TransportAssumption DEF GitInv, GitTypes, TableFollows, TableRestored, Acquire, Goto, Closed, Open, Stock
<1>4. TableRestored' BY TransportAssumption DEF GitInv, TableRestored, Acquire, Stock
<1>5. OwnDialerOnly' BY DEF GitInv, OwnDialerOnly, Acquire
<1> QED BY <1>1, <1>2, <1>3, <1>4, <1>5 DEF GitInv

(* A step inside that keeps the mutex: what is left to say is the table.   *)
LEMMA InsideKeeps ==
    ASSUME GitInv, NEW s \in Shells, Holding(s), mu' = mu, used' = used,
           NEW to \in Steps \ {"idle", "waiting"}, pc' = [pc EXCEPT ![s] = to],
           table' \in [Protocols -> Transports], prev' \in [Shells -> [Protocols -> Transports]],
           to \in {"locked", "restored"} => table' = Stock,
           to = "disabled" => table' = Closed /\ prev'[s] = Stock,
           to = "running" => table' = Open(s) /\ prev'[s] = Stock,
           to = "returned" => prev'[s] = Stock
    PROVE  GitInv'
<1>1. GitTypes' BY DEF GitInv, GitTypes
<1>2. mu = s /\ \A t \in Shells \ {s} : ~Holding(t) BY OneInside
<1>3. pc'[s] = to /\ \A t \in Shells \ {s} : pc'[t] = pc[t] BY DEF GitInv, GitTypes
<1>4. HolderHasMutex' BY <1>2, <1>3, TransportAssumption DEF HolderHasMutex, Holding
<1>5. TableFollows'
  <2> SUFFICES ASSUME NEW t \in Shells
               PROVE  /\ pc'[t] \in {"locked", "restored"}  => table' = Stock
                      /\ pc'[t] = "disabled"                => table' = Closed /\ prev'[t] = Stock
                      /\ pc'[t] = "running"                 => table' = Open(t) /\ prev'[t] = Stock
                      /\ pc'[t] = "returned"                => prev'[t] = Stock
      BY DEF TableFollows, Closed, Open, Stock
  <2>1. CASE t = s BY <2>1, <1>3
  <2>2. CASE t # s
    <3>1. pc'[t] \in {"idle", "waiting"} BY <2>2, <1>2, <1>3 DEF GitInv, GitTypes, Holding
    <3> QED BY <3>1
  <2> QED BY <2>1, <2>2
<1>6. TableRestored' BY <1>2, TransportAssumption DEF TableRestored
<1>7. OwnDialerOnly' BY DEF GitInv, OwnDialerOnly
<1> QED BY <1>1, <1>4, <1>5, <1>6, <1>7 DEF GitInv

LEMMA DisableKeeps == ASSUME GitInv, NEW s \in Shells, Disable(s) PROVE GitInv'
<1>1. Holding(s) /\ table = Stock BY DEF GitInv, GitTypes, TableFollows, Disable, Holding, Steps
<1>2. table' = Closed BY <1>1 DEF Disable, With, Closed, Stock
<1>3. prev'[s] = Stock BY <1>1 DEF Disable, GitInv, GitTypes
<1>4. Closed \in [Protocols -> Transports] BY DEF Closed, Transports
<1>5. prev' \in [Shells -> [Protocols -> Transports]] BY DEF Disable, GitInv, GitTypes
<1> QED BY <1>1, <1>2, <1>3, <1>4, <1>5, InsideKeeps DEF Disable, Goto, Steps

LEMMA InstallKeeps == ASSUME GitInv, NEW s \in Shells, Install(s) PROVE GitInv'
<1>1. Holding(s) /\ table = Closed /\ prev[s] = Stock BY DEF GitInv, GitTypes, TableFollows, Install, Holding, Steps
<1>2. table' = Open(s)
  <2>1. \A p \in Protocols \ Http : Closed[p] = "disabled" BY ProtocolsSplit DEF Closed
  <2> QED BY <1>1, <2>1 DEF Install, With, Open
<1>3. Open(s) \in [Protocols -> Transports] BY DEF Open, Transports
<1>4. prev' = prev /\ prev' \in [Shells -> [Protocols -> Transports]] BY DEF Install, GitInv, GitTypes
<1> QED BY <1>1, <1>2, <1>3, <1>4, InsideKeeps DEF Install, Goto, Steps

LEMMA OpenSessionKeeps == ASSUME GitInv, NEW s \in Shells, OpenSession(s) PROVE GitInv'
<1>1. table = Open(s) BY DEF GitInv, TableFollows, OpenSession
<1>2. PICK p \in Protocols : used' = [used EXCEPT ![s] = table[p]] BY DEF OpenSession
<1>3. table[p] \in {s, "disabled"} BY <1>1 DEF Open
<1>4. GitTypes' BY <1>2, <1>3 DEF GitInv, GitTypes, OpenSession, Transports
<1>5. OwnDialerOnly' BY <1>2, <1>3 DEF GitInv, GitTypes, OwnDialerOnly
<1>6. HolderHasMutex' /\ TableFollows' /\ TableRestored'
      BY DEF GitInv, OpenSession, HolderHasMutex, Holding, TableFollows, TableRestored, Closed, Open, Stock
<1> QED BY <1>4, <1>5, <1>6 DEF GitInv

LEMMA RemoteKeeps == ASSUME GitInv, NEW s \in Shells, Return(s) PROVE GitInv'
<1>1. Holding(s) /\ prev[s] = Stock BY DEF GitInv, GitTypes, TableFollows, Return, Holding, Steps
<1>2. table' \in [Protocols -> Transports] /\ prev' \in [Shells -> [Protocols -> Transports]] BY DEF Return, GitInv, GitTypes
<1> QED BY <1>1, <1>2, InsideKeeps DEF Return, Goto, Steps

LEMMA RestoreKeeps == ASSUME GitInv, NEW s \in Shells, Restore(s) PROVE GitInv'
<1>1. Holding(s) /\ prev[s] = Stock BY DEF GitInv, GitTypes, TableFollows, Restore, Holding, Steps
<1>2. table' = Stock BY <1>1 DEF Restore, Stock
<1>3. prev' = prev /\ prev' \in [Shells -> [Protocols -> Transports]] BY DEF Restore, GitInv, GitTypes
<1> QED BY <1>1, <1>2, <1>3, StockTyped, InsideKeeps DEF Restore, Goto, Steps

LEMMA UnlockKeeps == ASSUME GitInv, NEW s \in Shells, Unlock(s) PROVE GitInv'
<1>1. Holding(s) /\ table = Stock BY DEF GitInv, GitTypes, TableFollows, Unlock, Holding, Steps
<1>2. mu = s /\ \A t \in Shells \ {s} : ~Holding(t) BY <1>1, OneInside
<1>3. GitTypes' BY DEF GitInv, GitTypes, Unlock, Goto, Steps
<1>4. HolderHasMutex' BY <1>2, TransportAssumption DEF GitInv, GitTypes, HolderHasMutex, Holding, Steps, Unlock, Goto
<1>5. TableFollows' BY <1>2 DEF GitInv, GitTypes, TableFollows, Holding, Steps, Unlock, Goto
<1>6. TableRestored' BY <1>1 DEF TableRestored, Unlock, Stock
<1>7. OwnDialerOnly' BY DEF GitInv, OwnDialerOnly, Unlock
<1> QED BY <1>3, <1>4, <1>5, <1>6, <1>7 DEF GitInv

LEMMA GitStutters == GitInv /\ UNCHANGED vars => GitInv'
BY DEF vars, GitInv, GitTypes, HolderHasMutex, Holding, TableFollows, TableRestored, OwnDialerOnly, Closed, Open, Stock

LEMMA GitKeeps == GitInv /\ [Next]_vars => GitInv'
<1> SUFFICES ASSUME GitInv, [Next]_vars PROVE GitInv' OBVIOUS
<1>1. CASE UNCHANGED vars BY <1>1, GitStutters
<1>2. ASSUME NEW s \in Shells, Command(s) PROVE GitInv' BY <1>2, CommandKeeps
<1>3. ASSUME NEW s \in Shells, Acquire(s) PROVE GitInv' BY <1>3, AcquireKeeps
<1>4. ASSUME NEW s \in Shells, Inside(s) PROVE GitInv'
      BY <1>4, DisableKeeps, InstallKeeps, RemoteKeeps, RestoreKeeps, UnlockKeeps DEF Inside
<1>5. ASSUME NEW s \in Shells, OpenSession(s) PROVE GitInv' BY <1>5, OpenSessionKeeps
<1> QED BY <1>1, <1>2, <1>3, <1>4, <1>5 DEF Next

LEMMA GitInvariant == Spec => []GitInv
BY GitInit, GitKeeps, PTL DEF Spec

-----------------------------------------------------------------------------
(* A git command reaches the network through the dialer of its own shell,  *)
(* which knows that shell's policy and budget, however many shells run git *)
(* at a time (withPolicyHTTPTransport, transport.go).                      *)
THEOREM OwnDialerHolds == Spec => []OwnDialerOnly
<1>1. GitInv => OwnDialerOnly BY DEF GitInv
<1> QED BY <1>1, GitInvariant, PTL

(* While no command is inside, go-git's table is the one it started with:  *)
(* a shell that ends leaves no dialer of its own behind.                   *)
THEOREM TableRestoredHolds == Spec => []TableRestored
<1>1. GitInv => TableRestored BY DEF GitInv
<1> QED BY <1>1, GitInvariant, PTL

(* However many shells share the process, its transports serve their owner *)
(* and are put back (withPolicyHTTPTransport, transport.go).               *)
THEOREM TransportsKeptHolds == Spec => []TransportsKept
BY OwnDialerHolds, TableRestoredHolds, PTL DEF TransportsKept
=============================================================================
