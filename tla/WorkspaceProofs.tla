--------------------------- MODULE WorkspaceProofs ---------------------------
(***************************************************************************)
(* What commands of one session keep between them, for any number of       *)
(* commands, connections, hosts and keys: the hosts that ssh trusts, what  *)
(* the network meter knows of the connections that share it, and, from one *)
(* process to the next, the session that memsh keeps on a terminal.        *)
(***************************************************************************)
EXTENDS MCWorkspace, Sums

AllVars == <<part, gitVars, netVars, hostVars, localVars>>

(* Each step is one of at most one part.                                   *)
LEMMA StepOfPart ==
    ASSUME [WorkspaceNext]_AllVars
    PROVE  [Net!Next]_netVars /\ [Trust!Next]_hostVars /\ [Local!Next]_localVars
<1>1. CASE WorkspaceNext
  BY <1>1 DEF WorkspaceNext
<1>2. CASE UNCHANGED AllVars
  BY <1>2 DEF AllVars
<1> QED
  BY <1>1, <1>2

-----------------------------------------------------------------------------
(* The known hosts.                                                        *)

TrustPlaces == {"idle", "offered", "prompt", "refused", "truncate", "write", "accepted"}

(* What the file holds, and what a command read of it before it writes it  *)
(* again, are entries the user said yes to.                                *)
TrustInv ==
    /\ pc \in [Commands -> TrustPlaces]
    /\ offer \in [Commands -> Trust!Entries \cup {Trust!NoOffer}]
    /\ file \in Seq(confirmed)
    /\ existing \in [Commands -> Seq(confirmed)]
    /\ \A c \in Commands : pc[c] \in {"truncate", "write", "accepted"} => offer[c] \in confirmed

LEMMA FirstIs ==
    ASSUME NEW I, I \subseteq Nat, I # {}
    PROVE  Trust!Min(I) \in I
<1>1. PICK x \in I : \A y \in I : ~(<<y, x>> \in OpToRel(<, Nat))
  BY NatLessThanWellFounded, WFMin
<1>2. \A y \in I : x <= y
  <2> SUFFICES ASSUME NEW y \in I, y < x
               PROVE  FALSE
    BY SMT
  <2>1. <<y, x>> \in OpToRel(<, Nat)
    BY DEF OpToRel
  <2> QED
    BY <1>1, <2>1
<1> QED
  BY <1>2 DEF Trust!Min

(* The entry that decides is one of the file, if there is one.             *)
LEMMA EntryInFile ==
    ASSUME NEW e, Trust!Entry(e) # 0
    PROVE  Trust!Entry(e) \in 1..Len(file)
<1> DEFINE I == {i \in 1..Len(file) : file[i].host = e.host /\ KeyType[file[i].key] = KeyType[e.key]}
<1>1. Trust!Entry(e) = IF I # {} THEN Trust!Min(I) ELSE 0
  BY DEF Trust!Entry, Trust!SelectInSeq
<1>2. I # {}
  BY <1>1
<1>3. I \subseteq Nat /\ I \subseteq 1..Len(file)
  OBVIOUS
<1> HIDE DEF I
<1> QED
  BY <1>1, <1>2, <1>3, FirstIs

LEMMA EmptySeq == ASSUME NEW A PROVE <<>> \in Seq(A)
OBVIOUS

LEMMA ConfirmedGrows ==
    ASSUME NEW A, NEW B, A \subseteq B, NEW s \in Seq(A)
    PROVE  s \in Seq(B)
OBVIOUS

LEMMA CheckTrusts ==
    ASSUME TrustInv, NEW c \in Commands, Trust!Check(c)
    PROVE  TrustInv'
<1> DEFINE i == Trust!Entry(offer[c])
<1>1. /\ pc' = [pc EXCEPT ![c] = IF i = 0 THEN "prompt" ELSE IF file[i] = offer[c] THEN "accepted" ELSE "refused"]
      /\ UNCHANGED <<file, offer, existing, confirmed>>
  BY DEF Trust!Check, Trust!Goto
<1>2. i # 0 => file[i] \in confirmed
  <2>1. i # 0 => i \in 1..Len(file)
    BY EntryInFile
  <2> HIDE DEF i
  <2> QED
    BY <2>1 DEF TrustInv
<1> HIDE DEF i
<1> QED
  BY <1>1, <1>2 DEF TrustInv, TrustPlaces

LEMMA ConfirmTrusts ==
    ASSUME TrustInv, NEW c \in Commands, Trust!Confirm(c)
    PROVE  TrustInv'
<1>1. /\ pc[c] = "prompt" /\ pc' = [pc EXCEPT ![c] = "truncate"] /\ UNCHANGED <<file, offer>>
      /\ confirmed' = confirmed \cup {offer[c]} /\ existing' = [existing EXCEPT ![c] = file]
  BY DEF Trust!Confirm, Trust!Goto
<1>2. file' \in Seq(confirmed') /\ existing' \in [Commands -> Seq(confirmed')]
  <2>1. \A s \in Seq(confirmed) : s \in Seq(confirmed')
    BY <1>1, ConfirmedGrows
  <2> QED
    BY <1>1, <2>1 DEF TrustInv
<1>3. offer[c] \in confirmed' /\ confirmed \subseteq confirmed'
  BY <1>1
<1>4. pc' \in [Commands -> TrustPlaces]
  BY <1>1 DEF TrustInv, TrustPlaces
<1>5. \A d \in Commands : pc'[d] \in {"truncate", "write", "accepted"} => offer'[d] \in confirmed'
  BY <1>1, <1>3 DEF TrustInv
<1> QED
  BY <1>1, <1>2, <1>4, <1>5 DEF TrustInv

LEMMA WriteTrusts ==
    ASSUME TrustInv, NEW c \in Commands, Trust!Write(c)
    PROVE  TrustInv'
<1>1. /\ pc[c] = "write" /\ pc' = [pc EXCEPT ![c] = "accepted"] /\ UNCHANGED <<offer, confirmed>>
      /\ file' = Append(existing[c], offer[c]) \/ UNCHANGED file
      /\ existing' = [existing EXCEPT ![c] = <<>>]
  BY DEF Trust!Write, Trust!Goto
<1>2. file' \in Seq(confirmed)
  <2>1. existing[c] \in Seq(confirmed) /\ offer[c] \in confirmed /\ file \in Seq(confirmed)
    BY <1>1 DEF TrustInv
  <2>2. Append(existing[c], offer[c]) \in Seq(confirmed)
    BY <2>1
  <2> QED
    BY <1>1, <2>1, <2>2
<1> QED
  BY <1>1, <1>2 DEF TrustInv, TrustPlaces

LEMMA TrustKeeps ==
    ASSUME TrustInv, [Trust!Next]_hostVars
    PROVE  TrustInv'
<1>1. ASSUME NEW c \in Commands, Trust!Dial(c) \/ Trust!Refuse(c) \/ Trust!Truncate(c) \/ Trust!Finish(c)
      PROVE  TrustInv'
  <2>1. UNCHANGED <<existing, confirmed>> /\ (file' = file \/ file' = <<>>)
    BY <1>1 DEF Trust!Dial, Trust!Refuse, Trust!Truncate, Trust!Finish
  <2>2. /\ pc' \in [Commands -> TrustPlaces] /\ offer' \in [Commands -> Trust!Entries \cup {Trust!NoOffer}]
        /\ \A d \in Commands : pc'[d] \in {"truncate", "write", "accepted"} =>
              pc[d] \in {"truncate", "write", "accepted"} /\ offer'[d] = offer[d]
    <3>1. CASE Trust!Dial(c)
      BY <3>1 DEF Trust!Dial, Trust!Goto, TrustInv, TrustPlaces
    <3>2. CASE Trust!Refuse(c) \/ Trust!Truncate(c)
      BY <3>2 DEF Trust!Refuse, Trust!Truncate, Trust!Goto, TrustInv, TrustPlaces
    <3>3. CASE Trust!Finish(c)
      BY <3>3 DEF Trust!Finish, Trust!Goto, TrustInv, TrustPlaces
    <3> QED
      BY <1>1, <3>1, <3>2, <3>3
  <2>3. file' \in Seq(confirmed)
    BY <2>1, EmptySeq DEF TrustInv
  <2> QED
    BY <2>1, <2>2, <2>3 DEF TrustInv
<1>2. CASE Trust!Forget \/ UNCHANGED hostVars
  <2>1. UNCHANGED <<pc, offer, existing, confirmed>> /\ (file' = file \/ file' = <<>>)
    BY <1>2 DEF Trust!Forget, hostVars
  <2>2. file' \in Seq(confirmed)
    BY <2>1, EmptySeq DEF TrustInv
  <2> QED
    BY <2>1, <2>2 DEF TrustInv
<1> QED
  BY <1>1, <1>2, CheckTrusts, ConfirmTrusts, WriteTrusts DEF Trust!Next

(* ssh connects without asking only to a host whose key, of that type, the *)
(* user has said yes to, however many commands of the shell read, truncate *)
(* and write known_hosts between each other's steps, and whether or not    *)
(* these writes succeed (native/ssh.go).                                   *)
THEOREM TrustHolds == WorkspaceSpec => []AcceptedWasConfirmed
<1>1. WorkspaceInit => TrustInv
  BY DEF WorkspaceInit, Trust!Init, TrustInv, TrustPlaces
<1>2. TrustInv /\ [WorkspaceNext]_AllVars => TrustInv'
  BY StepOfPart, TrustKeeps
<1>3. TrustInv => AcceptedWasConfirmed
  BY DEF TrustInv, AcceptedWasConfirmed, Trust!AcceptedWasConfirmed
<1> QED
  BY <1>1, <1>2, <1>3, PTL DEF WorkspaceSpec, AllVars

-----------------------------------------------------------------------------
(* The policy.                                                             *)

NetLimits == /\ IsFiniteSet(Conns) /\ NoAddr \notin {"pub", "priv", "none"}
             /\ MaxRequests \in Nat /\ MaxBytes \in Nat /\ Chunk \in Nat

Ips    == {NoAddr, "pub", "priv", "none"}
Places == {"none", "evaluating", "dialing", "open", "closing", "closed"}

Connection ==
    [pc : Places, by : {"none", "nc", "scan", "curl"}, dest : Dests \cup {"none"}, ip : Ips,
     under : BOOLEAN, age : Nat, flight : [Net!Directions -> Nat]]

(* A connection has a destination, and has moved nothing before it is open.*)
Sound(k) ==
    /\ k.pc # "none" => k.dest \in Dests
    /\ k.pc \in {"none", "evaluating", "dialing"} => k.age = 0 /\ \A d \in Net!Directions : k.flight[d] = 0
    /\ \A d \in Net!Directions : k.flight[d] <= Chunk

ConnsSound == conn \in [Conns -> Connection] /\ \A c \in Conns : Sound(conn[c])

(* To an address the policy allows, or wherever the name leads, when the   *)
(* policy has nothing to say of addresses.                                 *)
Allows(dest, ip) ==
    /\ policy.mode # "off"
    /\ policy.denyPrivate => ip \notin Private \ policy.cidrs
    /\ policy.mode = "allowlist" => ip \in policy.cidrs \/ Net!DomainAllowed(policy, dest.name)

Within(k) == Allows(k.dest, k.ip)

Anywhere == policy.mode = "full" /\ ~policy.denyPrivate

WithinPolicy ==
    \A c \in Conns : /\ conn[c].pc = "open" => Within(conn[c])
                     /\ conn[c].pc = "dialing" => IF conn[c].ip = NoAddr THEN Anywhere ELSE Within(conn[c])

PolicyInv == ConnsSound /\ WithinPolicy

-----------------------------------------------------------------------------
LEMMA IdleIs ==
    ASSUME NetLimits
    PROVE  /\ Net!Idle \in Connection /\ Sound(Net!Idle) /\ Net!Idle.pc = "none" /\ Net!Idle.age = 0
           /\ \A d \in Net!Directions : Net!Idle.flight[d] = 0
BY DEF Net!Idle, Connection, Sound, Places, Ips, NetLimits

(* What the dialer may be told, and what it is told when it is told        *)
(* something.                                                              *)
LEMMA AnswerIs == \A ips \in Answers : \A i \in DOMAIN ips : ips[i] \in {"pub", "priv"}
BY DEF Answers

LEMMA TargetIs ==
    ASSUME NetLimits, NEW dest \in Dests, NEW ips \in Answers,
           NEW target, target = Net!EvaluateAddress(policy, dest, ips), target # "denied"
    PROVE  target \in Ips /\ IF target = NoAddr THEN Anywhere ELSE Allows(dest, target)
<1> DEFINE candidates == IF dest.name = <<>> THEN <<dest.ip>> ELSE ips
<1>1. \/ Anywhere /\ target = NoAddr
      \/ /\ policy.mode # "off" /\ candidates # <<>> /\ target = Head(candidates)
         /\ \A i \in DOMAIN candidates : /\ ~Net!Blocked(policy, candidates[i])
                                         /\ ~Net!Outside(policy, dest, candidates[i])
  BY DEF Net!EvaluateAddress, Anywhere
<1>2. candidates # <<>> =>
        /\ 1 \in DOMAIN candidates /\ Head(candidates) = candidates[1]
        /\ candidates[1] \in {"pub", "priv", "none"}
  BY AnswerIs DEF Dests, Answers
<1> HIDE DEF candidates
<1>3. CASE Anywhere /\ target = NoAddr
  BY <1>3 DEF Ips
<1>4. CASE ~(Anywhere /\ target = NoAddr)
  <2>1. /\ target \in {"pub", "priv", "none"} /\ policy.mode # "off"
        /\ ~Net!Blocked(policy, target) /\ ~Net!Outside(policy, dest, target)
    BY <1>1, <1>2, <1>4
  <2>2. target # NoAddr
    BY <2>1 DEF NetLimits
  <2> QED
    BY <2>1, <2>2 DEF Allows, Net!Blocked, Net!Outside, Ips
<1> QED
  BY <1>3, <1>4

(* A step of one connection.                                               *)
LEMMA OneConnection ==
    ASSUME PolicyInv, NEW c \in Conns, NEW r \in Connection, Sound(r),
           conn' = [conn EXCEPT ![c] = r], UNCHANGED policy,
           r.pc = "open" => Within(r),
           r.pc = "dialing" => IF r.ip = NoAddr THEN Anywhere ELSE Within(r)
    PROVE  PolicyInv'
<1>1. ConnsSound'
  <2>1. conn' \in [Conns -> Connection]
    BY DEF PolicyInv, ConnsSound
  <2>2. \A x \in Conns : Sound(conn'[x])
    BY DEF PolicyInv, ConnsSound
  <2> QED
    BY <2>1, <2>2 DEF ConnsSound, Connection, Sound, Net!Directions, Dests, Ips, Places
<1>2. \A x \in Conns : conn'[x] = IF x = c THEN r ELSE conn[x]
  BY DEF PolicyInv, ConnsSound
<1>3. \A k : Within(k)' <=> Within(k)
  BY DEF Within, Allows, Net!DomainAllowed
<1>4. Anywhere' <=> Anywhere
  BY DEF Anywhere
<1>5. WithinPolicy'
  <2> SUFFICES ASSUME NEW x \in Conns
               PROVE  /\ conn'[x].pc = "open" => Within(conn'[x])
                      /\ conn'[x].pc = "dialing" =>
                            IF conn'[x].ip = NoAddr THEN Anywhere ELSE Within(conn'[x])
    BY <1>3, <1>4 DEF WithinPolicy, Within, Allows, Net!DomainAllowed
  <2> QED
    BY <1>2 DEF PolicyInv, WithinPolicy
<1> QED
  BY <1>1, <1>5 DEF PolicyInv

LEMMA ConnectionIs ==
    ASSUME PolicyInv, NEW c \in Conns
    PROVE  conn[c] \in Connection /\ Sound(conn[c])
BY DEF PolicyInv, ConnsSound

LEMMA AllSame ==
    ASSUME PolicyInv, conn' \in [Conns -> Connection], UNCHANGED policy,
           \A c \in Conns : /\ Sound(conn'[c]) /\ conn'[c].pc = conn[c].pc
                             /\ conn'[c].ip = conn[c].ip /\ conn'[c].dest = conn[c].dest
    PROVE  PolicyInv'
<1>1. ConnsSound'
  BY DEF ConnsSound, Connection, Sound, Net!Directions, Dests, Ips, Places
<1>2. WithinPolicy'
  BY DEF PolicyInv, WithinPolicy, Within, Allows, Anywhere, Net!DomainAllowed
<1> QED
  BY <1>1, <1>2 DEF PolicyInv

LEMMA DialWithin ==
    ASSUME NetLimits, PolicyInv, NEW c \in Conns, NEW by \in {"nc", "scan", "curl"}, NEW dest \in Dests,
           Net!Dial(c, by, dest)
    PROVE  PolicyInv'
<1> DEFINE r == [Net!Idle EXCEPT !.pc = "evaluating", !.by = by, !.dest = dest]
<1>1. r \in Connection /\ Sound(r) /\ r.pc = "evaluating"
  <2>1. Net!Idle \in Connection /\ Sound(Net!Idle) /\ Net!Idle.pc = "none"
    BY IdleIs
  <2>2. /\ r \in Connection /\ r.pc = "evaluating" /\ r.dest = dest
        /\ r.age = Net!Idle.age /\ r.flight = Net!Idle.flight
    BY <2>1 DEF Connection, Places
  <2> HIDE DEF r
  <2> QED
    BY <2>1, <2>2 DEF Sound
<1>2. conn' = [conn EXCEPT ![c] = r] /\ UNCHANGED policy
  BY DEF Net!Dial, Net!SetConn
<1> QED
  BY <1>1, <1>2, OneConnection

LEMMA EvaluateWithin ==
    ASSUME NetLimits, PolicyInv, NEW c \in Conns, Net!Evaluate(c)
    PROVE  PolicyInv'
<1>0. conn[c] \in Connection /\ Sound(conn[c]) /\ conn[c].pc = "evaluating" /\ conn[c].dest \in Dests
  BY ConnectionIs DEF Net!Evaluate, Sound
<1>1. PICK ips \in Answers :
         LET target == Net!EvaluateAddress(policy, conn[c].dest, ips) IN
         Net!SetConn(c, IF target = "denied" THEN Net!Idle
                        ELSE [conn[c] EXCEPT !.pc = "dialing", !.ip = target])
  BY DEF Net!Evaluate
<1>2. UNCHANGED policy
  BY DEF Net!Evaluate
<1> DEFINE target == Net!EvaluateAddress(policy, conn[c].dest, ips)
           r == [conn[c] EXCEPT !.pc = "dialing", !.ip = target]
<1>3. conn' = [conn EXCEPT ![c] = IF target = "denied" THEN Net!Idle ELSE r]
  BY <1>1 DEF Net!SetConn
<1>4. CASE target = "denied"
  BY <1>2, <1>3, <1>4, IdleIs, OneConnection
<1>5. CASE target # "denied"
  <2>1. target \in Ips /\ IF target = NoAddr THEN Anywhere ELSE Allows(conn[c].dest, target)
    BY <1>0, <1>5, TargetIs
  <2> HIDE DEF target
  <2>2. r \in Connection /\ r.pc = "dialing" /\ r.ip = target /\ r.dest = conn[c].dest /\ r.age = conn[c].age
        /\ r.flight = conn[c].flight
    BY <1>0, <2>1 DEF Connection, Places
  <2>3. Sound(r)
    BY <1>0, <2>2 DEF Sound
  <2>4. conn' = [conn EXCEPT ![c] = r]
    BY <1>3, <1>5
  <2> HIDE DEF r
  <2> QED
    BY <1>2, <2>1, <2>2, <2>3, <2>4, OneConnection DEF Within
<1> QED
  BY <1>4, <1>5

LEMMA ConnectWithin ==
    ASSUME NetLimits, PolicyInv, NEW c \in Conns, Net!Connect(c)
    PROVE  PolicyInv'
<1>0. /\ conn[c] \in Connection /\ Sound(conn[c]) /\ conn[c].pc = "dialing" /\ conn[c].dest \in Dests
      /\ IF conn[c].ip = NoAddr THEN Anywhere ELSE Within(conn[c])
  BY ConnectionIs DEF Net!Connect, Sound, PolicyInv, WithinPolicy
<1>1. PICK ip \in Net!Reached(c) : Net!SetConn(c, [conn[c] EXCEPT !.pc = "open", !.ip = ip, !.under = TRUE])
  BY DEF Net!Connect
<1>2. UNCHANGED policy
  BY DEF Net!Connect
<1> DEFINE r == [conn[c] EXCEPT !.pc = "open", !.ip = ip, !.under = TRUE]
<1>3. ip \in Ips /\ Allows(conn[c].dest, ip)
  <2>1. CASE conn[c].ip # NoAddr
    BY <1>0, <1>1, <2>1 DEF Net!Reached, Within, Connection
  <2>2. CASE conn[c].ip = NoAddr
    <3>1. Allows(conn[c].dest, ip)
      BY <1>0, <2>2 DEF Anywhere, Allows
    <3>2. ip \in {conn[c].dest.ip} \cup UNION {Net!Range(a) : a \in Answers}
      BY <1>1, <2>2 DEF Net!Reached
    <3>3. \A a \in Answers : Net!Range(a) \subseteq Ips
      BY AnswerIs DEF Net!Range, Ips
    <3>4. conn[c].dest.ip \in Ips
      BY <1>0 DEF Dests, Ips
    <3> QED
      BY <3>1, <3>2, <3>3, <3>4
  <2> QED
    BY <2>1, <2>2
<1>4. r \in Connection /\ r.pc = "open" /\ r.ip = ip /\ r.dest = conn[c].dest /\ r.flight = conn[c].flight
  BY <1>0, <1>3 DEF Connection, Places
<1>5. Sound(r)
  BY <1>0, <1>4 DEF Sound
<1>6. conn' = [conn EXCEPT ![c] = r]
  BY <1>1 DEF Net!SetConn
<1> HIDE DEF r
<1> QED
  BY <1>2, <1>3, <1>4, <1>5, <1>6, OneConnection DEF Within

(* What does not touch where a connection leads.                           *)
LEMMA SameWay ==
    ASSUME PolicyInv, NEW c \in Conns, NEW r \in Connection, Sound(r),
           conn' = [conn EXCEPT ![c] = r], UNCHANGED policy, r.pc \notin {"open", "dialing"} \/
              (r.pc = "open" /\ conn[c].pc = "open" /\ r.ip = conn[c].ip /\ r.dest = conn[c].dest)
    PROVE  PolicyInv'
<1>1. r.pc = "open" => Within(r)
  BY DEF PolicyInv, WithinPolicy, Within
<1> QED
  BY <1>1, OneConnection

LEMMA TransferWithin ==
    ASSUME NetLimits, PolicyInv, NEW c \in Conns, NEW d \in Net!Directions, Net!Transfer(c, d)
    PROVE  PolicyInv'
<1>0. conn[c] \in Connection /\ Sound(conn[c]) /\ conn[c].pc = "open"
  BY ConnectionIs DEF Net!Transfer
<1>1. PICK k \in 1..Chunk : Net!SetConn(c, [conn[c] EXCEPT !.flight[d] = k])
  BY DEF Net!Transfer
<1> DEFINE r == [conn[c] EXCEPT !.flight[d] = k]
<1>2. /\ r.pc = "open" /\ r.ip = conn[c].ip /\ r.dest = conn[c].dest
      /\ r.flight = [conn[c].flight EXCEPT ![d] = k] /\ r.age = conn[c].age
      /\ r.by = conn[c].by /\ r.under = conn[c].under
  BY <1>0 DEF Connection
<1>3. r \in Connection
  BY <1>0, <1>1 DEF Connection, NetLimits
<1>4. conn' = [conn EXCEPT ![c] = r] /\ UNCHANGED policy
  BY <1>1 DEF Net!SetConn, Net!Transfer
<1> HIDE DEF r
<1>5. Sound(r)
  BY <1>0, <1>1, <1>2 DEF Sound, Connection, NetLimits
<1> QED
  BY <1>0, <1>2, <1>3, <1>4, <1>5, SameWay

LEMMA AccountWithin ==
    ASSUME NetLimits, PolicyInv, NEW c \in Conns, NEW d \in Net!Directions, Net!Account(c, d)
    PROVE  PolicyInv'
<1>0. conn[c] \in Connection /\ Sound(conn[c]) /\ conn[c].flight[d] > 0
  BY ConnectionIs DEF Net!Account
<1>1. PICK u \in BOOLEAN : Net!SetConn(c, [conn[c] EXCEPT !.flight[d] = 0, !.under = u])
  <2> DEFINE u == conn[c].under /\ ~(MaxBytes > 0 /\ usage[d] + conn[c].flight[d] > MaxBytes)
  <2>1. Net!SetConn(c, [conn[c] EXCEPT !.flight[d] = 0, !.under = u])
    BY DEF Net!Account
  <2>2. u \in BOOLEAN
    OBVIOUS
  <2> QED
    BY <2>1, <2>2
<1> DEFINE r == [conn[c] EXCEPT !.flight[d] = 0, !.under = u]
<1>2. /\ r.pc = conn[c].pc /\ r.ip = conn[c].ip /\ r.dest = conn[c].dest
      /\ r.flight = [conn[c].flight EXCEPT ![d] = 0] /\ r.age = conn[c].age
  BY <1>0 DEF Connection
<1>3. r \in Connection
  BY <1>0, <1>1 DEF Connection
<1>4. conn' = [conn EXCEPT ![c] = r] /\ UNCHANGED policy
  BY <1>1 DEF Net!SetConn, Net!Account
<1> HIDE DEF r
<1>5. Sound(r)
  BY <1>0, <1>2 DEF Sound, Connection, NetLimits
<1>6. r.pc \notin {"none", "evaluating", "dialing"}
  BY <1>0, <1>2 DEF Sound, Connection
<1> QED
  BY <1>0, <1>2, <1>3, <1>4, <1>5, <1>6, SameWay

LEMMA CloseWithin ==
    ASSUME NetLimits, PolicyInv, NEW c \in Conns, Net!Close(c) \/ Net!Charge(c)
    PROVE  PolicyInv'
<1>0. conn[c] \in Connection /\ Sound(conn[c]) /\ conn[c].pc \in {"open", "closing"} /\ UNCHANGED policy
  BY ConnectionIs DEF Net!Close, Net!Charge
<1>1. CASE Net!Close(c)
  <2> DEFINE r == [conn[c] EXCEPT !.pc = "closing"]
  <2>1. r \in Connection /\ Sound(r) /\ r.pc = "closing"
    BY <1>0 DEF Connection, Sound, Places
  <2>2. conn' = [conn EXCEPT ![c] = r]
    BY <1>1 DEF Net!Close, Net!SetConn
  <2> QED
    BY <1>0, <2>1, <2>2, SameWay
<1>2. CASE Net!Charge(c)
  <2> DEFINE r == [conn[c] EXCEPT !.pc = "closed", !.under = FALSE]
  <2>1. r \in Connection /\ Sound(r) /\ r.pc = "closed"
    BY <1>0 DEF Connection, Sound, Places
  <2>2. conn' = [conn EXCEPT ![c] = r]
    BY <1>2 DEF Net!Charge, Net!SetConn
  <2> QED
    BY <1>0, <2>1, <2>2, SameWay
<1> QED
  BY <1>1, <1>2

LEMMA EndWithin ==
    ASSUME NetLimits, PolicyInv, NEW c \in Conns, Net!DialFails(c) \/ Net!Release(c)
    PROVE  PolicyInv'
<1>1. conn' = [conn EXCEPT ![c] = Net!Idle] /\ UNCHANGED policy
  BY DEF Net!DialFails, Net!Release, Net!SetConn
<1> QED
  BY <1>1, IdleIs, SameWay

(* What touches all of them.                                               *)
LEMMA AllWithin ==
    ASSUME NetLimits, PolicyInv, Net!Tick \/ Net!NextShell \/ UNCHANGED netVars
    PROVE  PolicyInv'
<1>1. CASE Net!Tick
  <2>1. UNCHANGED policy /\ \A c \in Conns :
           conn'[c] = IF c \in Net!Timed THEN [conn[c] EXCEPT !.age = @ + 1] ELSE conn[c]
    BY <1>1 DEF Net!Tick
  <2>2. ASSUME NEW c \in Conns
        PROVE  /\ conn'[c] \in Connection /\ Sound(conn'[c]) /\ conn'[c].pc = conn[c].pc
               /\ conn'[c].ip = conn[c].ip /\ conn'[c].dest = conn[c].dest
    <3>1. CASE c \in Net!Timed
      <4> DEFINE r == [conn[c] EXCEPT !.age = conn[c].age + 1]
      <4>1. conn[c] \in Connection /\ Sound(conn[c]) /\ conn[c].pc \in {"open", "closing"}
        BY <3>1, ConnectionIs DEF Net!Timed
      <4>2. r \in Connection /\ r.pc = conn[c].pc /\ r.ip = conn[c].ip /\ r.dest = conn[c].dest
            /\ r.flight = conn[c].flight
        BY <4>1 DEF Connection
      <4>3. conn'[c] = r
        BY <2>1, <3>1
      <4> HIDE DEF r
      <4> QED
        BY <4>1, <4>2, <4>3 DEF Sound
    <3>2. CASE c \notin Net!Timed
      BY <2>1, <3>2, ConnectionIs
    <3> QED
      BY <3>1, <3>2
  <2>3. conn' \in [Conns -> Connection]
    BY <1>1, <2>2 DEF Net!Tick
  <2> QED
    BY <2>1, <2>2, <2>3, AllSame
<1>2. CASE Net!NextShell
  <2>1. conn' = [c \in Conns |-> Net!Idle] /\ UNCHANGED policy
    BY <1>2 DEF Net!NextShell
  <2>2. \A c \in Conns : conn'[c] = Net!Idle
    BY <2>1
  <2>3. ConnsSound'
    BY <2>1, <2>2, IdleIs DEF ConnsSound, Connection, Sound, Net!Directions, Dests, Ips, Places
  <2>4. WithinPolicy'
    BY <2>2, IdleIs DEF WithinPolicy
  <2> QED
    BY <2>3, <2>4 DEF PolicyInv
<1>3. CASE UNCHANGED netVars
  BY <1>3 DEF netVars, PolicyInv, ConnsSound, WithinPolicy, Within, Allows, Anywhere, Net!DomainAllowed,
              Connection, Sound, Net!Directions, Dests, Ips, Places
<1> QED
  BY <1>1, <1>2, <1>3

LEMMA PolicyKeeps ==
    ASSUME NetLimits, PolicyInv, [Net!Next]_netVars
    PROVE  PolicyInv'
<1>1. ASSUME NEW c \in Conns, Net!Nc(c) \/ Net!Scan(c) \/ Net!Curl(c)
      PROVE  PolicyInv'
  BY <1>1, DialWithin DEF Net!Nc, Net!Scan, Net!Curl
<1> QED
  BY <1>1, EvaluateWithin, ConnectWithin, TransferWithin, AccountWithin, CloseWithin, EndWithin, AllWithin
     DEF Net!Next

(* No connection is open to an address that the policy of its shell        *)
(* forbids, whatever the resolver answers, at first and when the dialer    *)
(* asks it again (EvaluateAddress and DialContext, pkg/network).           *)
THEOREM PolicyHolds == ASSUME NetLimits PROVE WorkspaceSpec => []ConnectedWithinPolicy
<1>1. WorkspaceInit => PolicyInv
  <2> SUFFICES ASSUME Net!Init
               PROVE  PolicyInv
    BY DEF WorkspaceInit
  <2>1. conn = [c \in Conns |-> Net!Idle]
    BY DEF Net!Init
  <2> QED
    BY <2>1, IdleIs DEF PolicyInv, ConnsSound, WithinPolicy
<1>2. PolicyInv /\ [WorkspaceNext]_AllVars => PolicyInv'
  BY StepOfPart, PolicyKeeps
<1>3. PolicyInv => ConnectedWithinPolicy
  BY DEF PolicyInv, WithinPolicy, Within, Allows, ConnectedWithinPolicy, Net!ConnectedWithinPolicy
<1> QED
  BY <1>1, <1>2, <1>3, PTL DEF WorkspaceSpec, AllVars

-----------------------------------------------------------------------------
(* The meter.                                                              *)

Usage == [requests : Nat, sent : Nat, received : Nat, runtime : Nat]

(* Of a connection: what it moved and did not account for, how long it was *)
(* open and did not charge, and how far it may still take the meter beyond *)
(* the limit: one transfer, the one under way or, if it has not been told  *)
(* that it is over the limit, the next.                                    *)
OpenFor(k) == IF k.pc \in {"open", "closing"} THEN k.age ELSE 0
Holds(k)   == IF k.pc # "none" THEN Chunk ELSE 0
May(k, d)  == IF k.flight[d] > 0 THEN k.flight[d]
              ELSE IF k.pc \in {"evaluating", "dialing"} \/ (k.pc = "open" /\ k.under) THEN Chunk ELSE 0

Flights(cn, d) == [c \in Conns |-> cn[c].flight[d]]
Times(cn)      == [c \in Conns |-> OpenFor(cn[c])]
Held(cn)       == [c \in Conns |-> Holds(cn[c])]
Mays(cn, d)    == [c \in Conns |-> May(cn[c], d)]

Allowance == Chunk * usage.requests

(* Bytes, runtime and requests are accounted for, and what connections may *)
(* still move leaves the total within the limit and one transfer for each  *)
(* request.                                                                *)
MeterInv ==
    /\ usage \in Usage /\ moved \in [Net!Directions -> Nat] /\ openTime \in Nat
    /\ \A d \in Net!Directions : moved[d] = usage[d] + Sum(Flights(conn, d), Conns)
    /\ openTime = usage.runtime + Sum(Times(conn), Conns)
    /\ Sum(Held(conn), Conns) <= Allowance
    /\ MaxBytes > 0 => \A d \in Net!Directions : usage[d] + Sum(Mays(conn, d), Conns) <= MaxBytes + Allowance
    /\ MaxRequests > 0 => usage.requests <= MaxRequests

NetInv == PolicyInv /\ MeterInv

-----------------------------------------------------------------------------
LEMMA WeightsAre ==
    ASSUME NetLimits, NEW k \in Connection, Sound(k)
    PROVE  /\ OpenFor(k) \in Nat /\ Holds(k) \in Nat
           /\ \A d \in Net!Directions : /\ k.flight[d] \in Nat /\ May(k, d) \in Nat
                                        /\ k.flight[d] <= May(k, d) /\ May(k, d) <= Holds(k)
<1>1. /\ k.age \in Nat /\ k.pc \in Places /\ k.under \in BOOLEAN /\ Chunk \in Nat
      /\ \A d \in Net!Directions : k.flight[d] \in Nat /\ k.flight[d] <= Chunk
      /\ k.pc = "none" => \A d \in Net!Directions : k.flight[d] = 0
  BY DEF Connection, Sound, NetLimits
<1>2. OpenFor(k) \in Nat /\ Holds(k) \in Nat
  BY <1>1 DEF OpenFor, Holds
<1>3. ASSUME NEW d \in Net!Directions
      PROVE  /\ k.flight[d] \in Nat /\ May(k, d) \in Nat
             /\ k.flight[d] <= May(k, d) /\ May(k, d) <= Holds(k)
  BY <1>1 DEF May, Holds
<1> QED
  BY <1>2, <1>3

LEMMA SumsAre ==
    ASSUME NetLimits, NEW cn \in [Conns -> Connection], \A c \in Conns : Sound(cn[c])
    PROVE  /\ Sum(Times(cn), Conns) \in Nat /\ Sum(Held(cn), Conns) \in Nat
           /\ \A d \in Net!Directions :
                 /\ Sum(Flights(cn, d), Conns) \in Nat /\ Sum(Mays(cn, d), Conns) \in Nat
                 /\ Sum(Flights(cn, d), Conns) <= Sum(Mays(cn, d), Conns)
                 /\ Sum(Mays(cn, d), Conns) <= Sum(Held(cn), Conns)
<1>0. IsFiniteSet(Conns) /\ Conns \in SUBSET Conns
  BY DEF NetLimits
<1>1. \A c \in Conns : Times(cn)[c] \in Nat /\ Held(cn)[c] \in Nat
  BY WeightsAre DEF Times, Held
<1>2. Sum(Times(cn), Conns) \in Nat /\ Sum(Held(cn), Conns) \in Nat
  BY <1>0, <1>1, SumNotNegative
<1>3. ASSUME NEW d \in Net!Directions
      PROVE  /\ Sum(Flights(cn, d), Conns) \in Nat /\ Sum(Mays(cn, d), Conns) \in Nat
             /\ Sum(Flights(cn, d), Conns) <= Sum(Mays(cn, d), Conns)
             /\ Sum(Mays(cn, d), Conns) <= Sum(Held(cn), Conns)
  <2>1. \A c \in Conns : /\ Flights(cn, d)[c] \in Nat /\ Mays(cn, d)[c] \in Nat
                         /\ Flights(cn, d)[c] <= Mays(cn, d)[c] /\ Mays(cn, d)[c] <= Held(cn)[c]
    BY WeightsAre DEF Flights, Mays, Held
  <2>2. Sum(Flights(cn, d), Conns) \in Nat /\ Sum(Mays(cn, d), Conns) \in Nat
    BY <1>0, <2>1, SumNotNegative
  <2>3. Sum(Flights(cn, d), Conns) <= Sum(Mays(cn, d), Conns)
    BY <1>0, <2>1, SumGrows
  <2>4. Sum(Mays(cn, d), Conns) <= Sum(Held(cn), Conns)
    BY <1>0, <1>1, <2>1, SumGrows
  <2> QED
    BY <2>2, <2>3, <2>4
<1> QED
  BY <1>2, <1>3

(* One connection changes.                                                 *)
LEMMA SumsChange ==
    ASSUME NetLimits, NEW cn \in [Conns -> Connection], \A x \in Conns : Sound(cn[x]),
           NEW c \in Conns, NEW r \in Connection, Sound(r),
           NEW new, new[c] = r, \A x \in Conns \ {c} : new[x] = cn[x]
    PROVE  /\ Sum(Times(new), Conns) = Sum(Times(cn), Conns) - OpenFor(cn[c]) + OpenFor(r)
           /\ Sum(Held(new), Conns) = Sum(Held(cn), Conns) - Holds(cn[c]) + Holds(r)
           /\ \A d \in Net!Directions :
                 /\ Sum(Flights(new, d), Conns) = Sum(Flights(cn, d), Conns) - cn[c].flight[d] + r.flight[d]
                 /\ Sum(Mays(new, d), Conns) = Sum(Mays(cn, d), Conns) - May(cn[c], d) + May(r, d)
<1>0. IsFiniteSet(Conns)
  BY DEF NetLimits
<1>1. \A x \in Conns : new[x] \in Connection /\ Sound(new[x])
  OBVIOUS
<1>2. Sum(Times(new), Conns) = Sum(Times(cn), Conns) - OpenFor(cn[c]) + OpenFor(r)
  <2>1. \A x \in Conns : Times(cn)[x] \in Int /\ Times(new)[x] \in Int
    BY <1>1, WeightsAre DEF Times
  <2>2. \A x \in Conns \ {c} : Times(cn)[x] = Times(new)[x]
    BY DEF Times
  <2>3. Times(cn)[c] = OpenFor(cn[c]) /\ Times(new)[c] = OpenFor(r)
    BY DEF Times
  <2>4. Sum(Times(new), Conns) = Sum(Times(cn), Conns) - Times(cn)[c] + Times(new)[c]
    BY ONLY <1>0, <2>1, <2>2, c \in Conns, SumChanges
  <2> QED
    BY <2>3, <2>4
<1>3. Sum(Held(new), Conns) = Sum(Held(cn), Conns) - Holds(cn[c]) + Holds(r)
  <2>1. \A x \in Conns : Held(cn)[x] \in Int /\ Held(new)[x] \in Int
    BY <1>1, WeightsAre DEF Held
  <2>2. \A x \in Conns \ {c} : Held(cn)[x] = Held(new)[x]
    BY DEF Held
  <2>3. Held(cn)[c] = Holds(cn[c]) /\ Held(new)[c] = Holds(r)
    BY DEF Held
  <2>4. Sum(Held(new), Conns) = Sum(Held(cn), Conns) - Held(cn)[c] + Held(new)[c]
    BY ONLY <1>0, <2>1, <2>2, c \in Conns, SumChanges
  <2> QED
    BY <2>3, <2>4
<1>4. ASSUME NEW d \in Net!Directions
      PROVE  Sum(Flights(new, d), Conns) = Sum(Flights(cn, d), Conns) - cn[c].flight[d] + r.flight[d]
  <2>1. \A x \in Conns : Flights(cn, d)[x] \in Int /\ Flights(new, d)[x] \in Int
    BY <1>1, WeightsAre DEF Flights
  <2>2. \A x \in Conns \ {c} : Flights(cn, d)[x] = Flights(new, d)[x]
    BY DEF Flights
  <2>3. Flights(cn, d)[c] = cn[c].flight[d] /\ Flights(new, d)[c] = r.flight[d]
    BY DEF Flights
  <2>4. Sum(Flights(new, d), Conns) = Sum(Flights(cn, d), Conns) - Flights(cn, d)[c] + Flights(new, d)[c]
    BY ONLY <1>0, <2>1, <2>2, c \in Conns, SumChanges
  <2> QED
    BY <2>3, <2>4
<1>5. ASSUME NEW d \in Net!Directions
      PROVE  Sum(Mays(new, d), Conns) = Sum(Mays(cn, d), Conns) - May(cn[c], d) + May(r, d)
  <2>1. \A x \in Conns : Mays(cn, d)[x] \in Int /\ Mays(new, d)[x] \in Int
    BY <1>1, WeightsAre DEF Mays
  <2>2. \A x \in Conns \ {c} : Mays(cn, d)[x] = Mays(new, d)[x]
    BY DEF Mays
  <2>3. Mays(cn, d)[c] = May(cn[c], d) /\ Mays(new, d)[c] = May(r, d)
    BY DEF Mays
  <2>4. Sum(Mays(new, d), Conns) = Sum(Mays(cn, d), Conns) - Mays(cn, d)[c] + Mays(new, d)[c]
    BY ONLY <1>0, <2>1, <2>2, c \in Conns, SumChanges
  <2> QED
    BY <2>3, <2>4
<1> QED
  BY <1>2, <1>3, <1>4, <1>5

LEMMA UsageIs ==
    ASSUME NEW u \in Usage
    PROVE  u.requests \in Nat /\ u.runtime \in Nat /\ \A d \in Net!Directions : u[d] \in Nat
BY DEF Usage, Net!Directions

(* What a step of one connection must keep, for all to be accounted for.   *)
LEMMA MeterStep ==
    ASSUME NetLimits, NetInv, PolicyInv', NEW c \in Conns, NEW r \in Connection, Sound(r),
           conn' = [conn EXCEPT ![c] = r],
           usage' \in Usage, moved' \in [Net!Directions -> Nat], openTime' \in Nat,
           \A d \in Net!Directions :
              moved'[d] - usage'[d] - r.flight[d] = moved[d] - usage[d] - conn[c].flight[d],
           openTime' - usage'.runtime - OpenFor(r) = openTime - usage.runtime - OpenFor(conn[c]),
           NEW grant \in Nat, Allowance' = Allowance + grant, Allowance \in Nat,
           Holds(r) <= Holds(conn[c]) + grant,
           \A d \in Net!Directions : \/ usage'[d] + May(r, d) <= usage[d] + May(conn[c], d) + grant
                                     \/ MaxBytes > 0 => usage'[d] <= MaxBytes,
           MaxRequests > 0 => usage'.requests <= MaxRequests
    PROVE  MeterInv'
<1>0. /\ conn \in [Conns -> Connection] /\ \A x \in Conns : Sound(conn[x])
      /\ conn' \in [Conns -> Connection] /\ \A x \in Conns : Sound(conn'[x])
  <2>1. conn \in [Conns -> Connection] /\ \A x \in Conns : Sound(conn[x])
    BY DEF NetInv, PolicyInv, ConnsSound
  <2> QED
    BY <2>1
<1>1. /\ Sum(Times(conn'), Conns) = Sum(Times(conn), Conns) - OpenFor(conn[c]) + OpenFor(r)
      /\ Sum(Held(conn'), Conns) = Sum(Held(conn), Conns) - Holds(conn[c]) + Holds(r)
      /\ \A d \in Net!Directions :
            /\ Sum(Flights(conn', d), Conns) = Sum(Flights(conn, d), Conns) - conn[c].flight[d] + r.flight[d]
            /\ Sum(Mays(conn', d), Conns) = Sum(Mays(conn, d), Conns) - May(conn[c], d) + May(r, d)
  <2>1. conn'[c] = r /\ \A x \in Conns \ {c} : conn'[x] = conn[x]
    BY <1>0
  <2> QED
    BY ONLY <1>0, <2>1, SumsChange, NetLimits, c \in Conns, r \in Connection, Sound(r)
<1>2. /\ Sum(Times(conn), Conns) \in Nat /\ Sum(Held(conn), Conns) \in Nat
      /\ Sum(Held(conn'), Conns) \in Nat
      /\ \A d \in Net!Directions :
            /\ Sum(Flights(conn, d), Conns) \in Nat /\ Sum(Mays(conn, d), Conns) \in Nat
            /\ Sum(Mays(conn', d), Conns) \in Nat
            /\ Sum(Mays(conn', d), Conns) <= Sum(Held(conn'), Conns)
  BY <1>0, SumsAre
<1>3. /\ OpenFor(r) \in Nat /\ Holds(r) \in Nat /\ OpenFor(conn[c]) \in Nat /\ Holds(conn[c]) \in Nat
      /\ \A d \in Net!Directions : /\ r.flight[d] \in Nat /\ May(r, d) \in Nat
                                   /\ conn[c].flight[d] \in Nat /\ May(conn[c], d) \in Nat
  BY <1>0, WeightsAre
<1>4. /\ usage \in Usage /\ moved \in [Net!Directions -> Nat] /\ openTime \in Nat
      /\ usage.runtime \in Nat /\ usage'.runtime \in Nat
      /\ \A d \in Net!Directions : usage[d] \in Nat /\ usage'[d] \in Nat /\ moved[d] \in Nat /\ moved'[d] \in Nat
  BY UsageIs DEF NetInv, MeterInv
<1>5. openTime' = usage'.runtime + Sum(Times(conn'), Conns)
  <2>1. openTime = usage.runtime + Sum(Times(conn), Conns)
    BY DEF NetInv, MeterInv
  <2> QED
    BY ONLY <1>1, <1>2, <1>3, <1>4, <2>1, openTime' \in Nat,
            openTime' - usage'.runtime - OpenFor(r) = openTime - usage.runtime - OpenFor(conn[c])
<1>6. Sum(Held(conn'), Conns) <= Allowance'
  <2>1. Sum(Held(conn), Conns) <= Allowance
    BY DEF NetInv, MeterInv
  <2> QED
    BY ONLY <1>1, <1>2, <1>3, <2>1, grant \in Nat, Allowance' = Allowance + grant, Allowance \in Nat,
            Holds(r) <= Holds(conn[c]) + grant
<1>7. ASSUME NEW d \in Net!Directions
      PROVE  moved'[d] = usage'[d] + Sum(Flights(conn', d), Conns)
  <2>1. moved[d] = usage[d] + Sum(Flights(conn, d), Conns)
    BY DEF NetInv, MeterInv
  <2>2. moved'[d] - usage'[d] - r.flight[d] = moved[d] - usage[d] - conn[c].flight[d]
    OBVIOUS
  <2> QED
    BY ONLY <1>1, <1>2, <1>3, <1>4, <2>1, <2>2, d \in Net!Directions
<1>8. ASSUME MaxBytes > 0, NEW d \in Net!Directions
      PROVE  usage'[d] + Sum(Mays(conn', d), Conns) <= MaxBytes + Allowance'
  <2>1. usage[d] + Sum(Mays(conn, d), Conns) <= MaxBytes + Allowance
    BY <1>8 DEF NetInv, MeterInv
  <2>2. MaxBytes \in Nat
    BY DEF NetLimits
  <2>3. CASE usage'[d] + May(r, d) <= usage[d] + May(conn[c], d) + grant
    BY ONLY <1>1, <1>2, <1>3, <1>4, <2>1, <2>2, <2>3, grant \in Nat, Allowance' = Allowance + grant,
            Allowance \in Nat, d \in Net!Directions
  <2>4. CASE usage'[d] <= MaxBytes
    BY ONLY <1>2, <1>4, <1>6, <2>2, <2>4, grant \in Nat, Allowance' = Allowance + grant,
            Allowance \in Nat, d \in Net!Directions
  <2> QED
    BY <1>8, <2>3, <2>4
<1> QED
  BY <1>5, <1>6, <1>7, <1>8 DEF MeterInv, Net!Directions, Usage, Flights, Times, Held, Mays, OpenFor, Holds, May

(* The library's folds, over connections.                                  *)
LEMMA FoldOfFlights ==
    ASSUME NetLimits, NEW d
    PROVE  Net!MapThenSumSet(LAMBDA c : conn[c].flight[d], Conns) = Sum(Flights(conn, d), Conns)
<1> DEFINE f == Flights(conn, d)
           IsFold(g) == g = [s \in SUBSET Conns |->
                                IF s = {} THEN 0 ELSE conn[Pick(s)].flight[d] + g[s \ {Pick(s)}]]
<1>1. IsFiniteSet(Conns)
  BY DEF NetLimits
<1>2. Net!MapThenSumSet(LAMBDA c : conn[c].flight[d], Conns) = (CHOOSE g : IsFold(g))[Conns]
  BY DEF Net!MapThenSumSet, Net!MapThenFoldSet, Pick
<1>3. ASSUME NEW g
      PROVE  IsFold(g) <=> IsSum(f, Conns, g)
  <2>1. \A s \in SUBSET Conns : s # {} => conn[Pick(s)].flight[d] = f[Pick(s)]
    BY PickIn DEF Flights
  <2> HIDE DEF f
  <2>2. [s \in SUBSET Conns |-> IF s = {} THEN 0 ELSE conn[Pick(s)].flight[d] + g[s \ {Pick(s)}]]
        = [s \in SUBSET Conns |-> IF s = {} THEN 0 ELSE f[Pick(s)] + g[s \ {Pick(s)}]]
    BY <2>1
  <2> QED
    BY <2>2 DEF IsSum
<1> HIDE DEF f, IsFold
<1>4. PICK g : IsSum(f, Conns, g)
  BY <1>1, SumExists
<1>5. IsFold(g)
  BY <1>3, <1>4
<1>6. IsFold(CHOOSE h : IsFold(h))
  BY <1>5
<1>7. IsSum(f, Conns, CHOOSE h : IsFold(h))
  BY <1>3, <1>6
<1>8. (CHOOSE h : IsFold(h))[Conns] = Sum(f, Conns)
  BY <1>1, <1>7, SumIs
<1> QED
  BY <1>2, <1>8 DEF f

LEMMA FoldOfTimes ==
    ASSUME NetLimits, PolicyInv
    PROVE  Net!MapThenSumSet(LAMBDA c : conn[c].age, Net!Timed) = Sum(Times(conn), Conns)
<1> DEFINE f == Times(conn)
           T == Net!Timed
           IsFold(g) == g = [s \in SUBSET T |-> IF s = {} THEN 0 ELSE conn[Pick(s)].age + g[s \ {Pick(s)}]]
<1>1. T \in SUBSET Conns /\ IsFiniteSet(Conns)
  BY DEF NetLimits, Net!Timed
<1>0. IsFiniteSet(T)
  BY <1>1, FS_Subset
<1>2. Net!MapThenSumSet(LAMBDA c : conn[c].age, Net!Timed) = (CHOOSE g : IsFold(g))[T]
  BY DEF Net!MapThenSumSet, Net!MapThenFoldSet, Pick
<1>3. ASSUME NEW g
      PROVE  IsFold(g) <=> IsSum(f, T, g)
  <2>1. \A s \in SUBSET T : s # {} => conn[Pick(s)].age = f[Pick(s)]
    <3>1. \A c \in T : conn[c].age = f[c]
      BY DEF Times, OpenFor, Net!Timed
    <3> HIDE DEF T, f
    <3> QED
      BY <3>1, PickIn
  <2> HIDE DEF f, T
  <2>2. [s \in SUBSET T |-> IF s = {} THEN 0 ELSE conn[Pick(s)].age + g[s \ {Pick(s)}]]
        = [s \in SUBSET T |-> IF s = {} THEN 0 ELSE f[Pick(s)] + g[s \ {Pick(s)}]]
    BY <2>1
  <2> QED
    BY <2>2 DEF IsSum
<1>9. \A c \in Conns : f[c] \in Nat /\ (c \notin T => f[c] = 0)
  BY ConnectionIs, WeightsAre DEF Times, OpenFor, Net!Timed
<1> HIDE DEF f, T, IsFold
<1>4. PICK g : IsSum(f, T, g)
  BY <1>0, SumExists
<1>5. IsFold(g)
  BY <1>3, <1>4
<1>6. IsFold(CHOOSE h : IsFold(h))
  BY <1>5
<1>7. IsSum(f, T, CHOOSE h : IsFold(h))
  BY <1>3, <1>6
<1>8. (CHOOSE h : IsFold(h))[T] = Sum(f, T)
  BY <1>0, <1>7, SumIs
<1>10. Sum(f, Conns) = Sum(f, T)
  <2>1. Sum(f, Conns) = Sum(f, T) + Sum(f, Conns \ T)
    BY <1>1, <1>9, SumSplits
  <2>2. Sum(f, Conns \ T) = 0
    <3>1. IsFiniteSet(Conns \ T)
      BY <1>1, FS_Subset
    <3> QED
      BY <1>9, <3>1, SumOfZeros
  <2>3. Sum(f, T) \in Nat
    BY <1>1, <1>9, SumNotNegative
  <2> QED
    BY <2>1, <2>2, <2>3
<1> QED
  BY <1>2, <1>8, <1>10 DEF f, T

LEMMA MeteredIs ==
    ASSUME NetLimits, NetInv
    PROVE  UsageMetered
<1>1. PolicyInv /\ MeterInv /\ conn \in [Conns -> Connection] /\ \A x \in Conns : Sound(conn[x])
  BY DEF NetInv, PolicyInv, ConnsSound
<1>2. Net!BytesAccountedFor
  <2> SUFFICES ASSUME NEW d \in Net!Directions
               PROVE  moved[d] = usage[d] + Net!MapThenSumSet(LAMBDA c : conn[c].flight[d], Conns)
    BY Zenon DEF Net!BytesAccountedFor
  <2>1. moved[d] = usage[d] + Sum(Flights(conn, d), Conns)
    BY <1>1 DEF MeterInv
  <2>2. Net!MapThenSumSet(LAMBDA c : conn[c].flight[d], Conns) = Sum(Flights(conn, d), Conns)
    BY FoldOfFlights
  <2> QED
    BY <2>1, <2>2
<1>3. Net!RuntimeAccountedFor
  BY <1>1, FoldOfTimes DEF MeterInv, Net!RuntimeAccountedFor
<1>4. Net!OvershootBounded
  <2> SUFFICES ASSUME MaxBytes > 0, NEW d \in Net!Directions
               PROVE  moved[d] <= MaxBytes + Allowance
    BY DEF Net!OvershootBounded, Allowance
  <2>1. moved[d] = usage[d] + Sum(Flights(conn, d), Conns) /\ usage[d] + Sum(Mays(conn, d), Conns) <= MaxBytes + Allowance
    BY <1>1 DEF MeterInv
  <2>2. /\ Sum(Flights(conn, d), Conns) \in Nat /\ Sum(Mays(conn, d), Conns) \in Nat
        /\ Sum(Flights(conn, d), Conns) <= Sum(Mays(conn, d), Conns)
    BY <1>1, SumsAre
  <2>3. usage[d] \in Nat /\ usage.requests \in Nat /\ Chunk \in Nat /\ MaxBytes \in Nat
    BY <1>1, UsageIs DEF MeterInv, NetLimits
  <2>4. Allowance \in Nat
    BY <2>3 DEF Allowance
  <2> QED
    BY ONLY <2>1, <2>2, <2>3, <2>4
<1>5. Net!RequestsBounded
  BY <1>1 DEF MeterInv, Net!RequestsBounded
<1> QED
  BY <1>2, <1>3, <1>4, <1>5 DEF UsageMetered, Net!UsageMetered

LEMMA AllowanceIs ==
    ASSUME NetLimits, NetInv
    PROVE  Allowance \in Nat /\ usage.requests \in Nat /\ (UNCHANGED usage => Allowance' = Allowance + 0)
<1>1. usage.requests \in Nat /\ Chunk \in Nat
  BY UsageIs DEF NetInv, MeterInv, NetLimits
<1>2. Allowance \in Nat
  BY <1>1 DEF Allowance
<1>3. UNCHANGED usage => Allowance' = Allowance
  BY DEF Allowance
<1> QED
  BY <1>1, <1>2, <1>3

(* A step that moves nothing and charges nothing.                          *)
LEMMA QuietStep ==
    ASSUME NetLimits, NetInv, PolicyInv', NEW c \in Conns, NEW r \in Connection, Sound(r),
           conn' = [conn EXCEPT ![c] = r], UNCHANGED <<usage, moved, openTime>>,
           OpenFor(r) = OpenFor(conn[c]), Holds(r) <= Holds(conn[c]),
           \A d \in Net!Directions : r.flight[d] = conn[c].flight[d] /\ May(r, d) <= May(conn[c], d)
    PROVE  MeterInv'
<1>1. /\ usage \in Usage /\ moved \in [Net!Directions -> Nat] /\ openTime \in Nat
      /\ MaxRequests > 0 => usage.requests <= MaxRequests
      /\ \A d \in Net!Directions : usage[d] \in Nat
  BY UsageIs DEF NetInv, MeterInv
<1>2. conn[c] \in Connection /\ Sound(conn[c])
  BY ConnectionIs DEF NetInv
<1>3. /\ Holds(r) \in Nat /\ Holds(conn[c]) \in Nat
      /\ \A d \in Net!Directions : May(r, d) \in Nat /\ May(conn[c], d) \in Nat
  BY <1>2, WeightsAre
<1>4. Allowance \in Nat /\ Allowance' = Allowance + 0
  BY AllowanceIs
<1>5. Holds(r) <= Holds(conn[c]) + 0
  BY <1>3
<1>6. \A d \in Net!Directions : usage'[d] + May(r, d) <= usage[d] + May(conn[c], d) + 0
  <2> SUFFICES ASSUME NEW d \in Net!Directions
               PROVE  usage[d] + May(r, d) <= usage[d] + May(conn[c], d) + 0
    OBVIOUS
  <2>1. usage[d] \in Nat /\ May(r, d) \in Nat /\ May(conn[c], d) \in Nat /\ May(r, d) <= May(conn[c], d)
    BY <1>1, <1>3
  <2> QED
    BY ONLY <2>1
<1>7. \A d \in Net!Directions :
         moved'[d] - usage'[d] - r.flight[d] = moved[d] - usage[d] - conn[c].flight[d]
  OBVIOUS
<1>8. openTime' - usage'.runtime - OpenFor(r) = openTime - usage.runtime - OpenFor(conn[c])
  OBVIOUS
<1>9. /\ usage' \in Usage /\ moved' \in [Net!Directions -> Nat] /\ openTime' \in Nat
      /\ MaxRequests > 0 => usage'.requests <= MaxRequests
  BY <1>1
<1> QED
  BY ONLY <1>4, <1>5, <1>6, <1>7, <1>8, <1>9, MeterStep, NetLimits, NetInv, PolicyInv', c \in Conns,
          r \in Connection, Sound(r), conn' = [conn EXCEPT ![c] = r], 0 \in Nat

LEMMA EvaluateMeters ==
    ASSUME NetLimits, NetInv, PolicyInv', NEW c \in Conns, Net!Evaluate(c)
    PROVE  MeterInv'
<1>0. conn[c] \in Connection /\ Sound(conn[c]) /\ conn[c].pc = "evaluating" /\ UNCHANGED <<usage, moved, openTime>>
  BY ConnectionIs DEF Net!Evaluate, NetInv
<1>1. PICK target, r : /\ conn' = [conn EXCEPT ![c] = r]
                       /\ r = IF target = "denied" THEN Net!Idle
                              ELSE [conn[c] EXCEPT !.pc = "dialing", !.ip = target]
  BY DEF Net!Evaluate, Net!SetConn
<1>2. r \in Connection /\ Sound(r)
  <2>1. conn'[c] = r
    BY <1>1 DEF NetInv, PolicyInv, ConnsSound
  <2> QED
    BY <2>1 DEF PolicyInv, ConnsSound, Connection, Sound, Net!Directions, Dests, Ips, Places
<1>3. CASE target = "denied"
  <2>1. /\ r.pc = "none" /\ \A d \in Net!Directions : r.flight[d] = 0 /\ conn[c].flight[d] = 0
    BY <1>0, <1>1, <1>3, IdleIs DEF Sound
  <2>2. /\ OpenFor(r) = OpenFor(conn[c]) /\ Holds(r) <= Holds(conn[c])
        /\ \A d \in Net!Directions : May(r, d) <= May(conn[c], d)
    BY <1>0, <2>1 DEF OpenFor, Holds, May, NetLimits
  <2> QED
    BY <1>0, <1>1, <1>2, <2>1, <2>2, QuietStep
<1>4. CASE target # "denied"
  <2>1. r.pc = "dialing" /\ r.flight = conn[c].flight
    BY <1>0, <1>1, <1>4 DEF Connection
  <2>2. /\ OpenFor(r) = OpenFor(conn[c]) /\ Holds(r) <= Holds(conn[c])
        /\ \A d \in Net!Directions : May(r, d) <= May(conn[c], d)
    BY <1>0, <2>1 DEF OpenFor, Holds, May, NetLimits, Connection
  <2> QED
    BY <1>0, <1>1, <1>2, <2>1, <2>2, QuietStep
<1> QED
  BY <1>3, <1>4

LEMMA ConnectMeters ==
    ASSUME NetLimits, NetInv, PolicyInv', NEW c \in Conns, Net!Connect(c)
    PROVE  MeterInv'
<1>0. conn[c] \in Connection /\ Sound(conn[c]) /\ conn[c].pc = "dialing" /\ UNCHANGED <<usage, moved, openTime>>
  BY ConnectionIs DEF Net!Connect, NetInv
<1>1. PICK ip, r : conn' = [conn EXCEPT ![c] = r] /\ r = [conn[c] EXCEPT !.pc = "open", !.ip = ip, !.under = TRUE]
  BY DEF Net!Connect, Net!SetConn
<1>2. r \in Connection /\ Sound(r)
  <2>1. conn'[c] = r
    BY <1>1 DEF NetInv, PolicyInv, ConnsSound
  <2> QED
    BY <2>1 DEF PolicyInv, ConnsSound, Connection, Sound, Net!Directions, Dests, Ips, Places
<1>3. r.pc = "open" /\ r.flight = conn[c].flight /\ r.age = conn[c].age /\ r.under = TRUE
  BY <1>0, <1>1 DEF Connection
<1>4. conn[c].age = 0
  BY <1>0 DEF Sound
<1>5. /\ OpenFor(r) = OpenFor(conn[c]) /\ Holds(r) <= Holds(conn[c])
      /\ \A d \in Net!Directions : May(r, d) <= May(conn[c], d)
  BY <1>0, <1>3, <1>4 DEF OpenFor, Holds, May, NetLimits, Connection
<1> QED
  BY <1>0, <1>1, <1>2, <1>3, <1>5, QuietStep

LEMMA EndMeters ==
    ASSUME NetLimits, NetInv, PolicyInv', NEW c \in Conns, Net!DialFails(c) \/ Net!Release(c)
    PROVE  MeterInv'
<1>0. /\ conn[c] \in Connection /\ Sound(conn[c]) /\ UNCHANGED <<usage, moved, openTime>>
      /\ conn[c].pc \in {"dialing", "closed"} /\ \A d \in Net!Directions : conn[c].flight[d] = 0
  BY ConnectionIs DEF Net!DialFails, Net!Release, NetInv, Sound
<1>1. conn' = [conn EXCEPT ![c] = Net!Idle]
  BY DEF Net!DialFails, Net!Release, Net!SetConn
<1> DEFINE r == Net!Idle
<1>2. r \in Connection /\ Sound(r) /\ r.pc = "none" /\ \A d \in Net!Directions : r.flight[d] = 0
  BY IdleIs
<1> HIDE DEF r
<1>3. /\ OpenFor(r) = OpenFor(conn[c]) /\ Holds(r) <= Holds(conn[c])
      /\ \A d \in Net!Directions : May(r, d) <= May(conn[c], d)
  BY <1>0, <1>2 DEF OpenFor, Holds, May, NetLimits
<1> QED
  BY <1>0, <1>1, <1>2, <1>3, QuietStep DEF r

LEMMA CloseMeters ==
    ASSUME NetLimits, NetInv, PolicyInv', NEW c \in Conns, Net!Close(c)
    PROVE  MeterInv'
<1>0. conn[c] \in Connection /\ Sound(conn[c]) /\ conn[c].pc = "open" /\ UNCHANGED <<usage, moved, openTime>>
  BY ConnectionIs DEF Net!Close, NetInv
<1> DEFINE r == [conn[c] EXCEPT !.pc = "closing"]
<1>1. r \in Connection /\ Sound(r) /\ conn' = [conn EXCEPT ![c] = r]
  BY <1>0 DEF Connection, Sound, Places, Net!Close, Net!SetConn
<1>2. r.pc = "closing" /\ r.flight = conn[c].flight /\ r.age = conn[c].age
  BY <1>0 DEF Connection
<1> HIDE DEF r
<1>3. /\ OpenFor(r) = OpenFor(conn[c]) /\ Holds(r) <= Holds(conn[c])
      /\ \A d \in Net!Directions : May(r, d) <= May(conn[c], d)
  BY <1>0, <1>2 DEF OpenFor, Holds, May, NetLimits, Connection
<1> QED
  BY <1>0, <1>1, <1>2, <1>3, QuietStep

LEMMA DialMeters ==
    ASSUME NetLimits, NetInv, PolicyInv', NEW c \in Conns, NEW by, NEW dest, Net!Dial(c, by, dest)
    PROVE  MeterInv'
<1>0. /\ conn[c] \in Connection /\ Sound(conn[c]) /\ conn[c].pc = "none" /\ UNCHANGED <<moved, openTime>>
      /\ \A d \in Net!Directions : conn[c].flight[d] = 0
  BY ConnectionIs DEF Net!Dial, NetInv, Sound
<1> DEFINE r == [Net!Idle EXCEPT !.pc = "evaluating", !.by = by, !.dest = dest]
<1>1. conn' = [conn EXCEPT ![c] = r]
  BY DEF Net!Dial, Net!SetConn
<1>2. r \in Connection /\ Sound(r)
  <2> HIDE DEF r
  <2>1. conn'[c] = r
    BY <1>1 DEF NetInv, PolicyInv, ConnsSound
  <2> QED
    BY <2>1 DEF PolicyInv, ConnsSound, Connection, Sound, Net!Directions, Dests, Ips, Places
<1>3. r.pc = "evaluating" /\ \A d \in Net!Directions : r.flight[d] = 0
  BY IdleIs DEF Net!Idle
<1> HIDE DEF r
<1>4. /\ usage \in Usage /\ moved \in [Net!Directions -> Nat] /\ openTime \in Nat
      /\ \A d \in Net!Directions : usage[d] \in Nat
  BY UsageIs DEF NetInv, MeterInv
<1>5. /\ usage' \in Usage /\ usage'.requests = usage.requests + 1 /\ usage'.runtime = usage.runtime
      /\ \A d \in Net!Directions : usage'[d] = usage[d]
      /\ MaxRequests > 0 => usage.requests < MaxRequests
  BY <1>4 DEF Net!Dial, Net!beforeRequest, Usage, Net!Directions
<1>6. usage.requests \in Nat /\ MaxRequests \in Nat /\ Chunk \in Nat
  BY <1>4, UsageIs DEF NetLimits
<1>7. Allowance \in Nat /\ Allowance' = Allowance + Chunk
  <2>1. Chunk * (usage.requests + 1) = Chunk * usage.requests + Chunk /\ Chunk * usage.requests \in Nat
    BY <1>6
  <2> QED
    BY <1>5, <2>1 DEF Allowance
<1>8. /\ Holds(r) = Chunk /\ Holds(conn[c]) = 0 /\ OpenFor(r) = 0 /\ OpenFor(conn[c]) = 0
      /\ \A d \in Net!Directions : May(r, d) = Chunk /\ May(conn[c], d) = 0
  BY <1>0, <1>3 DEF Holds, OpenFor, May
<1>9. MaxRequests > 0 => usage'.requests <= MaxRequests
  BY <1>5, <1>6
<1>10. \A d \in Net!Directions :
          /\ moved'[d] - usage'[d] - r.flight[d] = moved[d] - usage[d] - conn[c].flight[d]
          /\ usage'[d] + May(r, d) <= usage[d] + May(conn[c], d) + Chunk
  <2> SUFFICES ASSUME NEW d \in Net!Directions
               PROVE  /\ moved[d] - usage[d] - 0 = moved[d] - usage[d] - 0
                      /\ usage[d] + Chunk <= usage[d] + 0 + Chunk
    BY <1>0, <1>3, <1>5, <1>8
  <2>1. usage[d] \in Nat
    BY <1>4
  <2> QED
    BY ONLY <2>1, <1>6
<1>11. openTime' - usage'.runtime - OpenFor(r) = openTime - usage.runtime - OpenFor(conn[c])
  BY <1>0, <1>5, <1>8
<1>12. Holds(r) <= Holds(conn[c]) + Chunk
  BY <1>6, <1>8
<1>13. moved' \in [Net!Directions -> Nat] /\ openTime' \in Nat
  BY <1>0, <1>4
<1> QED
  BY ONLY <1>1, <1>2, <1>5, <1>6, <1>7, <1>9, <1>10, <1>11, <1>12, <1>13, MeterStep, NetLimits, NetInv,
          PolicyInv', c \in Conns

LEMMA TransferMeters ==
    ASSUME NetLimits, NetInv, PolicyInv', NEW c \in Conns, NEW d \in Net!Directions, Net!Transfer(c, d)
    PROVE  MeterInv'
<1>0. /\ conn[c] \in Connection /\ Sound(conn[c]) /\ UNCHANGED <<usage, openTime>>
      /\ conn[c].pc = "open" /\ conn[c].under /\ conn[c].flight[d] = 0
  BY ConnectionIs DEF Net!Transfer, NetInv
<1>1. PICK k \in 1..Chunk : /\ conn' = [conn EXCEPT ![c] = [conn[c] EXCEPT !.flight[d] = k]]
                            /\ moved' = [moved EXCEPT ![d] = @ + k]
  BY DEF Net!Transfer, Net!SetConn
<1> DEFINE r == [conn[c] EXCEPT !.flight[d] = k]
<1>2. conn' = [conn EXCEPT ![c] = r]
  BY <1>1
<1>3. r.pc = "open" /\ r.under = conn[c].under /\ r.age = conn[c].age /\ r.flight = [conn[c].flight EXCEPT ![d] = k]
  BY <1>0 DEF Connection
<1> HIDE DEF r
<1>4. r \in Connection /\ Sound(r)
  <2>1. conn'[c] = r
    BY <1>2 DEF NetInv, PolicyInv, ConnsSound
  <2> QED
    BY <2>1 DEF PolicyInv, ConnsSound, Connection, Sound, Net!Directions, Dests, Ips, Places
<1>5. /\ usage \in Usage /\ moved \in [Net!Directions -> Nat] /\ openTime \in Nat
      /\ MaxRequests > 0 => usage.requests <= MaxRequests
      /\ \A e \in Net!Directions : usage[e] \in Nat
  BY UsageIs DEF NetInv, MeterInv
<1>6. k \in Nat /\ k > 0 /\ k <= Chunk /\ Chunk \in Nat
  BY <1>1 DEF NetLimits
<1>7. \A e \in Net!Directions : /\ conn[c].flight[e] \in Nat
                                /\ r.flight[e] = IF e = d THEN k ELSE conn[c].flight[e]
                                /\ moved'[e] = IF e = d THEN moved[e] + k ELSE moved[e]
  BY <1>0, <1>1, <1>3, <1>5 DEF Connection
<1>8. moved' \in [Net!Directions -> Nat]
  BY <1>1, <1>5, <1>6
<1>9. OpenFor(r) = OpenFor(conn[c]) /\ Holds(r) <= Holds(conn[c]) + 0
  BY <1>0, <1>3, <1>6 DEF OpenFor, Holds
<1>10. \A e \in Net!Directions : /\ May(r, e) \in Nat /\ May(conn[c], e) \in Nat
                                 /\ May(r, e) <= May(conn[c], e)
  BY <1>0, <1>3, <1>6, <1>7 DEF May
<1>11. \A e \in Net!Directions :
          /\ moved'[e] - usage'[e] - r.flight[e] = moved[e] - usage[e] - conn[c].flight[e]
          /\ usage'[e] + May(r, e) <= usage[e] + May(conn[c], e) + 0
  <2> SUFFICES ASSUME NEW e \in Net!Directions
               PROVE  /\ moved'[e] - usage[e] - r.flight[e] = moved[e] - usage[e] - conn[c].flight[e]
                      /\ usage[e] + May(r, e) <= usage[e] + May(conn[c], e) + 0
    BY <1>0
  <2>1. usage[e] \in Nat /\ moved[e] \in Nat /\ conn[c].flight[e] \in Nat
    BY <1>5, <1>7
  <2>2. CASE e = d
    BY ONLY <1>0, <1>6, <1>7, <1>10, <2>1, <2>2, e \in Net!Directions
  <2>3. CASE e # d
    BY ONLY <1>7, <1>10, <2>1, <2>3, e \in Net!Directions
  <2> QED
    BY <2>2, <2>3
<1>12. Allowance \in Nat /\ Allowance' = Allowance + 0
  BY <1>0, AllowanceIs
<1>13. openTime' - usage'.runtime - OpenFor(r) = openTime - usage.runtime - OpenFor(conn[c])
  BY <1>0, <1>9
<1>14. /\ usage' \in Usage /\ openTime' \in Nat /\ 0 \in Nat
       /\ MaxRequests > 0 => usage'.requests <= MaxRequests
  BY <1>0, <1>5
<1> QED
  BY ONLY <1>2, <1>4, <1>8, <1>9, <1>11, <1>12, <1>13, <1>14, MeterStep, NetLimits, NetInv,
          PolicyInv', c \in Conns

LEMMA AccountMeters ==
    ASSUME NetLimits, NetInv, PolicyInv', NEW c \in Conns, NEW d \in Net!Directions, Net!Account(c, d)
    PROVE  MeterInv'
<1> DEFINE total == usage[d] + conn[c].flight[d]
           over  == MaxBytes > 0 /\ total > MaxBytes
           r     == [conn[c] EXCEPT !.flight[d] = 0, !.under = @ /\ ~over]
<1>0. /\ conn[c] \in Connection /\ Sound(conn[c]) /\ UNCHANGED <<moved, openTime>>
      /\ conn[c].flight[d] > 0
  BY ConnectionIs DEF Net!Account, NetInv
<1>1. conn' = [conn EXCEPT ![c] = r] /\ usage' = [usage EXCEPT ![d] = total]
  BY DEF Net!Account, Net!SetConn
<1>3. /\ r.pc = conn[c].pc /\ r.under = (conn[c].under /\ ~over) /\ r.age = conn[c].age
      /\ r.flight = [conn[c].flight EXCEPT ![d] = 0]
  BY <1>0 DEF Connection
<1> HIDE DEF r
<1>4. r \in Connection /\ Sound(r)
  <2>1. conn'[c] = r
    BY <1>1 DEF NetInv, PolicyInv, ConnsSound
  <2> QED
    BY <2>1 DEF PolicyInv, ConnsSound, Connection, Sound, Net!Directions, Dests, Ips, Places
<1>5. /\ usage \in Usage /\ moved \in [Net!Directions -> Nat] /\ openTime \in Nat
      /\ MaxRequests > 0 => usage.requests <= MaxRequests
      /\ \A e \in Net!Directions : usage[e] \in Nat
      /\ MaxBytes \in Nat /\ Chunk \in Nat
  BY UsageIs DEF NetInv, MeterInv, NetLimits
<1>7. \A e \in Net!Directions : /\ conn[c].flight[e] \in Nat
                                /\ r.flight[e] = IF e = d THEN 0 ELSE conn[c].flight[e]
  BY <1>0, <1>3 DEF Connection
<1>8. total \in Nat
  BY <1>5, <1>7
<1>2. /\ usage' \in Usage /\ usage'.requests = usage.requests /\ usage'.runtime = usage.runtime
      /\ \A e \in Net!Directions : usage'[e] = IF e = d THEN total ELSE usage[e]
  <2>1. usage' = [usage EXCEPT ![d] = total] /\ total \in Nat /\ usage \in Usage
    BY <1>1, <1>5, <1>8
  <2> HIDE DEF total
  <2>2. CASE d = "sent"
    BY ONLY <2>1, <2>2 DEF Usage, Net!Directions
  <2>3. CASE d = "received"
    BY ONLY <2>1, <2>3 DEF Usage, Net!Directions
  <2> QED
    BY <2>2, <2>3 DEF Net!Directions
<1>9. OpenFor(r) = OpenFor(conn[c]) /\ Holds(r) <= Holds(conn[c]) + 0
  BY <1>3, <1>5 DEF OpenFor, Holds
<1>6. conn[c].pc \notin {"none", "evaluating", "dialing"}
  BY <1>0, <1>7 DEF Sound
<1>10. \A e \in Net!Directions : /\ May(r, e) \in Nat /\ May(conn[c], e) \in Nat
                                 /\ e # d => May(r, e) <= May(conn[c], e)
                                 /\ over => May(r, d) = 0 /\ May(conn[c], d) = conn[c].flight[d]
  <2> SUFFICES ASSUME NEW e \in Net!Directions
               PROVE  /\ May(r, e) \in Nat /\ May(conn[c], e) \in Nat
                      /\ e # d => May(r, e) <= May(conn[c], e)
                      /\ over => May(r, d) = 0 /\ May(conn[c], d) = conn[c].flight[d]
    OBVIOUS
  <2>1. May(r, e) \in Nat /\ May(conn[c], e) \in Nat
    BY <1>5, <1>7 DEF May
  <2>2. e # d => May(r, e) <= May(conn[c], e)
    <3>1. (r.under => conn[c].under) /\ r.pc = conn[c].pc
      BY <1>3, Zenon
    <3>2. e # d => r.flight[e] = conn[c].flight[e]
      BY <1>7
    <3> QED
      BY ONLY <1>5, <1>7, <2>1, <3>1, <3>2, e \in Net!Directions DEF May
  <2>3. over => May(r, d) = 0 /\ May(conn[c], d) = conn[c].flight[d]
    <3> HIDE DEF over
    <3> QED
      BY <1>0, <1>3, <1>6, <1>7 DEF May
  <2> QED
    BY <2>1, <2>2, <2>3
<1>11. \A e \in Net!Directions :
          /\ moved'[e] - usage'[e] - r.flight[e] = moved[e] - usage[e] - conn[c].flight[e]
          /\ \/ usage'[e] + May(r, e) <= usage[e] + May(conn[c], e) + 0
             \/ MaxBytes > 0 => usage'[e] <= MaxBytes
  <2> SUFFICES ASSUME NEW e \in Net!Directions
               PROVE  /\ moved[e] - usage'[e] - r.flight[e] = moved[e] - usage[e] - conn[c].flight[e]
                      /\ \/ usage'[e] + May(r, e) <= usage[e] + May(conn[c], e) + 0
                         \/ MaxBytes > 0 => usage'[e] <= MaxBytes
    BY <1>0
  <2>1. /\ usage[e] \in Nat /\ moved[e] \in Nat /\ conn[c].flight[e] \in Nat
        /\ May(r, e) \in Nat /\ May(conn[c], e) \in Nat
    BY <1>5, <1>7, <1>10
  <2>2. CASE e = d
    <3>1. usage'[e] = usage[e] + conn[c].flight[e] /\ r.flight[e] = 0
      BY <1>2, <1>7, <2>2
    <3>2. moved[e] - usage'[e] - r.flight[e] = moved[e] - usage[e] - conn[c].flight[e]
      BY ONLY <2>1, <3>1
    <3>3. CASE over
      <4>1. May(r, e) = 0 /\ May(conn[c], e) = conn[c].flight[e]
        BY <1>10, <2>2, <3>3
      <4> QED
        BY ONLY <2>1, <3>1, <3>2, <4>1
    <3>4. CASE ~over
      BY <1>5, <2>1, <2>2, <3>1, <3>2, <3>4
    <3> QED
      BY <3>3, <3>4
  <2>3. CASE e # d
    <3>1. usage'[e] = usage[e] /\ r.flight[e] = conn[c].flight[e] /\ May(r, e) <= May(conn[c], e)
      BY <1>2, <1>7, <1>10, <2>3
    <3> QED
      BY ONLY <2>1, <3>1
  <2> QED
    BY <2>2, <2>3
<1>12. Allowance \in Nat /\ Allowance' = Allowance + 0
  <2>1. Allowance \in Nat /\ Allowance' = Allowance
    BY <1>2, AllowanceIs DEF Allowance
  <2> QED
    BY ONLY <2>1
<1>13. openTime' - usage'.runtime - OpenFor(r) = openTime - usage.runtime - OpenFor(conn[c])
  BY <1>0, <1>2, <1>9
<1>14. /\ usage' \in Usage /\ moved' \in [Net!Directions -> Nat] /\ openTime' \in Nat /\ 0 \in Nat
       /\ MaxRequests > 0 => usage'.requests <= MaxRequests
  BY <1>0, <1>2, <1>5
<1> QED
  BY ONLY <1>1, <1>4, <1>9, <1>11, <1>12, <1>13, <1>14, MeterStep, NetLimits, NetInv,
          PolicyInv', c \in Conns

LEMMA ChargeMeters ==
    ASSUME NetLimits, NetInv, PolicyInv', NEW c \in Conns, Net!Charge(c)
    PROVE  MeterInv'
<1> DEFINE r == [conn[c] EXCEPT !.pc = "closed", !.under = FALSE]
<1>0. /\ conn[c] \in Connection /\ Sound(conn[c]) /\ UNCHANGED <<moved, openTime>> /\ conn[c].pc = "closing"
  BY ConnectionIs DEF Net!Charge, NetInv
<1>1. conn' = [conn EXCEPT ![c] = r] /\ usage' = [usage EXCEPT !.runtime = @ + conn[c].age]
  BY DEF Net!Charge, Net!SetConn
<1>2. r.pc = "closed" /\ r.flight = conn[c].flight /\ conn[c].age \in Nat
  BY <1>0 DEF Connection
<1> HIDE DEF r
<1>3. r \in Connection /\ Sound(r)
  <2>1. conn'[c] = r
    BY <1>1 DEF NetInv, PolicyInv, ConnsSound
  <2> QED
    BY <2>1 DEF PolicyInv, ConnsSound, Connection, Sound, Net!Directions, Dests, Ips, Places
<1>4. /\ usage \in Usage /\ moved \in [Net!Directions -> Nat] /\ openTime \in Nat /\ Chunk \in Nat
      /\ MaxRequests > 0 => usage.requests <= MaxRequests
      /\ usage.runtime \in Nat /\ \A e \in Net!Directions : usage[e] \in Nat
  BY UsageIs DEF NetInv, MeterInv, NetLimits
<1>5. /\ usage' \in Usage /\ usage'.requests = usage.requests /\ usage'.runtime = usage.runtime + conn[c].age
      /\ \A e \in Net!Directions : usage'[e] = usage[e]
  BY <1>1, <1>2, <1>4 DEF Usage, Net!Directions
<1>6. /\ OpenFor(r) = 0 /\ OpenFor(conn[c]) = conn[c].age /\ Holds(r) <= Holds(conn[c]) + 0
      /\ \A e \in Net!Directions : /\ May(r, e) \in Nat /\ May(conn[c], e) \in Nat
                                   /\ May(r, e) <= May(conn[c], e)
  BY <1>0, <1>2, <1>4 DEF OpenFor, Holds, May, Connection
<1>7. \A e \in Net!Directions :
          /\ moved'[e] - usage'[e] - r.flight[e] = moved[e] - usage[e] - conn[c].flight[e]
          /\ usage'[e] + May(r, e) <= usage[e] + May(conn[c], e) + 0
  <2> SUFFICES ASSUME NEW e \in Net!Directions
               PROVE  usage[e] + May(r, e) <= usage[e] + May(conn[c], e) + 0
    BY <1>0, <1>2, <1>5
  <2>1. /\ usage[e] \in Nat /\ May(r, e) \in Nat /\ May(conn[c], e) \in Nat /\ May(r, e) <= May(conn[c], e)
    BY <1>4, <1>6
  <2> QED
    BY ONLY <2>1
<1>8. openTime' - usage'.runtime - OpenFor(r) = openTime - usage.runtime - OpenFor(conn[c])
  BY ONLY <1>0, <1>2, <1>4, <1>5, <1>6
<1>9. Allowance \in Nat /\ Allowance' = Allowance + 0
  <2>1. Allowance \in Nat /\ Allowance' = Allowance
    BY <1>5, AllowanceIs DEF Allowance
  <2> QED
    BY ONLY <2>1
<1>10. /\ usage' \in Usage /\ moved' \in [Net!Directions -> Nat] /\ openTime' \in Nat /\ 0 \in Nat
       /\ MaxRequests > 0 => usage'.requests <= MaxRequests
  BY <1>0, <1>4, <1>5
<1> QED
  BY ONLY <1>1, <1>3, <1>6, <1>7, <1>8, <1>9, <1>10, MeterStep, NetLimits, NetInv, PolicyInv', c \in Conns

LEMMA TickMeters ==
    ASSUME NetLimits, NetInv, PolicyInv', Net!Tick
    PROVE  MeterInv'
<1>1. /\ conn \in [Conns -> Connection] /\ \A x \in Conns : Sound(conn[x])
      /\ conn' \in [Conns -> Connection] /\ UNCHANGED <<usage, moved>> /\ IsFiniteSet(Conns)
      /\ openTime' = openTime + Net!Cardinality(Net!Timed) /\ Net!Timed \in SUBSET Conns
  BY DEF NetInv, PolicyInv, ConnsSound, Net!Tick, Net!Timed, NetLimits, Connection, Sound, Net!Directions,
         Dests, Ips, Places
<1>2. ASSUME NEW x \in Conns
      PROVE  /\ conn'[x].pc = conn[x].pc /\ conn'[x].flight = conn[x].flight /\ conn'[x].under = conn[x].under
             /\ conn'[x].age = IF x \in Net!Timed THEN conn[x].age + 1 ELSE conn[x].age
             /\ conn[x].age \in Nat
  <2>1. /\ conn'[x] = IF x \in Net!Timed THEN [conn[x] EXCEPT !.age = @ + 1] ELSE conn[x]
        /\ conn[x] \in Connection
    BY <1>1 DEF Net!Tick
  <2> QED
    BY <2>1 DEF Connection
<1>3. Times(conn') = [x \in Conns |-> OpenFor(conn'[x])] /\ \A x \in Conns :
         /\ Times(conn)[x] \in Int
         /\ Times(conn')[x] = IF x \in Net!Timed THEN Times(conn)[x] + 1 ELSE Times(conn)[x]
  BY <1>2 DEF Times, OpenFor, Net!Timed
<1>4. Sum(Times(conn'), Conns) = Sum(Times(conn), Conns) + Cardinality(Net!Timed)
  BY ONLY <1>1, <1>3, SumCounts
<1>5. Net!Cardinality(Net!Timed) = Cardinality(Net!Timed) /\ Cardinality(Net!Timed) \in Nat
  <2>1. Net!Cardinality(Net!Timed) = Cardinality(Net!Timed)
    BY Zenon DEF Net!Cardinality, Cardinality, Net!IsFiniteSet, IsFiniteSet
  <2> QED
    BY <1>1, <2>1, FS_Subset, FS_CardinalityType
<1>6. Held(conn') = Held(conn) /\ \A d \in Net!Directions : Flights(conn', d) = Flights(conn, d) /\ Mays(conn', d) = Mays(conn, d)
  <2>1. Held(conn') = Held(conn)
    BY <1>2 DEF Held, Holds
  <2>2. ASSUME NEW d \in Net!Directions
        PROVE  Flights(conn', d) = Flights(conn, d) /\ Mays(conn', d) = Mays(conn, d)
    BY <1>2 DEF Flights, Mays, May
  <2> QED
    BY <2>1, <2>2
<1>7. openTime = usage.runtime + Sum(Times(conn), Conns) /\ openTime \in Nat /\ usage.runtime \in Nat
      /\ Sum(Times(conn), Conns) \in Nat
  BY <1>1, UsageIs, SumsAre DEF NetInv, MeterInv
<1>8. openTime' \in Nat /\ openTime' = usage'.runtime + Sum(Times(conn'), Conns)
  BY ONLY <1>1, <1>4, <1>5, <1>7
<1>9. Sum(Held(conn'), Conns) <= Allowance'
  BY <1>1, <1>6 DEF NetInv, MeterInv, Allowance
<1>10. \A d \in Net!Directions :
          /\ moved'[d] = usage'[d] + Sum(Flights(conn', d), Conns)
          /\ MaxBytes > 0 => usage'[d] + Sum(Mays(conn', d), Conns) <= MaxBytes + Allowance'
  BY <1>1, <1>6 DEF NetInv, MeterInv, Allowance
<1>11. usage' \in Usage /\ moved' \in [Net!Directions -> Nat] /\ (MaxRequests > 0 => usage'.requests <= MaxRequests)
  BY <1>1 DEF NetInv, MeterInv
<1> QED
  BY <1>8, <1>9, <1>10, <1>11
     DEF MeterInv, Net!Directions, Usage, Flights, Times, Held, Mays, OpenFor, Holds, May

(* All connections idle, and the meter where the usage is.                 *)
LEMMA FreshMeters ==
    ASSUME NetLimits, NEW u \in Usage, MaxRequests > 0 => u.requests <= MaxRequests,
           NEW cn, cn = [c \in Conns |-> Net!Idle]
    PROVE  /\ Sum(Times(cn), Conns) = 0 /\ Sum(Held(cn), Conns) = 0
           /\ \A d \in Net!Directions : Sum(Flights(cn, d), Conns) = 0 /\ Sum(Mays(cn, d), Conns) = 0
<1>1. IsFiniteSet(Conns)
  BY DEF NetLimits
<1>2. \A c \in Conns : /\ cn[c].pc = "none" /\ \A d \in Net!Directions : cn[c].flight[d] = 0
  BY IdleIs
<1>3. Sum(Times(cn), Conns) = 0
  <2>1. \A c \in Conns : Times(cn)[c] = 0
    BY <1>2 DEF Times, OpenFor
  <2> QED
    BY ONLY <1>1, <2>1, SumOfZeros
<1>4. Sum(Held(cn), Conns) = 0
  <2>1. \A c \in Conns : Held(cn)[c] = 0
    BY <1>2 DEF Held, Holds
  <2> QED
    BY ONLY <1>1, <2>1, SumOfZeros
<1>5. ASSUME NEW d \in Net!Directions
      PROVE  Sum(Flights(cn, d), Conns) = 0 /\ Sum(Mays(cn, d), Conns) = 0
  <2>1. \A c \in Conns : Flights(cn, d)[c] = 0 /\ Mays(cn, d)[c] = 0
    BY <1>2 DEF Flights, Mays, May
  <2> QED
    BY ONLY <1>1, <2>1, SumOfZeros
<1> QED
  BY <1>3, <1>4, <1>5

LEMMA NextShellMeters ==
    ASSUME NetLimits, NetInv, Net!NextShell
    PROVE  MeterInv'
<1>1. /\ usage' = usage /\ conn' = [c \in Conns |-> Net!Idle] /\ moved' = [d \in Net!Directions |-> usage[d]]
      /\ openTime' = usage.runtime
  BY DEF Net!NextShell, Net!Carried
<1>2. /\ usage \in Usage /\ usage.runtime \in Nat /\ \A d \in Net!Directions : usage[d] \in Nat
      /\ MaxRequests > 0 => usage.requests <= MaxRequests
  BY UsageIs DEF NetInv, MeterInv
<1>3. /\ Sum(Times(conn'), Conns) = 0 /\ Sum(Held(conn'), Conns) = 0
      /\ \A d \in Net!Directions : Sum(Flights(conn', d), Conns) = 0 /\ Sum(Mays(conn', d), Conns) = 0
  BY ONLY <1>1, <1>2, FreshMeters, NetLimits
<1>4. Allowance \in Nat /\ Allowance' = Allowance /\ MaxBytes \in Nat
  BY <1>1, AllowanceIs DEF Allowance, NetLimits
<1>5. moved' \in [Net!Directions -> Nat] /\ openTime' \in Nat /\ usage' \in Usage
  BY <1>1, <1>2
<1>6. openTime' = usage'.runtime + Sum(Times(conn'), Conns) /\ Sum(Held(conn'), Conns) <= Allowance'
  BY ONLY <1>1, <1>2, <1>3, <1>4
<1>7. MaxBytes > 0 => \A d \in Net!Directions : usage[d] + Sum(Mays(conn, d), Conns) <= MaxBytes + Allowance
  BY DEF NetInv, MeterInv
<1>8. ASSUME NEW d \in Net!Directions
      PROVE  /\ moved'[d] = usage'[d] + Sum(Flights(conn', d), Conns)
             /\ MaxBytes > 0 => usage'[d] + Sum(Mays(conn', d), Conns) <= MaxBytes + Allowance'
  <2>1. Sum(Mays(conn, d), Conns) \in Nat
    BY SumsAre DEF NetInv, PolicyInv, ConnsSound
  <2>2. moved'[d] = usage[d]
    BY <1>1
  <2> QED
    BY ONLY <1>1, <1>2, <1>3, <1>4, <1>7, <2>1, <2>2, d \in Net!Directions
<1> QED
  BY <1>1, <1>2, <1>5, <1>6, <1>8
     DEF MeterInv, Net!Directions, Usage, Flights, Times, Held, Mays, OpenFor, Holds, May

LEMMA NetKeeps ==
    ASSUME NetLimits, NetInv, [Net!Next]_netVars
    PROVE  NetInv'
<1>0. PolicyInv'
  BY PolicyKeeps DEF NetInv
<1>1. ASSUME NEW c \in Conns, Net!Nc(c) \/ Net!Scan(c) \/ Net!Curl(c)
      PROVE  MeterInv'
  BY <1>0, <1>1, DialMeters DEF Net!Nc, Net!Scan, Net!Curl
<1>2. ASSUME NEW c \in Conns, NEW d \in Net!Directions, Net!Transfer(c, d) \/ Net!Account(c, d)
      PROVE  MeterInv'
  BY <1>0, <1>2, TransferMeters, AccountMeters
<1>3. ASSUME NEW c \in Conns,
             \/ Net!Evaluate(c) \/ Net!DialFails(c) \/ Net!Connect(c)
             \/ Net!Close(c) \/ Net!Charge(c) \/ Net!Release(c)
      PROVE  MeterInv'
  BY <1>0, <1>3, EvaluateMeters, ConnectMeters, EndMeters, CloseMeters, ChargeMeters
<1>4. ASSUME UNCHANGED netVars
      PROVE  MeterInv'
  <2>1. conn' = conn /\ usage' = usage /\ moved' = moved /\ openTime' = openTime
    BY <1>4 DEF netVars
  <2>2. /\ usage' \in Usage /\ moved' \in [Net!Directions -> Nat] /\ openTime' \in Nat
        /\ \A d \in Net!Directions : moved'[d] = usage'[d] + Sum(Flights(conn', d), Conns)
        /\ openTime' = usage'.runtime + Sum(Times(conn'), Conns)
        /\ Sum(Held(conn'), Conns) <= Chunk * usage'.requests
        /\ MaxBytes > 0 => \A d \in Net!Directions :
              usage'[d] + Sum(Mays(conn', d), Conns) <= MaxBytes + Chunk * usage'.requests
        /\ MaxRequests > 0 => usage'.requests <= MaxRequests
    BY <2>1 DEF NetInv, MeterInv, Allowance
  <2> QED
    BY <2>2 DEF MeterInv, Allowance, Net!Directions, Usage, Flights, Times, Held, Mays, OpenFor, Holds, May
<1>5. ASSUME Net!Next
      PROVE  MeterInv'
  BY <1>0, <1>1, <1>2, <1>3, <1>5, TickMeters, NextShellMeters DEF Net!Next
<1>6. MeterInv'
  BY <1>4, <1>5
<1> QED
  BY <1>0, <1>6 DEF NetInv

(* However many connections share a meter and however their steps          *)
(* interleave, it knows of every byte and of all the time they were open,  *)
(* lets no more requests start than allowed, and lets the bytes exceed     *)
(* their limit by no more than one transfer for each request (Meter,       *)
(* meteredConn, pkg/network).                                              *)
THEOREM MeterHolds == ASSUME NetLimits PROVE WorkspaceSpec => []UsageMetered
<1>1. WorkspaceInit => NetInv
  <2> SUFFICES ASSUME Net!Init
               PROVE  NetInv
    BY DEF WorkspaceInit
  <2>1. conn = [c \in Conns |-> Net!Idle]
    BY DEF Net!Init
  <2>2. PolicyInv
    BY <2>1, IdleIs DEF PolicyInv, ConnsSound, WithinPolicy
  <2>3. /\ usage \in Usage /\ usage.requests = 0 /\ usage.runtime = 0 /\ \A d \in Net!Directions : usage[d] = 0
        /\ moved \in [Net!Directions -> Nat] /\ \A d \in Net!Directions : moved[d] = 0
        /\ openTime = 0
    BY DEF Net!Init, Usage, Net!Directions
  <2>4. MaxRequests \in Nat /\ MaxBytes \in Nat /\ Chunk \in Nat
    BY DEF NetLimits
  <2>5. MaxRequests > 0 => usage.requests <= MaxRequests
    BY <2>3, <2>4
  <2>6. /\ Sum(Times(conn), Conns) = 0 /\ Sum(Held(conn), Conns) = 0
        /\ \A d \in Net!Directions : Sum(Flights(conn, d), Conns) = 0 /\ Sum(Mays(conn, d), Conns) = 0
    BY ONLY <2>1, <2>3, <2>5, FreshMeters, NetLimits
  <2>7. Allowance = 0
    BY <2>3, <2>4 DEF Allowance
  <2>8. /\ openTime \in Nat /\ openTime = usage.runtime + Sum(Times(conn), Conns)
        /\ Sum(Held(conn), Conns) <= Allowance
    BY ONLY <2>3, <2>6, <2>7
  <2>9. ASSUME NEW d \in Net!Directions
        PROVE  /\ moved[d] = usage[d] + Sum(Flights(conn, d), Conns)
               /\ usage[d] + Sum(Mays(conn, d), Conns) <= MaxBytes + Allowance
    BY ONLY <2>3, <2>4, <2>6, <2>7, d \in Net!Directions
  <2>10. MeterInv
    BY <2>3, <2>5, <2>8, <2>9 DEF MeterInv
  <2> QED
    BY <2>2, <2>10 DEF NetInv
<1>2. NetInv /\ [WorkspaceNext]_AllVars => NetInv'
  BY StepOfPart, NetKeeps
<1>3. NetInv => UsageMetered
  BY MeteredIs
<1> QED
  BY <1>1, <1>2, <1>3, PTL DEF WorkspaceSpec, AllVars

-----------------------------------------------------------------------------
(* The session on terminals.  As long as its processes come one after the  *)
(* other and each saves, one at most is on: it has used the time that all  *)
(* of them took together, which it goes on from and leaves to the next;    *)
(* once there is a record, the rc file counts as loaded, and if that has   *)
(* too many files, they are still the ones a process began with.           *)

LocalLimits == MaxRuntime \in Nat /\ \A held, used, rc : NoRecord # [fs |-> held, used |-> used, rc |-> rc]

Everyone == Terminals \cup Pipes
ShellsOn       == {p \in Everyone : proc[p].step # "off"}

IsRecord(r) ==
    /\ r = [fs |-> r.fs, used |-> r.used, rc |-> TRUE]
    /\ r.used \in 0..MaxRuntime /\ AliasesFile \in r.fs
IsShell(w) ==
    w \in [step : {"off", "running", "saving"}, mode : {w.mode}, fs : {w.fs}, used : 0..MaxRuntime,
           rc : {w.rc}, pending : {w.pending}]
LocalTypes ==
    /\ proc = [p \in Everyone |-> proc[p]] /\ \A p \in Everyone : IsShell(proc[p])
    /\ record # NoRecord => IsRecord(record)
    /\ record # NoRecord \/ ShellsOn # {} => starts > 0
    /\ starts \in Nat /\ rcs \in Nat /\ spent \in Nat /\ parted \in BOOLEAN
TooMany   == record # NoRecord /\ ~Local!ValidateFS(record.fs)
OneByOne ==
    /\ \A p, o \in ShellsOn : p = o
    /\ ShellsOn = {} => spent = IF record = NoRecord THEN 0 ELSE record.used
    /\ ShellsOn = {} /\ record = NoRecord => rcs = 0
    /\ \A p \in ShellsOn : spent = proc[p].used /\ (TooMany => proc[p].fs = record.fs)
    /\ rcs <= 1
LocalInv == LocalTypes /\ (~parted => OneByOne)

LEMMA LocalBegins == ASSUME LocalLimits, Local!Init PROVE LocalInv
<1>1. proc = [p \in Everyone |-> Local!Off] /\ record = NoRecord /\ starts = 0 /\ rcs = 0 /\ spent = 0 /\ parted = FALSE
  BY DEF Local!Init, Everyone
<1>2. IsShell(Local!Off) /\ Local!Off.step = "off"
  BY DEF Local!Off, IsShell, LocalLimits
<1>3. (\A p \in Everyone : proc[p] = Local!Off) /\ ShellsOn = {}
  BY <1>1, <1>2 DEF ShellsOn
<1>4. proc = [p \in Everyone |-> proc[p]]
  BY <1>1
<1>5. LocalTypes
  BY <1>1, <1>2, <1>3, <1>4 DEF LocalTypes
<1> QED
  BY <1>1, <1>3, <1>5 DEF LocalInv, OneByOne

(* The fields that the end of a process changes, and the others.           *)
LEMMA EndLeaves ==
    ASSUME NEW r, IsShell(r), NEW step \in {"running", "saving"},
           NEW w, w = [r EXCEPT !.step = step, !.pending = <<>>]
    PROVE  IsShell(w) /\ w.step = step /\ w.used = r.used /\ w.fs = r.fs
<1>1. r \in [step : {"off", "running", "saving"}, mode : {r.mode}, fs : {r.fs}, used : 0..MaxRuntime,
             rc : {r.rc}, pending : {r.pending}]
  BY DEF IsShell
<1>2. /\ w \in [step : {"off", "running", "saving"}, mode : {r.mode}, fs : {r.fs}, used : 0..MaxRuntime,
                rc : {r.rc}, pending : {<<>>}]
      /\ w.step = step /\ w.used = r.used /\ w.fs = r.fs
  BY <1>1
<1>3. w.mode = r.mode /\ w.rc = r.rc /\ w.pending = <<>>
  BY <1>2
<1> QED
  BY <1>2, <1>3 DEF IsShell

(* One process takes a step: the others are where they were.               *)
LEMMA ShellChanged ==
    ASSUME LocalTypes, NEW p \in Everyone, NEW w, IsShell(w), proc' = [proc EXCEPT ![p] = w]
    PROVE  /\ proc' = [o \in Everyone |-> proc'[o]] /\ \A o \in Everyone : IsShell(proc'[o])
           /\ proc'[p] = w /\ \A o \in Everyone \ {p} : proc'[o] = proc[o]
           /\ ShellsOn' = IF w.step = "off" THEN ShellsOn \ {p} ELSE ShellsOn \cup {p}
<1>1. proc = [o \in Everyone |-> proc[o]] /\ \A o \in Everyone : IsShell(proc[o])
  BY DEF LocalTypes
<1>2. DOMAIN proc = Everyone
  BY <1>1
<1>3. proc' = [o \in Everyone |-> proc'[o]] /\ proc'[p] = w /\ \A o \in Everyone \ {p} : proc'[o] = proc[o]
  BY <1>2
<1> QED
  BY <1>1, <1>3 DEF ShellsOn

LEMMA StartGoesOn ==
    ASSUME LocalLimits, LocalInv, NEW p \in Everyone, NEW mode, Local!Start(p, mode)
    PROVE  LocalInv'
<1> DEFINE load == Local!LoadShellSession
           w == [step |-> "running", mode |-> mode, fs |-> load.fs, used |-> load.used,
                 rc |-> Local!loadsRc(mode), pending |-> <<>>]
<1>1. /\ record = NoRecord => load.used = 0
      /\ record # NoRecord => load = record /\ record.rc = TRUE /\ load.used \in 0..MaxRuntime
  BY DEF Local!LoadShellSession, LocalInv, LocalTypes, IsRecord
<1>2. load.used \in 0..MaxRuntime /\ (record # NoRecord => ~Local!loadsRc(mode))
  BY <1>1 DEF LocalLimits, Local!loadsRc
<1>3. /\ proc[p].step = "off" /\ proc' = [proc EXCEPT ![p] = w]
      /\ rcs' = (IF Local!loadsRc(mode) THEN rcs + 1 ELSE rcs) /\ starts' = starts + 1
      /\ parted' = (parted \/ \E o \in Everyone \ {p} : proc[o].step # "off")
      /\ UNCHANGED <<record, spent>>
  BY DEF Local!Start, Everyone
<1> HIDE DEF load
<1>4. IsShell(w) /\ w.step = "running" /\ w.used = load.used /\ w.fs = load.fs
  BY <1>2 DEF IsShell
<1> HIDE DEF w
<1>5. /\ proc' = [o \in Everyone |-> proc'[o]] /\ \A o \in Everyone : IsShell(proc'[o])
      /\ proc'[p] = w /\ ShellsOn' = ShellsOn \cup {p}
  BY <1>3, <1>4, ShellChanged DEF LocalInv
<1>6. LocalTypes'
  <2>1. parted' \in BOOLEAN /\ starts' \in Nat /\ starts' > 0 /\ rcs' \in Nat
    BY <1>3 DEF LocalInv, LocalTypes
  <2> QED
    BY <1>3, <1>5, <2>1 DEF LocalInv, LocalTypes, IsShell, IsRecord
<1>7. ASSUME ~parted' PROVE OneByOne'
  <2>1. OneByOne /\ ShellsOn = {}
    BY <1>3, <1>7 DEF LocalInv, ShellsOn
  <2>2. ShellsOn' = {p} /\ proc'[p] = w
    BY <1>5, <2>1
  <2>3. spent' = w.used
    BY <1>1, <1>3, <1>4, <2>1 DEF OneByOne
  <2>4. TooMany' => w.fs = record'.fs
    BY <1>1, <1>3, <1>4 DEF TooMany
  <2>5. rcs' <= 1
    BY <1>2, <1>3, <2>1 DEF OneByOne
  <2> QED
    BY <2>2, <2>3, <2>4, <2>5 DEF OneByOne
<1> QED
  BY <1>6, <1>7 DEF LocalInv

(* A process that stays on.                                                *)
LEMMA WorksOn ==
    ASSUME LocalInv, NEW p \in ShellsOn, NEW w, IsShell(w), w.step # "off", proc' = [proc EXCEPT ![p] = w],
           w.used >= proc[p].used, spent' = spent + w.used - proc[p].used,
           ~parted /\ TooMany => w.fs = proc[p].fs,
           UNCHANGED <<record, starts, rcs, parted>>
    PROVE  LocalInv'
<1>1. p \in Everyone /\ IsShell(proc[p])
  BY DEF LocalInv, LocalTypes, ShellsOn
<1>2. /\ proc' = [o \in Everyone |-> proc'[o]] /\ \A o \in Everyone : IsShell(proc'[o])
      /\ proc'[p] = w /\ (\A o \in Everyone \ {p} : proc'[o] = proc[o]) /\ ShellsOn' = ShellsOn
  <2>1. ShellsOn \cup {p} = ShellsOn
    OBVIOUS
  <2> QED
    BY <1>1, <2>1, ShellChanged DEF LocalInv
<1>3. proc[p].used \in Nat /\ w.used \in Nat /\ spent \in Nat
  BY <1>1 DEF IsShell, LocalInv, LocalTypes
<1>4. spent' \in Nat /\ (spent = proc[p].used => spent' = w.used)
  BY <1>3
<1>5. LocalTypes'
  BY <1>2, <1>4 DEF LocalInv, LocalTypes, IsShell, IsRecord
<1>6. ASSUME ~parted' PROVE OneByOne'
  <2>1. OneByOne /\ TooMany' = TooMany
    BY <1>6 DEF LocalInv, TooMany
  <2>2. ShellsOn = {p} /\ spent = proc[p].used /\ (TooMany => proc[p].fs = record.fs)
    BY <2>1 DEF OneByOne
  <2>3. rcs' <= 1
    BY <2>1 DEF OneByOne
  <2>4. ShellsOn' = {p} /\ spent' = proc'[p].used
    BY <1>2, <1>4, <2>2
  <2>5. TooMany' => proc'[p].fs = record'.fs
    BY <1>2, <1>6, <2>1, <2>2
  <2> QED
    BY <2>3, <2>4, <2>5 DEF OneByOne
<1> QED
  BY <1>5, <1>6 DEF LocalInv

(* A script adds what it takes, up to the limit, and touches no file of a  *)
(* session that has too many.                                              *)
LEMMA OutcomeIs ==
    ASSUME LocalLimits, NEW p, IsShell(proc[p]), NEW script, NEW out \in Local!runWithLocalLimits(p, script)
    PROVE  /\ out.used \in proc[p].used..MaxRuntime
           /\ ~Local!ValidateFS(proc[p].fs) => out.fs = proc[p].fs
<1>1. proc[p].used \in 0..MaxRuntime
  BY DEF IsShell
<1>2. CASE Local!MayRun(p)
  <2>1. PICK k \in 0..Local!Stop(script), used \in proc[p].used..MaxRuntime :
             out = Local!Outcome(script, k, Local!After(proc[p].fs, script, k), used)
    BY <1>2 DEF Local!runWithLocalLimits
  <2>2. out.used = used
    BY <2>1 DEF Local!Outcome
  <2> QED
    BY <1>2, <2>2 DEF Local!MayRun
<1>3. CASE ~Local!MayRun(p)
  <2>1. out = [fs |-> proc[p].fs, used |-> proc[p].used, quits |-> FALSE]
    BY <1>3 DEF Local!runWithLocalLimits
  <2> QED
    BY <1>1, <2>1 DEF LocalLimits
<1> QED
  BY <1>2, <1>3

LEMMA RanGoesOn ==
    ASSUME LocalLimits, LocalInv, NEW p \in ShellsOn, NEW script, NEW last, Local!Ran(p, script, last)
    PROVE  LocalInv'
<1>1. IsShell(proc[p])
  BY DEF LocalInv, LocalTypes, ShellsOn
<1>2. PICK out \in Local!runWithLocalLimits(p, script) :
        /\ proc' = [proc EXCEPT ![p].fs = out.fs, ![p].used = out.used, ![p].pending = <<>>,
                                ![p].step = IF last \/ out.quits THEN "saving" ELSE "running"]
        /\ spent' = spent + out.used - proc[p].used
  BY DEF Local!Ran
<1> DEFINE step == IF last \/ out.quits THEN "saving" ELSE "running"
           w == [proc[p] EXCEPT !.fs = out.fs, !.used = out.used, !.pending = <<>>, !.step = step]
<1>3. /\ out.used \in proc[p].used..MaxRuntime
      /\ ~Local!ValidateFS(proc[p].fs) => out.fs = proc[p].fs
  BY <1>1, <1>2, OutcomeIs
<1>4. step \in {"saving", "running"}
  OBVIOUS
<1>5. proc' = [proc EXCEPT ![p] = w]
  BY <1>2
<1> HIDE DEF step
<1>6. /\ IsShell(w) /\ w.step # "off" /\ w.used = out.used /\ w.fs = out.fs
      /\ w.used >= proc[p].used
  <2>1. proc[p].used \in Nat /\ out.used \in 0..MaxRuntime /\ out.used >= proc[p].used
    BY <1>1, <1>3 DEF IsShell, LocalLimits
  <2>2. out.used \in 0..MaxRuntime /\ step \in {"running", "saving"}
    BY <1>4, <2>1
  <2>3. IsShell(w) /\ w.step = step /\ w.used = out.used /\ w.fs = out.fs
    <3> DEFINE r == proc[p]
               held == out.fs
               used == out.used
    <3>1. r \in [step : {"off", "running", "saving"}, mode : {r.mode}, fs : {r.fs}, used : 0..MaxRuntime,
                 rc : {r.rc}, pending : {r.pending}]
      BY <1>1 DEF IsShell
    <3>2. w = [r EXCEPT !.fs = held, !.used = used, !.pending = <<>>, !.step = step]
      OBVIOUS
    <3>3. used \in 0..MaxRuntime
      BY <2>2
    <3> HIDE DEF w, r, held, used
    <3>4. /\ w \in [step : {"off", "running", "saving"}, mode : {r.mode}, fs : {held}, used : 0..MaxRuntime,
                    rc : {r.rc}, pending : {<<>>}]
          /\ w.step = step /\ w.used = used /\ w.fs = held
      BY <2>2, <3>1, <3>2, <3>3
    <3>5. w.mode = r.mode /\ w.rc = r.rc /\ w.pending = <<>>
      BY <3>4
    <3>6. IsShell(w)
      BY <3>4, <3>5 DEF IsShell
    <3> QED
      BY <3>4, <3>6 DEF held, used
  <2> HIDE DEF w
  <2> QED
    BY <2>1, <2>2, <2>3
<1> HIDE DEF w
<1>7. ~parted /\ TooMany => w.fs = proc[p].fs
  BY <1>3, <1>6 DEF LocalInv, OneByOne, TooMany
<1>8. UNCHANGED <<record, starts, rcs, parted>>
  BY DEF Local!Ran
<1> QED
  BY <1>2, <1>5, <1>6, <1>7, <1>8, WorksOn

LEMMA QuietGoesOn ==
    ASSUME LocalInv, NEW p \in ShellsOn, NEW w, IsShell(w), w.step # "off", w.used = proc[p].used, w.fs = proc[p].fs,
           proc' = [proc EXCEPT ![p] = w], UNCHANGED <<record, starts, rcs, spent, parted>>
    PROVE  LocalInv'
<1>1. IsShell(proc[p])
  BY DEF LocalInv, LocalTypes, ShellsOn
<1>2. spent \in Nat /\ proc[p].used \in Nat
  BY <1>1 DEF LocalInv, LocalTypes, IsShell
<1>3. w.used >= proc[p].used /\ spent' = spent + w.used - proc[p].used
  BY <1>2
<1> QED
  BY <1>3, WorksOn

LEMMA EndsGoesOn == ASSUME LocalInv, NEW p \in ShellsOn, Local!Ends(p) PROVE LocalInv'
<1> DEFINE w == [proc[p] EXCEPT !.step = "saving", !.pending = <<>>]
<1>1. IsShell(proc[p])
  BY DEF LocalInv, LocalTypes, ShellsOn
<1>2. IsShell(w) /\ w.step # "off" /\ w.used = proc[p].used /\ w.fs = proc[p].fs
  <2>1. \A w0 : w0 = [proc[p] EXCEPT !.step = "saving", !.pending = <<>>] =>
            IsShell(w0) /\ w0.step = "saving" /\ w0.used = proc[p].used /\ w0.fs = proc[p].fs
    BY <1>1, EndLeaves
  <2> QED
    BY <2>1
<1>3. proc' = [proc EXCEPT ![p] = w] /\ UNCHANGED <<record, starts, rcs, spent, parted>>
  BY DEF Local!Ends
<1> HIDE DEF w
<1> QED
  BY <1>2, <1>3, QuietGoesOn

(* A line put aside, or all of them forgotten.                             *)
LEMMA PendingGoesOn ==
    ASSUME LocalInv, NEW p \in ShellsOn, NEW lines, proc' = [proc EXCEPT ![p].pending = lines],
           UNCHANGED <<record, starts, rcs, spent, parted>>
    PROVE  LocalInv'
<1> DEFINE w == [proc[p] EXCEPT !.pending = lines]
<1>1. IsShell(proc[p]) /\ proc[p].step # "off"
  BY DEF LocalInv, LocalTypes, ShellsOn
<1>2. IsShell(w) /\ w.step # "off" /\ w.used = proc[p].used /\ w.fs = proc[p].fs
  BY <1>1 DEF IsShell
<1>3. proc' = [proc EXCEPT ![p] = w]
  OBVIOUS
<1> HIDE DEF w
<1> QED
  BY <1>2, <1>3, QuietGoesOn

LEMMA SaveGoesOn == ASSUME LocalLimits, LocalInv, NEW p \in ShellsOn, Local!SaveShellSession(p) PROVE LocalInv'
<1> DEFINE r == [fs |-> proc[p].fs \cup {AliasesFile}, used |-> proc[p].used, rc |-> TRUE]
<1>1. IsShell(proc[p]) /\ p \in Everyone
  BY DEF LocalInv, LocalTypes, ShellsOn
<1>2. record' = r /\ proc' = [proc EXCEPT ![p] = Local!Off] /\ UNCHANGED <<starts, rcs, spent, parted>>
  BY DEF Local!SaveShellSession
<1>3. IsRecord(r) /\ r # NoRecord /\ r.used = proc[p].used
  BY <1>1 DEF IsRecord, IsShell, LocalLimits
<1>4. IsShell(Local!Off) /\ Local!Off.step = "off"
  BY DEF Local!Off, IsShell, LocalLimits
<1>5. /\ proc' = [o \in Everyone |-> proc'[o]] /\ \A o \in Everyone : IsShell(proc'[o])
      /\ ShellsOn' = ShellsOn \ {p}
  BY <1>1, <1>2, <1>4, ShellChanged DEF LocalInv
<1> HIDE DEF r
<1>6. ASSUME ~parted' PROVE OneByOne'
  <2>1. OneByOne
    BY <1>2, <1>6 DEF LocalInv
  <2>2. ShellsOn' = {} /\ spent' = record'.used /\ record' # NoRecord /\ rcs' <= 1
    BY <1>2, <1>3, <1>5, <2>1 DEF OneByOne
  <2> QED
    BY <2>2 DEF OneByOne
<1>7. starts > 0
  BY DEF LocalInv, LocalTypes
<1>8. LocalTypes'
  BY <1>2, <1>3, <1>5, <1>7 DEF LocalInv, LocalTypes, IsShell, IsRecord
<1> QED
  BY <1>6, <1>8 DEF LocalInv

LEMMA KillGoesOn == ASSUME LocalLimits, LocalInv, NEW p \in Everyone, Local!Kill(p) PROVE LocalInv'
<1>1. proc' = [proc EXCEPT ![p] = Local!Off] /\ UNCHANGED <<record, starts, rcs, spent>> /\ parted' = TRUE
  BY DEF Local!Kill
<1>2. IsShell(Local!Off) /\ Local!Off.step = "off"
  BY DEF Local!Off, IsShell, LocalLimits
<1>3. /\ proc' = [o \in Everyone |-> proc'[o]] /\ \A o \in Everyone : IsShell(proc'[o])
      /\ ShellsOn' = ShellsOn \ {p}
  BY <1>1, <1>2, ShellChanged DEF LocalInv
<1>4. LocalTypes'
  BY <1>1, <1>3 DEF LocalInv, LocalTypes, IsShell, IsRecord
<1> QED
  BY <1>1, <1>4 DEF LocalInv

LEMMA AnotherGoesOn == ASSUME LocalInv, Local!AnotherSession PROVE LocalInv'
<1>1. /\ \A p \in Everyone : proc[p].step = "off"
      /\ record' = NoRecord /\ starts' = 0 /\ rcs' = 0 /\ spent' = 0 /\ parted' = FALSE /\ proc' = proc
  BY DEF Local!AnotherSession, Everyone
<1>2. ShellsOn' = {}
  BY <1>1 DEF ShellsOn
<1>3. LocalTypes'
  BY <1>1, <1>2 DEF LocalInv, LocalTypes, IsShell
<1> QED
  BY <1>1, <1>2, <1>3 DEF LocalInv, OneByOne

(* A session that cannot be restored stays as it is.                       *)
LEMMA FailsGoesOn == ASSUME LocalInv, NEW p \in Everyone, Local!StartFails(p) PROVE LocalInv'
<1>1. starts' = starts + 1 /\ UNCHANGED <<record, proc, rcs, spent, parted>>
  BY DEF Local!StartFails
<1>2. ShellsOn' = ShellsOn /\ TooMany' = TooMany
  BY <1>1 DEF ShellsOn, TooMany
<1>3. LocalTypes'
  BY <1>1, <1>2 DEF LocalInv, LocalTypes, IsShell, IsRecord
<1> QED
  BY <1>1, <1>2, <1>3 DEF LocalInv, OneByOne

(* What each action asks of its process, and does with it.                 *)
LEMMA StepOfShell ==
    ASSUME Local!Next
    PROVE  \/ Local!AnotherSession
           \/ \E p \in Everyone :
                \/ \E mode : Local!Start(p, mode)
                \/ Local!StartFails(p) \/ Local!Kill(p)
                \/ /\ p \in ShellsOn
                   /\ \/ Local!SaveShellSession(p) \/ Local!Ends(p)
                      \/ \E script, last : Local!Ran(p, script, last)
                      \/ \E lines : /\ proc' = [proc EXCEPT ![p].pending = lines]
                                    /\ UNCHANGED <<record, starts, rcs, spent, parted>>
<1> SUFFICES ASSUME NEW p \in Everyone,
                    \/ \E mode \in ShellModes[p] : Local!Start(p, mode)
                    \/ \E script \in Local!Scripts : Local!RunE(p, script)
                    \/ \E c \in ShellLines :
                        Local!runPiped(p, c) \/ Local!needsContinuation(p, c) \/ Local!runInteractive(p, c)
                    \/ Local!StartFails(p) \/ Local!ErrInterrupt(p) \/ Local!EOF(p) \/ Local!SaveShellSession(p) \/ Local!Kill(p)
             PROVE  \/ \E mode : Local!Start(p, mode)
                    \/ Local!StartFails(p) \/ Local!Kill(p)
                    \/ /\ p \in ShellsOn
                       /\ \/ Local!SaveShellSession(p) \/ Local!Ends(p)
                          \/ \E script, last : Local!Ran(p, script, last)
                          \/ \E lines : /\ proc' = [proc EXCEPT ![p].pending = lines]
                                        /\ UNCHANGED <<record, starts, rcs, spent, parted>>
  BY DEF Local!Next, Everyone
<1>1. ASSUME NEW script \in Local!Scripts, Local!RunE(p, script)
      PROVE  p \in ShellsOn /\ Local!Ran(p, script, TRUE)
  BY <1>1 DEF Local!RunE, Local!Running, ShellsOn
<1>2. ASSUME NEW c \in ShellLines, Local!runPiped(p, c)
      PROVE  p \in ShellsOn /\ (Local!Ends(p) \/ Local!Ran(p, <<c>>, FALSE))
  BY <1>2 DEF Local!runPiped, Local!Running, ShellsOn
<1>3. ASSUME NEW c \in ShellLines, Local!runInteractive(p, c)
      PROVE  p \in ShellsOn /\ (Local!Ends(p) \/ Local!Ran(p, Append(proc[p].pending, c), FALSE))
  BY <1>3 DEF Local!runInteractive, Local!Running, ShellsOn
<1>4. ASSUME NEW c \in ShellLines, Local!needsContinuation(p, c)
      PROVE  /\ p \in ShellsOn /\ proc' = [proc EXCEPT ![p].pending = Append(proc[p].pending, c)]
             /\ UNCHANGED <<record, starts, rcs, spent, parted>>
  BY <1>4 DEF Local!needsContinuation, Local!Running, ShellsOn
<1>5. ASSUME Local!ErrInterrupt(p)
      PROVE  /\ p \in ShellsOn /\ proc' = [proc EXCEPT ![p].pending = <<>>]
             /\ UNCHANGED <<record, starts, rcs, spent, parted>>
  BY <1>5 DEF Local!ErrInterrupt, Local!Running, ShellsOn
<1>6. Local!EOF(p) => p \in ShellsOn /\ Local!Ends(p)
  BY DEF Local!EOF, Local!Running, ShellsOn
<1>7. Local!SaveShellSession(p) => p \in ShellsOn
  BY DEF Local!SaveShellSession, ShellsOn
<1> QED
  BY <1>1, <1>2, <1>3, <1>4, <1>5, <1>6, <1>7

LEMMA LocalKeeps == ASSUME LocalLimits, LocalInv, [Local!Next]_localVars PROVE LocalInv'
<1>1. CASE UNCHANGED localVars
  BY <1>1 DEF localVars, LocalInv, LocalTypes, OneByOne, TooMany, ShellsOn, IsShell, IsRecord
<1>2. CASE Local!Next
  BY <1>2, StepOfShell, AnotherGoesOn, StartGoesOn, FailsGoesOn, KillGoesOn, SaveGoesOn, EndsGoesOn, RanGoesOn, PendingGoesOn
<1> QED
  BY <1>1, <1>2

(* Only a process that saves changes the record.                           *)
LEMMA OverIsKept == ASSUME LocalLimits, LocalInv, [Local!Next]_localVars PROVE Local!OverStays
<1> SUFFICES ASSUME starts' >= starts, ~parted', record # NoRecord, ~Local!ValidateFS(record.fs)
             PROVE  record'.fs = record.fs
  BY DEF Local!OverStays
<1>1. starts \in Nat /\ starts > 0 /\ IsRecord(record)
  BY DEF LocalInv, LocalTypes
<1>2. CASE UNCHANGED record
  BY <1>2
<1>3. ASSUME NEW p \in ShellsOn, Local!SaveShellSession(p)
      PROVE  record'.fs = record.fs
  <2>1. record' = [fs |-> proc[p].fs \cup {AliasesFile}, used |-> proc[p].used, rc |-> TRUE] /\ ~parted
    BY <1>3 DEF Local!SaveShellSession
  <2>2. proc[p].fs = record.fs
    BY <2>1 DEF LocalInv, OneByOne, TooMany
  <2>3. AliasesFile \in record.fs
    BY <1>1 DEF IsRecord
  <2> QED
    BY <2>1, <2>2, <2>3
<1>4. ~Local!AnotherSession
  BY <1>1 DEF Local!AnotherSession
<1>5. CASE UNCHANGED localVars
  BY <1>2, <1>5 DEF localVars
<1>6. \A p : /\ (\E mode : Local!Start(p, mode)) => UNCHANGED record
             /\ Local!StartFails(p) \/ Local!Kill(p) \/ Local!Ends(p) => UNCHANGED record
             /\ (\E script, last : Local!Ran(p, script, last)) => UNCHANGED record
  BY DEF Local!Start, Local!StartFails, Local!Kill, Local!Ends, Local!Ran
<1>7. CASE Local!Next
  BY <1>2, <1>3, <1>4, <1>6, <1>7, StepOfShell
<1> QED
  BY <1>5, <1>7

(* A session that is kept in a file goes on as one, from process to        *)
(* process: the runtime of all of them together stays within the limit,    *)
(* the rc file is loaded once, and a session with too many files stays as  *)
(* it is (root.go, LoadShellSession, SaveShellSession).                    *)
THEOREM LocalHolds == ASSUME LocalLimits PROVE WorkspaceSpec => SessionGoesOn
<1>1. WorkspaceInit => LocalInv
  BY LocalBegins DEF WorkspaceInit
<1>2. LocalInv /\ [WorkspaceNext]_AllVars => LocalInv'
  BY StepOfPart, LocalKeeps
<1>3. LocalInv => Local!RuntimeCumulates /\ Local!RcLoadedOnce
  <2> SUFFICES ASSUME LocalInv, ~parted
               PROVE  spent <= MaxRuntime /\ rcs <= 1
    BY DEF Local!RuntimeCumulates, Local!RcLoadedOnce
  <2>1. OneByOne
    BY DEF LocalInv
  <2>2. CASE ShellsOn = {} /\ record = NoRecord
    BY <2>1, <2>2 DEF OneByOne, LocalLimits
  <2>3. CASE ShellsOn = {} /\ record # NoRecord
    BY <2>1, <2>3 DEF OneByOne, LocalInv, LocalTypes, IsRecord, LocalLimits
  <2>4. CASE ShellsOn # {}
    <3>1. PICK p \in ShellsOn : TRUE
      BY <2>4
    <3>2. IsShell(proc[p]) /\ spent = proc[p].used
      BY <2>1, <3>1 DEF OneByOne, LocalInv, LocalTypes, ShellsOn
    <3> QED
      BY <2>1, <3>2 DEF OneByOne, IsShell, LocalLimits
  <2> QED
    BY <2>2, <2>3, <2>4
<1>4. LocalInv /\ [WorkspaceNext]_AllVars => [Local!OverStays]_Local!vars
  BY StepOfPart, OverIsKept
<1> QED
  BY <1>1, <1>2, <1>3, <1>4, PTL DEF WorkspaceSpec, AllVars, SessionGoesOn, Local!SessionGoesOn
=============================================================================
