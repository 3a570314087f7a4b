----------------------------- MODULE KnownHosts -----------------------------
(***************************************************************************)
(* native/ssh.go: the ssh command and its trust on first use.  Keys that   *)
(* the user confirmed are kept in /.memsh/known_hosts of the session's     *)
(* filesystem.  Several ssh commands of one shell (a pipeline, background  *)
(* jobs) share that file without a lock: each reads it to look its host    *)
(* up, reads it again after the user's answer, truncates it and writes     *)
(* what it read and its own entry.  Errors of these calls are ignored.     *)
(***************************************************************************)
EXTENDS Naturals, Sequences, FiniteSets, SequencesExt

CONSTANTS
    Commands,       \* bound: ssh commands at a time
    Hosts, Keys,
    KeyType,        \* key -> its type
    MaxEntries,     \* bound: with as many entries, the user says no
    QuotaFull       \* BOOLEAN: writes may fail, as over the quota

VARIABLES
    file,           \* known_hosts: a sequence of entries
    pc,             \* where each command is
    offer,          \* the host key a command was offered
    existing,       \* what it read before it saves
    confirmed       \* history: the entries the user said yes to

vars == <<file, pc, offer, existing, confirmed>>

-----------------------------------------------------------------------------
Entries == [host : Hosts, key : Keys]
NoOffer == [host |-> "none", key |-> "none"]

Goto(c, to) == pc' = [pc EXCEPT ![c] = to]

(* Run, up to the host key callback.                                       *)
Dial(c) ==
    /\ pc[c] = "idle"
    /\ \E e \in Entries : offer' = [offer EXCEPT ![c] = e]
    /\ Goto(c, "offered")
    /\ UNCHANGED <<file, existing, confirmed>>

(* The first entry with this host and this type of key decides.            *)
Entry(e) == SelectInSeq(file, LAMBDA k : k.host = e.host /\ KeyType[k.key] = KeyType[e.key])

(* Mutant: an entry of the host with any type of key is a match.           *)
Check_AnyType(c) ==
    /\ pc[c] = "offered"
    /\ Goto(c, IF \E i \in DOMAIN file : file[i].host = offer[c].host THEN "accepted" ELSE "prompt")
    /\ UNCHANGED <<file, offer, existing, confirmed>>
Check(c) ==
    /\ pc[c] = "offered"
    /\ LET i == Entry(offer[c]) IN
        Goto(c, IF i = 0 THEN "prompt"
                ELSE IF file[i] = offer[c] THEN "accepted" ELSE "refused")
    /\ UNCHANGED <<file, offer, existing, confirmed>>

Refuse(c) ==
    /\ pc[c] = "prompt"
    /\ Goto(c, "refused")
    /\ UNCHANGED <<file, offer, existing, confirmed>>

(* "yes": the file is read again.                                          *)
Confirm(c) ==
    /\ pc[c] = "prompt" /\ Len(file) < MaxEntries
    /\ confirmed' = confirmed \cup {offer[c]}
    /\ existing' = [existing EXCEPT ![c] = file]
    /\ Goto(c, "truncate")
    /\ UNCHANGED <<file, offer>>

(* WriteFile opens with O_TRUNC, then writes.                              *)
Truncate(c) ==
    /\ pc[c] = "truncate"
    /\ file' = <<>>
    /\ Goto(c, "write")
    /\ UNCHANGED <<offer, existing, confirmed>>

Write(c) ==
    /\ pc[c] = "write"
    /\ \/ file' = Append(existing[c], offer[c])
       \/ QuotaFull /\ UNCHANGED file
    /\ Goto(c, "accepted")
    /\ existing' = [existing EXCEPT ![c] = <<>>]
    /\ UNCHANGED <<offer, confirmed>>

(* The remote session, and the end of the command.                         *)
Finish(c) ==
    /\ pc[c] \in {"accepted", "refused"}
    /\ Goto(c, "idle")
    /\ offer' = [offer EXCEPT ![c] = NoOffer]
    /\ UNCHANGED <<file, existing, confirmed>>

(* The user removes the file, like any other of the session.               *)
Forget ==
    /\ file # <<>>
    /\ file' = <<>>
    /\ UNCHANGED <<pc, offer, existing, confirmed>>

-----------------------------------------------------------------------------
Init ==
    /\ file = <<>>
    /\ pc = [c \in Commands |-> "idle"]
    /\ offer = [c \in Commands |-> NoOffer]
    /\ existing = [c \in Commands |-> <<>>]
    /\ confirmed = {}

Next ==
    \/ \E c \in Commands :
        Dial(c) \/ Check(c) \/ Refuse(c) \/ Confirm(c) \/ Truncate(c) \/ Write(c) \/ Finish(c)
    \/ Forget

Spec == Init /\ [][Next]_vars

-----------------------------------------------------------------------------
(* However commands overwrite each other's file, a connection goes ahead   *)
(* only to a host whose key, of that type, the user has confirmed.         *)
AcceptedWasConfirmed ==
    \A c \in Commands : pc[c] = "accepted" => offer[c] \in confirmed
=============================================================================
