----------------------------- MODULE SessionMap -----------------------------
(***************************************************************************)
(* What the session store promises its callers: a map from session ids to  *)
(* cumulative budgets, of bounded size.  A session appears with nothing    *)
(* charged, its runtime only grows while it exists, and it disappears as a *)
(* whole.  There is no memory, no disk and no crash at this level: with    *)
(* --session-store a restart of the server must be invisible here, apart   *)
(* from sessions that expired meanwhile.                                   *)
(***************************************************************************)
EXTENDS Naturals, FiniteSets

CONSTANTS
    Ids,            \* session ids
    MaxEntries,     \* --max-sessions; 0 means unlimited
    None            \* no session under this id

VARIABLE sessions   \* [Ids -> Budget \cup {None}]

Budget == [runtime : Nat, net : Nat]

Fresh == [runtime |-> 0, net |-> 0]

Known == {id \in Ids : sessions[id] # None}

Init == /\ sessions \in [Ids -> Budget \cup {None}]
        /\ MaxEntries > 0 => Cardinality(Known) <= MaxEntries

(* A session starts with empty budgets, and only when there is room.       *)
Open(id) ==
    /\ sessions[id] = None
    /\ MaxEntries > 0 => Cardinality(Known) < MaxEntries
    /\ sessions' = [sessions EXCEPT ![id] = Fresh]

(* Work is charged: the runtime accumulates, the caller supplies the       *)
(* cumulative network usage.                                               *)
Charge(id) ==
    /\ sessions[id] # None
    /\ sessions'[id] \in Budget
    /\ sessions'[id].runtime >= sessions[id].runtime
    /\ sessions' = [sessions EXCEPT ![id] = sessions'[id]]

(* Sessions are deleted or expire, several at once when the reaper runs.   *)
Forget == \E gone \in SUBSET Ids :
              sessions' = [id \in Ids |-> IF id \in gone THEN None ELSE sessions[id]]

Next == \/ \E id \in Ids : Open(id) \/ Charge(id)
        \/ Forget

Spec == Init /\ [][Next]_sessions
=============================================================================
