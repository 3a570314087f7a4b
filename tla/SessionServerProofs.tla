------------------------ MODULE SessionServerProofs ------------------------
(***************************************************************************)
(* Theorems about SessionServer for all values of its constants.           *)
(*                                                                         *)
(* Every step of the server does to the store what one operation of the    *)
(* store does, or only writes files (StoreStep), moves one goroutine, and  *)
(* takes, keeps or releases one ExecMu (MutexStep).  From the first the    *)
(* server inherits what is proved of the store; from the second, that a    *)
(* goroutine at a place where it needs an ExecMu has it.                   *)
(***************************************************************************)
EXTENDS SessionServer, SessionStoreProofs

-----------------------------------------------------------------------------
(* Where a goroutine is, it has what its next step needs.                  *)

JobOK(p) ==
    /\ pc[p] # "idle" => job[p].id \in Ids
    /\ pc[p] \notin {"idle", "swap"} => job[p].ent \in Gens
    /\ pc[p] = "swap" => job[p].kind = "import"
    /\ pc[p] = "validate" \/ pc[p] = "prompt" => job[p].kind \in {"run", "ssh", "shell"}

JobsOK == \A p \in Procs : JobOK(p)

(* The step, with the places it leaves from and what it may do there.      *)
Moves(p) == \E l \in Labels, j \in Job : Goto(p, l, j)

(* What a step of the server does to the store.                            *)
FilesOnly ==
    /\ UNCHANGED <<up, entries, gen, disk>>
    /\ fsys' \in [Ids \X FsIds -> Content]
    /\ nfs' \in [Ids -> 0..MaxFs]
    /\ heap' \in [Ids \X Gens -> Entry]
    /\ \A k \in Ids \X Gens : heap'[k] = [heap[k] EXCEPT !.fs = heap'[k].fs]

Charges(id) ==
    \/ \E cwd \in Cwds, rcLoaded, setNetwork \in BOOLEAN, delta, net \in Nat :
           updateLocked(id, cwd, rcLoaded, delta, setNetwork, net)
    \/ \E delta, net \in Nat : AddUsage(id, delta, net)

Replaces(id) == \E c \in Content, cwd \in Cwds : Replace(id, c, cwd)

StoreStep ==
    \/ \E id \in Ids : GetExisting(id) \/ Create(id) \/ Delete(id) \/ Charges(id) \/ Replaces(id)
    \/ reap \/ Tick \/ Crash \/ Restart
    \/ FilesOnly

-----------------------------------------------------------------------------
(* The store under its steps.                                              *)

LEMMA FilesOnlyType ==
    ASSUME TypeOK, FilesOnly
    PROVE  TypeOK'
BY DEF TypeOK, FilesOnly

LEMMA ZeroInRanges == /\ Root \in Cwds /\ FsIds \subseteq Cwds /\ 0 \in 0..MaxBytes /\ 0 \in Ages
                      /\ 1 \in FsIds /\ 1 \in Gens /\ 0 \in 0..MaxGen /\ Gens \subseteq 0..MaxGen
                      /\ Absent = 0 /\ 0 \notin Gens
BY StoreAssumption, SMT DEF Root, Cwds, FsIds, Ages, Gens, Absent

LEMMA StoreStepType ==
    ASSUME TypeOK, StoreStep
    PROVE  TypeOK'
<1>1. ASSUME NEW id \in Ids, GetExisting(id) \/ Create(id)
      PROVE  TypeOK'
  BY <1>1, GetExistingType, CreateType
<1>2. ASSUME NEW id \in Ids, Charges(id)
      PROVE  TypeOK'
  BY <1>2, UpdateType, AddUsageType DEF Charges
<1>3. ASSUME NEW id \in Ids, Replaces(id)
      PROVE  TypeOK'
  BY <1>3, ReplaceType DEF Replaces
<1>4. ASSUME NEW id \in Ids, Delete(id)
      PROVE  TypeOK'
  BY <1>4, DropType DEF Delete
<1>5. CASE reap
  <2>1. {id \in Live : Current(id).age > TTL} \in SUBSET Ids
    BY DEF Live
  <2> QED
    BY <1>5, <2>1, DropType DEF reap
<1> QED
  BY <1>1, <1>2, <1>3, <1>4, <1>5, TickType, CrashType, RestartType, FilesOnlyType DEF StoreStep

LEMMA FilesOnlyKeeps ==
    ASSUME StoreInv, FilesOnly
    PROVE  CapRespected' /\ DurableState' /\ DiskWithin'
<1>1. Live' = Live /\ Files' = Files /\ TypeOK
  BY DEF FilesOnly, Live, Files, StoreInv
<1>2. ASSUME NEW id \in Live
      PROVE  /\ Current(id)'.runtime = Current(id).runtime /\ Current(id)'.net = Current(id).net
             /\ Current(id)'.rc = Current(id).rc /\ Current(id)'.cwd = Current(id).cwd
  <2>1. <<id, entries[id]>> \in Ids \X Gens /\ Current(id) \in Entry
    BY <1>1, CurrentType
  <2>2. Current(id)' = heap'[<<id, entries[id]>>]
    BY DEF FilesOnly, Current
  <2>3. Current(id)' = [Current(id) EXCEPT !.fs = Current(id)'.fs]
    BY <2>1, <2>2 DEF FilesOnly, Current
  <2> QED
    BY <2>1, <2>3 DEF Entry
<1>3. CapRespected'
  BY <1>1, FewerKeepsCap DEF StoreInv
<1>4. DurableState'
  BY <1>1, <1>2 DEF StoreInv, DurableState, Saved, FilesOnly
<1>5. DiskWithin'
  BY <1>1 DEF StoreInv, DiskWithin
<1> QED
  BY <1>3, <1>4, <1>5

LEMMA StoreStepKeeps ==
    ASSUME StoreInv, StoreStep
    PROVE  StoreInv'
<1>0. TypeOK /\ TypeOK'
  BY StoreStepType DEF StoreInv
<1> SUFFICES CapRespected' /\ DurableState' /\ DiskWithin'
  BY <1>0 DEF StoreInv
<1>1. ASSUME NEW id \in Ids, GetExisting(id)
      PROVE  CapRespected' /\ DurableState' /\ DiskWithin'
  BY <1>1, GetExistingKeeps
<1>2. ASSUME NEW id \in Ids, Create(id)
      PROVE  CapRespected' /\ DurableState' /\ DiskWithin'
  <2>1. up /\ id \notin Live /\ Insert(id, NewTree(id, 0), Root)
    BY <1>2 DEF Create
  <2>2. NewTree(id, 0) \in Content /\ Root \in Cwds
    BY <1>0, <2>1, ZeroInRanges, NewTreeType DEF Insert
  <2> QED
    BY <2>1, <2>2, InsertKeeps
<1>3. ASSUME NEW id \in Ids, Charges(id)
      PROVE  CapRespected' /\ DurableState' /\ DiskWithin'
  BY <1>3, UpdateKeeps, AddUsageKeeps DEF Charges
<1>4. ASSUME NEW id \in Ids, Replaces(id)
      PROVE  CapRespected' /\ DurableState' /\ DiskWithin'
  BY <1>4, ReplaceKeeps DEF Replaces
<1>5. ASSUME NEW id \in Ids, Delete(id)
      PROVE  CapRespected' /\ DurableState' /\ DiskWithin'
  BY <1>5, DropKeeps DEF Delete
<1>6. CASE reap
  <2>1. {id \in Live : Current(id).age > TTL} \in SUBSET Ids
    BY DEF Live
  <2> QED
    BY <1>6, <2>1, DropKeeps DEF reap
<1> QED
  BY <1>1, <1>2, <1>3, <1>4, <1>5, <1>6, TickKeeps, CrashKeeps, RestartKeeps, FilesOnlyKeeps
     DEF StoreStep

(* Under each of them the map of budgets takes a step of its own or none.  *)
LEMMA StoreStepPromised ==
    ASSUME StoreInv, ~Faults, StoreStep
    PROVE  Promise!Next \/ Budgets' = Budgets
<1>0. TypeOK /\ TypeOK'
  BY StoreStepType DEF StoreInv
<1>1. ASSUME NEW id \in Ids, GetExisting(id)
      PROVE  Promise!Next
  BY <1>0, <1>1, GetExistingIsNext
<1>2. ASSUME NEW id \in Ids, Create(id)
      PROVE  Promise!Next
  <2>1. up /\ id \notin Live /\ Insert(id, NewTree(id, 0), Root)
    BY <1>2 DEF Create
  <2>2. NewTree(id, 0) \in Content /\ Root \in Cwds
    BY <1>0, <2>1, ZeroInRanges, NewTreeType DEF Insert
  <2> QED
    BY <1>0, <2>1, <2>2, InsertOpens
<1>3. ASSUME NEW id \in Ids, Charges(id)
      PROVE  Promise!Next \/ Budgets' = Budgets
  BY <1>0, <1>3, UpdateIsNext, AddUsageIsNext DEF Charges
<1>4. ASSUME NEW id \in Ids, Replaces(id)
      PROVE  Promise!Next
  BY <1>0, <1>4, ReplaceIsNext DEF Replaces
<1>5. ASSUME NEW id \in Ids, Delete(id)
      PROVE  Promise!Next
  BY <1>0, <1>5, DropForgets DEF Delete
<1>6. CASE reap
  <2>1. {id \in Live : Current(id).age > TTL} \in SUBSET Ids
    BY DEF Live
  <2> QED
    BY <1>0, <1>6, <2>1, DropForgets DEF reap
<1>7. CASE FilesOnly
  <2>1. Live' = Live /\ Files' = Files /\ up' = up /\ disk' = disk
    BY <1>7 DEF FilesOnly, Live, Files
  <2>2. ASSUME NEW id \in Live
        PROVE  Current(id)'.runtime = Current(id).runtime /\ Current(id)'.net = Current(id).net
    <3>1. <<id, entries[id]>> \in Ids \X Gens /\ Current(id) \in Entry
      BY <1>0, CurrentType
    <3>2. Current(id)' = heap'[<<id, entries[id]>>]
      BY <1>7 DEF FilesOnly, Current
    <3>3. Current(id)' = [Current(id) EXCEPT !.fs = Current(id)'.fs]
      BY <1>7, <3>1, <3>2 DEF FilesOnly, Current
    <3> QED
      BY <3>1, <3>3 DEF Entry
  <2> QED
    BY <2>1, <2>2 DEF Budgets
<1> QED
  BY <1>0, <1>1, <1>2, <1>3, <1>4, <1>5, <1>6, <1>7, TickIsInvisible, CrashForgets, RestartForgets
     DEF StoreStep

-----------------------------------------------------------------------------
(* Goroutines that move, and the ExecMu they hold.                         *)

(* The places where a goroutine holds the ExecMu of the Entry it points to;*)
(* an import that found no session to lock points to none.                 *)
HasMu(p) == \/ pc[p] \in {"open", "exec", "validate", "relink", "reread", "log", "read"}
            \/ pc[p] = "swap" /\ job[p].ent # 0

MutexHeld == \A p \in Procs : HasMu(p) => execMu[Mine(p)] = p

MutexStep(p) ==
    \/ execMu' = execMu /\ (HasMu(p)' => HasMu(p) /\ Mine(p)' = Mine(p))
    \/ Lock(p) /\ Mine(p)' = Mine(p) /\ pc[p] \in {"lock", "prompt"}
    \/ HasMu(p) /\ Unlock(p) /\ ~HasMu(p)'

(* Who may make a session appear: clients, and the rollback of a run.      *)
Creates(p) == \/ pc'[p] # pc[p] /\ (pc[p] = "idle" \/ job[p].kind = "import")
              \/ Quota > 0

NoneAppears == \A id \in Ids : entries[id] = Absent => entries'[id] = Absent

Step(p) == /\ Moves(p) /\ JobOK(p)'
           /\ MutexStep(p)
           /\ StoreStep \/ UNCHANGED storeVars
           /\ NoneAppears \/ Creates(p)

LEMMA NoJobType == NoJob \in Job /\ NoJob.ent = 0
<1>1. 0 \in Counts
  BY StoreAssumption, SMT DEF Counts
<1> QED
  BY <1>1, ZeroInRanges, NoContentType DEF NoJob, Job

LEMMA CountedType ==
    ASSUME NEW b \in 0..MaxBytes
    PROVE  Counted(b) \in Counts
BY StoreAssumption, ServerAssumption, SMT DEF Counted, Counts

LEMMA TimeoutType ==
    ASSUME NEW used \in Nat, ~OutOfTime(used)
    PROVE  /\ EffectiveTimeout(used) \in Nat
           /\ RuntimeLimit > 0 => used + EffectiveTimeout(used) <= RuntimeLimit
BY ServerAssumption, SMT DEF OutOfTime, EffectiveTimeout, Lesser

(* A goroutine that goes to l with the local variables j.                  *)
LEMMA Goes ==
    ASSUME ServerTypeOK, NEW p \in Procs, NEW l \in Labels, NEW j \in Job, Goto(p, l, j),
           l # "idle" => j.id \in Ids,
           l \notin {"idle", "swap"} => j.ent \in Gens,
           l = "swap" => j.kind = "import",
           l \in {"validate", "prompt"} => j.kind \in {"run", "ssh", "shell"}
    PROVE  /\ Moves(p) /\ JobOK(p)'
           /\ pc'[p] = l /\ job'[p] = j /\ Mine(p)' = <<j.id, j.ent>>
<1>1. pc'[p] = l /\ job'[p] = j
  BY DEF Goto, ServerTypeOK
<1>2. Moves(p)
  BY DEF Moves
<1> QED
  BY <1>1, <1>2 DEF JobOK, Mine

LEMMA DoneGoes ==
    ASSUME ServerTypeOK, JobsOK, NEW p \in Procs, pc[p] # "idle", job[p].ent \in Gens \/ job[p].kind # "shell",
           Done(p)
    PROVE  Moves(p) /\ JobOK(p)' /\ pc'[p] \in {"idle", "prompt"} /\ ~HasMu(p)'
<1>0. job[p] \in Job /\ job[p].id \in Ids /\ {"idle", "prompt"} \subseteq Labels
  BY DEF ServerTypeOK, JobsOK, JobOK, Labels
<1>1. CASE job[p].kind = "shell"
  <2> DEFINE j == [NoJob EXCEPT !.kind = "shell", !.id = job[p].id, !.ent = job[p].ent, !.cwd = job[p].cwd]
  <2>1. j \in Job /\ j.id \in Ids /\ j.ent \in Gens /\ j.kind = "shell" /\ Goto(p, "prompt", j)
    BY <1>0, <1>1, NoJobType DEF Done, Job, NoJob
  <2> HIDE DEF j
  <2>2. Moves(p) /\ JobOK(p)' /\ pc'[p] = "prompt"
    BY <1>0, <2>1, Goes
  <2> QED
    BY <2>2 DEF HasMu
<1>2. CASE job[p].kind # "shell"
  <2>1. Goto(p, "idle", NoJob)
    BY <1>2 DEF Done
  <2> QED
    BY <1>0, <2>1, NoJobType, Goes DEF HasMu
<1> QED
  BY <1>1, <1>2

(* What a lookup hands out.                                                *)
LEMMA GetHandsOut ==
    ASSUME TypeOK, NEW id \in Ids, Get(id)
    PROVE  /\ TypeOK' /\ StoreStep /\ up
           /\ entries'[id] \in Gens /\ id \in Live'
           /\ Current(id)' \in Entry
<1>1. TypeOK' /\ StoreStep /\ up
  BY GetExistingType, CreateType DEF Get, StoreStep, GetExisting, Create
<1>2. id \in Live'
  <2>1. CASE GetExisting(id)
    BY <2>1 DEF GetExisting, Put, Live
  <2>2. CASE Create(id)
    <3>1. gen[id] + 1 # Absent /\ entries'[id] = gen[id] + 1
      BY <2>2, SMT DEF TypeOK, Create, Insert, Absent
    <3> QED
      BY <3>1 DEF Live
  <2> QED
    BY <2>1, <2>2 DEF Get
<1>3. entries'[id] \in Gens
  BY <1>1, <1>2, StoreAssumption, SMT DEF TypeOK, Live, Absent, Gens
<1>4. Current(id)' \in Entry
  BY <1>1, <1>3 DEF TypeOK, Current
<1> QED
  BY <1>1, <1>2, <1>3, <1>4

(* No session appears while the map only loses sessions.                   *)
LEMMA ExistingStays ==
    ASSUME NEW id \in Ids, GetExisting(id)
    PROVE  NoneAppears
BY DEF GetExisting, Put, NoneAppears

-----------------------------------------------------------------------------
(* Every action of a goroutine is a Step: arrivals.                        *)

LEMMA OneLabelOn == {"idle", "lock", "open", "exec", "validate", "relink", "reread", "log",
                     "read", "swap", "rc", "prompt"} = Labels
BY DEF Labels

(* A lookup, after which the goroutine waits for the ExecMu.               *)
LEMMA AttachedStep ==
    ASSUME ServerTypeOK, NEW p \in Procs, NEW kind \in AllOps, NEW id \in Ids, pc[p] = "idle",
           TypeOK', id \in Live', StoreStep, Attached(p, kind, id, "lock"), UNCHANGED execMu
    PROVE  Step(p)
<1> DEFINE j == [NoJob EXCEPT !.kind = kind, !.id = id, !.ent = entries'[id]]
<1>1. entries'[id] \in Gens
  BY StoreAssumption, SMT DEF TypeOK, Live, Absent, Gens
<1>2. j \in Job /\ j.id \in Ids /\ j.ent \in Gens
  BY <1>1, NoJobType, ZeroInRanges DEF Job, NoJob
<1>3. Goto(p, "lock", j)
  BY DEF Attached
<1> HIDE DEF j
<1>4. Moves(p) /\ JobOK(p)' /\ pc'[p] = "lock"
  BY <1>2, <1>3, Goes, OneLabelOn
<1>5. MutexStep(p)
  BY <1>4 DEF MutexStep, HasMu
<1>6. Creates(p)
  BY <1>4 DEF Creates
<1> QED
  BY <1>4, <1>5, <1>6 DEF Step

LEMMA RunAttachStep ==
    ASSUME ServerTypeOK, NEW p \in Procs, NEW id \in Ids, RunAttach(p, id)
    PROVE  Step(p)
<1>1. PICK kind \in Ops \cap {"run", "ssh"} :
          pc[p] = "idle" /\ Get(id) /\ Attached(p, kind, id, "lock") /\ UNCHANGED execMu
  BY DEF RunAttach
<1>2. kind \in AllOps
  BY ServerAssumption
<1>3. TypeOK' /\ StoreStep /\ id \in Live'
  BY <1>1, GetHandsOut DEF ServerTypeOK
<1> QED
  BY <1>1, <1>2, <1>3, AttachedStep

LEMMA ReadAttachStep ==
    ASSUME ServerTypeOK, NEW p \in Procs, NEW id \in Ids, ReadAttach(p, id)
    PROVE  Step(p)
<1>1. pc[p] = "idle" /\ Get(id) /\ Attached(p, "read", id, "lock") /\ UNCHANGED execMu
  BY DEF ReadAttach, Get
<1>2. "read" \in AllOps
  BY DEF AllOps
<1>3. TypeOK' /\ StoreStep /\ id \in Live'
  BY <1>1, GetHandsOut DEF ServerTypeOK
<1> QED
  BY <1>1, <1>2, <1>3, AttachedStep

LEMMA ShellOpenStep ==
    ASSUME ServerTypeOK, NEW p \in Procs, NEW id \in Ids, ShellOpen(p, id)
    PROVE  Step(p)
<1>0. /\ StoreStep /\ entries'[id] \in Gens /\ Current(id)' \in Entry
      /\ pc[p] = "idle" /\ UNCHANGED execMu
  BY GetHandsOut DEF ShellOpen, ServerTypeOK
<1>1. PICK e \in Entry :
          Goto(p, IF e.rc THEN "prompt" ELSE "rc",
               [NoJob EXCEPT !.kind = "shell", !.id = id, !.ent = entries'[id], !.cwd = e.cwd,
                             !.fs = IF e.rc THEN 1 ELSE e.fs])
  BY <1>0 DEF ShellOpen, Current
<1> DEFINE l == IF e.rc THEN "prompt" ELSE "rc"
           j == [NoJob EXCEPT !.kind = "shell", !.id = id, !.ent = entries'[id], !.cwd = e.cwd,
                              !.fs = IF e.rc THEN 1 ELSE e.fs]
<1>2. Goto(p, l, j) /\ l \in {"prompt", "rc"} /\ e.cwd \in Cwds /\ e.fs \in FsIds
  BY <1>1 DEF Entry
<1>3. j \in Job /\ j.id \in Ids /\ j.ent \in Gens /\ j.kind = "shell"
  BY <1>0, <1>2, NoJobType, ZeroInRanges DEF Job, NoJob, AllOps
<1> HIDE DEF j, l
<1>5. Moves(p) /\ JobOK(p)' /\ pc'[p] \in {"prompt", "rc"}
  BY <1>2, <1>3, Goes, OneLabelOn
<1>6. MutexStep(p) /\ Creates(p)
  BY <1>0, <1>5 DEF MutexStep, HasMu, Creates
<1> QED
  BY <1>0, <1>5, <1>6 DEF Step

LEMMA ImportAttachStep ==
    ASSUME ServerTypeOK, NEW p \in Procs, NEW id \in Ids, ImportAttach(p, id)
    PROVE  Step(p)
<1>1. PICK b \in 0..MaxBytes :
        \/ /\ GetExisting(id)
           /\ Goto(p, "lock", [NoJob EXCEPT !.kind = "import", !.id = id, !.snap.bytes = b,
                                            !.ent = entries[id]])
        \/ /\ Goto(p, "swap", [NoJob EXCEPT !.kind = "import", !.id = id, !.snap.bytes = b])
           /\ UNCHANGED storeVars
  BY DEF ImportAttach
<1>2. pc[p] = "idle" /\ execMu' = execMu
  BY DEF ImportAttach
<1>3. CASE GetExisting(id) /\ Goto(p, "lock", [NoJob EXCEPT !.kind = "import", !.id = id, !.snap.bytes = b,
                                                            !.ent = entries[id]])
  <2> DEFINE j == [NoJob EXCEPT !.kind = "import", !.id = id, !.snap.bytes = b, !.ent = entries[id]]
  <2>1. entries[id] \in Gens
    BY <1>3, CurrentType DEF GetExisting, ServerTypeOK
  <2>2. j \in Job /\ j.id \in Ids /\ j.ent \in Gens
    BY <2>1, NoJobType, ZeroInRanges DEF Job, NoJob, AllOps, NoContent, Content
  <2>3. Goto(p, "lock", j)
    BY <1>3
  <2> HIDE DEF j
  <2>4. Moves(p) /\ JobOK(p)' /\ pc'[p] = "lock"
    BY <2>2, <2>3, Goes, OneLabelOn
  <2>5. StoreStep /\ MutexStep(p) /\ Creates(p)
    BY <1>2, <1>3, <2>4 DEF StoreStep, MutexStep, HasMu, Creates
  <2> QED
    BY <2>4, <2>5 DEF Step
<1>4. CASE Goto(p, "swap", [NoJob EXCEPT !.kind = "import", !.id = id, !.snap.bytes = b]) /\ UNCHANGED storeVars
  <2> DEFINE j == [NoJob EXCEPT !.kind = "import", !.id = id, !.snap.bytes = b]
  <2>1. j \in Job /\ j.id \in Ids /\ j.ent = 0 /\ j.kind = "import"
    BY NoJobType DEF Job, NoJob, AllOps, NoContent, Content
  <2>2. Goto(p, "swap", j)
    BY <1>4
  <2> HIDE DEF j
  <2>3. Moves(p) /\ JobOK(p)' /\ pc'[p] = "swap" /\ job'[p].ent = 0
    BY <2>1, <2>2, Goes, OneLabelOn
  <2>4. MutexStep(p) /\ Creates(p)
    BY <1>2, <2>3 DEF MutexStep, HasMu, Creates
  <2> QED
    BY <1>4, <2>3, <2>4 DEF Step
<1> QED
  BY <1>1, <1>3, <1>4

LEMMA CronSnapStep ==
    ASSUME ServerTypeOK, NEW p \in Procs, NEW id \in Ids, CronSnap(p, id)
    PROVE  Step(p)
<1> DEFINE j == [NoJob EXCEPT !.kind = "cron", !.id = id, !.ent = entries[id], !.fs = Current(id).fs]
<1>1. /\ pc[p] = "idle" /\ id \in Live /\ Goto(p, "lock", j)
      /\ UNCHANGED <<storeVars, execMu>>
  BY DEF CronSnap
<1>2. entries[id] \in Gens /\ Current(id).fs \in FsIds
  BY <1>1, CurrentType DEF ServerTypeOK, Entry
<1>3. j \in Job /\ j.id \in Ids /\ j.ent \in Gens
  BY <1>2, NoJobType, ZeroInRanges DEF Job, NoJob, AllOps
<1> HIDE DEF j
<1>4. Moves(p) /\ JobOK(p)' /\ pc'[p] = "lock"
  BY <1>1, <1>3, Goes, OneLabelOn
<1> QED
  BY <1>1, <1>4 DEF Step, MutexStep, HasMu, Creates

-----------------------------------------------------------------------------
(* The ways a handler goes on: with the ExecMu it waited for, with the one *)
(* it has, and out.                                                        *)

LEMMA LockedStep ==
    ASSUME ServerTypeOK, JobsOK, NEW p \in Procs, pc[p] \in {"lock", "prompt"},
           NEW l \in {"open", "read", "swap", "reread"}, NEW j \in Job,
           Lock(p), Goto(p, l, j), j.id = job[p].id, j.ent = job[p].ent,
           l = "swap" => j.kind = "import",
           UNCHANGED storeVars
    PROVE  Step(p)
<1>1. job[p].id \in Ids /\ job[p].ent \in Gens /\ l \in Labels
  BY OneLabelOn DEF JobsOK, JobOK
<1>2. Moves(p) /\ JobOK(p)' /\ Mine(p)' = Mine(p)
  BY <1>1, Goes DEF Mine
<1>3. NoneAppears
  BY DEF NoneAppears, storeVars
<1> QED
  BY <1>2, <1>3 DEF Step, MutexStep

LEMMA KeptStep ==
    ASSUME ServerTypeOK, JobsOK, NEW p \in Procs, pc[p] \in {"open", "exec", "validate", "reread"},
           NEW l \in {"exec", "validate", "relink", "log"}, NEW j \in Job,
           UNCHANGED execMu, Goto(p, l, j), j.id = job[p].id, j.ent = job[p].ent,
           l = "validate" => j.kind \in {"run", "ssh", "shell"},
           StoreStep \/ UNCHANGED storeVars,
           NoneAppears \/ Creates(p)
    PROVE  Step(p)
<1>1. job[p].id \in Ids /\ job[p].ent \in Gens /\ l \in Labels
  BY OneLabelOn DEF JobsOK, JobOK
<1>2. Moves(p) /\ JobOK(p)' /\ Mine(p)' = Mine(p)
  BY <1>1, Goes DEF Mine
<1>3. MutexStep(p)
  BY <1>2 DEF MutexStep, HasMu
<1> QED
  BY <1>2, <1>3 DEF Step

LEMMA DoneStep ==
    ASSUME ServerTypeOK, JobsOK, NEW p \in Procs, pc[p] # "idle", Done(p),
           execMu' = execMu \/ (HasMu(p) /\ Unlock(p)),
           StoreStep \/ UNCHANGED storeVars,
           NoneAppears \/ Creates(p)
    PROVE  Step(p)
<1>1. job[p].ent \in Gens \/ job[p].kind # "shell"
  BY DEF JobsOK, JobOK
<1>2. Moves(p) /\ JobOK(p)' /\ ~HasMu(p)'
  BY <1>1, DoneGoes
<1>3. MutexStep(p)
  BY <1>2 DEF MutexStep
<1> QED
  BY <1>2, <1>3 DEF Step

(* What a handler holds is in the types.                                   *)
LEMMA JobType ==
    ASSUME ServerTypeOK, JobsOK, NEW p \in Procs, pc[p] # "idle"
    PROVE  /\ job[p] \in Job /\ job[p].id \in Ids /\ job[p].fs \in FsIds
           /\ job[p].ent \in Gens => Mine(p) \in Mutexes /\ Entry_(p) \in Entry
           /\ pc[p] # "swap" => job[p].ent \in Gens
           /\ \A fs \in FsIds : fsys[job[p].id, fs] \in Content
<1>1. job[p] \in Job /\ job[p].id \in Ids /\ job[p].fs \in FsIds
  BY DEF ServerTypeOK, JobsOK, JobOK, Job
<1>2. \A fs \in FsIds : fsys[job[p].id, fs] \in Content
  BY <1>1 DEF ServerTypeOK, TypeOK
<1>3. ASSUME job[p].ent \in Gens
      PROVE  Mine(p) \in Mutexes /\ Entry_(p) \in Entry
  BY <1>1, <1>3 DEF ServerTypeOK, TypeOK, Mine, Entry_, Mutexes
<1>4. pc[p] # "swap" => job[p].ent \in Gens
  BY DEF JobsOK, JobOK
<1> QED
  BY <1>1, <1>2, <1>3, <1>4

LEMMA RangeIsNat == \A a, b \in Nat : a..b \subseteq Nat
BY SMT

LEMMA BoundsAreNat == 0 \in Nat /\ MaxNet \in Nat /\ MaxBytes \in Nat
BY StoreAssumption

LEMMA SameStore == UNCHANGED storeVars => NoneAppears
BY DEF storeVars, NoneAppears

(* Charging and reading a session makes none.                              *)
LEMMA ChargesStep ==
    ASSUME NEW id \in Ids, Charges(id)
    PROVE  StoreStep /\ NoneAppears /\ up
<1>1. StoreStep
  BY DEF StoreStep
<1>2. entries' = entries /\ up
  BY DEF Charges, updateLocked, AddUsage, Put
<1> QED
  BY <1>1, <1>2 DEF NoneAppears

(* Writing files is not an operation of the store.                         *)
LEMMA FileStep ==
    ASSUME TypeOK, NEW id \in Ids, NEW fs \in FsIds, NEW b \in 0..MaxBytes,
           fsys' = [fsys EXCEPT ![<<id, fs>>].bytes = b],
           UNCHANGED <<up, entries, heap, gen, nfs, disk>>
    PROVE  StoreStep /\ NoneAppears
<1>1. fsys' \in [Ids \X FsIds -> Content]
  BY DEF TypeOK, Content
<1>2. \A k \in Ids \X Gens : heap[k] = [heap[k] EXCEPT !.fs = heap[k].fs]
  BY DEF TypeOK, Entry
<1> QED
  BY <1>1, <1>2 DEF TypeOK, FilesOnly, StoreStep, NoneAppears

-----------------------------------------------------------------------------
(* Commands.                                                               *)

LEMMA RunLockStep ==
    ASSUME ServerTypeOK, JobsOK, NEW p \in Procs, RunLock(p)
    PROVE  Step(p)
<1>0. pc[p] \in {"lock", "prompt"} /\ UNCHANGED storeVars
  BY DEF RunLock
<1>1. CASE Done(p) /\ UNCHANGED execMu
  BY <1>0, <1>1, DoneStep, SameStore
<1>2. CASE ~(Done(p) /\ UNCHANGED execMu)
  <2> DEFINE c == fsys[job[p].id, Entry_(p).fs]
             d == IF job[p].kind = "shell" THEN job[p].cwd ELSE Entry_(p).cwd
             j == Snapshotted(p, c, d)
  <2>1. Lock(p) /\ Goto(p, "open", j)
    BY <1>2 DEF RunLock
  <2>2. job[p] \in Job /\ c \in Content /\ d \in Cwds
    BY <1>0, JobType DEF Entry, Job
  <2>3. j \in Job /\ j.id = job[p].id /\ j.ent = job[p].ent
    <3> HIDE DEF c, d
    <3> QED
      BY <2>2 DEF Snapshotted, Job
  <2> QED
    BY <1>0, <2>1, <2>3, LockedStep
<1> QED
  BY <1>1, <1>2

LEMMA RunOpenStep ==
    ASSUME ServerTypeOK, JobsOK, NEW p \in Procs, RunOpen(p)
    PROVE  Step(p)
<1>0. pc[p] = "open" /\ UNCHANGED storeVars /\ HasMu(p) /\ job[p] \in Job /\ Entry_(p) \in Entry
  BY JobType DEF RunOpen, HasMu
<1>1. CASE Unlock(p) /\ Done(p)
  BY <1>0, <1>1, DoneStep, SameStore
<1>2. CASE ~(Unlock(p) /\ Done(p))
  <2> DEFINE e == Entry_(p)
             u == Counted(fsys[job[p].id, e.fs].bytes)
             t == EffectiveTimeout(e.runtime)
             j == [job[p] EXCEPT !.fs = e.fs, !.used = u,
                      !.cwd = IF job[p].kind = "shell" THEN @ ELSE e.cwd,
                      !.left = t, !.net = e.net, !.rc = ~e.rc]
  <2>1. ~OutOfTime(e.runtime) /\ Goto(p, "exec", j) /\ UNCHANGED execMu
    BY <1>2 DEF RunOpen
  <2>2. u \in Counts /\ t \in Nat
    BY <1>0, <2>1, JobType, CountedType, TimeoutType DEF Entry, Content
  <2>3. j \in Job /\ j.id = job[p].id /\ j.ent = job[p].ent
    <3> HIDE DEF u, t
    <3> QED
      BY <1>0, <2>2 DEF Job, Entry
  <2> HIDE DEF j
  <2> QED
    BY <1>0, <2>1, <2>3, KeptStep, SameStore
<1> QED
  BY <1>1, <1>2

LEMMA ExecStep ==
    ASSUME ServerTypeOK, JobsOK, NEW p \in Procs, Exec(p)
    PROVE  Step(p)
<1>0. pc[p] = "exec" /\ job[p] \in Job /\ job[p].id \in Ids /\ job[p].fs \in FsIds /\ TypeOK
  BY JobType DEF Exec, ServerTypeOK
<1>1. PICK b \in 0..MaxBytes :
        /\ Counted(job[p].used + (b - Bytes(p))) \in Counts
        /\ fsys' = [fsys EXCEPT ![<<job[p].id, job[p].fs>>].bytes = b]
        /\ job' = [job EXCEPT ![p].used = Counted(@ + (b - Bytes(p)))]
  BY DEF Exec
<1>2. UNCHANGED <<up, entries, heap, gen, nfs, disk, pc, execMu>>
  BY DEF Exec
<1> DEFINE j == [job[p] EXCEPT !.used = Counted(job[p].used + (b - Bytes(p)))]
<1>3. j \in Job /\ j.id = job[p].id /\ j.ent = job[p].ent
  BY <1>0, <1>1 DEF Job
<1>4. Goto(p, "exec", j)
  BY <1>0, <1>1, <1>2 DEF Goto, ServerTypeOK
<1>5. StoreStep /\ NoneAppears
  BY <1>0, <1>1, <1>2, FileStep
<1> HIDE DEF j
<1> QED
  BY <1>0, <1>2, <1>3, <1>4, <1>5, KeptStep

LEMMA RunFinishStep ==
    ASSUME ServerTypeOK, JobsOK, NEW p \in Procs, RunFinish(p)
    PROVE  Step(p)
<1>0. /\ pc[p] = "exec" /\ job[p].kind \in {"run", "ssh", "shell"} /\ UNCHANGED execMu
      /\ job[p] \in Job /\ job[p].id \in Ids /\ fsys[job[p].id, job[p].fs] \in Content
      /\ Entry_(p) \in Entry
  BY JobType DEF RunFinish
<1>1. PICK cwd \in {Root, job[p].cwd, fsys[job[p].id, job[p].fs].tree},
           elapsed \in 0..job[p].left, net \in job[p].net..MaxNet :
        /\ updateLocked(job[p].id, cwd, job[p].kind = "shell" \/ Entry_(p).rc \/ job[p].rc,
                        elapsed, TRUE, net)
        /\ Goto(p, "validate", Reported(p, cwd))
  BY DEF RunFinish
<1>2. cwd \in Cwds /\ job[p].left \in Nat /\ job[p].net \in Nat
  BY <1>0, ZeroInRanges DEF Content, Job
<1>3. elapsed \in Nat /\ net \in Nat
  BY <1>2, BoundsAreNat, RangeIsNat
<1>4. Charges(job[p].id)
  BY <1>0, <1>1, <1>2, <1>3 DEF Charges, Job, Entry
<1>5. StoreStep /\ NoneAppears
  BY <1>0, <1>4, ChargesStep
<1> DEFINE j == Reported(p, cwd)
<1>6. j \in Job /\ j.id = job[p].id /\ j.ent = job[p].ent /\ j.kind = job[p].kind
  BY <1>0, <1>2, ZeroInRanges, NoJobType DEF Reported, Job, NoJob
<1> HIDE DEF j
<1> QED
  BY <1>0, <1>1, <1>5, <1>6, KeptStep DEF j

LEMMA RunKeepStep ==
    ASSUME ServerTypeOK, JobsOK, NEW p \in Procs, RunKeep(p)
    PROVE  Step(p)
BY DoneStep, SameStore DEF RunKeep, HasMu

(* A rollback creates a session only where there is a quota.               *)
LEMMA RunRollbackStep ==
    ASSUME ServerTypeOK, JobsOK, NEW p \in Procs, RunRollback(p)
    PROVE  Step(p)
<1> DEFINE id == job[p].id
           j  == [job[p] EXCEPT !.fs = nfs[id] + 1, !.cwd = job[p].snapCwd]
<1>0. /\ pc[p] = "validate" /\ UNCHANGED execMu /\ Goto(p, "relink", j)
      /\ job[p] \in Job /\ id \in Ids /\ job[p].snap \in Content /\ job[p].snapCwd \in Cwds
  BY JobType DEF RunRollback, Job
<1>1. Creates(p)
  BY DEF RunRollback, OverQuota, Creates
<1>2. nfs[id] < MaxFs /\ StoreStep
  <2>1. CASE Replace(id, job[p].snap, job[p].snapCwd)
    BY <1>0, <2>1 DEF StoreStep, Replaces, Replace, Swap, SwapTo, Insert
  <2>2. CASE /\ nfs[id] < MaxFs
             /\ nfs'  = [nfs EXCEPT ![id] = @ + 1]
             /\ fsys' = [fsys EXCEPT ![<<id, nfs[id] + 1>>] = job[p].snap]
             /\ UNCHANGED <<up, entries, heap, gen, disk>>
    <3>1. fsys' \in [Ids \X FsIds -> Content]
      BY <1>0, <2>2 DEF ServerTypeOK, TypeOK
    <3>2. nfs[id] + 1 \in 0..MaxFs
      BY <1>0, <2>2, StoreAssumption, SMT DEF ServerTypeOK, TypeOK
    <3>3. nfs' \in [Ids -> 0..MaxFs]
      BY <1>0, <2>2, <3>2 DEF ServerTypeOK, TypeOK
    <3>4. \A k \in Ids \X Gens : heap[k] = [heap[k] EXCEPT !.fs = heap[k].fs]
      BY DEF ServerTypeOK, TypeOK, Entry
    <3> QED
      BY <2>2, <3>1, <3>3, <3>4 DEF StoreStep, FilesOnly, ServerTypeOK, TypeOK
  <2> QED
    BY <2>1, <2>2 DEF RunRollback
<1>3. nfs[id] + 1 \in FsIds
  BY <1>0, <1>2, StoreAssumption, SMT DEF ServerTypeOK, TypeOK, FsIds
<1>4. j \in Job /\ j.id = job[p].id /\ j.ent = job[p].ent
  BY <1>0, <1>3 DEF Job
<1> HIDE DEF j
<1> QED
  BY <1>0, <1>1, <1>2, <1>4, KeptStep

LEMMA RunRelinkStep ==
    ASSUME ServerTypeOK, JobsOK, NEW p \in Procs, RunRelink(p)
    PROVE  Step(p)
<1>0. pc[p] = "relink" /\ HasMu(p) /\ Mine(p) \in Mutexes /\ job[p].fs \in FsIds /\ TypeOK
  BY JobType DEF RunRelink, HasMu, ServerTypeOK
<1>1. heap' \in [Ids \X Gens -> Entry]
  BY <1>0 DEF RunRelink, TypeOK, Mutexes, Entry
<1>2. \A k \in Ids \X Gens : heap'[k] = [heap[k] EXCEPT !.fs = heap'[k].fs]
  BY <1>0 DEF RunRelink, TypeOK, Mutexes, Entry
<1>3. StoreStep /\ NoneAppears
  BY <1>0, <1>1, <1>2 DEF StoreStep, FilesOnly, RunRelink, TypeOK, NoneAppears
<1> QED
  BY <1>0, <1>3, DoneStep DEF RunRelink

-----------------------------------------------------------------------------
(* Interactive shells, readers, imports and cron jobs.                     *)

LEMMA ShellRcWriteStep ==
    ASSUME ServerTypeOK, JobsOK, NEW p \in Procs, ShellRcWrite(p)
    PROVE  Step(p)
<1>0. pc[p] = "rc" /\ job[p] \in Job /\ job[p].id \in Ids /\ job[p].fs \in FsIds /\ TypeOK
  BY JobType DEF ShellRcWrite, ServerTypeOK
<1>1. PICK b \in 0..MaxBytes : fsys' = [fsys EXCEPT ![<<job[p].id, job[p].fs>>].bytes = b]
  BY DEF ShellRcWrite
<1>2. UNCHANGED <<up, entries, heap, gen, nfs, disk, pc, job, execMu>>
  BY DEF ShellRcWrite, serverVars
<1>3. StoreStep /\ NoneAppears
  BY <1>0, <1>1, <1>2, FileStep
<1>4. Goto(p, "rc", job[p])
  BY <1>0, <1>2 DEF Goto, ServerTypeOK
<1>5. Moves(p) /\ JobOK(p)'
  BY <1>0, <1>2, <1>4, OneLabelOn DEF Moves, JobsOK, JobOK
<1>6. MutexStep(p)
  BY <1>0, <1>2 DEF MutexStep, HasMu
<1> QED
  BY <1>3, <1>5, <1>6 DEF Step

LEMMA ShellRcDoneStep ==
    ASSUME ServerTypeOK, JobsOK, NEW p \in Procs, ShellRcDone(p)
    PROVE  Step(p)
<1>1. /\ pc[p] = "rc" /\ Done(p) /\ UNCHANGED execMu
      /\ updateLocked(job[p].id, job[p].cwd, TRUE, 0, FALSE, 0)
      /\ job[p].id \in Ids /\ job[p].cwd \in Cwds
  BY JobType DEF ShellRcDone, Job
<1>2. Charges(job[p].id)
  BY <1>1, BoundsAreNat DEF Charges
<1> QED
  BY <1>1, <1>2, ChargesStep, DoneStep

LEMMA ShellExitStep ==
    ASSUME ServerTypeOK, JobsOK, NEW p \in Procs, ShellExit(p)
    PROVE  Step(p)
<1>1. Goto(p, "idle", NoJob) /\ UNCHANGED <<storeVars, execMu>>
  BY DEF ShellExit
<1>2. Moves(p) /\ JobOK(p)' /\ ~HasMu(p)'
  BY <1>1, NoJobType, Goes, OneLabelOn DEF HasMu
<1> QED
  BY <1>1, <1>2, SameStore DEF Step, MutexStep

LEMMA ReadLockStep ==
    ASSUME ServerTypeOK, JobsOK, NEW p \in Procs, ReadLock(p)
    PROVE  Step(p)
<1> DEFINE j == [job[p] EXCEPT !.fs = Entry_(p).fs]
<1>1. pc[p] = "lock" /\ Lock(p) /\ Goto(p, "read", j) /\ UNCHANGED storeVars
  BY DEF ReadLock
<1>2. j \in Job /\ j.id = job[p].id /\ j.ent = job[p].ent
  BY <1>1, JobType DEF Job, Entry
<1> HIDE DEF j
<1> QED
  BY <1>1, <1>2, LockedStep

LEMMA ReadDoneStep ==
    ASSUME ServerTypeOK, JobsOK, NEW p \in Procs, ReadDone(p)
    PROVE  Step(p)
BY DoneStep, SameStore DEF ReadDone, HasMu

LEMMA ImportLockStep ==
    ASSUME ServerTypeOK, JobsOK, NEW p \in Procs, ImportLock(p)
    PROVE  Step(p)
<1>1. /\ pc[p] = "lock" /\ Lock(p) /\ Goto(p, "swap", job[p]) /\ UNCHANGED storeVars
      /\ job[p].kind = "import" /\ job[p] \in Job
  BY JobType DEF ImportLock
<1> QED
  BY <1>1, LockedStep

LEMMA ImportSwapStep ==
    ASSUME ServerTypeOK, JobsOK, NEW p \in Procs, ImportSwap(p)
    PROVE  Step(p)
<1> DEFINE id == job[p].id
           c  == NewTree(id, job[p].snap.bytes)
<1>0. pc[p] = "swap" /\ Done(p) /\ job[p].kind = "import" /\ id \in Ids /\ job[p].snap.bytes \in 0..MaxBytes
  BY JobType DEF ImportSwap, JobsOK, JobOK, Job, Content
<1>1. StoreStep \/ UNCHANGED storeVars
  <2>1. ASSUME NEW cwd \in {Root, c.tree}, Replace(id, c, cwd)
        PROVE  StoreStep
    <3>1. nfs[id] < MaxFs
      BY <2>1 DEF Replace, Swap, SwapTo, Insert
    <3>2. c \in Content
      BY <1>0, <3>1, NewTreeType DEF ServerTypeOK
    <3>3. cwd \in Cwds
      BY <2>1, <3>2, ZeroInRanges DEF Content
    <3> QED
      BY <1>0, <2>1, <3>2, <3>3 DEF StoreStep, Replaces
  <2> QED
    BY <2>1 DEF ImportSwap
<1>2. execMu' = execMu \/ (HasMu(p) /\ Unlock(p))
  BY <1>0 DEF ImportSwap, HasMu
<1>3. Creates(p)
  <2>1. pc'[p] \in {"idle", "prompt"}
    BY <1>0, DoneGoes
  <2> QED
    BY <1>0, <2>1 DEF Creates
<1> QED
  BY <1>0, <1>1, <1>2, <1>3, DoneStep

LEMMA CronLockStep ==
    ASSUME ServerTypeOK, JobsOK, NEW p \in Procs, CronLock(p)
    PROVE  Step(p)
<1>1. pc[p] = "lock" /\ Lock(p) /\ Goto(p, "reread", job[p]) /\ UNCHANGED storeVars /\ job[p] \in Job
  BY JobType DEF CronLock
<1> QED
  BY <1>1, LockedStep

LEMMA CronRereadStep ==
    ASSUME ServerTypeOK, JobsOK, NEW p \in Procs, CronReread(p)
    PROVE  Step(p)
<1> DEFINE id == job[p].id
<1>0. pc[p] = "reread" /\ job[p] \in Job /\ id \in Ids /\ HasMu(p)
  BY JobType DEF CronReread, HasMu
<1>1. CASE Unlock(p) /\ Done(p) /\ UNCHANGED storeVars
  BY <1>0, <1>1, DoneStep, SameStore
<1>2. CASE Unlock(p) /\ Done(p) /\ GetExisting(id)
  BY <1>0, <1>2, DoneStep, ExistingStays DEF StoreStep
<1>3. CASE ~(Unlock(p) /\ Done(p))
  <2> DEFINE e == Current(id)
             u == Counted(fsys[id, e.fs].bytes)
             t == EffectiveTimeout(e.runtime)
             j == [job[p] EXCEPT !.fs = e.fs, !.used = u, !.left = t, !.net = e.net]
  <2>1. GetExisting(id) /\ ~OutOfTime(e.runtime) /\ Goto(p, "exec", j) /\ UNCHANGED execMu
    BY <1>3 DEF CronReread
  <2>2. e \in Entry /\ fsys[id, e.fs] \in Content
    BY <2>1, CurrentType DEF GetExisting, ServerTypeOK
  <2>3. u \in Counts /\ t \in Nat
    BY <2>1, <2>2, CountedType, TimeoutType DEF Entry, Content
  <2>4. j \in Job /\ j.id = job[p].id /\ j.ent = job[p].ent
    <3> HIDE DEF u, t, e
    <3> QED
      BY <1>0, <2>2, <2>3 DEF Job, Entry
  <2>5. StoreStep /\ NoneAppears
    BY <1>0, <2>1, ExistingStays DEF StoreStep
  <2> HIDE DEF j
  <2> QED
    BY <1>0, <2>1, <2>4, <2>5, KeptStep
<1> QED
  BY <1>1, <1>2, <1>3 DEF CronReread

LEMMA CronFinishStep ==
    ASSUME ServerTypeOK, JobsOK, NEW p \in Procs, CronFinish(p)
    PROVE  Step(p)
<1> DEFINE j == [job[p] EXCEPT !.left = 0, !.net = 0]
<1>0. /\ pc[p] = "exec" /\ UNCHANGED execMu /\ Goto(p, "log", j)
      /\ job[p] \in Job /\ job[p].id \in Ids /\ job[p].left \in Nat /\ job[p].net \in Nat
  BY JobType DEF CronFinish, Job
<1>1. PICK elapsed \in 0..job[p].left, net \in job[p].net..MaxNet : AddUsage(job[p].id, elapsed, net)
  BY DEF CronFinish
<1>2. elapsed \in Nat /\ net \in Nat
  BY <1>0, BoundsAreNat, RangeIsNat
<1>3. StoreStep /\ NoneAppears
  BY <1>0, <1>1, <1>2, ChargesStep DEF Charges
<1>4. j \in Job /\ j.id = job[p].id /\ j.ent = job[p].ent
  BY <1>0, BoundsAreNat DEF Job
<1> HIDE DEF j
<1> QED
  BY <1>0, <1>3, <1>4, KeptStep

LEMMA CronLogStep ==
    ASSUME ServerTypeOK, JobsOK, NEW p \in Procs, CronLog(p)
    PROVE  Step(p)
<1>0. /\ pc[p] = "log" /\ HasMu(p) /\ Unlock(p) /\ Done(p) /\ TypeOK
      /\ job[p].id \in Ids /\ job[p].fs \in FsIds /\ fsys[job[p].id, job[p].fs] \in Content
      /\ UNCHANGED <<up, entries, heap, gen, nfs, disk>>
  BY JobType DEF CronLog, HasMu, ServerTypeOK
<1>1. PICK d \in 0..1 : /\ Bytes(p) + d <= MaxBytes
                        /\ fsys' = [fsys EXCEPT ![<<job[p].id, job[p].fs>>].bytes = @ + d]
  BY DEF CronLog
<1> DEFINE old == fsys[<<job[p].id, job[p].fs>>].bytes
           b   == old + d
<1>2. old \in 0..MaxBytes /\ old + d <= MaxBytes
  BY <1>0, <1>1 DEF Bytes, Content
<1>3. b \in 0..MaxBytes
  <2> HIDE DEF old
  <2> QED
    BY <1>2, BoundsAreNat, SMT
<1>4. fsys' = [fsys EXCEPT ![<<job[p].id, job[p].fs>>].bytes = b]
  BY <1>0, <1>1 DEF TypeOK
<1>5. StoreStep /\ NoneAppears
  <2> HIDE DEF b
  <2> QED
    BY <1>0, <1>3, <1>4, FileStep
<1> QED
  BY <1>0, <1>5, DoneStep

-----------------------------------------------------------------------------
(* All steps together.                                                     *)

GoroutineActs(p) ==
    \/ Arrive(p) \/ Acquire(p) \/ Advance(p) \/ CommandEnds(p)
    \/ Exec(p) \/ ShellRcWrite(p) \/ ShellRcDone(p) \/ ShellExit(p)

AllStop == /\ pc' = [p \in Procs |-> "idle"]
           /\ job' = [p \in Procs |-> NoJob]
           /\ execMu' = [m \in Mutexes |-> None]

(* What is not a goroutine's step: a DELETE, time, a crash, a restart.     *)
WorldStep == /\ StoreStep \/ UNCHANGED storeVars
             /\ UNCHANGED serverVars \/ AllStop
             /\ NoneAppears \/ ~up

LEMMA GoroutineStep ==
    ASSUME ServerTypeOK, JobsOK, NEW p \in Procs, GoroutineActs(p)
    PROVE  Step(p)
<1>1. CASE Arrive(p)
  BY <1>1, RunAttachStep, ShellOpenStep, ReadAttachStep, ImportAttachStep, CronSnapStep DEF Arrive
<1>2. CASE Acquire(p)
  BY <1>2, RunLockStep, ReadLockStep, ImportLockStep, CronLockStep DEF Acquire
<1>3. CASE Advance(p) \/ CommandEnds(p)
  BY <1>3, RunOpenStep, RunFinishStep, RunKeepStep, RunRollbackStep, RunRelinkStep, ReadDoneStep,
     ImportSwapStep, CronRereadStep, CronFinishStep, CronLogStep DEF Advance, CommandEnds
<1> QED
  BY <1>1, <1>2, <1>3, ExecStep, ShellRcWriteStep, ShellRcDoneStep, ShellExitStep DEF GoroutineActs

LEMMA WorldSteps ==
    ASSUME \/ \E id \in Ids : HandleDelete(id)
           \/ Age \/ CrashServer \/ RestartServer \/ Quiet \/ UNCHANGED vars
    PROVE  WorldStep
<1>1. ASSUME NEW id \in Ids, HandleDelete(id)
      PROVE  WorldStep
  BY <1>1 DEF HandleDelete, Delete, Drop, WorldStep, StoreStep, NoneAppears, Absent
<1>2. CASE Age
  BY <1>2 DEF Age, Tick, reap, Drop, WorldStep, StoreStep, NoneAppears, Absent
<1>3. CASE CrashServer
  BY <1>3 DEF CrashServer, Crash, WorldStep, AllStop, StoreStep, NoneAppears
<1>4. CASE RestartServer
  BY <1>4 DEF RestartServer, Restart, WorldStep, StoreStep
<1>5. CASE UNCHANGED vars
  BY <1>5 DEF vars, storeVars, WorldStep, NoneAppears
<1> QED
  BY <1>1, <1>2, <1>3, <1>4, <1>5 DEF Quiet

LEMMA StepOrWorld ==
    ASSUME ServerTypeOK, JobsOK, [Next]_vars
    PROVE  (\E p \in Procs : Step(p)) \/ WorldStep
<1>1. ASSUME NEW p \in Procs, GoroutineActs(p)
      PROVE  Step(p)
  BY <1>1, GoroutineStep
<1>2. (\E p \in Procs : GoroutineActs(p)) \/ \/ \E id \in Ids : HandleDelete(id)
                                             \/ Age \/ CrashServer \/ RestartServer \/ Quiet \/ UNCHANGED vars
  BY DEF Next, GoroutineActs
<1> QED
  BY <1>1, <1>2, WorldSteps

-----------------------------------------------------------------------------
(* The invariant: the store's own, what goroutines carry, and the ExecMu   *)
(* they hold.                                                              *)

ServerInv == StoreInv /\ ServerTypeOK /\ JobsOK /\ MutexHeld

LEMMA StepKeepsServer ==
    ASSUME ServerInv, NEW p \in Procs, Step(p)
    PROVE  ServerInv'
<1>0. StoreInv /\ ServerTypeOK /\ JobsOK /\ MutexHeld /\ TypeOK
  BY DEF ServerInv, ServerTypeOK
<1>1. PICK l \in Labels, j \in Job : Goto(p, l, j)
  BY DEF Step, Moves
<1>2. StoreInv'
  <2>1. CASE StoreStep
    BY <1>0, <2>1, StoreStepKeeps
  <2>2. CASE UNCHANGED storeVars
    BY <1>0, <2>2 DEF storeVars, StoreInv, TypeOK, CapRespected, DurableState, DiskWithin, Saved,
       Live, Files, Current
  <2> QED
    BY <2>1, <2>2 DEF Step
<1>3. ServerTypeOK'
  <2>1. pc' \in [Procs -> Labels] /\ job' \in [Procs -> Job]
    BY <1>0, <1>1 DEF Goto, ServerTypeOK
  <2>2. execMu' \in [Mutexes -> Procs \cup {None}]
    BY <1>0 DEF Step, MutexStep, Lock, Unlock, ServerTypeOK
  <2> QED
    BY <1>2, <2>1, <2>2 DEF ServerTypeOK, StoreInv
<1>4. JobsOK'
  BY <1>0, <1>1 DEF Step, JobsOK, JobOK, Goto, ServerTypeOK
<1>5. ASSUME NEW q \in Procs, q # p
      PROVE  (HasMu(q)' <=> HasMu(q)) /\ Mine(q)' = Mine(q)
  BY <1>0, <1>1, <1>5 DEF Goto, ServerTypeOK, HasMu, Mine
<1>6. \A q \in Procs : q # None
  BY ServerAssumption
<1>7. \A q \in Procs : HasMu(q) => Mine(q) \in Mutexes
  <2> SUFFICES ASSUME NEW q \in Procs, HasMu(q)
               PROVE  job[q].id \in Ids /\ job[q].ent \in Gens
    BY DEF Mine, Mutexes
  <2>1. job[q] \in Job /\ job[q].ent \in 0..MaxGen
    BY <1>0 DEF ServerTypeOK, Job
  <2>2. job[q].ent # 0 => job[q].ent \in Gens
    BY <2>1, StoreAssumption, SMT DEF Gens
  <2>3. pc[q] # "idle" /\ (pc[q] # "swap" \/ job[q].ent # 0)
    BY DEF HasMu
  <2> QED
    BY <1>0, <2>2, <2>3 DEF JobsOK, JobOK
<1>8. MutexHeld'
  <2>1. CASE execMu' = execMu /\ (HasMu(p)' => HasMu(p) /\ Mine(p)' = Mine(p))
    BY <1>0, <1>5, <2>1 DEF MutexHeld
  <2>2. CASE Lock(p) /\ Mine(p)' = Mine(p) /\ pc[p] \in {"lock", "prompt"}
    <3>1. Mine(p) \in Mutexes
      BY <1>0, <2>2, JobType
    <3>2. execMu'[Mine(p)'] = p
      BY <1>0, <2>2, <3>1 DEF Lock, ServerTypeOK
    <3>3. ASSUME NEW q \in Procs, q # p, HasMu(q)'
          PROVE  execMu'[Mine(q)'] = q
      BY <1>0, <1>5, <1>6, <2>2, <3>3 DEF Lock, MutexHeld, ServerTypeOK
    <3> QED
      BY <3>2, <3>3 DEF MutexHeld
  <2>3. CASE HasMu(p) /\ Unlock(p) /\ ~HasMu(p)'
    <3>1. ASSUME NEW q \in Procs, HasMu(q)'
          PROVE  execMu'[Mine(q)'] = q
      <4>1. q # p
        BY <2>3, <3>1
      <4>2. HasMu(q) /\ Mine(q)' = Mine(q)
        BY <1>5, <3>1, <4>1
      <4>3. execMu[Mine(q)] = q /\ execMu[Mine(p)] = p
        BY <1>0, <2>3, <4>2 DEF MutexHeld
      <4> QED
        BY <1>0, <2>3, <4>1, <4>2, <4>3 DEF Unlock, ServerTypeOK
    <3> QED
      BY <3>1 DEF MutexHeld
  <2> QED
    BY <2>1, <2>2, <2>3 DEF Step, MutexStep
<1> QED
  BY <1>2, <1>3, <1>4, <1>8 DEF ServerInv

LEMMA WorldKeepsServer ==
    ASSUME ServerInv, WorldStep
    PROVE  ServerInv'
<1>0. StoreInv /\ ServerTypeOK /\ JobsOK /\ MutexHeld
  BY DEF ServerInv
<1>1. StoreInv'
  <2>1. CASE StoreStep
    BY <1>0, <2>1, StoreStepKeeps
  <2>2. CASE UNCHANGED storeVars
    BY <1>0, <2>2 DEF storeVars, StoreInv, TypeOK, CapRespected, DurableState, DiskWithin, Saved,
       Live, Files, Current
  <2> QED
    BY <2>1, <2>2 DEF WorldStep
<1>2. CASE UNCHANGED serverVars
  BY <1>0, <1>1, <1>2 DEF serverVars, ServerInv, ServerTypeOK, StoreInv, JobsOK, JobOK, MutexHeld, HasMu, Mine
<1>3. CASE AllStop
  <2>1. ServerTypeOK'
    BY <1>1, <1>3, NoJobType DEF AllStop, ServerTypeOK, StoreInv, Labels
  <2>2. JobsOK' /\ MutexHeld'
    BY <1>3 DEF AllStop, JobsOK, JobOK, MutexHeld, HasMu
  <2> QED
    BY <1>1, <2>1, <2>2 DEF ServerInv
<1> QED
  BY <1>2, <1>3 DEF WorldStep

LEMMA ServerInvInit == Init => ServerInv
<1> SUFFICES ASSUME Init
             PROVE  ServerInv
  OBVIOUS
<1>1. TypeOK
  <2>1. \A rc \in BOOLEAN : [Blank EXCEPT !.rc = rc] \in Entry
    BY BlankType DEF Entry, Blank
  <2>2. ToRecord([Blank EXCEPT !.rc = TRUE], NoContent) \in Record
    BY <2>1, NoContentType, RecordType
  <2>3. entries \in [Ids -> 0..MaxGen] /\ nfs \in [Ids -> 0..MaxFs]
    BY StoreAssumption, SMT DEF Init, Absent
  <2>4. heap \in [Ids \X Gens -> Entry]
    BY <2>1 DEF Init
  <2> QED
    BY <2>2, <2>3, <2>4, NoContentType DEF Init, TypeOK
<1>2. Live = Preloaded /\ up
  <2>1. 1 # Absent
    BY SMT DEF Absent
  <2> QED
    BY <2>1, ServerAssumption DEF Init, Live
<1>3. Files = IF Persistent THEN Preloaded ELSE {}
  <2>1. [Blank EXCEPT !.rc = TRUE] \in Entry
    BY BlankType DEF Entry, Blank
  <2>2. ToRecord([Blank EXCEPT !.rc = TRUE], NoContent) # NoFile
    BY <2>1, NoContentType, RecordType, NoFileIsNoRecord
  <2> QED
    BY <2>2, ServerAssumption DEF Init, Files
<1>4. CapRespected
  BY <1>2, ServerAssumption DEF CapRespected
<1>5. DurableState
  <2> SUFFICES ASSUME NEW id \in Ids, id \in Files \cap Live
               PROVE  Saved(id)
    BY <1>2, <1>3 DEF DurableState
  <2>1. id \in Preloaded /\ Persistent /\ entries[id] = 1
    BY <1>2, <1>3 DEF Init
  <2>2. Current(id) = [Blank EXCEPT !.rc = TRUE]
    BY <2>1, ZeroInRanges DEF Init, Current
  <2>3. disk[id] = ToRecord([Blank EXCEPT !.rc = TRUE], NoContent)
    BY <2>1 DEF Init
  <2> QED
    BY <2>2, <2>3 DEF Saved, ToRecord, Blank
<1>6. DiskWithin
  <2>1. Cardinality({}) = 0
    BY FS_EmptySet
  <2>2. MaxEntries > 0 => Cardinality(Files) <= MaxEntries
    BY <1>3, <2>1, ServerAssumption, StoreAssumption, SMT
  <2> QED
    BY <1>3, <2>2 DEF DiskWithin
<1>7. ServerTypeOK
  BY <1>1, NoJobType DEF Init, ServerTypeOK, Labels
<1>8. JobsOK /\ MutexHeld
  BY DEF Init, JobsOK, JobOK, MutexHeld, HasMu
<1> QED
  BY <1>1, <1>4, <1>5, <1>6, <1>7, <1>8 DEF ServerInv, StoreInv

LEMMA ServerInvNext == ServerInv /\ [Next]_vars => ServerInv'
BY StepOrWorld, StepKeepsServer, WorldKeepsServer DEF ServerInv

(* The store's invariant, the types, and that whoever is past its lock owns*)
(* the ExecMu of the Entry it points to, hold in every state of the server.*)
THEOREM ServerInvariant == Spec => []ServerInv
BY ServerInvInit, ServerInvNext, PTL DEF Spec

-----------------------------------------------------------------------------
(* What follows for every server: the types,                               *)
THEOREM ServerTypeCorrect == Spec => []ServerTypeOK
<1>1. ServerInv => ServerTypeOK
  BY DEF ServerInv
<1> QED
  BY <1>1, ServerInvariant, PTL

(* never more than --max-sessions sessions, whichever handlers, cron jobs, *)
(* imports, rollbacks and restarts race each other,                        *)
THEOREM ServerCapHolds == Spec => []CapRespected
<1>1. ServerInv => CapRespected
  BY DEF ServerInv, StoreInv
<1> QED
  BY <1>1, ServerInvariant, PTL

(* with a working disk, files that say at every moment what a restart must *)
(* find,                                                                   *)
THEOREM ServerDurable == Spec => []DurableState
<1>1. ServerInv => DurableState
  BY DEF ServerInv, StoreInv
<1> QED
  BY <1>1, ServerInvariant, PTL

(* and never two goroutines that hold the ExecMu of one Entry.             *)
OnePerEntry == \A p, q \in Procs : p # q /\ HasMu(p) /\ HasMu(q) => Mine(p) # Mine(q)

THEOREM MutualExclusion == Spec => []OnePerEntry
<1>1. ServerInv => OnePerEntry
  BY DEF ServerInv, MutexHeld, OnePerEntry
<1> QED
  BY <1>1, ServerInvariant, PTL

(* With a working disk the whole server keeps the promise of SessionMap:   *)
(* whatever the goroutines do, budgets only grow, crashes and restarts     *)
(* change none, and sessions are forgotten only as a whole.                *)
THEOREM ServerPromiseKept == ASSUME ~Faults
                             PROVE  Spec => StoreKeepsPromise
<1>1. Init => Promise!Init
  <2> SUFFICES ASSUME Init
               PROVE  Promise!Init
    OBVIOUS
  <2>1. TypeOK /\ CapRespected /\ up
    BY ServerInvInit DEF ServerInv, StoreInv, Init
  <2>2. Promise!Known = Live /\ Budgets = [id \in Ids |-> IF id \in Live THEN Budget(Current(id)) ELSE NoFile]
    BY <2>1, BudgetsUp
  <2>3. Budgets \in [Ids -> Promise!Budget \cup {NoFile}]
    BY <2>1, <2>2, CurrentType, BudgetType
  <2> QED
    BY <2>1, <2>2, <2>3 DEF Promise!Init, CapRespected, Promise!Cardinality, Cardinality
<1>2. ServerInv /\ [Next]_vars => [Promise!Next]_Budgets
  <2> SUFFICES ASSUME ServerInv, [Next]_vars
               PROVE  Promise!Next \/ Budgets' = Budgets
    OBVIOUS
  <2>1. StoreStep \/ UNCHANGED storeVars
    BY StepOrWorld DEF ServerInv, Step, WorldStep
  <2> QED
    BY <2>1, StoreStepPromised, NoEntryNoChange DEF ServerInv, storeVars
<1> QED
  BY <1>1, <1>2, ServerInvariant, PTL DEF Spec, StoreKeepsPromise, Promise!Spec

(* Without --session-max-bytes a session that appears does so because a    *)
(* client asked for it.  With it, a rollback may bring back what was       *)
(* deleted while the command ran.                                          *)
THEOREM ClientsAloneCreate == ASSUME Quota = 0
                              PROVE  Spec => OnlyClientsCreate
<1>1. ServerInv /\ [Next]_vars => [ClientsCreate]_vars
  <2> SUFFICES ASSUME ServerInv, [Next]_vars, NEW id \in Ids,
                      up, entries[id] = Absent, entries'[id] # Absent
               PROVE  \E p \in Procs : pc'[p] # pc[p] /\ (pc[p] = "idle" \/ job[p].kind = "import")
    BY DEF ClientsCreate
  <2>1. ~NoneAppears /\ ~(Quota > 0)
    BY SMT DEF NoneAppears
  <2>2. PICK p \in Procs : Step(p)
    BY <2>1, StepOrWorld DEF ServerInv, WorldStep
  <2> QED
    BY <2>1, <2>2 DEF Step, Creates
<1> QED
  BY <1>1, ServerInvariant, PTL DEF Spec, OnlyClientsCreate

-----------------------------------------------------------------------------
(***************************************************************************)
(* What ExecMu is for.  A handler holds the ExecMu of an Entry, and reports*)
(* to the store by session id: the two name the same session as long as no *)
(* session is deleted or reaped while a handler is at work in it.  Under   *)
(* that condition one handler at a time works in a session, none charges   *)
(* it beyond its budget, and none reports over what another has reported.  *)
(* A second condition, that no session appears while an import that found  *)
(* none is under way, makes the holder of ExecMu the only one to swap the  *)
(* filesystem, so that commands run in the filesystem of their session.    *)
(***************************************************************************)

(* What a step of a goroutine does to the sessions: it charges runtime d to*)
(* the session id, sets its network usage if n, its filesystem if sw.      *)

Effect(id, d, n, sw) ==
    /\ up' = up
    /\ \A j \in Live :
        /\ j \in Live' /\ entries'[j] = entries[j]
        /\ Current(j)'.runtime = Current(j).runtime + (IF j = id THEN d ELSE 0)
        /\ Current(j)'.net = Current(j).net \/ (n /\ j = id)
        /\ Current(j)'.fs = Current(j).fs \/ (sw /\ j = id)
    /\ \A j \in Live' \ Live : Current(j)'.runtime = 0
    /\ \A j \in Files' : \/ j \in Files /\ disk'[j] = disk[j]
                         \/ j \in Live' /\ disk'[j].runtime = Current(j)'.runtime

LEMMA EffectKeeps ==
    ASSUME NEW id, NEW d, NEW n \in BOOLEAN, NEW sw \in BOOLEAN, Effect(id, d, n, sw), NEW j \in Live
    PROVE  /\ j # id \/ ~n => Current(j)'.net = Current(j).net
           /\ j # id \/ ~sw => Current(j)'.fs = Current(j).fs
<1>1. Current(j)'.net = Current(j).net \/ (n /\ j = id)
  BY DEF Effect
<1>2. Current(j)'.fs = Current(j).fs \/ (sw /\ j = id)
  BY DEF Effect
<1> QED
  BY <1>1, <1>2

LEMMA EffectStores ==
    ASSUME NEW id, NEW d, NEW n, NEW sw, Effect(id, d, n, sw), NEW j \in Files'
    PROVE  \/ j \in Files /\ disk'[j] = disk[j]
           \/ j \in Live' /\ disk'[j].runtime = Current(j)'.runtime
BY DEF Effect

LEMMA EntryNumbers ==
    ASSUME TypeOK, NEW id \in Live
    PROVE  Current(id).runtime \in Nat /\ Current(id).runtime + 0 = Current(id).runtime
<1>1. Current(id).runtime \in Nat
  BY CurrentType DEF Entry
<1>2. \A x \in Nat : x + 0 = x
  BY SMT
<1> QED
  BY <1>1, <1>2

LEMMA NoEffect ==
    ASSUME TypeOK, NEW id \in Ids, UNCHANGED <<up, entries, heap, disk>>
    PROVE  Effect(id, 0, FALSE, FALSE)
<1>1. Live' = Live /\ Files' = Files /\ up' = up /\ disk' = disk /\ entries' = entries
  BY DEF Live, Files
<1>2. \A j \in Live : Current(j)' = Current(j)
  BY DEF Current
<1>3. \A j \in Live : Current(j).runtime = Current(j).runtime + (IF j = id THEN 0 ELSE 0)
  BY EntryNumbers
<1> QED
  BY <1>1, <1>2, <1>3 DEF Effect

(* A session's entry is replaced, and saved if the file is touched.        *)
LEMMA PutIsEffect ==
    ASSUME TypeOK, NEW id \in Live, NEW e \in Entry, Put(id, e),
           NEW d \in Nat, NEW n \in BOOLEAN, NEW sw \in BOOLEAN,
           e.runtime = Current(id).runtime + d,
           e.net = Current(id).net \/ n,
           e.fs = Current(id).fs \/ sw,
           disk' = disk \/ \E c \in Content : persistLocked(id, e, c)
    PROVE  Effect(id, d, n, sw)
<1>1. /\ Live' = Live /\ Current(id)' = e
      /\ \A j \in Live \ {id} : Current(j)' = Current(j)
  BY PutEffect
<1>2. up' = up /\ entries' = entries /\ id \in Ids
  BY DEF Put, Live
<1>3. ASSUME NEW j \in Files'
      PROVE  \/ j \in Files /\ disk'[j] = disk[j]
             \/ j \in Live' /\ disk'[j].runtime = Current(j)'.runtime
  <2>1. CASE disk' = disk
    BY <1>3, <2>1 DEF Files
  <2>2. CASE \E c \in Content : persistLocked(id, e, c) /\ disk' # disk
    <3>1. PICK c \in Content : disk' = [disk EXCEPT ![id] = ToRecord(e, c)]
      BY <2>2 DEF persistLocked, writePersistedSession
    <3>2. j = id => disk'[j].runtime = e.runtime
      BY <1>2, <3>1 DEF TypeOK, ToRecord
    <3>3. j # id => disk'[j] = disk[j]
      BY <1>3, <3>1 DEF TypeOK, Files
    <3> QED
      BY <1>1, <1>3, <3>2, <3>3 DEF Files
  <2> QED
    BY <2>1, <2>2
<1>4. \A j \in Live : Current(j)'.runtime = Current(j).runtime + (IF j = id THEN d ELSE 0)
  BY <1>1, EntryNumbers
<1> QED
  BY <1>1, <1>2, <1>3, <1>4 DEF Effect

LEMMA InsertIsEffect ==
    ASSUME TypeOK, NEW id \in Ids \ Live, NEW c \in Content, NEW cwd \in Cwds, Insert(id, c, cwd),
           NEW sw \in BOOLEAN
    PROVE  Effect(id, 0, FALSE, sw)
<1> DEFINE e == [Blank EXCEPT !.fs = nfs[id] + 1, !.cwd = cwd]
<1>1. /\ Live' = Live \cup {id} /\ Current(id)' = e /\ Current(id)' \in Entry
      /\ \A j \in Live : Current(j)' = Current(j)
  BY InsertEffect
<1>2. up' = up /\ \A j \in Live : entries'[j] = entries[j]
  BY DEF Insert, Live, TypeOK
<1>3. e.runtime = 0
  BY DEF Blank
<1>4. ASSUME NEW j \in Files'
      PROVE  \/ j \in Files /\ disk'[j] = disk[j]
             \/ j \in Live' /\ disk'[j].runtime = Current(j)'.runtime
  <2>1. CASE disk' = disk
    BY <1>4, <2>1 DEF Files
  <2>2. CASE disk' # disk
    <3>1. disk' = [disk EXCEPT ![id] = ToRecord(e, c)]
      BY <2>2 DEF Insert, persistLocked, writePersistedSession
    <3>2. j = id => disk'[j].runtime = e.runtime
      BY <3>1 DEF TypeOK, ToRecord
    <3>3. j # id => disk'[j] = disk[j]
      BY <1>4, <3>1 DEF TypeOK, Files
    <3> QED
      BY <1>1, <1>4, <3>2, <3>3 DEF Files
  <2> QED
    BY <2>1, <2>2
<1>5. \A j \in Live : Current(j).runtime = Current(j).runtime + (IF j = id THEN 0 ELSE 0)
  BY EntryNumbers
<1> HIDE DEF e
<1> QED
  BY <1>1, <1>2, <1>3, <1>4, <1>5 DEF Effect

LEMMA GetIsEffect ==
    ASSUME TypeOK, NEW id \in Ids, Get(id)
    PROVE  Effect(id, 0, FALSE, FALSE)
<1>1. CASE GetExisting(id)
  <2> DEFINE e == [Current(id) EXCEPT !.age = 0]
  <2>1. id \in Live /\ Put(id, e) /\ disk' = disk /\ Current(id) \in Entry
    BY <1>1, CurrentType DEF GetExisting
  <2>2. e \in Entry /\ e.runtime = Current(id).runtime + 0 /\ e.net = Current(id).net /\ e.fs = Current(id).fs
    BY <2>1, ZeroInRanges, EntryNumbers DEF Entry
  <2> HIDE DEF e
  <2> QED
    BY <2>1, <2>2, PutIsEffect, BoundsAreNat
<1>2. CASE Create(id)
  <2>1. id \notin Live /\ Insert(id, NewTree(id, 0), Root)
    BY <1>2 DEF Create
  <2>2. NewTree(id, 0) \in Content /\ Root \in Cwds
    BY <2>1, ZeroInRanges, NewTreeType DEF Insert
  <2> QED
    BY <2>1, <2>2, InsertIsEffect
<1> QED
  BY <1>1, <1>2 DEF Get

LEMMA UpdateIsEffect ==
    ASSUME TypeOK, NEW id \in Ids, NEW cwd \in Cwds, NEW rcLoaded \in BOOLEAN, NEW delta \in Nat,
           NEW setNetwork \in BOOLEAN, NEW net \in Nat,
           updateLocked(id, cwd, rcLoaded, delta, setNetwork, net)
    PROVE  /\ Effect(id, delta, setNetwork, FALSE)
           /\ id \in Live /\ setNetwork => Current(id)'.net = net
<1>1. CASE id \in Live
  <2> DEFINE e == [Current(id) EXCEPT !.cwd = cwd, !.runtime = @ + delta, !.rc = @ \/ rcLoaded,
                                      !.net = IF setNetwork THEN net ELSE @, !.age = 0]
  <2>1. Put(id, e) /\ persistLocked(id, e, fsys[id, e.fs])
    BY <1>1 DEF updateLocked
  <2>2. Current(id) \in Entry /\ fsys[id, Current(id).fs] \in Content
    BY <1>1, CurrentType
  <2>3. Current(id).runtime + delta \in Nat
    <3>1. Current(id).runtime \in Nat
      BY <1>1, EntryNumbers
    <3> QED
      BY <3>1, SMT
  <2>4. e \in Entry /\ e.runtime = Current(id).runtime + delta /\ e.fs = Current(id).fs
        /\ e.net = IF setNetwork THEN net ELSE Current(id).net
    BY <2>2, <2>3, ZeroInRanges DEF Entry
  <2>5. \E c \in Content : persistLocked(id, e, c)
    BY <2>1, <2>2, <2>4
  <2> HIDE DEF e
  <2>6. Effect(id, delta, setNetwork, FALSE)
    BY <1>1, <2>1, <2>4, <2>5, PutIsEffect
  <2> QED
    BY <1>1, <2>1, <2>4, <2>6, PutEffect
<1>2. CASE id \notin Live
  <2>1. UNCHANGED <<up, entries, heap, disk>>
    BY <1>2 DEF updateLocked
  <2>2. Effect(id, 0, FALSE, FALSE)
    BY <2>1, NoEffect
  <2> QED
    BY <1>2, <2>2 DEF Effect
<1> QED
  BY <1>1, <1>2

LEMMA AddUsageIsEffect ==
    ASSUME TypeOK, NEW id \in Ids, NEW delta \in Nat, NEW net \in Nat, AddUsage(id, delta, net)
    PROVE  /\ Effect(id, delta, TRUE, FALSE)
           /\ id \in Live => Current(id)'.net = net
<1>1. CASE id \in Live
  <2> DEFINE e == [Current(id) EXCEPT !.runtime = @ + delta, !.net = net]
  <2>1. Put(id, e) /\ persistLocked(id, e, fsys[id, e.fs])
    BY <1>1 DEF AddUsage
  <2>2. Current(id) \in Entry /\ fsys[id, Current(id).fs] \in Content
    BY <1>1, CurrentType
  <2>3. Current(id).runtime + delta \in Nat
    <3>1. Current(id).runtime \in Nat
      BY <1>1, EntryNumbers
    <3> QED
      BY <3>1, SMT
  <2>4. e \in Entry /\ e.runtime = Current(id).runtime + delta /\ e.fs = Current(id).fs /\ e.net = net
    BY <2>2, <2>3 DEF Entry
  <2>5. \E c \in Content : persistLocked(id, e, c)
    BY <2>1, <2>2, <2>4
  <2> HIDE DEF e
  <2>6. Effect(id, delta, TRUE, FALSE)
    BY <1>1, <2>1, <2>4, <2>5, PutIsEffect
  <2> QED
    BY <1>1, <2>1, <2>4, <2>6, PutEffect
<1>2. CASE id \notin Live
  <2>1. UNCHANGED <<up, entries, heap, disk>>
    BY <1>2 DEF AddUsage
  <2>2. Effect(id, 0, FALSE, FALSE)
    BY <2>1, NoEffect
  <2> QED
    BY <1>2, <2>2 DEF Effect
<1> QED
  BY <1>1, <1>2

LEMMA ReplaceIsEffect ==
    ASSUME TypeOK, NEW id \in Ids, NEW c \in Content, NEW cwd \in Cwds, Replace(id, c, cwd)
    PROVE  Effect(id, 0, FALSE, TRUE)
<1>1. CASE id \in Live /\ Swap(id, c, cwd)
  <2> DEFINE e == [[Current(id) EXCEPT !.cwd = cwd] EXCEPT !.fs = nfs[id] + 1, !.rc = FALSE, !.age = 0]
  <2>1. Put(id, e) /\ persistLocked(id, e, c) /\ nfs[id] < MaxFs /\ id \in Ids
    BY <1>1 DEF Swap, SwapTo
  <2>2. nfs[id] + 1 \in FsIds
    BY <2>1, StoreAssumption, SMT DEF TypeOK, FsIds
  <2>3. e \in Entry /\ e.runtime = Current(id).runtime + 0 /\ e.net = Current(id).net
    BY <1>1, <2>2, CurrentType, EntryNumbers, ZeroInRanges DEF Entry
  <2> HIDE DEF e
  <2> QED
    BY <1>1, <2>1, <2>3, PutIsEffect, BoundsAreNat
<1>2. CASE id \notin Live /\ Insert(id, c, cwd)
  BY <1>2, InsertIsEffect
<1> QED
  BY <1>1, <1>2 DEF Replace

-----------------------------------------------------------------------------
(* What a step of a goroutine does to its own place and variables.         *)

Arrives(p) == /\ pc[p] = "idle" /\ up /\ pc'[p] \in {"lock", "prompt", "rc", "swap"}
              /\ job'[p].ent = IF pc'[p] = "swap" THEN 0 ELSE entries'[job'[p].id]
GoesOn(p)  == /\ pc[p] # "idle" /\ pc'[p] # "idle" /\ Mine(p)' = Mine(p)
              /\ pc'[p] = "swap" => job[p].ent # 0
Leaves(p)  == pc[p] # "idle" /\ pc'[p] = "idle"

Carries(p) == Arrives(p) \/ GoesOn(p) \/ Leaves(p)

(* A command starts with what the session's entry says, e, and keeps it;   *)
(* the log of a cron job is written where its command ran.                 *)
Reads(p, e) == /\ job'[p].fs = e.fs /\ job'[p].net = e.net
               /\ RuntimeLimit > 0 => e.runtime + job'[p].left <= RuntimeLimit

Loads(p) ==
    /\ pc'[p] = "exec" =>
           \/ /\ pc[p] = "exec" /\ job'[p].fs = job[p].fs
              /\ job'[p].net = job[p].net /\ job'[p].left = job[p].left
           \/ pc[p] \in {"open", "reread"} /\ (Reads(p, Entry_(p)) \/ Reads(p, Current(job[p].id)))
    /\ pc'[p] = "log" => pc[p] = "exec" /\ job'[p].fs = job[p].fs

(* The end of a command charges the session; an import, a rollback and the *)
(* relink after one swap its filesystem.                                   *)
Works(p) == \E id \in Ids, d \in Nat, n, sw \in BOOLEAN :
    /\ Effect(id, d, n, sw)
    /\ d # 0 \/ n => /\ pc[p] = "exec" /\ pc'[p] # "exec" /\ id = job[p].id
                     /\ d <= job[p].left
                     /\ id \in Live /\ n => Current(id)'.net >= job[p].net
    /\ sw => pc[p] \in {"swap", "validate", "relink"} /\ pc'[p] # pc[p] /\ id = job[p].id

Act(p) == Carries(p) /\ Loads(p) /\ Works(p)

LEMMA InRange == \A a, b \in Nat : \A x \in a..b : x \in Nat /\ a <= x /\ x <= b /\ x >= a
BY SMT

LEMMA QuietWorks ==
    ASSUME NEW p \in Procs, NEW id \in Ids, Effect(id, 0, FALSE, FALSE)
    PROVE  Works(p)
BY BoundsAreNat DEF Works

LEMMA SameWorks ==
    ASSUME ServerTypeOK, JobsOK, NEW p \in Procs, pc[p] # "idle", UNCHANGED <<up, entries, heap, disk>>
    PROVE  Works(p)
BY JobType, NoEffect, QuietWorks DEF ServerTypeOK

LEMMA NewlyArrived ==
    ASSUME ServerTypeOK, NEW p \in Procs, pc[p] = "idle", up,
           NEW l \in {"lock", "prompt", "rc", "swap"}, NEW j, Goto(p, l, j),
           j.ent = IF l = "swap" THEN 0 ELSE entries'[j.id]
    PROVE  Carries(p) /\ Loads(p)
<1>1. pc'[p] = l /\ job'[p] = j
  BY DEF Goto, ServerTypeOK
<1> QED
  BY <1>1 DEF Carries, Arrives, Loads

LEMMA MovedOn ==
    ASSUME ServerTypeOK, NEW p \in Procs, pc[p] # "idle", NEW l \in Labels \ {"idle"}, NEW j,
           Goto(p, l, j), j.id = job[p].id, j.ent = job[p].ent, l = "swap" => j.ent # 0
    PROVE  Carries(p) /\ pc'[p] = l /\ job'[p] = j
<1>1. pc'[p] = l /\ job'[p] = j
  BY DEF Goto, ServerTypeOK
<1> QED
  BY <1>1 DEF Carries, GoesOn, Mine

LEMMA DoneOrPrompt ==
    ASSUME ServerTypeOK, NEW p \in Procs, pc[p] # "idle", Done(p)
    PROVE  Carries(p) /\ Loads(p) /\ pc'[p] \in {"idle", "prompt"}
<1>1. CASE job[p].kind = "shell"
  <2> DEFINE j == [NoJob EXCEPT !.kind = "shell", !.id = job[p].id, !.ent = job[p].ent, !.cwd = job[p].cwd]
  <2>1. Goto(p, "prompt", j) /\ j.id = job[p].id /\ j.ent = job[p].ent
    BY <1>1 DEF Done, NoJob
  <2> HIDE DEF j
  <2> QED
    BY <2>1, MovedOn, OneLabelOn DEF Loads
<1>2. CASE job[p].kind # "shell"
  <2>1. pc'[p] = "idle"
    BY <1>2 DEF Done, Goto, ServerTypeOK
  <2> QED
    BY <2>1 DEF Carries, Leaves, Loads
<1> QED
  BY <1>1, <1>2

-----------------------------------------------------------------------------
(* Every action of a goroutine is an Act.                                  *)

LEMMA ArrivalActs ==
    ASSUME ServerTypeOK, NEW p \in Procs, Arrive(p)
    PROVE  Act(p)
<1>0. TypeOK
  BY DEF ServerTypeOK
<1>1. ASSUME NEW id \in Ids, NEW kind, pc[p] = "idle", Get(id), Attached(p, kind, id, "lock")
      PROVE  Act(p)
  <2>1. up /\ Effect(id, 0, FALSE, FALSE)
    BY <1>0, <1>1, GetIsEffect, GetHandsOut
  <2> DEFINE j == [NoJob EXCEPT !.kind = kind, !.id = id, !.ent = entries'[id]]
  <2>2. Goto(p, "lock", j) /\ j.ent = entries'[j.id]
    BY <1>1 DEF Attached, NoJob
  <2> HIDE DEF j
  <2> QED
    BY <1>1, <2>1, <2>2, QuietWorks, NewlyArrived DEF Act
<1>2. ASSUME NEW id \in Ids, ShellOpen(p, id)
      PROVE  Act(p)
  <2>1. up /\ Effect(id, 0, FALSE, FALSE) /\ pc[p] = "idle"
    BY <1>0, <1>2, GetIsEffect, GetHandsOut DEF ShellOpen
  <2>2. PICK e :
          Goto(p, IF e.rc THEN "prompt" ELSE "rc",
               [NoJob EXCEPT !.kind = "shell", !.id = id, !.ent = entries'[id], !.cwd = e.cwd,
                             !.fs = IF e.rc THEN 1 ELSE e.fs])
    BY <1>2 DEF ShellOpen
  <2> DEFINE l == IF e.rc THEN "prompt" ELSE "rc"
             j == [NoJob EXCEPT !.kind = "shell", !.id = id, !.ent = entries'[id], !.cwd = e.cwd,
                                !.fs = IF e.rc THEN 1 ELSE e.fs]
  <2>3. Goto(p, l, j) /\ l \in {"prompt", "rc"} /\ j.ent = entries'[j.id]
    BY <2>2 DEF NoJob
  <2> HIDE DEF j, l
  <2> QED
    BY <2>1, <2>3, QuietWorks, NewlyArrived DEF Act
<1>3. ASSUME NEW id \in Ids, ImportAttach(p, id)
      PROVE  Act(p)
  <2>1. PICK b \in 0..MaxBytes :
        \/ /\ GetExisting(id)
           /\ Goto(p, "lock", [NoJob EXCEPT !.kind = "import", !.id = id, !.snap.bytes = b,
                                            !.ent = entries[id]])
        \/ /\ Goto(p, "swap", [NoJob EXCEPT !.kind = "import", !.id = id, !.snap.bytes = b])
           /\ UNCHANGED storeVars
    BY <1>3 DEF ImportAttach
  <2>2. up /\ pc[p] = "idle"
    BY <1>3 DEF ImportAttach
  <2> DEFINE i == [NoJob EXCEPT !.kind = "import", !.id = id, !.snap.bytes = b]
             j == [i EXCEPT !.ent = entries[id]]
  <2>3. i.ent = 0 /\ j.ent = entries[id] /\ j.id = id
    BY DEF NoJob
  <2>4. CASE GetExisting(id) /\ Goto(p, "lock", j)
    <3>1. entries' = entries /\ Effect(id, 0, FALSE, FALSE)
      BY <1>0, <2>4, GetIsEffect DEF GetExisting, Get, Put
    <3> HIDE DEF j
    <3> QED
      BY <2>2, <2>3, <2>4, <3>1, QuietWorks, NewlyArrived DEF Act
  <2>5. CASE Goto(p, "swap", i) /\ UNCHANGED storeVars
    <3> HIDE DEF i
    <3>1. Effect(id, 0, FALSE, FALSE)
      BY <1>0, <2>5, NoEffect DEF storeVars
    <3> QED
      BY <2>2, <2>3, <2>5, <3>1, QuietWorks, NewlyArrived DEF Act
  <2> QED
    BY <2>1, <2>4, <2>5
<1>4. ASSUME NEW id \in Ids, CronSnap(p, id)
      PROVE  Act(p)
  <2> DEFINE j == [NoJob EXCEPT !.kind = "cron", !.id = id, !.ent = entries[id], !.fs = Current(id).fs]
  <2>1. pc[p] = "idle" /\ up /\ Goto(p, "lock", j) /\ UNCHANGED storeVars
    BY <1>4 DEF CronSnap
  <2>2. j.ent = entries'[j.id] /\ Effect(id, 0, FALSE, FALSE)
    BY <1>0, <2>1, NoEffect DEF NoJob, storeVars
  <2> HIDE DEF j
  <2> QED
    BY <2>1, <2>2, QuietWorks, NewlyArrived DEF Act
<1>5. ASSUME NEW id \in Ids, RunAttach(p, id) \/ ReadAttach(p, id)
      PROVE  Act(p)
  <2>1. PICK kind : pc[p] = "idle" /\ Get(id) /\ Attached(p, kind, id, "lock")
    BY <1>5 DEF RunAttach, ReadAttach, Get
  <2> QED
    BY <1>1, <2>1
<1> QED
  BY <1>2, <1>3, <1>4, <1>5 DEF Arrive

LEMMA AcquireActs ==
    ASSUME ServerTypeOK, JobsOK, NEW p \in Procs, Acquire(p)
    PROVE  Act(p)
<1>0. pc[p] \in {"lock", "prompt"} /\ UNCHANGED storeVars
  BY DEF Acquire, RunLock, ReadLock, ImportLock, CronLock
<1>1. Works(p)
  BY <1>0, SameWorks DEF storeVars
<1>2. CASE Done(p)
  BY <1>0, <1>1, <1>2, DoneOrPrompt DEF Act
<1>3. ASSUME NEW l \in {"open", "read", "swap", "reread"}, NEW j, Goto(p, l, j),
             j.id = job[p].id, j.ent = job[p].ent
      PROVE  Act(p)
  <2>1. j.ent # 0
    BY <1>0, <1>3, JobType, ZeroInRanges
  <2>2. Carries(p) /\ pc'[p] = l
    BY <1>0, <1>3, <2>1, MovedOn, OneLabelOn
  <2> QED
    BY <1>1, <2>2 DEF Act, Loads
<1>4. CASE RunLock(p) /\ ~Done(p)
  <2>1. PICK c, d : Goto(p, "open", Snapshotted(p, c, d))
    BY <1>4 DEF RunLock
  <2> DEFINE j == Snapshotted(p, c, d)
  <2>2. j.id = job[p].id /\ j.ent = job[p].ent
    BY <1>0, JobType DEF Snapshotted, Job
  <2> HIDE DEF j
  <2> QED
    BY <1>3, <2>1, <2>2 DEF j
<1>5. CASE ReadLock(p)
  <2> DEFINE j == [job[p] EXCEPT !.fs = Entry_(p).fs]
  <2>1. Goto(p, "read", j) /\ j.id = job[p].id /\ j.ent = job[p].ent
    BY <1>0, <1>5, JobType DEF ReadLock, Job
  <2> HIDE DEF j
  <2> QED
    BY <1>3, <2>1
<1>6. CASE ImportLock(p) \/ CronLock(p)
  BY <1>3, <1>6 DEF ImportLock, CronLock
<1> QED
  BY <1>2, <1>4, <1>5, <1>6 DEF Acquire

(* A handler is done without touching a session, or moves on in its place. *)
LEMMA DoneActs ==
    ASSUME ServerTypeOK, JobsOK, NEW p \in Procs, pc[p] # "idle", Done(p),
           UNCHANGED <<up, entries, heap, disk>>
    PROVE  Act(p)
BY SameWorks, DoneOrPrompt DEF Act

LEMMA RunOpenActs ==
    ASSUME ServerTypeOK, JobsOK, NEW p \in Procs, RunOpen(p)
    PROVE  Act(p)
<1>0. pc[p] = "open" /\ UNCHANGED storeVars /\ job[p] \in Job /\ Entry_(p) \in Entry
  BY JobType DEF RunOpen
<1>1. CASE Done(p)
  BY <1>0, <1>1, DoneActs DEF storeVars
<1>2. CASE ~Done(p)
  <2> DEFINE e == Entry_(p)
             u == Counted(fsys[job[p].id, e.fs].bytes)
             t == EffectiveTimeout(e.runtime)
             j == [job[p] EXCEPT !.fs = e.fs, !.used = u,
                      !.cwd = IF job[p].kind = "shell" THEN @ ELSE e.cwd,
                      !.left = t, !.net = e.net, !.rc = ~e.rc]
  <2>1. ~OutOfTime(e.runtime) /\ Goto(p, "exec", j)
    BY <1>2 DEF RunOpen
  <2>2. e.runtime \in Nat
    BY <1>0 DEF Entry
  <2>3. RuntimeLimit > 0 => e.runtime + t <= RuntimeLimit
    BY <2>1, <2>2, TimeoutType
  <2>4. j.id = job[p].id /\ j.ent = job[p].ent /\ j.fs = e.fs /\ j.net = e.net /\ j.left = t
    <3> HIDE DEF e, t, u
    <3> QED
      BY <1>0 DEF Job
  <2> HIDE DEF j, t, u
  <2>5. Carries(p) /\ pc'[p] = "exec" /\ job'[p] = j
    BY <1>0, <2>1, <2>4, MovedOn, OneLabelOn
  <2>6. Reads(p, e)
    BY <2>3, <2>4, <2>5 DEF Reads
  <2> QED
    BY <1>0, <2>5, <2>6, SameWorks DEF Act, Loads, storeVars
<1> QED
  BY <1>1, <1>2

LEMMA ExecActs ==
    ASSUME ServerTypeOK, JobsOK, NEW p \in Procs, Exec(p)
    PROVE  Act(p)
<1>0. pc[p] = "exec" /\ job[p] \in Job /\ UNCHANGED <<up, entries, heap, disk, pc>>
  BY JobType DEF Exec
<1>1. PICK u : job' = [job EXCEPT ![p].used = u]
  BY DEF Exec
<1>2. /\ job'[p].id = job[p].id /\ job'[p].ent = job[p].ent /\ job'[p].fs = job[p].fs
      /\ job'[p].net = job[p].net /\ job'[p].left = job[p].left
  BY <1>0, <1>1 DEF ServerTypeOK, Job
<1> QED
  BY <1>0, <1>2, SameWorks DEF Act, Carries, GoesOn, Mine, Loads

LEMMA RunFinishActs ==
    ASSUME ServerTypeOK, JobsOK, NEW p \in Procs, RunFinish(p)
    PROVE  Act(p)
<1>0. /\ pc[p] = "exec" /\ TypeOK
      /\ job[p] \in Job /\ job[p].id \in Ids /\ fsys[job[p].id, job[p].fs] \in Content
      /\ Entry_(p) \in Entry
  BY JobType DEF RunFinish, ServerTypeOK
<1>1. PICK cwd \in {Root, job[p].cwd, fsys[job[p].id, job[p].fs].tree},
           elapsed \in 0..job[p].left, net \in job[p].net..MaxNet :
        /\ updateLocked(job[p].id, cwd, job[p].kind = "shell" \/ Entry_(p).rc \/ job[p].rc,
                        elapsed, TRUE, net)
        /\ Goto(p, "validate", Reported(p, cwd))
  BY DEF RunFinish
<1>2. cwd \in Cwds /\ job[p].left \in Nat /\ job[p].net \in Nat
  BY <1>0, ZeroInRanges DEF Content, Job
<1>3. elapsed \in Nat /\ net \in Nat /\ elapsed <= job[p].left /\ net >= job[p].net
  BY <1>2, InRange, BoundsAreNat
<1>4. (job[p].kind = "shell" \/ Entry_(p).rc \/ job[p].rc) \in BOOLEAN
  BY <1>0 DEF Job, Entry
<1> PICK id \in Ids : id = job[p].id
  BY <1>0
<1>5. Effect(id, elapsed, TRUE, FALSE) /\ (id \in Live => Current(id)'.net = net)
  BY <1>0, <1>1, <1>2, <1>3, <1>4, UpdateIsEffect
<1> DEFINE j == Reported(p, cwd)
<1>6. j.id = job[p].id /\ j.ent = job[p].ent
  BY <1>0 DEF Reported, Job
<1> HIDE DEF j
<1>7. Carries(p) /\ pc'[p] = "validate"
  BY <1>0, <1>1, <1>6, MovedOn, OneLabelOn DEF j
<1>8. Works(p)
  BY <1>0, <1>3, <1>5, <1>7 DEF Works
<1> QED
  BY <1>7, <1>8 DEF Act, Loads

LEMMA RunRollbackActs ==
    ASSUME ServerTypeOK, JobsOK, NEW p \in Procs, RunRollback(p)
    PROVE  Act(p)
<1> DEFINE id == job[p].id
           j  == [job[p] EXCEPT !.fs = nfs[id] + 1, !.cwd = job[p].snapCwd]
<1>0. /\ pc[p] = "validate" /\ Goto(p, "relink", j) /\ TypeOK
      /\ job[p] \in Job /\ id \in Ids /\ job[p].snap \in Content /\ job[p].snapCwd \in Cwds
  BY JobType DEF RunRollback, Job, ServerTypeOK
<1>1. j.id = job[p].id /\ j.ent = job[p].ent
  BY <1>0 DEF Job
<1> HIDE DEF j
<1>2. Carries(p) /\ pc'[p] = "relink"
  BY <1>0, <1>1, MovedOn, OneLabelOn
<1>3. CASE Replace(id, job[p].snap, job[p].snapCwd)
  <2>1. Effect(id, 0, FALSE, TRUE)
    BY <1>0, <1>3, ReplaceIsEffect
  <2>2. Works(p)
    BY <1>0, <1>2, <2>1, BoundsAreNat DEF Works
  <2> QED
    BY <1>2, <2>2 DEF Act, Loads
<1>4. CASE UNCHANGED <<up, entries, heap, gen, disk>>
  BY <1>0, <1>2, <1>4, SameWorks DEF Act, Loads
<1> QED
  BY <1>3, <1>4 DEF RunRollback

(* The entry that is relinked need not be the session's any more.          *)
LEMMA RunRelinkActs ==
    ASSUME ServerTypeOK, JobsOK, NEW p \in Procs, RunRelink(p)
    PROVE  Act(p)
<1>0. /\ pc[p] = "relink" /\ Mine(p) \in Mutexes /\ TypeOK /\ job[p].id \in Ids
      /\ Done(p) /\ UNCHANGED <<up, entries, disk>>
      /\ Mine(p) = <<job[p].id, job[p].ent>>
  BY JobType DEF RunRelink, ServerTypeOK, Mine
<1>1. heap' = heap \/ heap' = [heap EXCEPT ![Mine(p)].fs = job[p].fs]
  BY DEF RunRelink
<1>2. Live' = Live /\ Files' = Files
  BY <1>0 DEF Live, Files
<1>3. ASSUME NEW i \in Live
      PROVE  /\ Current(i)'.runtime = Current(i).runtime /\ Current(i)'.net = Current(i).net
             /\ Current(i)'.fs = Current(i).fs \/ i = job[p].id
  <2>1. <<i, entries[i]>> \in Ids \X Gens
    BY <1>0, CurrentType
  <2>2. Current(i)' = heap'[<<i, entries[i]>>] /\ Current(i) = heap[<<i, entries[i]>>]
    BY <1>0 DEF Current
  <2>3. heap[<<i, entries[i]>>] \in Entry
    BY <1>0, <2>1 DEF TypeOK
  <2>4. CASE <<i, entries[i]>> # Mine(p)
    BY <1>0, <1>1, <2>1, <2>2, <2>4 DEF TypeOK
  <2>5. CASE <<i, entries[i]>> = Mine(p)
    <3>1. i = job[p].id
      BY <1>0, <2>5
    <3>2. heap'[Mine(p)] = heap[Mine(p)] \/ heap'[Mine(p)] = [heap[Mine(p)] EXCEPT !.fs = job[p].fs]
      BY <1>0, <1>1 DEF TypeOK, Mutexes
    <3> QED
      BY <2>2, <2>3, <2>5, <3>1, <3>2 DEF Entry
  <2> QED
    BY <2>4, <2>5
<1>4. \A i \in Live : Current(i).runtime = Current(i).runtime + (IF i = job[p].id THEN 0 ELSE 0)
  BY <1>0, EntryNumbers
<1>5. Effect(job[p].id, 0, FALSE, TRUE)
  BY <1>0, <1>2, <1>3, <1>4 DEF Effect
<1>6. Carries(p) /\ Loads(p) /\ pc'[p] \in {"idle", "prompt"}
  BY <1>0, DoneOrPrompt
<1>7. Works(p)
  BY <1>0, <1>5, <1>6, BoundsAreNat DEF Works
<1> QED
  BY <1>6, <1>7 DEF Act

LEMMA ImportSwapActs ==
    ASSUME ServerTypeOK, JobsOK, NEW p \in Procs, ImportSwap(p)
    PROVE  Act(p)
<1> DEFINE id == job[p].id
           c  == NewTree(id, job[p].snap.bytes)
<1>0. pc[p] = "swap" /\ Done(p) /\ id \in Ids /\ job[p].snap.bytes \in 0..MaxBytes /\ TypeOK
  BY JobType DEF ImportSwap, Job, Content, ServerTypeOK
<1>1. Carries(p) /\ Loads(p) /\ pc'[p] \in {"idle", "prompt"}
  BY <1>0, DoneOrPrompt
<1>2. ASSUME NEW cwd \in {Root, c.tree}, Replace(id, c, cwd)
      PROVE  Works(p)
  <2>1. nfs[id] < MaxFs
    BY <1>2 DEF Replace, Swap, SwapTo, Insert
  <2>2. c \in Content
    BY <1>0, <2>1, NewTreeType
  <2>3. cwd \in Cwds
    BY <1>2, <2>2, ZeroInRanges DEF Content
  <2>4. Effect(id, 0, FALSE, TRUE)
    BY <1>0, <1>2, <2>2, <2>3, ReplaceIsEffect
  <2> QED
    BY <1>0, <1>1, <2>4, BoundsAreNat DEF Works
<1>3. ASSUME UNCHANGED storeVars
      PROVE  Works(p)
  <2>1. UNCHANGED <<up, entries, heap, disk>>
    BY <1>3 DEF storeVars
  <2> QED
    BY <1>0, <2>1, SameWorks
<1> QED
  BY <1>1, <1>2, <1>3 DEF ImportSwap, Act

LEMMA CronRereadActs ==
    ASSUME ServerTypeOK, JobsOK, NEW p \in Procs, CronReread(p)
    PROVE  Act(p)
<1> DEFINE id == job[p].id
<1>0. pc[p] = "reread" /\ job[p] \in Job /\ id \in Ids /\ TypeOK
  BY JobType DEF CronReread, ServerTypeOK
<1>1. Works(p)
  <2>1. CASE GetExisting(id)
    BY <1>0, <2>1, GetIsEffect, QuietWorks DEF Get
  <2>2. CASE UNCHANGED storeVars
    BY <1>0, <2>2, SameWorks DEF storeVars
  <2> QED
    BY <2>1, <2>2 DEF CronReread
<1>2. CASE Done(p)
  BY <1>0, <1>1, <1>2, DoneOrPrompt DEF Act
<1>3. CASE ~Done(p)
  <2> DEFINE e == Current(id)
             u == Counted(fsys[id, e.fs].bytes)
             t == EffectiveTimeout(e.runtime)
             j == [job[p] EXCEPT !.fs = e.fs, !.used = u, !.left = t, !.net = e.net]
  <2>1. id \in Live /\ ~OutOfTime(e.runtime) /\ Goto(p, "exec", j)
    BY <1>3 DEF CronReread, GetExisting
  <2>2. e.runtime \in Nat
    BY <1>0, <2>1, EntryNumbers
  <2>3. RuntimeLimit > 0 => e.runtime + t <= RuntimeLimit
    BY <2>1, <2>2, TimeoutType
  <2>4. j.id = job[p].id /\ j.ent = job[p].ent /\ j.fs = e.fs /\ j.net = e.net /\ j.left = t
    <3> HIDE DEF e, t, u
    <3> QED
      BY <1>0 DEF Job
  <2> HIDE DEF j, t, u
  <2>5. Carries(p) /\ pc'[p] = "exec" /\ job'[p] = j
    BY <1>0, <2>1, <2>4, MovedOn, OneLabelOn
  <2>6. Reads(p, e)
    BY <2>3, <2>4, <2>5 DEF Reads
  <2> QED
    BY <1>0, <1>1, <2>5, <2>6 DEF Act, Loads
<1> QED
  BY <1>2, <1>3

LEMMA CronFinishActs ==
    ASSUME ServerTypeOK, JobsOK, NEW p \in Procs, CronFinish(p)
    PROVE  Act(p)
<1> DEFINE j == [job[p] EXCEPT !.left = 0, !.net = 0]
<1>0. /\ pc[p] = "exec" /\ Goto(p, "log", j) /\ TypeOK
      /\ job[p] \in Job /\ job[p].id \in Ids /\ job[p].left \in Nat /\ job[p].net \in Nat
  BY JobType DEF CronFinish, Job, ServerTypeOK
<1>1. PICK elapsed \in 0..job[p].left, net \in job[p].net..MaxNet : AddUsage(job[p].id, elapsed, net)
  BY DEF CronFinish
<1>2. elapsed \in Nat /\ net \in Nat /\ elapsed <= job[p].left /\ net >= job[p].net
  BY <1>0, InRange, BoundsAreNat
<1> PICK id \in Ids : id = job[p].id
  BY <1>0
<1>3. Effect(id, elapsed, TRUE, FALSE) /\ (id \in Live => Current(id)'.net = net)
  BY <1>0, <1>1, <1>2, AddUsageIsEffect
<1>4. j.id = job[p].id /\ j.ent = job[p].ent /\ j.fs = job[p].fs
  BY <1>0 DEF Job
<1> HIDE DEF j
<1>5. Carries(p) /\ pc'[p] = "log" /\ job'[p] = j
  BY <1>0, <1>4, MovedOn, OneLabelOn
<1>6. Works(p)
  BY <1>0, <1>2, <1>3, <1>5 DEF Works
<1> QED
  BY <1>0, <1>4, <1>5, <1>6 DEF Act, Loads

LEMMA ShellActs ==
    ASSUME ServerTypeOK, JobsOK, NEW p \in Procs, ShellRcWrite(p) \/ ShellRcDone(p) \/ ShellExit(p)
    PROVE  Act(p)
<1>1. CASE ShellRcWrite(p)
  <2>1. pc[p] = "rc" /\ UNCHANGED <<up, entries, heap, disk, pc, job>>
    BY <1>1 DEF ShellRcWrite, serverVars
  <2> QED
    BY <2>1, SameWorks DEF Act, Carries, GoesOn, Mine, Loads
<1>2. CASE ShellRcDone(p)
  <2>1. /\ pc[p] = "rc" /\ Done(p) /\ job[p].id \in Ids /\ job[p].cwd \in Cwds /\ TypeOK
        /\ updateLocked(job[p].id, job[p].cwd, TRUE, 0, FALSE, 0)
    BY <1>2, JobType DEF ShellRcDone, Job, ServerTypeOK
  <2>2. Effect(job[p].id, 0, FALSE, FALSE)
    BY <2>1, UpdateIsEffect, BoundsAreNat
  <2> QED
    BY <2>1, <2>2, QuietWorks, DoneOrPrompt DEF Act
<1>3. CASE ShellExit(p)
  <2>1. pc[p] = "prompt" /\ pc'[p] = "idle" /\ UNCHANGED storeVars
    BY <1>3 DEF ShellExit, Goto, ServerTypeOK
  <2> QED
    BY <2>1, SameWorks DEF Act, Carries, Leaves, Loads, storeVars
<1> QED
  BY <1>1, <1>2, <1>3

LEMMA GoroutineActsAct ==
    ASSUME ServerTypeOK, JobsOK, NEW p \in Procs, GoroutineActs(p)
    PROVE  Act(p)
<1>1. ASSUME RunKeep(p) \/ ReadDone(p) \/ CronLog(p)
      PROVE  Act(p)
  <2>1. pc[p] # "idle" /\ Done(p) /\ UNCHANGED <<up, entries, heap, disk>>
    BY <1>1 DEF RunKeep, ReadDone, CronLog, storeVars
  <2> QED
    BY <2>1, DoneActs
<1>2. CASE Advance(p) \/ CommandEnds(p)
  BY <1>1, <1>2, RunOpenActs, RunFinishActs, RunRollbackActs, RunRelinkActs, ImportSwapActs,
     CronRereadActs, CronFinishActs DEF Advance, CommandEnds
<1> QED
  BY <1>2, ArrivalActs, AcquireActs, ExecActs, ShellActs DEF GoroutineActs

-----------------------------------------------------------------------------
(* The rest of the world: the server stops, it comes back with what was on *)
(* disk, or sessions age and are forgotten.                                *)

Halts   == AllStop /\ ~up' /\ Live' = {} /\ disk' = disk

Returns == /\ UNCHANGED serverVars /\ ~up /\ up'
           /\ \A j \in Live' : j \in Files /\ Current(j)'.runtime = disk[j].runtime
           /\ \A j \in Files' : j \in Files /\ disk'[j] = disk[j]

Passes  == /\ UNCHANGED <<serverVars, up, fsys>>
           /\ \A j \in Live' : /\ j \in Live /\ entries'[j] = entries[j]
                               /\ Current(j)'.runtime = Current(j).runtime
                               /\ Current(j)'.net = Current(j).net
                               /\ Current(j)'.fs = Current(j).fs
           /\ \A j \in Files' : j \in Files /\ disk'[j].runtime = disk[j].runtime

LEMMA DropPasses ==
    ASSUME TypeOK, NEW gone \in SUBSET Ids, Drop(gone), UNCHANGED serverVars
    PROVE  Passes
<1>1. \A j \in Live' : j \in Live /\ entries'[j] = entries[j]
  BY DEF Drop, Live, TypeOK
<1>2. \A j \in Live' : Current(j)' = Current(j)
  BY <1>1 DEF Drop, Current
<1>3. \A j \in Files' : j \in Files /\ disk'[j] = disk[j]
  BY DEF Drop, deletePersisted, Files
<1>4. up' = up /\ fsys' = fsys
  BY DEF Drop
<1> QED
  BY <1>1, <1>2, <1>3, <1>4 DEF Passes

LEMMA TickPasses ==
    ASSUME TypeOK, Tick, UNCHANGED serverVars
    PROVE  Passes
<1>1. Live' = Live /\ entries' = entries /\ up' = up /\ fsys' = fsys
  BY DEF Tick, Live
<1>2. ASSUME NEW j \in Live
      PROVE  /\ Current(j)'.runtime = Current(j).runtime
             /\ Current(j)'.net = Current(j).net
             /\ Current(j)'.fs = Current(j).fs
  <2>1. <<j, entries[j]>> \in Ids \X Gens
    BY CurrentType
  <2>2. Current(j)' = heap'[<<j, entries[j]>>] /\ Current(j) = heap[<<j, entries[j]>>]
    BY <1>1 DEF Current
  <2>3. heap[<<j, entries[j]>>] \in Entry
    BY <2>1 DEF TypeOK
  <2>4. heap'[<<j, entries[j]>>] = Older(heap[<<j, entries[j]>>])
    BY <2>1 DEF Tick, TypeOK
  <2> QED
    BY <2>2, <2>3, <2>4 DEF Older, Entry
<1>3. ASSUME NEW j \in Files'
      PROVE  j \in Files /\ disk'[j].runtime = disk[j].runtime
  <2>1. j \in Ids /\ disk'[j] # NoFile
    BY <1>3 DEF Files
  <2>2. j \in Files /\ disk'[j] = Older(disk[j])
    BY <2>1 DEF Tick
  <2>3. disk[j] \in Record
    BY <2>2 DEF TypeOK, Files
  <2> QED
    BY <2>2, <2>3 DEF Older, Record
<1> QED
  BY <1>1, <1>2, <1>3 DEF Passes

LEMMA RestartReturns ==
    ASSUME TypeOK, Restart, UNCHANGED serverVars
    PROVE  Returns
<1>1. PICK keep \in SUBSET Files, purged \in SUBSET Files : Reload(keep, purged)
  BY DEF Restart, loadPersisted
<1>2. ASSUME NEW j \in Live'
      PROVE  j \in Files /\ Current(j)'.runtime = disk[j].runtime
  <2>1. j \in keep /\ entries'[j] = 1 /\ j \in Ids
    BY <1>1, <1>2 DEF Reload, Live
  <2>2. Current(j)' = heap'[<<j, 1>>]
    BY <2>1 DEF Current
  <2>3. <<j, 1>> \in Ids \X Gens
    BY <2>1, ZeroInRanges
  <2>4. heap'[<<j, 1>>] = FromRecord(disk[j])
    BY <1>1, <2>1, <2>3 DEF Reload, TypeOK
  <2> QED
    BY <1>1, <2>1, <2>2, <2>4 DEF FromRecord
<1>3. \A j \in Files' : j \in Files /\ disk'[j] = disk[j]
  BY <1>1 DEF Reload, Files
<1> QED
  BY <1>2, <1>3 DEF Returns, Restart

LEMMA WorldPasses ==
    ASSUME TypeOK, ~\E p \in Procs : GoroutineActs(p), [Next]_vars
    PROVE  Halts \/ Returns \/ Passes
<1>1. ASSUME NEW id \in Ids, HandleDelete(id)
      PROVE  Passes
  BY <1>1, DropPasses DEF HandleDelete, Delete
<1>2. CASE Age
  <2>1. {id \in Live : Current(id).age > TTL} \in SUBSET Ids
    BY DEF Live
  <2> QED
    BY <1>2, <2>1, TickPasses, DropPasses DEF Age, reap
<1>3. CASE CrashServer
  BY <1>3 DEF CrashServer, Crash, AllStop, Halts, Live
<1>4. CASE RestartServer
  BY <1>4, RestartReturns DEF RestartServer
<1>5. CASE UNCHANGED vars
  <2>1. UNCHANGED <<up, entries, heap, gen, fsys, nfs, disk>> /\ UNCHANGED serverVars
    BY <1>5 DEF vars, storeVars
  <2>2. Live' = Live /\ Files' = Files
    BY <2>1 DEF Live, Files
  <2>3. \A j \in Live : Current(j)' = Current(j)
    BY <2>1 DEF Current
  <2> QED
    BY <2>1, <2>2, <2>3 DEF Passes
<1> QED
  BY <1>1, <1>2, <1>3, <1>4, <1>5 DEF Next, GoroutineActs, Quiet

-----------------------------------------------------------------------------
(* The first condition: no session is deleted or reaped while a goroutine  *)
(* is at work in it.                                                       *)
NonePulled == \A id \in Ids :
    /\ entries[id] # Absent /\ up'
    /\ \E p \in Procs : pc[p] # "idle" /\ job[p].id = id
    => entries'[id] # Absent

(* The server that is down does nothing.                                   *)
Stopped == ~up => Live = {} /\ \A p \in Procs : pc[p] = "idle"

(* The Entry a goroutine points to is the session's.                       *)
Pointing == \A p \in Procs : pc[p] # "idle" /\ job[p].ent # 0 => entries[job[p].id] = job[p].ent

(* Within the limit, in memory and on disk.                                *)
InBudget == RuntimeLimit > 0 => /\ \A id \in Live : Current(id).runtime <= RuntimeLimit
                                /\ \A id \in Files : disk[id].runtime <= RuntimeLimit

(* A command has reckoned with what its session had used when it started,  *)
(* and that is what the session has used still.                            *)
Reckoned == \A p \in Procs : pc[p] = "exec" =>
    /\ RuntimeLimit > 0 => Current(job[p].id).runtime + job[p].left <= RuntimeLimit
    /\ job[p].net = Current(job[p].id).net

ExclInv == ServerInv /\ Stopped /\ Pointing /\ InBudget /\ Reckoned

(* One handler at a time is at work in a session.                          *)
OneAtATime == \A p, q \in Procs : p # q /\ HasMu(p) /\ HasMu(q) => job[p].id # job[q].id

LEMMA HolderPoints ==
    ASSUME ServerInv, Pointing, NEW p \in Procs, HasMu(p)
    PROVE  /\ pc[p] # "idle" /\ job[p].id \in Ids /\ job[p].ent # 0
           /\ job[p].id \in Live /\ Mine(p) = <<job[p].id, entries[job[p].id]>>
           /\ Entry_(p) = Current(job[p].id)
           /\ execMu[Mine(p)] = p
<1>1. pc[p] # "idle" /\ job[p].id \in Ids
  BY DEF HasMu, ServerInv, JobsOK, JobOK
<1>2. job[p].ent # 0
  BY ZeroInRanges DEF HasMu, ServerInv, JobsOK, JobOK
<1>3. entries[job[p].id] = job[p].ent
  BY <1>1, <1>2 DEF Pointing
<1> QED
  BY <1>1, <1>2, <1>3 DEF Live, Absent, Mine, Entry_, Current, ServerInv, MutexHeld

LEMMA Alone ==
    ASSUME ServerInv, Pointing
    PROVE  OneAtATime
BY HolderPoints DEF OneAtATime

LEMMA ActKeepsExcl ==
    ASSUME ExclInv, ServerInv', NEW p \in Procs, Act(p), Moves(p)
    PROVE  ExclInv'
<1>0. ServerInv /\ Stopped /\ Pointing /\ InBudget /\ Reckoned /\ OneAtATime /\ ServerTypeOK /\ TypeOK /\ TypeOK'
  BY Alone DEF ExclInv, ServerInv, ServerTypeOK
<1>1. PICK id \in Ids, d \in Nat, n \in BOOLEAN, sw \in BOOLEAN :
        /\ Effect(id, d, n, sw)
        /\ d # 0 \/ n => /\ pc[p] = "exec" /\ pc'[p] # "exec" /\ id = job[p].id
                         /\ d <= job[p].left
                         /\ id \in Live /\ n => Current(id)'.net >= job[p].net
        /\ sw => pc[p] \in {"swap", "validate", "relink"} /\ pc'[p] # pc[p] /\ id = job[p].id
  BY DEF Act, Works
<1>2. \A q \in Procs \ {p} : pc'[q] = pc[q] /\ job'[q] = job[q]
  BY <1>0 DEF Moves, Goto, ServerTypeOK
<1>3. up' = up /\ \A j \in Live : j \in Live' /\ entries'[j] = entries[j]
  BY <1>1 DEF Effect
<1>4. Stopped'
  <2>1. up
    BY <1>0 DEF Act, Carries, Arrives, GoesOn, Leaves, Stopped
  <2> QED
    BY <1>3, <2>1 DEF Stopped
<1>5. ASSUME NEW q \in Procs, pc[q] # "idle", job[q].ent # 0
      PROVE  entries'[job[q].id] = job[q].ent
  <2>1. entries[job[q].id] = job[q].ent /\ job[q].id \in Ids
    BY <1>0, <1>5 DEF Pointing, ServerInv, JobsOK, JobOK
  <2>2. job[q].id \in Live
    BY <1>5, <2>1 DEF Live, Absent
  <2> QED
    BY <1>3, <2>1, <2>2
<1>6. Pointing'
  <2> SUFFICES ASSUME NEW q \in Procs, pc'[q] # "idle", job'[q].ent # 0
               PROVE  entries'[job'[q].id] = job'[q].ent
    BY DEF Pointing
  <2>1. CASE q # p
    BY <1>2, <1>5, <2>1
  <2>2. CASE q = p /\ Arrives(p)
    BY <2>2 DEF Arrives
  <2>3. CASE q = p /\ GoesOn(p)
    BY <1>5, <2>3 DEF GoesOn, Mine
  <2> QED
    BY <2>1, <2>2, <2>3 DEF Act, Carries, Leaves
<1>7. ASSUME NEW j \in Live
      PROVE  /\ Current(j).runtime \in Nat /\ Current(j)'.runtime \in Nat /\ d \in Nat
             /\ Current(j)'.runtime = Current(j).runtime + (IF j = id THEN d ELSE 0)
             /\ j # id \/ d = 0 => Current(j)'.runtime = Current(j).runtime
  <2>1. Current(j)'.runtime = Current(j).runtime + (IF j = id THEN d ELSE 0)
    BY <1>1 DEF Effect
  <2>2. Current(j).runtime \in Nat /\ Current(j).runtime + 0 = Current(j).runtime
    BY <1>0, EntryNumbers
  <2>3. \A x, y \in Nat : x + y \in Nat
    BY SMT
  <2>4. Current(j)'.runtime \in Nat
    BY <1>1, <2>1, <2>2, <2>3
  <2> QED
    BY <1>1, <2>1, <2>2, <2>4
<1>8. ASSUME RuntimeLimit > 0, NEW j \in Live
      PROVE  Current(j)'.runtime <= RuntimeLimit
  <2>1. CASE j # id \/ d = 0
    BY <1>0, <1>7, <1>8, <2>1 DEF InBudget
  <2>2. CASE j = id /\ d # 0
    <3>1. /\ pc[p] = "exec" /\ d <= job[p].left /\ job[p].left \in Nat
          /\ Current(id).runtime + job[p].left <= RuntimeLimit
      BY <1>0, <1>1, <1>8, <2>2 DEF Reckoned, ServerTypeOK, Job
    <3>2. \A x, y, z, l \in Nat : y <= z /\ x + z <= l => x + y <= l
      BY SMT
    <3>3. Current(id).runtime \in Nat /\ RuntimeLimit \in Nat
      BY <1>7, <2>2, ServerAssumption
    <3> QED
      BY <1>1, <1>7, <2>2, <3>1, <3>2, <3>3
  <2> QED
    BY <2>1, <2>2
<1>9. InBudget'
  <2> SUFFICES ASSUME RuntimeLimit > 0
               PROVE  /\ \A j \in Live' : Current(j)'.runtime <= RuntimeLimit
                      /\ \A j \in Files' : disk'[j].runtime <= RuntimeLimit
    BY DEF InBudget
  <2>1. \A j \in Live' \ Live : Current(j)'.runtime <= RuntimeLimit
    <3>1. \A j \in Live' \ Live : Current(j)'.runtime = 0
      BY <1>1 DEF Effect
    <3>2. 0 <= RuntimeLimit
      BY ServerAssumption, SMT
    <3> QED
      BY <3>1, <3>2
  <2>2. \A j \in Files' : \/ j \in Files /\ disk'[j] = disk[j]
                          \/ j \in Live' /\ disk'[j].runtime = Current(j)'.runtime
    BY <1>1, EffectStores
  <2> QED
    BY <1>0, <1>8, <2>1, <2>2 DEF InBudget
<1>10. ASSUME NEW q \in Procs \ {p}, pc[q] = "exec"
       PROVE  /\ job[q].id \in Live
              /\ \A j : j = job[q].id => /\ Current(j)'.runtime = Current(j).runtime
                                         /\ Current(j)'.net = Current(j).net
  <2>1. HasMu(q) /\ job[q].id \in Live
    BY <1>0, <1>10, HolderPoints DEF HasMu
  <2>2. ASSUME d # 0 \/ n
        PROVE  job[q].id # id
    <3>1. HasMu(p) /\ id = job[p].id
      BY <1>1, <2>2 DEF HasMu
    <3> QED
      BY <1>0, <1>10, <2>1, <3>1 DEF OneAtATime
  <2>3. \A j \in Live : j # id \/ ~n => Current(j)'.net = Current(j).net
    BY <1>1, EffectKeeps
  <2> QED
    BY <1>7, <2>1, <2>2, <2>3
<1>11. ASSUME pc'[p] = "exec", NEW j, j = job[p].id
       PROVE  /\ j \in Live /\ j = job'[p].id
              /\ Current(j)'.runtime = Current(j).runtime
              /\ Current(j)'.net = Current(j).net
              /\ \/ /\ RuntimeLimit > 0 => Current(j).runtime + job[p].left <= RuntimeLimit
                    /\ job[p].net = Current(j).net
                    /\ job'[p].left = job[p].left /\ job'[p].net = job[p].net
                 \/ Reads(p, Current(j))
  <2>1. d = 0 /\ ~n
    BY <1>1, <1>11
  <2>2. HasMu(p)
    BY <1>11 DEF Act, Loads, HasMu
  <2>3. j \in Live /\ Entry_(p) = Current(j) /\ pc[p] # "idle"
    BY <1>0, <1>11, <2>2, HolderPoints
  <2>4. job'[p].id = job[p].id
    BY <1>11, <2>3 DEF Act, Carries, Arrives, GoesOn, Leaves, Mine
  <2>5. Current(j)'.runtime = Current(j).runtime /\ Current(j)'.net = Current(j).net
    BY <1>1, <1>7, <2>1, <2>3 DEF Effect
  <2>6. CASE pc[p] = "exec" /\ job'[p].net = job[p].net /\ job'[p].left = job[p].left
    BY <1>0, <1>11, <2>3, <2>4, <2>5, <2>6 DEF Reckoned
  <2>7. CASE Reads(p, Entry_(p)) \/ Reads(p, Current(job[p].id))
    BY <1>11, <2>3, <2>4, <2>5, <2>7
  <2> QED
    BY <1>11, <2>6, <2>7 DEF Act, Loads
<1>12. Reckoned'
  <2> SUFFICES ASSUME NEW q \in Procs, pc'[q] = "exec", NEW j, j = job'[q].id
               PROVE  /\ RuntimeLimit > 0 => Current(j)'.runtime + job'[q].left <= RuntimeLimit
                      /\ job'[q].net = Current(j)'.net
    BY DEF Reckoned, Current
  <2>1. CASE q # p
    BY <1>0, <1>2, <1>10, <2>1 DEF Reckoned
  <2>2. CASE q = p
    BY <1>11, <2>2 DEF Reads
  <2> QED
    BY <2>1, <2>2
<1> QED
  BY <1>4, <1>6, <1>9, <1>12 DEF ExclInv

LEMMA WorldKeepsExcl ==
    ASSUME ExclInv, ServerInv', NonePulled, Halts \/ Returns \/ Passes
    PROVE  ExclInv'
<1>0. ServerInv /\ Stopped /\ Pointing /\ InBudget /\ Reckoned
  BY DEF ExclInv
<1>1. CASE Halts
  <2>1. \A p \in Procs : pc'[p] = "idle"
    BY <1>1 DEF Halts, AllStop
  <2>2. Live' = {} /\ disk' = disk /\ Files' = Files
    BY <1>1 DEF Halts, Files
  <2> QED
    BY <1>0, <2>1, <2>2 DEF ExclInv, Stopped, Pointing, InBudget, Reckoned
<1>2. CASE Returns
  <2>1. \A p \in Procs : pc'[p] = "idle"
    BY <1>0, <1>2 DEF Returns, Stopped, serverVars
  <2>2. up' /\ InBudget'
    BY <1>0, <1>2 DEF Returns, InBudget
  <2> QED
    BY <2>1, <2>2 DEF ExclInv, Stopped, Pointing, Reckoned
<1>3. CASE Passes
  <2>0. pc' = pc /\ job' = job /\ up' = up
    BY <1>3 DEF Passes, serverVars
  <2>1. Stopped'
    BY <1>0, <1>3, <2>0 DEF Passes, Stopped
  <2>2. ASSUME NEW p \in Procs, pc[p] # "idle", job[p].ent # 0
        PROVE  job[p].id \in Live' /\ entries'[job[p].id] = job[p].ent
    <3>1. entries[job[p].id] = job[p].ent /\ job[p].id \in Ids /\ up'
      BY <1>0, <2>0, <2>2 DEF Pointing, ServerInv, JobsOK, JobOK, Stopped
    <3>2. entries'[job[p].id] # Absent
      BY <2>2, <3>1 DEF NonePulled, Absent
    <3>3. job[p].id \in Live'
      BY <3>1, <3>2 DEF Live
    <3> QED
      BY <1>3, <3>1, <3>3 DEF Passes
  <2>3. Pointing'
    BY <2>0, <2>2 DEF Pointing
  <2>4. InBudget'
    BY <1>0, <1>3 DEF Passes, InBudget
  <2>5. Reckoned'
    <3> SUFFICES ASSUME NEW p \in Procs, pc[p] = "exec", NEW j, j = job[p].id
                 PROVE  /\ RuntimeLimit > 0 => Current(j)'.runtime + job[p].left <= RuntimeLimit
                        /\ job[p].net = Current(j)'.net
      BY <2>0 DEF Reckoned, Current
    <3>1. HasMu(p) /\ job[p].ent # 0
      BY <1>0, HolderPoints DEF HasMu
    <3>2. j \in Live'
      BY <2>2, <3>1
    <3> QED
      BY <1>0, <1>3, <3>2 DEF Passes, Reckoned
  <2> QED
    BY <2>1, <2>3, <2>4, <2>5 DEF ExclInv
<1> QED
  BY <1>1, <1>2, <1>3

LEMMA ExclInvInit == Init => ExclInv
<1> SUFFICES ASSUME Init
             PROVE  Stopped /\ Pointing /\ InBudget /\ Reckoned
  BY ServerInvInit DEF ExclInv
<1>1. Stopped /\ Pointing /\ Reckoned
  BY DEF Init, Stopped, Pointing, Reckoned
<1>2. \A id \in Live : Current(id).runtime = 0
  <2> SUFFICES ASSUME NEW id \in Live
               PROVE  Current(id).runtime = 0
    OBVIOUS
  <2>1. <<id, entries[id]>> \in Ids \X Gens
    BY ServerInvInit, CurrentType DEF ServerInv, ServerTypeOK
  <2> QED
    BY <2>1 DEF Init, Current, Blank
<1>3. \A id \in Files : disk[id].runtime = 0
  BY DEF Init, Files, ToRecord, Blank
<1>4. 0 <= RuntimeLimit
  BY ServerAssumption, SMT
<1> QED
  BY <1>1, <1>2, <1>3, <1>4 DEF InBudget

(* A step, as seen by a session: a goroutine's, or the world's.            *)
LEMMA ActOrWorld ==
    ASSUME ServerInv, [Next]_vars
    PROVE  \/ \E p \in Procs : Act(p) /\ Moves(p)
           \/ Halts \/ Returns \/ Passes
<1>1. ASSUME NEW p \in Procs, GoroutineActs(p)
      PROVE  Act(p) /\ Moves(p)
  BY <1>1, GoroutineStep, GoroutineActsAct DEF ServerInv, Step
<1> QED
  BY <1>1, WorldPasses DEF ServerInv, ServerTypeOK

LEMMA ExclInvNext == ExclInv /\ NonePulled /\ [Next]_vars => ExclInv'
<1> SUFFICES ASSUME ExclInv, NonePulled, [Next]_vars
             PROVE  ExclInv'
  OBVIOUS
<1>1. ServerInv /\ ServerInv'
  BY ServerInvNext DEF ExclInv
<1> QED
  BY <1>1, ActOrWorld, ActKeepsExcl, WorldKeepsExcl

(* If no session is pulled from under a handler, handlers point to the     *)
(* Entry that is in the map, and a running command knows all that its      *)
(* session has used.                                                       *)
THEOREM ExclusionInvariant == Spec /\ [][NonePulled]_vars => []ExclInv
<1>1. ExclInv /\ UNCHANGED vars => ExclInv'
  <2> SUFFICES ASSUME ExclInv, UNCHANGED vars
               PROVE  ExclInv'
    OBVIOUS
  <2>1. [Next]_vars
    OBVIOUS
  <2>2. NonePulled
    BY DEF vars, storeVars, NonePulled
  <2> QED
    BY <2>1, <2>2, ExclInvNext
<1> QED
  BY <1>1, ExclInvInit, ExclInvNext, PTL DEF Spec

-----------------------------------------------------------------------------
(* What ExecMu gives where no session is pulled from under its handlers:   *)
(* one command, reader or import at a time in a session.                   *)
THEOREM ServerOneAtATime == Spec /\ [][NonePulled]_vars => []OneAtATime
<1>1. ExclInv => OneAtATime
  BY Alone DEF ExclInv
<1> QED
  BY <1>1, ExclusionInvariant, PTL

(* No two of them work in one filesystem, unless the rc file of an SSH     *)
(* shell is being sourced, which takes no mutex.                           *)
THEOREM FilesystemsExclusive ==
    Spec /\ [][NonePulled]_vars /\ [](\A p \in Procs : pc[p] # "rc") => []FsExclusive
<1>1. ExclInv /\ (\A p \in Procs : pc[p] # "rc") => FsExclusive
  BY Alone DEF ExclInv, OneAtATime, FsExclusive, Executing, HasMu
<1> QED
  BY <1>1, ExclusionInvariant, PTL

(* Commands, shells and cron jobs together stay within the session's       *)
(* runtime, over crashes and restarts and with a disk that fails.          *)
THEOREM RuntimeKept == Spec /\ [][NonePulled]_vars => []RuntimeWithinBudget
<1>1. ExclInv => RuntimeWithinBudget
  BY DEF ExclInv, InBudget, RuntimeWithinBudget
<1> QED
  BY <1>1, ExclusionInvariant, PTL

LEMMA UsageGrows ==
    ASSUME ExclInv, [Next]_vars, NEW id \in Ids, entries[id] # Absent, entries'[id] = entries[id]
    PROVE  /\ Current(id)'.runtime >= Current(id).runtime
           /\ Current(id)'.net >= Current(id).net
<1>0. ServerInv /\ TypeOK /\ id \in Live /\ id \in Live'
  BY DEF ExclInv, ServerInv, ServerTypeOK, Live
<1>1. Current(id).runtime \in Nat /\ Current(id).net \in Nat
  BY <1>0, CurrentType DEF Entry
<1>2. \A x, y \in Nat : x + y >= x /\ x >= x
  BY SMT
<1>3. CASE Halts \/ Returns \/ Passes
  <2>1. Passes
    BY <1>0, <1>3 DEF Halts, Returns, ExclInv, Stopped
  <2> QED
    BY <1>0, <1>1, <1>2, <2>1 DEF Passes
<1>4. ASSUME NEW p \in Procs, Act(p)
      PROVE  /\ Current(id)'.runtime >= Current(id).runtime
             /\ Current(id)'.net >= Current(id).net
  <2>1. PICK i \in Ids, d \in Nat, n \in BOOLEAN, sw \in BOOLEAN :
        /\ Effect(i, d, n, sw)
        /\ d # 0 \/ n => /\ pc[p] = "exec" /\ i = job[p].id
                         /\ i \in Live /\ n => Current(i)'.net >= job[p].net
    BY <1>4 DEF Act, Works
  <2>2. Current(id)'.runtime = Current(id).runtime + (IF id = i THEN d ELSE 0)
    BY <1>0, <2>1 DEF Effect
  <2>3. Current(id)'.runtime >= Current(id).runtime
    BY <1>1, <1>2, <2>1, <2>2, BoundsAreNat
  <2>4. CASE id # i \/ ~n
    BY <1>0, <1>1, <1>2, <2>1, <2>3, <2>4, EffectKeeps
  <2>5. CASE id = i /\ n
    BY <1>0, <2>1, <2>3, <2>5 DEF ExclInv, Reckoned
  <2> QED
    BY <2>4, <2>5
<1> QED
  BY <1>0, <1>3, <1>4, ActOrWorld

(* No handler reports over what another one has reported meanwhile.        *)
THEOREM UsageKept == Spec /\ [][NonePulled]_vars => UsageNeverShrinks
<1>1. ExclInv /\ [Next]_vars =>
          [\A id \in Ids : entries[id] # Absent /\ entries'[id] = entries[id]
               => /\ Current(id)'.runtime >= Current(id).runtime
                  /\ Current(id)'.net >= Current(id).net]_vars
  BY UsageGrows
<1> QED
  BY <1>1, ExclusionInvariant, PTL DEF Spec, UsageNeverShrinks

-----------------------------------------------------------------------------
(* The second condition: no session appears while an import that found none*)
(* when it looked, and so holds no ExecMu, is under way.                   *)
NoBlindSwap == \A p \in Procs : pc[p] = "swap" /\ job[p].ent = 0 => job[p].id \notin Live

(* A running command works in the filesystem of its session.               *)
RunsIn == \A p \in Procs : pc[p] \in {"exec", "log"} => job[p].fs = Current(job[p].id).fs

LEMMA SwapperHolds ==
    ASSUME ExclInv, NoBlindSwap, NEW p \in Procs, pc[p] \in {"swap", "validate", "relink"},
           job[p].id \in Live
    PROVE  HasMu(p)
BY DEF HasMu, NoBlindSwap

LEMMA ActKeepsRunsIn ==
    ASSUME ExclInv, NoBlindSwap, RunsIn, NEW p \in Procs, Act(p), Moves(p)
    PROVE  RunsIn'
<1>0. ServerInv /\ Pointing /\ OneAtATime /\ ServerTypeOK
  BY Alone DEF ExclInv, ServerInv
<1>1. PICK id \in Ids, d \in Nat, n \in BOOLEAN, sw \in BOOLEAN :
        /\ Effect(id, d, n, sw)
        /\ sw => pc[p] \in {"swap", "validate", "relink"} /\ pc'[p] # pc[p] /\ id = job[p].id
  BY DEF Act, Works
<1>2. \A q \in Procs \ {p} : pc'[q] = pc[q] /\ job'[q] = job[q]
  BY <1>0 DEF Moves, Goto, ServerTypeOK
<1>3. ASSUME NEW q \in Procs \ {p}, pc[q] \in {"exec", "log"}, NEW j, j = job[q].id
      PROVE  Current(j)'.fs = Current(j).fs
  <2>1. HasMu(q) /\ j \in Live
    BY <1>0, <1>3, HolderPoints DEF HasMu
  <2>2. sw => j # id
    BY <1>0, <1>1, <1>3, <2>1, SwapperHolds DEF OneAtATime
  <2> QED
    BY <1>1, <2>1, <2>2, EffectKeeps
<1>4. ASSUME pc'[p] \in {"exec", "log"}, NEW j, j = job[p].id
      PROVE  j = job'[p].id /\ job'[p].fs = Current(j)'.fs
  <2>1. HasMu(p) /\ pc[p] \in {"exec", "open", "reread"}
    BY <1>4 DEF Act, Loads, HasMu
  <2>2. j \in Live /\ Entry_(p) = Current(j) /\ pc[p] # "idle"
    BY <1>0, <1>4, <2>1, HolderPoints
  <2>3. job'[p].id = job[p].id
    BY <1>4, <2>2 DEF Act, Carries, Arrives, GoesOn, Leaves, Mine
  <2>4. ~sw
    BY <1>1, <2>1
  <2>5. Current(j)'.fs = Current(j).fs
    BY <1>1, <2>2, <2>4, EffectKeeps
  <2>6. CASE pc[p] = "exec" /\ job'[p].fs = job[p].fs
    BY <1>4, <2>3, <2>5, <2>6 DEF RunsIn
  <2>7. CASE Reads(p, Entry_(p)) \/ Reads(p, Current(job[p].id))
    BY <1>4, <2>2, <2>3, <2>5, <2>7 DEF Reads
  <2> QED
    BY <1>4, <2>6, <2>7 DEF Act, Loads
<1> SUFFICES ASSUME NEW q \in Procs, pc'[q] \in {"exec", "log"}, NEW j, j = job'[q].id
             PROVE  job'[q].fs = Current(j)'.fs
  BY DEF RunsIn, Current
<1>5. CASE q # p
  BY <1>2, <1>3, <1>5 DEF RunsIn
<1>6. CASE q = p
  BY <1>4, <1>6
<1> QED
  BY <1>5, <1>6

LEMMA WorldKeepsRunsIn ==
    ASSUME ExclInv, ExclInv', RunsIn, Halts \/ Returns \/ Passes
    PROVE  RunsIn'
<1>1. CASE Halts
  BY <1>1 DEF Halts, AllStop, RunsIn
<1>2. CASE Returns
  <2>1. \A p \in Procs : pc'[p] = "idle"
    BY <1>2 DEF Returns, ExclInv, Stopped, serverVars
  <2> QED
    BY <2>1 DEF RunsIn
<1>3. CASE Passes
  <2>0. pc' = pc /\ job' = job
    BY <1>3 DEF Passes, serverVars
  <2> SUFFICES ASSUME NEW q \in Procs, pc[q] \in {"exec", "log"}, NEW j, j = job[q].id
               PROVE  job[q].fs = Current(j)'.fs
    BY <2>0 DEF RunsIn, Current
  <2>1. HasMu(q) /\ job[q].ent # 0 /\ j \in Ids /\ entries[j] = job[q].ent
    BY HolderPoints DEF HasMu, ExclInv, Pointing
  <2>2. entries'[j] = job[q].ent
    BY <2>0, <2>1 DEF HasMu, ExclInv, Pointing
  <2>3. j \in Live'
    BY <2>1, <2>2 DEF Live, Absent
  <2> QED
    BY <1>3, <2>3 DEF Passes, RunsIn
<1> QED
  BY <1>1, <1>2, <1>3

(* "shell execution [is serialised] against this session FS": a command    *)
(* works in the filesystem its session will be seen with, so that what it  *)
(* writes is not lost, if no session comes or goes under a handler.        *)
THEOREM CommandsRunInSession == Spec /\ [][NonePulled]_vars /\ []NoBlindSwap => []RunsInSession
<1>1. Init => RunsIn
  BY DEF Init, RunsIn
<1>2. ExclInv /\ ExclInv' /\ NoBlindSwap /\ RunsIn /\ [Next]_vars => RunsIn'
  BY ActOrWorld, ActKeepsRunsIn, WorldKeepsRunsIn DEF ExclInv
<1>3. RunsIn => RunsInSession
  BY DEF RunsIn, RunsInSession
<1> QED
  BY <1>1, <1>2, <1>3, ExclusionInvariant, PTL DEF Spec

LEMMA SwapsUnderMutex ==
    ASSUME ExclInv, NoBlindSwap, [Next]_vars,
           NEW id \in Ids, entries[id] # Absent, entries'[id] = entries[id], Current(id)'.fs # Current(id).fs
    PROVE  \E p \in Procs : pc'[p] # pc[p] /\ execMu[id, entries[id]] = p
<1>0. ServerInv /\ id \in Live /\ id \in Live'
  BY DEF ExclInv, Live
<1>1. ~(Halts \/ Returns \/ Passes)
  BY <1>0 DEF Halts, Returns, Passes, ExclInv, Stopped
<1>2. PICK p \in Procs : Act(p)
  BY <1>0, <1>1, ActOrWorld
<1>3. PICK i \in Ids, d \in Nat, n \in BOOLEAN, sw \in BOOLEAN :
        /\ Effect(i, d, n, sw)
        /\ sw => pc[p] \in {"swap", "validate", "relink"} /\ pc'[p] # pc[p] /\ i = job[p].id
  BY <1>2 DEF Act, Works
<1>4. sw /\ id = i
  BY <1>0, <1>3, EffectKeeps
<1>5. HasMu(p) /\ id = job[p].id /\ pc'[p] # pc[p]
  BY <1>0, <1>3, <1>4, SwapperHolds
<1>6. execMu[Mine(p)] = p /\ Mine(p) = <<id, entries[id]>>
  BY <1>0, <1>5, HolderPoints DEF ExclInv
<1> QED
  BY <1>5, <1>6

(* Under the same conditions a filesystem is swapped only by the holder of *)
(* its session's ExecMu.                                                   *)
THEOREM SwapsHoldExecMu == Spec /\ [][NonePulled]_vars /\ []NoBlindSwap => SwapHoldsExecMu
<1>1. ExclInv /\ NoBlindSwap /\ [Next]_vars =>
          [\A id \in Ids :
             entries[id] # Absent /\ entries'[id] = entries[id] /\ Current(id)'.fs # Current(id).fs
               => \E p \in Procs : pc'[p] # pc[p] /\ execMu[id, entries[id]] = p]_vars
  BY SwapsUnderMutex
<1> QED
  BY <1>1, ExclusionInvariant, PTL DEF Spec, SwapHoldsExecMu

-----------------------------------------------------------------------------
(* What a step of a goroutine does to the files of sessions, and how it    *)
(* comes by the snapshot a session may be rolled back to.                  *)

Contents(p) == \A j \in Live, f \in FsIds :
    fsys'[j, f].bytes # fsys[j, f].bytes
        => pc[p] \in {"exec", "log", "rc", "swap", "validate"} /\ j = job[p].id

Fits(p) ==
    /\ ~OverQuota(job[p].snap.bytes) => ~OverQuota(job'[p].snap.bytes)
    /\ pc'[p] = "relink" => RunRollback(p)
    /\ pc[p] \in {"validate", "relink"} /\ pc'[p] \in {"idle", "prompt"} => RunKeep(p) \/ RunRelink(p)
    /\ Contents(p)

LEMMA NothingFits == ~OverQuota(0) /\ NoContent.bytes = 0 /\ NoJob.snap.bytes = 0
<1>1. ~OverQuota(0)
  BY ServerAssumption, SMT DEF OverQuota
<1>2. NoContent.bytes = 0
  BY DEF NoContent
<1> QED
  BY <1>1, <1>2 DEF NoJob

LEMMA FitsOn ==
    ASSUME ServerTypeOK, NEW p \in Procs, NEW l, NEW j, Goto(p, l, j),
           j.snap = job[p].snap \/ ~OverQuota(j.snap.bytes),
           l # "relink", pc[p] \notin {"validate", "relink"}, Contents(p)
    PROVE  Fits(p)
<1>1. pc'[p] = l /\ job'[p] = j
  BY DEF Goto, ServerTypeOK
<1> QED
  BY <1>1 DEF Fits

LEMMA DoneFits ==
    ASSUME ServerTypeOK, NEW p \in Procs, Done(p)
    PROVE  ~OverQuota(job'[p].snap.bytes) /\ pc'[p] \in {"idle", "prompt"}
<1>1. CASE job[p].kind = "shell"
  <2> DEFINE j == [NoJob EXCEPT !.kind = "shell", !.id = job[p].id, !.ent = job[p].ent, !.cwd = job[p].cwd]
  <2>1. Goto(p, "prompt", j) /\ j.snap.bytes = 0
    BY <1>1, NothingFits DEF Done, NoJob
  <2> HIDE DEF j
  <2> QED
    BY <2>1, NothingFits DEF Goto, ServerTypeOK
<1>2. CASE job[p].kind # "shell"
  BY <1>2, NothingFits DEF Done, Goto, ServerTypeOK
<1> QED
  BY <1>1, <1>2

LEMMA SameContents == ASSUME NEW p, UNCHANGED fsys PROVE Contents(p)
BY DEF Contents

LEMMA InsertContents ==
    ASSUME TypeOK, NEW p, NEW id \in Ids \ Live, NEW f, NEW c, fsys' = [fsys EXCEPT ![<<id, f>>] = c]
    PROVE  Contents(p)
BY DEF Contents, TypeOK, Live

LEMMA WriteContents ==
    ASSUME TypeOK, NEW p, pc[p] \in {"exec", "log", "rc", "swap", "validate"},
           \A k \in Ids \X FsIds : k[1] # job[p].id => fsys'[k] = fsys[k]
    PROVE  Contents(p)
BY DEF Contents, Live

LEMMA GetContents ==
    ASSUME TypeOK, NEW p, NEW id \in Ids, Get(id)
    PROVE  Contents(p)
<1>1. CASE GetExisting(id)
  BY <1>1, SameContents DEF GetExisting
<1>2. CASE Create(id)
  BY <1>2, InsertContents DEF Create, Insert
<1> QED
  BY <1>1, <1>2 DEF Get

LEMMA ArrivalFits ==
    ASSUME ServerTypeOK, NEW p \in Procs, Arrive(p)
    PROVE  Fits(p)
<1>0. TypeOK
  BY DEF ServerTypeOK
<1>1. ASSUME NEW id \in Ids, RunAttach(p, id) \/ ReadAttach(p, id)
      PROVE  Fits(p)
  <2>1. PICK kind : Attached(p, kind, id, "lock") /\ pc[p] = "idle" /\ Get(id)
    BY <1>1 DEF RunAttach, ReadAttach, Get
  <2> DEFINE j == [NoJob EXCEPT !.kind = kind, !.id = id, !.ent = entries'[id]]
  <2>2. Goto(p, "lock", j) /\ j.snap.bytes = 0
    BY <2>1, NothingFits DEF Attached, NoJob
  <2> HIDE DEF j
  <2>3. Contents(p)
    BY <1>0, <2>1, GetContents
  <2> QED
    BY <2>1, <2>2, <2>3, NothingFits, FitsOn
<1>2. ASSUME NEW id \in Ids, ShellOpen(p, id)
      PROVE  Fits(p)
  <2>1. pc[p] = "idle" /\ Get(id)
    BY <1>2 DEF ShellOpen
  <2> DEFINE e == heap'[id, entries'[id]]
             l == IF e.rc THEN "prompt" ELSE "rc"
             j == [NoJob EXCEPT !.kind = "shell", !.id = id, !.ent = entries'[id], !.cwd = e.cwd,
                                !.fs = IF e.rc THEN 1 ELSE e.fs]
  <2>2. Goto(p, l, j)
    BY <1>2 DEF ShellOpen
  <2>3. l # "relink" /\ l # "end" /\ l # "replace" /\ l # "swap"
    OBVIOUS
  <2>4. j.snap.bytes = 0
    BY NothingFits DEF NoJob
  <2> HIDE DEF e, l, j
  <2>5. Contents(p)
    BY <1>0, <2>1, GetContents
  <2> QED
    BY <2>1, <2>2, <2>3, <2>4, <2>5, NothingFits, FitsOn
<1>3. ASSUME NEW id \in Ids, ImportAttach(p, id)
      PROVE  Fits(p)
  <2>1. pc[p] = "idle" /\ UNCHANGED fsys
    BY <1>3 DEF ImportAttach, GetExisting, storeVars
  <2>2. PICK b \in 0..MaxBytes :
          /\ ~OverQuota(b)
          /\ \/ Goto(p, "lock", [NoJob EXCEPT !.kind = "import", !.id = id, !.snap.bytes = b, !.ent = entries[id]])
             \/ Goto(p, "swap", [NoJob EXCEPT !.kind = "import", !.id = id, !.snap.bytes = b])
    BY <1>3 DEF ImportAttach
  <2> DEFINE j == [NoJob EXCEPT !.kind = "import", !.id = id, !.snap.bytes = b, !.ent = entries[id]]
             k == [NoJob EXCEPT !.kind = "import", !.id = id, !.snap.bytes = b]
  <2>3. (Goto(p, "lock", j) \/ Goto(p, "swap", k)) /\ j.snap.bytes = b /\ k.snap.bytes = b
    BY <2>2 DEF NoJob, NoContent
  <2> HIDE DEF j, k
  <2> QED
    BY <2>1, <2>2, <2>3, SameContents, FitsOn
<1>4. ASSUME NEW id \in Ids, CronSnap(p, id)
      PROVE  Fits(p)
  <2> DEFINE j == [NoJob EXCEPT !.kind = "cron", !.id = id, !.ent = entries[id], !.fs = Current(id).fs]
  <2>1. pc[p] = "idle" /\ UNCHANGED fsys /\ Goto(p, "lock", j) /\ j.snap.bytes = 0
    BY <1>4, NothingFits DEF CronSnap, storeVars, NoJob
  <2> HIDE DEF j
  <2> QED
    BY <2>1, NothingFits, SameContents, FitsOn
<1> QED
  BY <1>1, <1>2, <1>3, <1>4 DEF Arrive

(* The snapshot is of a session that was within its quota.                 *)
LEMMA AcquireFits ==
    ASSUME ServerTypeOK, NEW p \in Procs, Acquire(p)
    PROVE  Fits(p)
<1>1. pc[p] \in {"lock", "prompt"} /\ UNCHANGED fsys
  BY DEF Acquire, RunLock, ReadLock, ImportLock, CronLock, storeVars
<1>2. Contents(p)
  BY <1>1, SameContents
<1>3. CASE Done(p)
  BY <1>1, <1>2, <1>3, DoneFits DEF Fits
<1>4. ASSUME NEW c, NEW cwd, ~OverQuota(c.bytes), Goto(p, "open", Snapshotted(p, c, cwd))
      PROVE  Fits(p)
  <2>1. job[p] \in Job
    BY DEF ServerTypeOK
  <2>2. Snapshotted(p, c, cwd).snap = job[p].snap \/ Snapshotted(p, c, cwd).snap = c
    BY <2>1 DEF Snapshotted, Job
  <2> QED
    BY <1>1, <1>2, <1>4, <2>2, FitsOn
<1>5. ASSUME NEW l \in {"reread", "swap"}, Goto(p, l, job[p])
      PROVE  Fits(p)
  BY <1>1, <1>2, <1>5, FitsOn
<1>6. CASE ReadLock(p)
  <2> DEFINE j == [job[p] EXCEPT !.fs = Entry_(p).fs]
  <2>1. Goto(p, "read", j) /\ j.snap = job[p].snap
    BY <1>6 DEF ReadLock, ServerTypeOK, Job
  <2> HIDE DEF j
  <2> QED
    BY <1>1, <1>2, <2>1, FitsOn
<1>7. CASE RunLock(p)
  <2> DEFINE c == fsys[job[p].id, Entry_(p).fs]
             cwd == IF job[p].kind = "shell" THEN job[p].cwd ELSE Entry_(p).cwd
  <2>1. Done(p) \/ (~OverQuota(c.bytes) /\ Goto(p, "open", Snapshotted(p, c, cwd)))
    BY <1>7 DEF RunLock
  <2> HIDE DEF c, cwd
  <2> QED
    BY <1>3, <1>4, <2>1
<1> QED
  BY <1>5, <1>6, <1>7 DEF Acquire, ImportLock, CronLock

LEMMA ExecFits ==
    ASSUME ServerTypeOK, NEW p \in Procs, Exec(p)
    PROVE  Fits(p)
<1>1. PICK b \in 0..MaxBytes :
        /\ pc[p] = "exec" /\ pc' = pc
        /\ fsys' = [fsys EXCEPT ![<<job[p].id, job[p].fs>>].bytes = b]
        /\ \E u : job' = [job EXCEPT ![p].used = u]
  BY DEF Exec
<1>2. job'[p].snap = job[p].snap
  BY <1>1 DEF ServerTypeOK, Job
<1>3. Contents(p)
  BY <1>1, WriteContents DEF ServerTypeOK, TypeOK
<1> QED
  BY <1>1, <1>2, <1>3 DEF Fits

LEMMA ShellFits ==
    ASSUME ServerTypeOK, NEW p \in Procs, ShellRcWrite(p) \/ ShellRcDone(p) \/ ShellExit(p)
    PROVE  Fits(p)
<1>1. CASE ShellRcWrite(p)
  <2>1. PICK b \in 0..MaxBytes :
          /\ pc[p] = "rc" /\ pc' = pc /\ job' = job
          /\ fsys' = [fsys EXCEPT ![<<job[p].id, job[p].fs>>].bytes = b]
    BY <1>1 DEF ShellRcWrite, serverVars
  <2>2. Contents(p)
    BY <2>1, WriteContents DEF ServerTypeOK, TypeOK
  <2> QED
    BY <2>1, <2>2 DEF Fits
<1>2. CASE ShellRcDone(p)
  <2>1. pc[p] = "rc" /\ Done(p) /\ UNCHANGED fsys
    BY <1>2 DEF ShellRcDone, updateLocked
  <2> QED
    BY <2>1, DoneFits, SameContents DEF Fits
<1>3. CASE ShellExit(p)
  BY <1>3, NothingFits, FitsOn, SameContents DEF ShellExit, storeVars
<1> QED
  BY <1>1, <1>2, <1>3

LEMMA RunFits ==
    ASSUME ServerTypeOK, JobsOK, NEW p \in Procs
    PROVE  /\ RunOpen(p) => Fits(p)
           /\ RunFinish(p) => Fits(p)
           /\ RunKeep(p) => Fits(p)
           /\ RunRelink(p) => Fits(p)
<1>0. job[p] \in Job
  BY DEF ServerTypeOK
<1>1. ASSUME RunOpen(p)
      PROVE  Fits(p)
  <2>1. pc[p] = "open" /\ UNCHANGED fsys
    BY <1>1 DEF RunOpen, storeVars
  <2> DEFINE e == Entry_(p)
             j == [job[p] EXCEPT !.fs = e.fs, !.used = Counted(fsys[job[p].id, e.fs].bytes),
                     !.cwd = IF job[p].kind = "shell" THEN @ ELSE e.cwd,
                     !.left = EffectiveTimeout(e.runtime), !.net = e.net, !.rc = ~e.rc]
  <2>2. Done(p) \/ Goto(p, "exec", j)
    BY <1>1 DEF RunOpen
  <2>3. j.snap = job[p].snap
    BY <1>0 DEF Job
  <2> HIDE DEF j
  <2>4. CASE Goto(p, "exec", j)
    BY <2>1, <2>3, <2>4, FitsOn, SameContents
  <2>5. CASE Done(p)
    BY <2>1, <2>5, DoneFits, SameContents DEF Fits
  <2> QED
    BY <2>2, <2>4, <2>5
<1>2. ASSUME RunFinish(p)
      PROVE  Fits(p)
  <2>1. PICK cwd : pc[p] = "exec" /\ UNCHANGED fsys /\ Goto(p, "validate", Reported(p, cwd))
    BY <1>2 DEF RunFinish, updateLocked
  <2>2. Reported(p, cwd).snap = job[p].snap
    BY <1>0 DEF Reported, Job
  <2> QED
    BY <2>1, <2>2, FitsOn, SameContents
<1>3. ASSUME RunKeep(p) \/ RunRelink(p)
      PROVE  Fits(p)
  <2>1. Done(p) /\ UNCHANGED fsys
    BY <1>3 DEF RunKeep, RunRelink, storeVars
  <2> QED
    BY <1>3, <2>1, DoneFits, SameContents DEF Fits
<1> QED
  BY <1>1, <1>2, <1>3

LEMMA ReplaceContents ==
    ASSUME TypeOK, NEW p, pc[p] \in {"swap", "validate"}, job[p].id \in Ids, NEW c, NEW cwd,
           Replace(job[p].id, c, cwd)
    PROVE  Contents(p)
<1>1. \E f : fsys' = [fsys EXCEPT ![<<job[p].id, f>>] = c]
  BY DEF Replace, Swap, SwapTo, Insert
<1> QED
  BY <1>1, WriteContents DEF TypeOK

LEMMA RollbackFits ==
    ASSUME ServerTypeOK, JobsOK, NEW p \in Procs, RunRollback(p)
    PROVE  Fits(p)
<1>0. pc[p] = "validate" /\ job[p] \in Job /\ job[p].id \in Ids /\ TypeOK
  BY JobType DEF RunRollback, ServerTypeOK
<1> DEFINE j == [job[p] EXCEPT !.fs = nfs[job[p].id] + 1, !.cwd = job[p].snapCwd]
<1>1. Goto(p, "relink", j) /\ j.snap = job[p].snap
  BY <1>0 DEF RunRollback, Job
<1> HIDE DEF j
<1>2. Contents(p)
  <2>1. CASE Replace(job[p].id, job[p].snap, job[p].snapCwd)
    BY <1>0, <2>1, ReplaceContents
  <2>2. CASE fsys' = [fsys EXCEPT ![<<job[p].id, nfs[job[p].id] + 1>>] = job[p].snap]
    BY <1>0, <2>2, WriteContents DEF TypeOK
  <2> QED
    BY <2>1, <2>2 DEF RunRollback
<1>3. pc'[p] = "relink" /\ job'[p] = j
  BY <1>1 DEF Goto, ServerTypeOK
<1> QED
  BY <1>1, <1>2, <1>3 DEF Fits

LEMMA OthersFit ==
    ASSUME ServerTypeOK, JobsOK, NEW p \in Procs
    PROVE  /\ ReadDone(p) => Fits(p)
           /\ ImportSwap(p) => Fits(p)
           /\ CronReread(p) => Fits(p)
           /\ CronFinish(p) => Fits(p)
           /\ CronLog(p) => Fits(p)
<1>0. job[p] \in Job /\ TypeOK
  BY DEF ServerTypeOK
<1>1. ASSUME ReadDone(p)
      PROVE  Fits(p)
  BY <1>1, DoneFits, SameContents DEF ReadDone, storeVars, Fits
<1>2. ASSUME ImportSwap(p)
      PROVE  Fits(p)
  <2>1. pc[p] = "swap" /\ Done(p) /\ job[p].id \in Ids
    BY <1>2, JobType DEF ImportSwap
  <2>2. Contents(p)
    <3>1. CASE UNCHANGED storeVars
      BY <3>1, SameContents DEF storeVars
    <3>2. ASSUME NEW c, NEW cwd, Replace(job[p].id, c, cwd)
          PROVE  Contents(p)
      BY <1>0, <2>1, <3>2, ReplaceContents
    <3> QED
      BY <1>2, <3>1, <3>2 DEF ImportSwap
  <2> QED
    BY <2>1, <2>2, DoneFits DEF Fits
<1>3. ASSUME CronReread(p)
      PROVE  Fits(p)
  <2>1. pc[p] = "reread" /\ UNCHANGED fsys
    BY <1>3 DEF CronReread, storeVars, GetExisting
  <2>2. Done(p) \/ \E fs, used, left, net :
          Goto(p, "exec", [job[p] EXCEPT !.fs = fs, !.used = used, !.left = left, !.net = net])
    BY <1>3 DEF CronReread
  <2>3. ASSUME NEW fs, NEW used, NEW left, NEW net,
               Goto(p, "exec", [job[p] EXCEPT !.fs = fs, !.used = used, !.left = left, !.net = net])
        PROVE  Fits(p)
    <3> DEFINE j == [job[p] EXCEPT !.fs = fs, !.used = used, !.left = left, !.net = net]
    <3>1. Goto(p, "exec", j) /\ j.snap = job[p].snap
      BY <1>0, <2>3 DEF Job
    <3> HIDE DEF j
    <3> QED
      BY <2>1, <3>1, FitsOn, SameContents
  <2> QED
    BY <2>1, <2>2, <2>3, DoneFits, SameContents DEF Fits
<1>4. ASSUME CronFinish(p)
      PROVE  Fits(p)
  <2> DEFINE j == [job[p] EXCEPT !.left = 0, !.net = 0]
  <2>1. pc[p] = "exec" /\ UNCHANGED fsys /\ Goto(p, "log", j) /\ j.snap = job[p].snap
    BY <1>0, <1>4 DEF CronFinish, AddUsage, Job
  <2> HIDE DEF j
  <2> QED
    BY <2>1, FitsOn, SameContents
<1>5. ASSUME CronLog(p)
      PROVE  Fits(p)
  <2>1. PICK b : pc[p] = "log" /\ Done(p) /\ fsys' = [fsys EXCEPT ![<<job[p].id, job[p].fs>>].bytes = b]
    <3>1. PICK d \in 0..1 : fsys' = [fsys EXCEPT ![<<job[p].id, job[p].fs>>].bytes = @ + d]
      BY <1>5 DEF CronLog
    <3>2. fsys' = [fsys EXCEPT ![<<job[p].id, job[p].fs>>].bytes = fsys[<<job[p].id, job[p].fs>>].bytes + d]
      BY <3>1
    <3> QED
      BY <1>5, <3>2 DEF CronLog
  <2>2. Contents(p)
    BY <1>0, <2>1, WriteContents DEF TypeOK
  <2> QED
    BY <2>1, <2>2, DoneFits DEF Fits
<1> QED
  BY <1>1, <1>2, <1>3, <1>4, <1>5

LEMMA GoroutineFits ==
    ASSUME ServerTypeOK, JobsOK, NEW p \in Procs, GoroutineActs(p)
    PROVE  Fits(p)
<1>1. CASE Advance(p) \/ CommandEnds(p)
  BY <1>1, RunFits, RollbackFits, OthersFit DEF Advance, CommandEnds
<1> QED
  BY <1>1, ArrivalFits, AcquireFits, ExecFits, ShellFits DEF GoroutineActs

-----------------------------------------------------------------------------
(* What a session may be rolled back to is within its quota, and so is what*)
(* it has been rolled back to, until the handler is done: nobody else works*)
(* in it meanwhile.                                                        *)
SnapsFit   == \A p \in Procs : ~OverQuota(job[p].snap.bytes)
RolledBack == \A p \in Procs : pc[p] = "relink" =>
    /\ job[p].fs = Current(job[p].id).fs
    /\ ~OverQuota(fsys[job[p].id, job[p].fs].bytes)
QuotaInv   == SnapsFit /\ RolledBack

NoneSourcing == \A p \in Procs : pc[p] # "rc"

LEMMA RollbackFillsFs ==
    ASSUME TypeOK, NEW id \in Live, NEW c, NEW cwd \in Cwds, Swap(id, c, cwd)
    PROVE  /\ nfs[id] + 1 \in FsIds
           /\ Current(id)'.fs = nfs[id] + 1
           /\ fsys'[id, nfs[id] + 1] = c
<1> DEFINE e == [[Current(id) EXCEPT !.cwd = cwd] EXCEPT !.fs = nfs[id] + 1, !.rc = FALSE, !.age = 0]
<1>1. Put(id, e) /\ nfs[id] < MaxFs /\ id \in Ids /\ fsys' = [fsys EXCEPT ![<<id, nfs[id] + 1>>] = c]
  BY DEF Swap, SwapTo, Live
<1>2. nfs[id] + 1 \in FsIds
  BY <1>1, StoreAssumption, SMT DEF TypeOK, FsIds
<1>3. e \in Entry /\ e.fs = nfs[id] + 1
  BY <1>2, CurrentType, ZeroInRanges DEF Entry
<1> HIDE DEF e
<1>4. Current(id)' = e
  BY <1>1, <1>3, PutEffect
<1> QED
  BY <1>1, <1>2, <1>3, <1>4 DEF TypeOK

LEMMA FitsKeepsQuota ==
    ASSUME ExclInv, NoBlindSwap, NoneSourcing, QuotaInv, NEW p \in Procs, Act(p), Fits(p), Moves(p)
    PROVE  QuotaInv'
<1>0. ServerInv /\ Pointing /\ OneAtATime /\ ServerTypeOK /\ TypeOK /\ JobsOK
  BY Alone DEF ExclInv, ServerInv, ServerTypeOK
<1>1. PICK id \in Ids, d \in Nat, n \in BOOLEAN, sw \in BOOLEAN :
        /\ Effect(id, d, n, sw)
        /\ sw => pc[p] \in {"swap", "validate", "relink"} /\ pc'[p] # pc[p] /\ id = job[p].id
  BY DEF Act, Works
<1>2. \A q \in Procs \ {p} : pc'[q] = pc[q] /\ job'[q] = job[q]
  BY <1>0 DEF Moves, Goto, ServerTypeOK
<1>3. SnapsFit'
  BY <1>2 DEF SnapsFit, QuotaInv, Fits
<1>4. ASSUME NEW q \in Procs \ {p}, pc[q] = "relink", NEW j, j = job[q].id
      PROVE  /\ Current(j)'.fs = job[q].fs
             /\ ~OverQuota(fsys'[j, job[q].fs].bytes)
  <2>1. HasMu(q) /\ j \in Live /\ job[q].fs \in FsIds
    BY <1>0, <1>4, HolderPoints, JobType DEF HasMu
  <2>2. sw => j # id
    BY <1>0, <1>1, <1>4, <2>1, SwapperHolds DEF OneAtATime
  <2>3. Current(j)'.fs = Current(j).fs
    BY <1>1, <2>1, <2>2, EffectKeeps
  <2>4. fsys'[j, job[q].fs].bytes = fsys[j, job[q].fs].bytes
    <3> SUFFICES ASSUME fsys'[j, job[q].fs].bytes # fsys[j, job[q].fs].bytes
                 PROVE  FALSE
      OBVIOUS
    <3>1. pc[p] \in {"exec", "log", "rc", "swap", "validate"} /\ j = job[p].id
      BY <2>1 DEF Fits, Contents
    <3>2. HasMu(p)
      BY <2>1, <3>1, SwapperHolds DEF HasMu, NoneSourcing
    <3> QED
      BY <1>0, <1>4, <2>1, <3>1, <3>2 DEF OneAtATime
  <2> QED
    BY <1>4, <2>3, <2>4 DEF QuotaInv, RolledBack
<1>5. ASSUME pc'[p] = "relink", NEW j, j = job'[p].id
      PROVE  /\ job'[p].fs = Current(j)'.fs
             /\ ~OverQuota(fsys'[j, job'[p].fs].bytes)
  <2>1. RunRollback(p) /\ pc[p] = "validate"
    BY <1>5 DEF Fits, RunRollback
  <2>2. HasMu(p) /\ pc[p] # "idle"
    BY <2>1 DEF HasMu
  <2>3. job[p].id \in Live /\ job[p] \in Job /\ job[p].snapCwd \in Cwds
    BY <1>0, <2>2, HolderPoints, JobType DEF Job
  <2>4. Swap(job[p].id, job[p].snap, job[p].snapCwd)
    BY <2>1, <2>3 DEF RunRollback, Replace
  <2>5. job'[p].id = job[p].id /\ job'[p].fs = nfs[job[p].id] + 1
    <3>1. job'[p] = [job[p] EXCEPT !.fs = nfs[job[p].id] + 1, !.cwd = job[p].snapCwd]
      BY <1>0, <2>1 DEF RunRollback, Goto, ServerTypeOK
    <3> QED
      BY <2>3, <3>1 DEF Job
  <2>6. Current(j)'.fs = job'[p].fs /\ fsys'[j, job'[p].fs] = job[p].snap
    BY <1>0, <1>5, <2>3, <2>4, <2>5, RollbackFillsFs
  <2> QED
    BY <2>6 DEF QuotaInv, SnapsFit
<1>6. RolledBack'
  <2> SUFFICES ASSUME NEW q \in Procs, pc'[q] = "relink", NEW j, j = job'[q].id
               PROVE  /\ job'[q].fs = Current(j)'.fs
                      /\ ~OverQuota(fsys'[j, job'[q].fs].bytes)
    BY DEF RolledBack, Current
  <2>1. CASE q # p
    BY <1>2, <1>4, <2>1
  <2>2. CASE q = p
    BY <1>5, <2>2
  <2> QED
    BY <2>1, <2>2
<1> QED
  BY <1>3, <1>6 DEF QuotaInv

LEMMA WorldKeepsQuota ==
    ASSUME ExclInv, ExclInv', QuotaInv, Halts \/ Returns \/ Passes
    PROVE  QuotaInv'
<1>1. CASE Halts
  BY <1>1, NothingFits DEF Halts, AllStop, QuotaInv, SnapsFit, RolledBack
<1>2. CASE Returns
  <2>1. \A p \in Procs : pc'[p] = "idle"
    BY <1>2 DEF Returns, ExclInv, Stopped, serverVars
  <2> QED
    BY <1>2, <2>1 DEF Returns, serverVars, QuotaInv, SnapsFit, RolledBack
<1>3. CASE Passes
  <2>0. pc' = pc /\ job' = job /\ fsys' = fsys
    BY <1>3 DEF Passes, serverVars
  <2>1. ASSUME NEW q \in Procs, pc[q] = "relink", NEW j, j = job[q].id
        PROVE  Current(j)'.fs = Current(j).fs
    <3>1. HasMu(q) /\ job[q].ent # 0 /\ j \in Ids /\ entries[j] = job[q].ent
      BY <2>1, HolderPoints DEF HasMu, ExclInv, Pointing
    <3>2. entries'[j] = job[q].ent
      BY <2>0, <2>1, <3>1 DEF HasMu, ExclInv, Pointing
    <3>3. j \in Live'
      BY <3>1, <3>2 DEF Live, Absent
    <3> QED
      BY <1>3, <3>3 DEF Passes
  <2>2. RolledBack'
    <3> SUFFICES ASSUME NEW q \in Procs, pc[q] = "relink", NEW j, j = job[q].id
                 PROVE  /\ job[q].fs = Current(j)'.fs
                        /\ ~OverQuota(fsys[j, job[q].fs].bytes)
      BY <2>0 DEF RolledBack, Current
    <3> QED
      BY <2>1 DEF QuotaInv, RolledBack
  <2> QED
    BY <2>0, <2>2 DEF QuotaInv, SnapsFit
<1> QED
  BY <1>1, <1>2, <1>3

LEMMA StepFits ==
    ASSUME ServerInv, [Next]_vars
    PROVE  \/ \E p \in Procs : Act(p) /\ Fits(p) /\ Moves(p)
           \/ Halts \/ Returns \/ Passes
<1>1. ASSUME NEW p \in Procs, GoroutineActs(p)
      PROVE  Act(p) /\ Fits(p) /\ Moves(p)
  BY <1>1, GoroutineStep, GoroutineActsAct, GoroutineFits DEF ServerInv, Step
<1> QED
  BY <1>1, WorldPasses DEF ServerInv, ServerTypeOK

LEMMA QuotaInvNext ==
    ExclInv /\ ExclInv' /\ NoBlindSwap /\ NoneSourcing /\ QuotaInv /\ [Next]_vars => QuotaInv'
BY StepFits, FitsKeepsQuota, WorldKeepsQuota DEF ExclInv

(* A handler that returns leaves the session as it validated it, or as it  *)
(* rolled it back.                                                         *)
LEMMA RunEnds ==
    ASSUME ~Faults, "crash" \notin Ops, ExclInv, QuotaInv, [Next]_vars, NEW p \in Procs,
           pc[p] \in {"validate", "relink"}, pc'[p] \in {"idle", "prompt"}, NEW id, job[p].id = id
    PROVE  ~OverQuota(fsys'[id, Current(id)'.fs].bytes)
<1>0. ServerInv /\ Pointing /\ ServerTypeOK /\ TypeOK /\ JobsOK /\ HasMu(p) /\ pc'[p] # pc[p] /\ pc[p] # "idle"
  BY DEF ExclInv, ServerInv, ServerTypeOK, HasMu
<1>1. id \in Live /\ id \in Ids /\ Entry_(p) = Current(id) /\ Mine(p) = <<id, entries[id]>> /\ job[p] \in Job
  BY <1>0, HolderPoints, JobType
<1>2. GoroutineActs(p)
  <2>1. ASSUME NEW q \in Procs, GoroutineActs(q), q # p
        PROVE  FALSE
    <3>1. Moves(q)
      BY <1>0, <2>1, GoroutineStep DEF Step
    <3> QED
      BY <1>0, <2>1, <3>1 DEF Moves, Goto, ServerTypeOK
  <2>2. ~UNCHANGED pc
    BY <1>0
  <2>3. ASSUME NEW i \in Ids, HandleDelete(i)
        PROVE  FALSE
    BY <2>2, <2>3 DEF HandleDelete, serverVars
  <2>4. ~Age /\ ~RestartServer /\ ~Quiet /\ ~UNCHANGED vars /\ ~CrashServer
    BY <2>2 DEF Age, RestartServer, Quiet, CrashServer, vars, serverVars
  <2> QED
    BY <2>1, <2>3, <2>4 DEF Next, GoroutineActs
<1>3. RunKeep(p) \/ RunRelink(p)
  BY <1>0, <1>2, GoroutineFits DEF Fits
<1>4. CASE RunKeep(p)
  <2>1. ~OverQuota(fsys[id, Current(id).fs].bytes) /\ UNCHANGED <<fsys, heap, entries>>
    BY <1>1, <1>4 DEF RunKeep, storeVars
  <2> QED
    BY <2>1 DEF Current
<1>5. CASE RunRelink(p)
  <2>1. /\ job[p].fs = Current(id).fs /\ ~OverQuota(fsys[id, job[p].fs].bytes)
        /\ UNCHANGED <<fsys, entries>>
    BY <1>5 DEF RunRelink, QuotaInv, RolledBack
  <2>2. Current(id)'.fs = job[p].fs
    <3>1. CASE heap' = heap
      BY <2>1, <3>1 DEF Current
    <3>2. CASE heap' = [heap EXCEPT ![Mine(p)].fs = job[p].fs]
      <4>1. <<id, entries[id]>> \in Ids \X Gens /\ Current(id) \in Entry
        BY <1>0, <1>1, CurrentType
      <4>2. heap'[<<id, entries[id]>>] = [Current(id) EXCEPT !.fs = job[p].fs]
        BY <1>0, <1>1, <3>2, <4>1 DEF Current, TypeOK
      <4> QED
        BY <2>1, <4>1, <4>2 DEF Current, Entry
    <3> QED
      BY <1>5, <3>1, <3>2 DEF RunRelink
  <2> QED
    BY <2>1, <2>2
<1> QED
  BY <1>3, <1>4, <1>5

(* However far the accounting of a run may have strayed, its session is    *)
(* within --session-max-bytes when the handler of the run returns, kept or *)
(* rolled back, with a working disk, a server that is up, and no rc file   *)
(* being sourced.                                                          *)
THEOREM RunsEndInQuota ==
    ASSUME ~Faults, "crash" \notin Ops
    PROVE  Spec /\ [][NonePulled]_vars /\ []NoBlindSwap /\ []NoneSourcing => RunsEndWithinQuota
<1>1. Init => QuotaInv
  BY NothingFits DEF Init, QuotaInv, SnapsFit, RolledBack
<1>2. ExclInv /\ QuotaInv /\ [Next]_vars =>
        [\A p \in Procs, id \in Live :
            pc[p] \in {"validate", "relink"} /\ pc'[p] \in {"idle", "prompt"} /\ job[p].id = id
                => ~OverQuota(fsys'[id, Current(id)'.fs].bytes)]_vars
  BY RunEnds
<1> QED
  BY <1>1, <1>2, QuotaInvNext, ExclusionInvariant, PTL DEF Spec, RunsEndWithinQuota
=============================================================================
