---------------------------- MODULE SessionServer ---------------------------
(***************************************************************************)
(* The goroutines that execute commands in sessions and the protocol that  *)
(* keeps them apart: POST /run, snapshot export and import, tab completion *)
(* and DELETE (internal/server/server.go), SSH commands and interactive    *)
(* SSH shells (internal/ssh/server.go), and the cron scheduler             *)
(* (internal/session/cron.go), all over one SessionStore.                  *)
(*                                                                         *)
(* Every handler holds a pointer to an Entry object and takes that object's*)
(* ExecMu; it then reports to the store by session id.  A handler's steps  *)
(* are cut where another goroutine can come between: at the mutex, and     *)
(* before each call into the store.                                        *)
(***************************************************************************)
EXTENDS SessionStore, Integers

CONSTANTS
    Procs,          \* goroutines, each serving one request, shell or cron job at a time
    None,           \* the owner of an unlocked ExecMu, the session of an idle goroutine
    Ops,            \* what clients and timers do in this instance
    Preloaded,      \* sessions restored from disk at startup, rc already sourced
    Quota,          \* Limits.MaxBytes; 0 means unlimited
    RuntimeLimit,   \* Limits.MaxRuntime; 0 means unlimited
    Timeout,        \* the per-request timeout, in the units of RuntimeLimit
    Drift           \* TRUE when a QuotaFs may undercount (module QuotaFs)

AllOps == {"run", "ssh", "shell", "cron", "import", "read", "delete", "reap", "crash"}

ASSUME ServerAssumption ==
    /\ Ops \subseteq AllOps
    /\ Preloaded \subseteq Ids
    /\ MaxEntries > 0 => Cardinality(Preloaded) <= MaxEntries    \* the reload stops at the cap
    /\ {Quota, RuntimeLimit, Timeout} \subseteq Nat
    /\ Drift \in BOOLEAN
    /\ None \notin Procs \cup Ids

VARIABLES
    pc,             \* where each goroutine is
    job,            \* its local variables
    execMu          \* the owner of each Entry's ExecMu

serverVars == <<pc, job, execMu>>
vars       == <<storeVars, serverVars>>

-----------------------------------------------------------------------------
Labels == {"idle", "lock", "open", "exec", "validate", "relink", "reread", "log",
           "read", "swap", "rc", "prompt"}

(* Bound: how far the counter of a QuotaFs may stray when others write.    *)
Counts == (-MaxBytes)..MaxBytes

(* ent is the incarnation whose Entry the goroutine points to, fs the      *)
(* filesystem it works in, used the counter of its QuotaFs, left its       *)
(* remaining time, snap and snapCwd the snapshot taken before the run.     *)
Job == [kind : AllOps \cup {"none"}, id : Ids \cup {None}, ent : 0..MaxGen, fs : FsIds, cwd : Cwds,
        snap : Content, snapCwd : Cwds, used : Counts, left : Nat, net : Nat, rc : BOOLEAN]

NoJob == [kind |-> "none", id |-> None, ent |-> 0, fs |-> 1, cwd |-> Root,
          snap |-> NoContent, snapCwd |-> Root, used |-> 0, left |-> 0, net |-> 0, rc |-> FALSE]

Mutexes   == Ids \X Gens
Mine(p)   == <<job[p].id, job[p].ent>>              \* the Entry p points to
Entry_(p) == heap[Mine(p)]
Bytes(p)  == fsys[job[p].id, job[p].fs].bytes

(* The counter of a QuotaFs; one that drifts is not worth following.       *)
Counted(bytes) == IF Quota > 0 /\ ~Drift THEN bytes ELSE 0

OverQuota(bytes)     == Quota > 0 /\ bytes > Quota                    \* ValidateFS
OutOfTime(used)      == RuntimeLimit > 0 /\ used >= RuntimeLimit      \* ValidateRuntime
(* Mutant: the remaining budget is ignored.                                *)
EffectiveTimeout_NoBudget(used) == Timeout
EffectiveTimeout(used) == IF RuntimeLimit > 0 THEN Lesser(Timeout, RuntimeLimit - used) ELSE Timeout

(* Bound: handlers start only while the model has objects left for every   *)
(* import and rollback in flight, so that no handler stops half way.       *)
Pending(id) == {p \in Procs : /\ pc[p] # "idle" /\ job[p].id = id
                              /\ Drift \/ job[p].kind = "import"}
Spare(id, wanted) == /\ nfs[id] + Cardinality(Pending(id)) + wanted <= MaxFs
                     /\ gen[id] + Cardinality(Pending(id)) + wanted <= MaxGen
Wanted(id)  == (IF id \in Live THEN 0 ELSE 1) + (IF Drift THEN 1 ELSE 0)

-----------------------------------------------------------------------------
(* Moving a goroutine.                                                     *)

Goto(p, l, j) == /\ pc'  = [pc EXCEPT ![p] = l]
                 /\ job' = [job EXCEPT ![p] = j]

Lock(p)   == /\ execMu[Mine(p)] = None
             /\ execMu' = [execMu EXCEPT ![Mine(p)] = p]
Unlock(p) == execMu' = [execMu EXCEPT ![Mine(p)] = None]

(* A handler returns; an interactive shell goes back to its prompt.        *)
Done(p) == IF job[p].kind = "shell"
           THEN Goto(p, "prompt", [NoJob EXCEPT !.kind = "shell", !.id = job[p].id,
                                                !.ent = job[p].ent, !.cwd = job[p].cwd])
           ELSE Goto(p, "idle", NoJob)

(* The session is looked up, by Get, Create or GetExisting, and the handler*)
(* goes on to wait for its ExecMu.                                         *)
Attached(p, kind, id, l) ==
    Goto(p, l, [NoJob EXCEPT !.kind = kind, !.id = id, !.ent = entries'[id]])

-----------------------------------------------------------------------------
(* POST /run and SSH commands.  A run without session has nothing to share.*)

RunAttach(p, id) ==
    \E kind \in Ops \cap {"run", "ssh"} :
        /\ pc[p] = "idle" /\ Spare(id, Wanted(id))
        /\ Get(id)
        /\ Attached(p, kind, id, "lock")
        /\ UNCHANGED execMu

(* The rollback snapshot, taken only if there are filesystem limits.       *)
Snapshotted(p, c, cwd) ==
    IF Quota > 0 THEN [job[p] EXCEPT !.snap = c, !.snapCwd = cwd] ELSE job[p]

(* Mutant: a request to a session out of budget is tried again instead of  *)
(* refused.                                                                *)
RunLock_Retries(p) ==
    /\ pc[p] = "lock" /\ job[p].kind \in {"run", "ssh"}
    /\ execMu[Mine(p)] = None
    /\ IF OutOfTime(Entry_(p).runtime)
       THEN UNCHANGED vars
       ELSE Lock(p) /\ Goto(p, "open", job[p]) /\ UNCHANGED storeVars

(* Under ExecMu the limits are validated and the rollback snapshot taken,  *)
(* or the request is refused.                                              *)
RunLock(p) ==
    /\ \/ pc[p] = "lock" /\ job[p].kind \in {"run", "ssh"}
       \/ pc[p] = "prompt" /\ Spare(job[p].id, 0)
    /\ LET e == Entry_(p)
           c == fsys[job[p].id, e.fs]
       IN \/ /\ OutOfTime(e.runtime) \/ OverQuota(c.bytes) \/ Faults
             /\ execMu[Mine(p)] = None
             /\ Done(p)
             /\ UNCHANGED execMu
          \/ /\ ~OutOfTime(e.runtime) /\ ~OverQuota(c.bytes)
             /\ Lock(p)
             /\ Goto(p, "open", Snapshotted(p, c,
                                    IF job[p].kind = "shell" THEN job[p].cwd ELSE e.cwd))
    /\ UNCHANGED storeVars

(* The timeout is computed, the filesystem measured and wrapped, the shell *)
(* started with the entry's cwd, network usage and, once, its rc file.     *)
RunOpen(p) ==
    /\ pc[p] = "open"
    /\ LET e == Entry_(p) IN
       \/ /\ OutOfTime(e.runtime) \/ Faults
          /\ Unlock(p)
          /\ Done(p)
       \/ /\ ~OutOfTime(e.runtime)
          /\ Goto(p, "exec", [job[p] EXCEPT !.fs = e.fs, !.used = Counted(fsys[job[p].id, e.fs].bytes),
                 !.cwd = IF job[p].kind = "shell" THEN @ ELSE e.cwd,
                 !.left = EffectiveTimeout(e.runtime), !.net = e.net, !.rc = ~e.rc])
          /\ UNCHANGED execMu
    /\ UNCHANGED storeVars

(* A command changes the filesystem through its QuotaFs, which may let it  *)
(* exceed the quota when its count has drifted.                            *)
Exec(p) ==
    /\ pc[p] = "exec" /\ up
    /\ \E b \in 0..MaxBytes :
        LET d == b - Bytes(p) IN
        /\ d # 0
        /\ d > 0 => ~OverQuota(job[p].used + d) \/ Drift
        /\ Counted(job[p].used + d) \in Counts
        /\ fsys' = [fsys EXCEPT ![<<job[p].id, job[p].fs>>].bytes = b]
        /\ job' = [job EXCEPT ![p].used = Counted(@ + d)]
    /\ UNCHANGED <<up, entries, heap, gen, nfs, disk, pc, execMu>>

(* What a handler still needs once its command has been recorded.          *)
Reported(p, cwd) == [job[p] EXCEPT !.cwd = IF job[p].kind = "shell" THEN cwd ELSE Root,
                                   !.fs = 1, !.used = 0, !.left = 0, !.net = 0, !.rc = FALSE]

(* The script ends, in any directory of its tree, within its timeout; the  *)
(* result is recorded under the session id.                                *)
RunFinish(p) ==
    /\ pc[p] = "exec" /\ job[p].kind \in {"run", "ssh", "shell"}
    /\ \E cwd \in {Root, job[p].cwd, fsys[job[p].id, job[p].fs].tree},
          elapsed \in 0..job[p].left,
          net \in job[p].net..MaxNet :
        /\ net <= job[p].net + 1
        /\ entries[job[p].id] # Absent => Current(job[p].id).runtime + elapsed <= MaxRuntime
        /\ updateLocked(job[p].id, cwd, job[p].kind = "shell" \/ Entry_(p).rc \/ job[p].rc,
                        elapsed, TRUE, net)
        /\ Goto(p, "validate", Reported(p, cwd))
    /\ UNCHANGED execMu

(* Within the limits, or the rollback snapshot cannot be restored: the     *)
(* session stays as it is.                                                 *)
RunKeep(p) ==
    /\ pc[p] = "validate"
    /\ ~OverQuota(fsys[job[p].id, Entry_(p).fs].bytes) \/ Faults
    /\ Unlock(p)
    /\ Done(p)
    /\ UNCHANGED storeVars

(* Mutant: the session is rolled back to a snapshot taken after the run.   *)
RunRollback_Late(p) ==
    /\ pc[p] = "validate"
    /\ OverQuota(fsys[job[p].id, Entry_(p).fs].bytes)
    /\ Replace(job[p].id, fsys[job[p].id, Entry_(p).fs], job[p].snapCwd)
    /\ Goto(p, "relink", [job[p] EXCEPT !.fs = nfs[job[p].id] + 1])
    /\ UNCHANGED execMu

(* Over the limit: the session is rolled back, by id.  A failed Replace is *)
(* ignored.                                                                *)
RunRollback(p) ==
    /\ pc[p] = "validate"
    /\ OverQuota(fsys[job[p].id, Entry_(p).fs].bytes)
    /\ LET id == job[p].id IN
       /\ \/ Replace(id, job[p].snap, job[p].snapCwd)
          \/ /\ id \notin Live /\ ~HasRoom /\ nfs[id] < MaxFs
             /\ nfs'  = [nfs EXCEPT ![id] = @ + 1]
             /\ fsys' = [fsys EXCEPT ![<<id, nfs[id] + 1>>] = job[p].snap]
             /\ UNCHANGED <<up, entries, heap, gen, disk>>
       /\ Goto(p, "relink", [job[p] EXCEPT !.fs = nfs[id] + 1, !.cwd = job[p].snapCwd])
    /\ UNCHANGED execMu

(* Only the HTTP handler also points the entry it holds to the restored    *)
(* filesystem.                                                             *)
RunRelink(p) ==
    /\ pc[p] = "relink"
    /\ heap' = IF job[p].kind = "run" THEN [heap EXCEPT ![Mine(p)].fs = job[p].fs] ELSE heap
    /\ Unlock(p)
    /\ Done(p)
    /\ UNCHANGED <<up, entries, gen, fsys, nfs, disk>>

-----------------------------------------------------------------------------
(* Interactive SSH shells: one lookup, then many lines.                    *)

ShellOpen(p, id) ==
    /\ "shell" \in Ops
    /\ pc[p] = "idle" /\ Spare(id, Wanted(id))
    /\ Get(id)
    /\ LET e == heap'[id, entries'[id]]
       IN Goto(p, IF e.rc THEN "prompt" ELSE "rc",
               [NoJob EXCEPT !.kind = "shell", !.id = id, !.ent = entries'[id], !.cwd = e.cwd,
                             !.fs = IF e.rc THEN 1 ELSE e.fs])
    /\ UNCHANGED execMu

(* The rc file is sourced in the session's bare filesystem, without ExecMu;*)
(* an empty tree has none.                                                 *)
ShellRcWrite(p) ==
    /\ pc[p] = "rc" /\ Bytes(p) > 0
    /\ \E b \in 0..MaxBytes :
        /\ b # Bytes(p)
        /\ fsys' = [fsys EXCEPT ![<<job[p].id, job[p].fs>>].bytes = b]
    /\ UNCHANGED <<up, entries, heap, gen, nfs, disk, serverVars>>

ShellRcDone(p) ==
    /\ pc[p] = "rc"
    /\ updateLocked(job[p].id, job[p].cwd, TRUE, 0, FALSE, 0)
    /\ Done(p)
    /\ UNCHANGED execMu

ShellExit(p) ==
    /\ pc[p] = "prompt"
    /\ Goto(p, "idle", NoJob)
    /\ UNCHANGED <<storeVars, execMu>>

-----------------------------------------------------------------------------
(* Snapshot export and tab completion read the session under its ExecMu.   *)

ReadAttach(p, id) ==
    /\ "read" \in Ops
    /\ pc[p] = "idle"
    /\ GetExisting(id)
    /\ Attached(p, "read", id, "lock")
    /\ UNCHANGED execMu

ReadLock(p) ==
    /\ pc[p] = "lock" /\ job[p].kind = "read"
    /\ Lock(p)
    /\ Goto(p, "read", [job[p] EXCEPT !.fs = Entry_(p).fs])
    /\ UNCHANGED storeVars

ReadDone(p) ==
    /\ pc[p] = "read"
    /\ Unlock(p)
    /\ Done(p)
    /\ UNCHANGED storeVars

(* Mutant: an import never waits for the session it replaces.              *)
ImportAttach_NoLock(p, id) ==
    /\ "import" \in Ops
    /\ pc[p] = "idle" /\ up /\ Spare(id, 1)
    /\ Goto(p, "swap", [NoJob EXCEPT !.kind = "import", !.id = id])
    /\ UNCHANGED <<storeVars, execMu>>

(* Snapshot import: an uploaded tree within the limits.  ExecMu is taken   *)
(* only if the session exists when the handler looks.                      *)
ImportAttach(p, id) ==
    /\ "import" \in Ops
    /\ pc[p] = "idle" /\ up /\ Spare(id, 1)
    /\ \E b \in 0..MaxBytes :
        /\ ~OverQuota(b)
        /\ \/ /\ GetExisting(id)
              /\ Goto(p, "lock", [NoJob EXCEPT !.kind = "import", !.id = id, !.snap.bytes = b,
                                               !.ent = entries[id]])
           \/ /\ id \notin Live
              /\ Goto(p, "swap", [NoJob EXCEPT !.kind = "import", !.id = id, !.snap.bytes = b])
              /\ UNCHANGED storeVars
    /\ UNCHANGED execMu

ImportLock(p) ==
    /\ pc[p] = "lock" /\ job[p].kind = "import"
    /\ Lock(p)
    /\ Goto(p, "swap", job[p])
    /\ UNCHANGED storeVars

ImportSwap(p) ==
    /\ pc[p] = "swap"
    /\ LET id == job[p].id
           c  == NewTree(id, job[p].snap.bytes)
       IN \/ \E cwd \in {Root, c.tree} : Replace(id, c, cwd)
          \/ id \notin Live /\ ~HasRoom /\ UNCHANGED storeVars
    /\ IF job[p].ent = 0 THEN UNCHANGED execMu ELSE Unlock(p)
    /\ Done(p)

-----------------------------------------------------------------------------
(* Cron: the scheduler's Snapshot hands the job the Entry's filesystem and *)
(* mutexes.  Sessions are independent, so they are snapshotted one by one. *)

CronSnap(p, id) ==
    /\ "cron" \in Ops
    /\ pc[p] = "idle" /\ up /\ id \in Live
    /\ Goto(p, "lock", [NoJob EXCEPT !.kind = "cron", !.id = id, !.ent = entries[id],
                                     !.fs = Current(id).fs])
    /\ UNCHANGED <<storeVars, execMu>>

(* Mutant: the job does not wait for the session's commands.               *)
CronLock_NoMutex(p) ==
    /\ pc[p] = "lock" /\ job[p].kind = "cron"
    /\ Goto(p, "reread", job[p])
    /\ UNCHANGED <<storeVars, execMu>>

CronLock(p) ==
    /\ pc[p] = "lock" /\ job[p].kind = "cron"
    /\ Lock(p)
    /\ Goto(p, "reread", job[p])
    /\ UNCHANGED storeVars

(* Mutants: the job works in the filesystem of the snapshot; it starts     *)
(* from a network meter at zero.                                           *)
CronReread_Stale(p) ==
    /\ pc[p] = "reread" /\ GetExisting(job[p].id)
    /\ Goto(p, "exec", [job[p] EXCEPT !.used = Counted(Bytes(p)), !.net = Current(job[p].id).net])
    /\ UNCHANGED execMu

CronReread_FreshMeter(p) ==
    /\ pc[p] = "reread" /\ GetExisting(job[p].id)
    /\ LET e == Current(job[p].id)
       IN Goto(p, "exec", [job[p] EXCEPT !.fs = e.fs, !.used = Counted(fsys[job[p].id, e.fs].bytes)])
    /\ UNCHANGED execMu

(* The entry is looked up again by id; ExecMu stays that of the snapshot.  *)
CronReread(p) ==
    /\ pc[p] = "reread" /\ up
    /\ LET id == job[p].id
           e  == Current(id)
       IN \/ /\ id \notin Live
             /\ Unlock(p) /\ Done(p)
             /\ UNCHANGED storeVars
          \/ /\ GetExisting(id)
             /\ OutOfTime(e.runtime) \/ Faults
             /\ Unlock(p) /\ Done(p)
          \/ /\ GetExisting(id)
             /\ ~OutOfTime(e.runtime)
             /\ Goto(p, "exec", [job[p] EXCEPT !.fs = e.fs, !.used = Counted(fsys[id, e.fs].bytes),
                                     !.left = EffectiveTimeout(e.runtime), !.net = e.net])
             /\ UNCHANGED execMu

CronFinish(p) ==
    /\ pc[p] = "exec" /\ job[p].kind = "cron"
    /\ \E elapsed \in 0..job[p].left, net \in job[p].net..MaxNet :
        /\ net <= job[p].net + 1
        /\ entries[job[p].id] # Absent => Current(job[p].id).runtime + elapsed <= MaxRuntime
        /\ AddUsage(job[p].id, elapsed, net)
    /\ Goto(p, "log", [job[p] EXCEPT !.left = 0, !.net = 0])
    /\ UNCHANGED execMu

(* The log entry is appended through the QuotaFs, which may refuse it.     *)
(* CronMu is that of the Entry whose ExecMu is held, hence always free.    *)
CronLog(p) ==
    /\ pc[p] = "log"
    /\ \E d \in 0..1 :
        /\ Bytes(p) + d <= MaxBytes
        /\ d > 0 => ~OverQuota(job[p].used + d) \/ Drift
        /\ fsys' = [fsys EXCEPT ![<<job[p].id, job[p].fs>>].bytes = @ + d]
    /\ Unlock(p)
    /\ Done(p)
    /\ UNCHANGED <<up, entries, heap, gen, nfs, disk>>

-----------------------------------------------------------------------------
(* The rest of the world.                                                  *)

HandleDelete(id) == /\ "delete" \in Ops
                    /\ Delete(id)
                    /\ UNCHANGED serverVars

Age == /\ "reap" \in Ops
       /\ Tick \/ reap
       /\ UNCHANGED serverVars

CrashServer == /\ "crash" \in Ops
               /\ Crash
               /\ pc' = [p \in Procs |-> "idle"]
               /\ job' = [p \in Procs |-> NoJob]
               /\ execMu' = [m \in Mutexes |-> None]

RestartServer == Restart /\ UNCHANGED serverVars

(* No request is in flight: the server waits for the next one.             *)
Quiet == /\ \A p \in Procs : pc[p] \in {"idle", "prompt"}
         /\ UNCHANGED vars

Init ==
    /\ up = TRUE
    /\ entries = [id \in Ids |-> IF id \in Preloaded THEN 1 ELSE Absent]
    /\ heap    = [k \in Ids \X Gens |-> [Blank EXCEPT !.rc = k[1] \in Preloaded /\ k[2] = 1]]
    /\ gen     = entries
    /\ fsys    = [k \in Ids \X FsIds |-> NoContent]
    /\ nfs     = entries
    /\ disk    = [id \in Ids |-> IF Persistent /\ id \in Preloaded
                                 THEN ToRecord([Blank EXCEPT !.rc = TRUE], NoContent) ELSE NoFile]
    /\ pc = [p \in Procs |-> "idle"]
    /\ job = [p \in Procs |-> NoJob]
    /\ execMu = [m \in Mutexes |-> None]

Arrive(p) == \E id \in Ids : \/ RunAttach(p, id) \/ ShellOpen(p, id) \/ ReadAttach(p, id)
                             \/ ImportAttach(p, id) \/ CronSnap(p, id)

Acquire(p) == RunLock(p) \/ ReadLock(p) \/ ImportLock(p) \/ CronLock(p)

Advance(p) == \/ RunOpen(p) \/ RunKeep(p) \/ RunRollback(p) \/ RunRelink(p)
              \/ ReadDone(p) \/ ImportSwap(p) \/ CronReread(p) \/ CronLog(p)

CommandEnds(p) == RunFinish(p) \/ CronFinish(p)

Next == \/ \E p \in Procs : \/ Arrive(p) \/ Acquire(p) \/ Advance(p) \/ CommandEnds(p) \/ Exec(p)
                            \/ ShellRcWrite(p) \/ ShellRcDone(p) \/ ShellExit(p)
        \/ \E id \in Ids : HandleDelete(id)
        \/ Age \/ CrashServer \/ RestartServer \/ Quiet

Spec == Init /\ [][Next]_vars

(* Handlers run on, and a goroutine waiting for a sync.Mutex that is       *)
(* released again and again gets it (starvation mode).  Nothing is assumed *)
(* of clients, timers and writes, nor of the commands themselves: some do  *)
(* not look at the context that is to stop them.                           *)
Fairness == \A p \in Procs : WF_vars(Advance(p)) /\ SF_vars(Acquire(p))

LiveSpec == Spec /\ Fairness

-----------------------------------------------------------------------------
(* Properties.                                                             *)

ServerTypeOK ==
    /\ TypeOK
    /\ pc \in [Procs -> Labels]
    /\ job \in [Procs -> Job]
    /\ execMu \in [Mutexes -> Procs \cup {None}]

Executing(p) == pc[p] \in {"exec", "log", "read", "rc"}

(* No two handlers work in one filesystem at a time, whichever mutexes they*)
(* hold: "serialises shell execution against this session FS"              *)
(* (store.go 79, the promise of Entry.ExecMu).                             *)
FsExclusive == \A p, q \in Procs :
    p # q /\ Executing(p) /\ Executing(q)
        => <<job[p].id, job[p].fs>> # <<job[q].id, job[q].fs>>

(* A command works in the filesystem its session will be seen with: what a *)
(* finished command wrote is not lost.                                     *)
RunsInSession == \A p \in Procs :
    pc[p] \in {"exec", "log"} /\ job[p].id \in Live => job[p].fs = Current(job[p].id).fs

(* Commands, shells and cron jobs of a session together never run longer   *)
(* than --session-max-runtime.                                             *)
RuntimeWithinBudget ==
    RuntimeLimit > 0 => \A id \in Live : Current(id).runtime <= RuntimeLimit

(* The usage charged to a session never shrinks while the session exists:  *)
(* no handler reports over what another one has reported meanwhile.        *)
UsageNeverShrinks == [][\A id \in Ids :
    entries[id] # Absent /\ entries'[id] = entries[id]
        => /\ Current(id)'.runtime >= Current(id).runtime
           /\ Current(id)'.net >= Current(id).net]_vars

(* When a command of a client ends, its session is within                  *)
(* --session-max-bytes, whatever the accounting of the run let pass.       *)
RunsEndWithinQuota == [][\A p \in Procs, id \in Live :
    pc[p] \in {"validate", "relink"} /\ pc'[p] \in {"idle", "prompt"} /\ job[p].id = id
        => ~OverQuota(fsys'[id, Current(id)'.fs].bytes)]_vars

(* A session's filesystem is swapped only by the holder of its ExecMu:     *)
(* "Callers replacing an existing session must hold its ExecMu so the swap *)
(* cannot race a running command" (store.go 207).                          *)
SwapHoldsExecMu == [][\A id \in Ids :
    entries[id] # Absent /\ entries'[id] = entries[id] /\ Current(id)'.fs # Current(id).fs
        => \E p \in Procs : pc'[p] # pc[p] /\ execMu[id, entries[id]] = p]_vars

(* A session that appears does so in the step of a client's handler.       *)
ClientsCreate == \A id \in Ids :
    up /\ entries[id] = Absent /\ entries'[id] # Absent
        => \E p \in Procs : pc'[p] # pc[p] /\ (pc[p] = "idle" \/ job[p].kind = "import")

(* "Destroy a session" (README.md 458): what was deleted comes back only   *)
(* when a client asks for it, not because a command of it ended.           *)
OnlyClientsCreate == [][ClientsCreate]_vars

(* Whoever waits for a session's ExecMu gets it and finishes as long as the*)
(* commands of that same session end; one that never comes back holds up   *)
(* its own session and no other.                                           *)
CommandsEnd(id) == \A p \in Procs : []<>~(pc[p] = "exec" /\ job[p].id = id)
RequestsFinish == \A p \in Procs, id \in Ids :
    CommandsEnd(id) => (pc[p] = "lock" /\ job[p].id = id ~> pc[p] \in {"idle", "prompt"})
=============================================================================
