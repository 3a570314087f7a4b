---------------------------- MODULE SessionStore ----------------------------
(***************************************************************************)
(* internal/session/store.go and persistence.go: the in-memory session     *)
(* store, its reaper, the files it writes for --session-store and what a   *)
(* restart reads back.                                                     *)
(*                                                                         *)
(* Every exported operation of Store runs under st.mu, so each is one      *)
(* step.  Entries are heap objects: callers keep *Entry pointers after the *)
(* map has forgotten them, so an entry is named by its session id and the  *)
(* incarnation it is of that session, and heap keeps old incarnations.     *)
(* Filesystems are heap objects too (Entry.Fs is a pointer which Replace   *)
(* swaps); of a filesystem only its identity as a directory tree and the   *)
(* bytes it holds are kept.  Times are ages: the ticks since Entry.LastUse,*)
(* which nothing distinguishes past TTL + 1.                               *)
(***************************************************************************)
EXTENDS Naturals, FiniteSets

CONSTANTS
    Ids,            \* session ids
    MaxEntries,     \* Store.maxEntries; 0 means unlimited
    TTL,            \* Store.ttl, in ticks
    Persistent,     \* TRUE when persistDir is set
    Faults,         \* TRUE when snapshots and session files may fail to be made or read back
    MaxBytes,       \* bound: bytes a filesystem holds in the model
    MaxRuntime,     \* bound: runtime ever charged to a session
    MaxNet,         \* bound: network usage ever recorded
    MaxGen,         \* bound: incarnations of a session id between restarts
    MaxFs,          \* bound: filesystems made for a session id between restarts
    NoFile          \* no session file

ASSUME StoreAssumption ==
    /\ IsFiniteSet(Ids)
    /\ {MaxEntries, TTL, MaxBytes, MaxRuntime, MaxNet} \subseteq Nat
    /\ {MaxGen, MaxFs} \subseteq Nat \ {0}
    /\ {Persistent, Faults} \subseteq BOOLEAN

VARIABLES
    up,             \* the server process is running
    entries,        \* Store.entries: the current incarnation, or Absent
    heap,           \* the Entry objects
    gen,            \* incarnations allocated so far
    fsys,           \* the filesystem objects
    nfs,            \* filesystems allocated so far
    disk            \* the session files in persistDir

storeVars == <<up, entries, heap, gen, fsys, nfs, disk>>

-----------------------------------------------------------------------------
Absent    == 0
Gens      == 1..MaxGen
FsIds     == 1..MaxFs
Root      == 0              \* cwd "/", a directory of every tree
Elsewhere == MaxFs + 1      \* a cwd of some tree that is gone

Lesser(a, b) == IF a < b THEN a ELSE b
Ages         == 0..(TTL + 1)
Cwds         == 0..(MaxFs + 1)
Content      == [tree : FsIds, bytes : 0..MaxBytes]

(* session.Entry.  cwd is Root, or the tree the directory was entered in or*)
(* came with; whether it still exists there is up to the session's user.   *)
Entry == [fs : FsIds, cwd : Cwds, age : Ages, rc : BOOLEAN, runtime : Nat, net : Nat]

Blank == [fs |-> 1, cwd |-> Root, age |-> 0, rc |-> FALSE, runtime |-> 0, net |-> 0]

NoContent == [tree |-> 1, bytes |-> 0]

(* persistedSession, with the snapshot's tree and bytes inlined.           *)
Record == [tree : FsIds, bytes : 0..MaxBytes, cwd : Cwds, age : Ages, rc : BOOLEAN,
           runtime : Nat, net : Nat]

ASSUME NoFileAssumption == NoFile \notin Record \cup [runtime : Nat, net : Nat]

Live        == {id \in Ids : entries[id] # Absent}
Current(id) == heap[id, entries[id]]

(* Mutant: the cap is compared after the insertion.                        *)
HasRoom_OffByOne == MaxEntries > 0 => Cardinality(Live) <= MaxEntries
HasRoom     == MaxEntries > 0 => Cardinality(Live) < MaxEntries
Files       == {id \in Ids : disk[id] # NoFile}

-----------------------------------------------------------------------------
(* Disk.  Failures are logged and otherwise ignored.                       *)

ToRecord(e, c) == [tree |-> c.tree, bytes |-> c.bytes, cwd |-> e.cwd, age |-> e.age,
                   rc |-> e.rc, runtime |-> e.runtime, net |-> e.net]

(* A temporary file is written and renamed: a crash leaves the old file or *)
(* the new one.                                                            *)
writePersistedSession(id, r) == disk' = [disk EXCEPT ![id] = r]

persistLocked(id, e, c) ==
    \/ /\ Persistent
       /\ writePersistedSession(id, ToRecord(e, c))
    \/ /\ ~Persistent \/ Faults
       /\ UNCHANGED disk

deletePersisted(gone) ==
    \E failed \in SUBSET gone :
        /\ failed # {} => Faults
        /\ disk' = [id \in Ids |-> IF id \in gone \ failed THEN NoFile ELSE disk[id]]

-----------------------------------------------------------------------------
(* Operations.  Each is the whole critical section of the Go method.       *)

Put(id, e) == /\ heap' = [heap EXCEPT ![<<id, entries[id]>>] = e]
              /\ UNCHANGED <<up, entries, gen>>

(* A new Entry with a new filesystem of content c enters the map.          *)
Insert(id, c, cwd) ==
    LET e == [Blank EXCEPT !.fs = nfs[id] + 1, !.cwd = cwd]
    IN /\ HasRoom
       /\ gen[id] < MaxGen /\ nfs[id] < MaxFs
       /\ gen'     = [gen EXCEPT ![id] = @ + 1]
       /\ entries' = [entries EXCEPT ![id] = gen[id] + 1]
       /\ heap'    = [heap EXCEPT ![<<id, gen[id] + 1>>] = e]
       /\ nfs'     = [nfs EXCEPT ![id] = @ + 1]
       /\ fsys'    = [fsys EXCEPT ![<<id, nfs[id] + 1>>] = c]
       /\ persistLocked(id, e, c)
       /\ UNCHANGED up

NewTree(id, bytes) == [tree |-> nfs[id] + 1, bytes |-> bytes]

GetExisting(id) ==
    /\ up /\ id \in Live
    /\ Put(id, [Current(id) EXCEPT !.age = 0])
    /\ UNCHANGED <<fsys, nfs, disk>>

Create(id) ==
    /\ up /\ id \notin Live
    /\ Insert(id, NewTree(id, 0), Root)

Get(id) == GetExisting(id) \/ Create(id)

(* Mutant: the update of a session that is gone brings it back.            *)
updateLocked_Upserts(id, cwd, rcLoaded, delta, setNetwork, net) ==
    IF id \in Live THEN GetExisting(id) ELSE Create(id)

updateLocked(id, cwd, rcLoaded, delta, setNetwork, net) ==
    /\ up
    /\ IF id \in Live
       THEN LET e == [Current(id) EXCEPT !.cwd = cwd, !.runtime = @ + delta, !.rc = @ \/ rcLoaded,
                                         !.net = IF setNetwork THEN net ELSE @, !.age = 0]
            IN Put(id, e) /\ persistLocked(id, e, fsys[id, e.fs])
       ELSE UNCHANGED <<up, entries, heap, gen, disk>>
    /\ UNCHANGED <<fsys, nfs>>

(* Mutant: what cron jobs used is charged in memory only.                  *)
AddUsage_Unsaved(id, delta, net) ==
    /\ up
    /\ IF id \in Live THEN Put(id, [Current(id) EXCEPT !.runtime = @ + delta, !.net = net])
                      ELSE UNCHANGED <<up, entries, heap, gen>>
    /\ UNCHANGED <<fsys, nfs, disk>>

AddUsage(id, delta, net) ==
    /\ up
    /\ IF id \in Live
       THEN LET e == [Current(id) EXCEPT !.runtime = @ + delta, !.net = net]
            IN Put(id, e) /\ persistLocked(id, e, fsys[id, e.fs])
       ELSE UNCHANGED <<up, entries, heap, gen, disk>>
    /\ UNCHANGED <<fsys, nfs>>

(* The session's filesystem becomes a new one of content c.                *)
SwapTo(id, c, e) ==
    /\ nfs[id] < MaxFs
    /\ nfs'  = [nfs EXCEPT ![id] = @ + 1]
    /\ fsys' = [fsys EXCEPT ![<<id, nfs[id] + 1>>] = c]
    /\ Put(id, [e EXCEPT !.fs = nfs[id] + 1, !.rc = FALSE, !.age = 0])
    /\ persistLocked(id, [e EXCEPT !.fs = nfs[id] + 1, !.rc = FALSE, !.age = 0], c)

(* Mutants: the session keeps its cwd; it becomes a new entry.             *)
Swap_KeepsCwd(id, c, cwd) == SwapTo(id, c, Current(id))
Swap_NewEntry(id, c, cwd) == SwapTo(id, c, [Blank EXCEPT !.cwd = cwd])

(* Budgets are cumulative and stay.                                        *)
Swap(id, c, cwd) == SwapTo(id, c, [Current(id) EXCEPT !.cwd = cwd])

Replace(id, c, cwd) ==
    /\ up
    /\ \/ id \in Live /\ Swap(id, c, cwd)
       \/ id \notin Live /\ Insert(id, c, cwd)

(* Sessions leave the map; their Entry objects live on in their holders.   *)
Drop(gone) ==
    /\ entries' = [id \in Ids |-> IF id \in gone THEN Absent ELSE entries[id]]
    /\ deletePersisted(gone)
    /\ UNCHANGED <<up, heap, gen, fsys, nfs>>

Delete(id) == up /\ Drop({id})

(* Mutant: the cutoff is compared the wrong way round.                     *)
reap_Inverted == /\ up
                 /\ Drop({id \in Live : Current(id).age <= TTL})

reap == /\ up
        /\ Drop({id \in Live : Current(id).age > TTL})

-----------------------------------------------------------------------------
(* Time, crash and restart.                                                *)

Older(r) == [r EXCEPT !.age = Lesser(@ + 1, TTL + 1)]

(* Nobody reads LastUse of an entry which the map has forgotten.           *)
Tick ==
    /\ heap' = [k \in DOMAIN heap |-> IF entries[k[1]] = k[2] THEN Older(heap[k]) ELSE heap[k]]
    /\ disk' = [id \in Ids |-> IF id \in Files THEN Older(disk[id]) ELSE NoFile]
    /\ UNCHANGED <<up, entries, gen, fsys, nfs>>

(* The process ends, orderly or not: nothing is written on the way out.    *)
Crash ==
    /\ up' = FALSE
    /\ entries' = [id \in Ids |-> Absent]
    /\ heap'    = [k \in DOMAIN heap |-> Blank]
    /\ gen'     = [id \in Ids |-> 0]
    /\ fsys'    = [k \in DOMAIN fsys |-> NoContent]
    /\ nfs'     = [id \in Ids |-> 0]
    /\ up
    /\ UNCHANGED disk

Expired(r) == TTL > 0 /\ r.age > TTL

(* A restored tree is a new one: the cwd saved with the old one is its own.*)
RestoredCwd(r) == IF r.cwd = Root THEN Root ELSE IF r.cwd = r.tree THEN 1 ELSE Elsewhere

(* Mutant: the entry is not given the filesystem that was restored for it.  *)
FromRecord_NoFs(r) == [fs |-> 0, cwd |-> RestoredCwd(r), age |-> r.age, rc |-> r.rc,
                       runtime |-> r.runtime, net |-> r.net]
FromRecord(r) == [fs |-> 1, cwd |-> RestoredCwd(r), age |-> r.age, rc |-> r.rc,
                  runtime |-> r.runtime, net |-> r.net]

(* The sessions in keep are live again, each with a restored filesystem.   *)
Reload(keep, purged) ==
    /\ entries' = [id \in Ids |-> IF id \in keep THEN 1 ELSE Absent]
    /\ gen'     = entries'
    /\ nfs'     = entries'
    /\ heap'    = [k \in DOMAIN heap |->
                      IF k[1] \in keep /\ k[2] = 1 THEN FromRecord(disk[k[1]]) ELSE Blank]
    /\ fsys'    = [k \in DOMAIN fsys |->
                      IF k[1] \in keep /\ k[2] = 1
                      THEN [tree |-> 1, bytes |-> disk[k[1]].bytes] ELSE NoContent]
    /\ disk'    = [id \in Ids |-> IF id \in purged THEN NoFile ELSE disk[id]]

(* Files are read in the order of hashed names, that is in any order;      *)
(* reading stops at the cap, before files that may have expired.           *)
WhatIsRead(bad, keep, purged) ==
    LET good == Files \ bad
        old  == {id \in good : Expired(disk[id])}
    IN /\ keep \subseteq good \ old /\ purged \subseteq old
       /\ \/ keep = good \ old /\ purged = old
             /\ (MaxEntries > 0 => Cardinality(keep) <= MaxEntries)
          \/ MaxEntries > 0 /\ Cardinality(keep) = MaxEntries

loadPersisted ==
    \E bad, keep, purged \in SUBSET Files :
        /\ bad # {} => Faults
        /\ WhatIsRead(bad, keep, purged)
        /\ Reload(keep, purged)

Restart == ~up /\ up' = TRUE /\ loadPersisted

-----------------------------------------------------------------------------
(* The store on its own: any caller, in any order.                         *)

StoreInit ==
    /\ up = TRUE
    /\ entries = [id \in Ids |-> Absent]
    /\ heap    = [k \in Ids \X Gens |-> Blank]
    /\ gen     = [id \in Ids |-> 0]
    /\ fsys    = [k \in Ids \X FsIds |-> NoContent]
    /\ nfs     = [id \in Ids |-> 0]
    /\ disk    = [id \in Ids |-> NoFile]

(* A command writes to the session's filesystem, in place and unsaved.     *)
WriteFs(id) ==
    /\ up /\ id \in Live
    /\ \E b \in 0..MaxBytes : fsys' = [fsys EXCEPT ![<<id, Current(id).fs>>].bytes = b]
    /\ UNCHANGED <<up, entries, heap, gen, nfs, disk>>

(* A command finishes: its cwd is "/" or a directory of the session's tree.*)
Update(id) ==
    \E delta \in 0..1, net \in 0..MaxNet, rcLoaded, setNetwork \in BOOLEAN :
        /\ id \in Live => Current(id).runtime + delta <= MaxRuntime
        /\ \E cwd \in {Root} \cup (IF id \in Live THEN {fsys[id, Current(id).fs].tree} ELSE {}) :
               updateLocked(id, cwd, rcLoaded, delta, setNetwork, net)

ChargeCron(id) ==
    \E delta \in 0..1, net \in 0..MaxNet :
        /\ id \in Live => Current(id).runtime + delta <= MaxRuntime
        /\ AddUsage(id, delta, net)

Import(id) ==
    /\ nfs[id] < MaxFs
    /\ \E b \in 0..MaxBytes, cwd \in {Root, nfs[id] + 1} : Replace(id, NewTree(id, b), cwd)

Use(id) == Get(id) \/ Update(id) \/ ChargeCron(id) \/ Import(id)

StoreNext ==
    \/ \E id \in Ids : Use(id) \/ WriteFs(id) \/ Delete(id)
    \/ reap \/ Tick \/ Crash \/ Restart

StoreSpec == StoreInit /\ [][StoreNext]_storeVars

(* Time passes, the reaper's ticker fires and a crashed server comes back. *)
StoreFairness == WF_storeVars(Tick) /\ WF_storeVars(reap) /\ WF_storeVars(Restart)

LiveStoreSpec == StoreSpec /\ StoreFairness

-----------------------------------------------------------------------------
(* Properties.                                                             *)

TypeOK ==
    /\ up \in BOOLEAN
    /\ entries \in [Ids -> 0..MaxGen]
    /\ heap \in [Ids \X Gens -> Entry]
    /\ gen \in [Ids -> 0..MaxGen]
    /\ fsys \in [Ids \X FsIds -> Content]
    /\ nfs \in [Ids -> 0..MaxFs]
    /\ disk \in [Ids -> Record \cup {NoFile}]

(* Get, Create, Replace and the reload after a restart never hold more     *)
(* than --max-sessions sessions between them (store.go 137, 222, 240, 426).*)
CapRespected == MaxEntries > 0 => Cardinality(Live) <= MaxEntries

(* The file of a session says what a restart may not lose of it.           *)
Saved(id) == /\ disk[id].runtime = Current(id).runtime
             /\ disk[id].net = Current(id).net
             /\ disk[id].rc = Current(id).rc
             /\ disk[id].cwd = Root <=> Current(id).cwd = Root

(* With a working disk, the files are at every moment those of the live    *)
(* sessions, and say of each what a restart may not lose: its cumulative   *)
(* budgets, its cwd and whether its rc was sourced (persistLocked on every *)
(* mutator but GetExisting).                                               *)
DurableState == ~Faults => \A id \in Ids :
    /\ up => (id \in Files <=> Persistent /\ id \in Live)
    /\ id \in Files \cap Live => Saved(id)

(* A cwd is handed out and saved with the tree it was entered in or came   *)
(* with, "/" apart: imports, rollbacks and restarts change both together.  *)
CwdFollowsTree == \A id \in Ids :
    /\ id \in Live => Current(id).cwd \in {Root, fsys[id, Current(id).fs].tree}
    /\ id \in Files => disk[id].cwd \in {Root, disk[id].tree}

(* The budgets as the clients of the store see them: in memory while the   *)
(* server runs, on disk while it does not.                                 *)
Budgets == [id \in Ids |->
    IF up
    THEN IF id \in Live THEN [runtime |-> Current(id).runtime, net |-> Current(id).net] ELSE NoFile
    ELSE IF id \in Files THEN [runtime |-> disk[id].runtime, net |-> disk[id].net] ELSE NoFile]

Promise == INSTANCE SessionMap WITH sessions <- Budgets, None <- NoFile

(* The store keeps the promise of SessionMap: a crash followed by a restart*)
(* changes no session's budgets, forgets only whole sessions, and an import*)
(* or a rollback resets none.                                              *)
StoreKeepsPromise == Promise!Spec

(* A session nobody uses any more is eventually forgotten, restarts or not *)
(* (reap).                                                                 *)
AbandonedExpire == \A id \in Ids : <>[][~Use(id)]_storeVars => <>[](id \notin Live)
=============================================================================
