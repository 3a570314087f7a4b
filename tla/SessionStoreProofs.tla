------------------------- MODULE SessionStoreProofs -------------------------
(***************************************************************************)
(* Theorems about SessionStore for all values of its constants.  The type  *)
(* invariant is inductive by itself.  The other invariants are proved      *)
(* together, as StoreInv: see the comment there.  At the end, that the     *)
(* store implements SessionMap.                                            *)
(***************************************************************************)
EXTENDS SessionStore, FiniteSetTheorems, TLAPS

-----------------------------------------------------------------------------
(* Types of what the operations are built from.                            *)

LEMMA RecordType ==
    ASSUME NEW e \in Entry, NEW c \in Content
    PROVE  ToRecord(e, c) \in Record
BY DEF Entry, Content, Record, ToRecord

LEMMA BlankType == Blank \in Entry
<1>1. 1 \in FsIds /\ 0 \in Cwds /\ 0 \in Ages
  BY StoreAssumption, SMT DEF FsIds, Cwds, Ages
<1> QED
  BY <1>1 DEF Blank, Entry, Root

LEMMA NoContentType == NoContent \in Content
BY StoreAssumption DEF NoContent, Content, FsIds

(* A live session has an entry, and that entry a filesystem.               *)
LEMMA CurrentType ==
    ASSUME TypeOK, NEW id \in Live
    PROVE  /\ entries[id] \in Gens
           /\ <<id, entries[id]>> \in Ids \X Gens
           /\ Current(id) \in Entry
           /\ fsys[id, Current(id).fs] \in Content
<1>1. id \in Ids /\ entries[id] \in Gens
  BY StoreAssumption, SMT DEF TypeOK, Live, Absent, Gens
<1>2. Current(id) \in Entry
  BY <1>1 DEF TypeOK, Current
<1>3. Current(id).fs \in FsIds
  BY <1>2 DEF Entry
<1> QED
  BY <1>1, <1>2, <1>3 DEF TypeOK

LEMMA PersistType ==
    ASSUME TypeOK, NEW id \in Ids, NEW e \in Entry, NEW c \in Content, persistLocked(id, e, c)
    PROVE  disk' \in [Ids -> Record \cup {NoFile}]
BY RecordType DEF TypeOK, persistLocked, writePersistedSession

LEMMA PutType ==
    ASSUME TypeOK, NEW id \in Live, NEW e \in Entry, Put(id, e)
    PROVE  /\ up' \in BOOLEAN
           /\ entries' \in [Ids -> 0..MaxGen]
           /\ heap' \in [Ids \X Gens -> Entry]
           /\ gen' \in [Ids -> 0..MaxGen]
<1>1. <<id, entries[id]>> \in Ids \X Gens
  BY CurrentType
<1> QED
  BY <1>1 DEF TypeOK, Put

-----------------------------------------------------------------------------
(* Types after each operation.                                             *)

LEMMA InsertType ==
    ASSUME TypeOK, NEW id \in Ids, NEW c \in Content, NEW cwd \in Cwds, Insert(id, c, cwd)
    PROVE  TypeOK'
<1> DEFINE e == [Blank EXCEPT !.fs = nfs[id] + 1, !.cwd = cwd]
<1>1. nfs[id] + 1 \in FsIds /\ gen[id] + 1 \in Gens
  BY StoreAssumption, SMT DEF TypeOK, Insert, FsIds, Gens
<1>2. e \in Entry
  BY <1>1, BlankType DEF Entry, Blank
<1>3. disk' \in [Ids -> Record \cup {NoFile}]
  BY <1>2, PersistType DEF Insert
<1>4. gen[id] + 1 \in 0..MaxGen /\ nfs[id] + 1 \in 0..MaxFs
  BY <1>1, StoreAssumption, SMT DEF FsIds, Gens
<1> QED
  BY <1>1, <1>2, <1>3, <1>4 DEF TypeOK, Insert

LEMMA SwapType ==
    ASSUME TypeOK, NEW id \in Live, NEW c \in Content, NEW cwd \in Cwds, Swap(id, c, cwd), up' = up
    PROVE  TypeOK'
<1> DEFINE e == [Current(id) EXCEPT !.cwd = cwd]
<1> DEFINE f == [e EXCEPT !.fs = nfs[id] + 1, !.rc = FALSE, !.age = 0]
<1>0. id \in Ids
  BY DEF Live
<1>1. nfs[id] + 1 \in FsIds /\ 0 \in Ages /\ nfs[id] + 1 \in 0..MaxFs
  BY <1>0, StoreAssumption, SMT DEF TypeOK, Swap, SwapTo, FsIds, Ages
<1>2. f \in Entry
  BY <1>1, CurrentType DEF Entry
<1>3. disk' \in [Ids -> Record \cup {NoFile}]
  BY <1>0, <1>2, PersistType DEF Swap, SwapTo
<1>4. Put(id, f)
  BY DEF Swap, SwapTo
<1>5. nfs' \in [Ids -> 0..MaxFs] /\ fsys' \in [Ids \X FsIds -> Content]
  BY <1>0, <1>1 DEF TypeOK, Swap, SwapTo
<1> QED
  BY <1>2, <1>3, <1>4, <1>5, PutType DEF TypeOK

LEMMA ReplaceType ==
    ASSUME TypeOK, NEW id \in Ids, NEW c \in Content, NEW cwd \in Cwds, Replace(id, c, cwd)
    PROVE  TypeOK'
<1>1. CASE id \in Live /\ Swap(id, c, cwd)
  <2>1. up' = up
    BY <1>1 DEF Swap, SwapTo, Put
  <2> QED
    BY <1>1, <2>1, SwapType
<1>2. CASE id \notin Live /\ Insert(id, c, cwd)
  BY <1>2, InsertType
<1> QED
  BY <1>1, <1>2 DEF Replace

LEMMA GetExistingType ==
    ASSUME TypeOK, NEW id \in Ids, GetExisting(id)
    PROVE  TypeOK'
<1>1. id \in Live /\ 0 \in Ages
  BY StoreAssumption, SMT DEF GetExisting, Ages
<1>2. [Current(id) EXCEPT !.age = 0] \in Entry
  BY <1>1, CurrentType DEF Entry
<1> QED
  BY <1>1, <1>2, PutType DEF GetExisting, TypeOK

LEMMA NewTreeType ==
    ASSUME TypeOK, NEW id \in Ids, nfs[id] < MaxFs, NEW b \in 0..MaxBytes
    PROVE  NewTree(id, b) \in Content /\ nfs[id] + 1 \in Cwds
<1>1. nfs[id] + 1 \in FsIds /\ nfs[id] + 1 \in Cwds
  BY StoreAssumption, SMT DEF TypeOK, FsIds, Cwds
<1> QED
  BY <1>1 DEF NewTree, Content

LEMMA CreateType ==
    ASSUME TypeOK, NEW id \in Ids, Create(id)
    PROVE  TypeOK'
<1>1. 0 \in 0..MaxBytes /\ Root \in Cwds
  BY StoreAssumption, SMT DEF Root, Cwds
<1>2. NewTree(id, 0) \in Content
  BY <1>1, NewTreeType DEF Create, Insert
<1> QED
  BY <1>1, <1>2, InsertType DEF Create

LEMMA UpdateType ==
    ASSUME TypeOK, NEW id \in Ids, NEW cwd \in Cwds, NEW rcLoaded \in BOOLEAN, NEW delta \in Nat,
           NEW setNetwork \in BOOLEAN, NEW net \in Nat,
           updateLocked(id, cwd, rcLoaded, delta, setNetwork, net)
    PROVE  TypeOK'
<1>1. CASE id \in Live
  <2> DEFINE e == [Current(id) EXCEPT !.cwd = cwd, !.runtime = @ + delta, !.rc = @ \/ rcLoaded,
                                      !.net = IF setNetwork THEN net ELSE @, !.age = 0]
  <2>0. Current(id) \in Entry /\ fsys[id, Current(id).fs] \in Content
    BY <1>1, CurrentType
  <2>1. 0 \in Ages /\ Current(id).runtime + delta \in Nat
    <3>1. 0 \in Ages
      BY StoreAssumption, SMT DEF Ages
    <3>2. Current(id).runtime \in Nat
      BY <2>0 DEF Entry
    <3> QED
      BY <3>1, <3>2, SMT
  <2>2. (Current(id).rc \/ rcLoaded) \in BOOLEAN
    OBVIOUS
  <2>3. e \in Entry
    BY <1>1, <2>1, <2>2, CurrentType DEF Entry
  <2>4. disk' \in [Ids -> Record \cup {NoFile}]
    <3>1. e.fs = Current(id).fs
      BY <2>0 DEF Entry
    <3>2. persistLocked(id, e, fsys[id, e.fs])
      BY <1>1 DEF updateLocked
    <3> QED
      BY <2>0, <2>3, <3>1, <3>2, PersistType
  <2>5. Put(id, e)
    BY <1>1 DEF updateLocked
  <2> QED
    BY <1>1, <2>3, <2>4, <2>5, PutType DEF updateLocked, TypeOK
<1>2. CASE id \notin Live
  BY <1>2 DEF updateLocked, TypeOK
<1> QED
  BY <1>1, <1>2

LEMMA AddUsageType ==
    ASSUME TypeOK, NEW id \in Ids, NEW delta \in Nat, NEW net \in Nat, AddUsage(id, delta, net)
    PROVE  TypeOK'
<1>1. CASE id \in Live
  <2> DEFINE e == [Current(id) EXCEPT !.runtime = @ + delta, !.net = net]
  <2>0. Current(id) \in Entry /\ fsys[id, Current(id).fs] \in Content
    BY <1>1, CurrentType
  <2>1. Current(id).runtime + delta \in Nat
    <3>1. Current(id).runtime \in Nat
      BY <2>0 DEF Entry
    <3> QED
      BY <3>1, SMT
  <2>2. e \in Entry
    BY <2>0, <2>1 DEF Entry
  <2>3. disk' \in [Ids -> Record \cup {NoFile}]
    <3>1. e.fs = Current(id).fs
      BY <2>0 DEF Entry
    <3>2. persistLocked(id, e, fsys[id, e.fs])
      BY <1>1 DEF AddUsage
    <3> QED
      BY <2>0, <2>2, <3>1, <3>2, PersistType
  <2>4. Put(id, e)
    BY <1>1 DEF AddUsage
  <2> QED
    BY <1>1, <2>2, <2>3, <2>4, PutType DEF AddUsage, TypeOK
<1>2. CASE id \notin Live
  BY <1>2 DEF AddUsage, TypeOK
<1> QED
  BY <1>1, <1>2

LEMMA DropType ==
    ASSUME TypeOK, NEW gone \in SUBSET Ids, Drop(gone)
    PROVE  TypeOK'
<1>1. entries' \in [Ids -> 0..MaxGen]
  BY StoreAssumption DEF TypeOK, Drop, Absent
<1>2. disk' \in [Ids -> Record \cup {NoFile}]
  BY DEF TypeOK, Drop, deletePersisted
<1> QED
  BY <1>1, <1>2 DEF TypeOK, Drop

LEMMA TickType ==
    ASSUME TypeOK, Tick
    PROVE  TypeOK'
<1>1. \A a \in Ages : Lesser(a + 1, TTL + 1) \in Ages
  BY StoreAssumption, SMT DEF Ages, Lesser
<1>2. \A e \in Entry : Older(e) \in Entry
  BY <1>1 DEF Entry, Older
<1>3. \A r \in Record : Older(r) \in Record
  BY <1>1 DEF Record, Older
<1>4. heap' \in [Ids \X Gens -> Entry]
  BY <1>2 DEF TypeOK, Tick
<1>5. disk' \in [Ids -> Record \cup {NoFile}]
  BY <1>3 DEF TypeOK, Tick, Files
<1> QED
  BY <1>4, <1>5 DEF TypeOK, Tick

LEMMA RestartType ==
    ASSUME TypeOK, Restart
    PROVE  TypeOK'
<1>1. PICK keep \in SUBSET Files, purged \in SUBSET Files : Reload(keep, purged)
  BY DEF Restart, loadPersisted
<1>3. \A id \in Files : disk[id] \in Record
  BY DEF TypeOK, Files
<1>4. 1 \in FsIds /\ Root \in Cwds /\ 1 \in Cwds /\ Elsewhere \in Cwds
  BY StoreAssumption, SMT DEF FsIds, Cwds, Root, Elsewhere
<1>5. \A r \in Record : FromRecord(r) \in Entry
  BY <1>4 DEF Record, Entry, FromRecord, RestoredCwd
<1>6. \A r \in Record : [tree |-> 1, bytes |-> r.bytes] \in Content
  BY <1>4 DEF Record, Content
<1>7. heap' \in [Ids \X Gens -> Entry]
  BY <1>1, <1>3, <1>5, BlankType DEF TypeOK, Reload
<1>8. fsys' \in [Ids \X FsIds -> Content]
  BY <1>1, <1>3, <1>6, NoContentType DEF TypeOK, Reload
<1>9. {0, 1} \subseteq 0..MaxGen /\ {0, 1} \subseteq 0..MaxFs
  BY StoreAssumption, SMT
<1>10. /\ entries' \in [Ids -> 0..MaxGen]
       /\ gen' \in [Ids -> 0..MaxGen]
       /\ nfs' \in [Ids -> 0..MaxFs]
       /\ disk' \in [Ids -> Record \cup {NoFile}]
  BY <1>1, <1>9 DEF TypeOK, Absent, Reload
<1> QED
  BY <1>7, <1>8, <1>10 DEF TypeOK, Restart

LEMMA CrashType ==
    ASSUME TypeOK, Crash
    PROVE  TypeOK'
<1>1. 0 \in 0..MaxGen /\ 0 \in 0..MaxFs
  BY StoreAssumption, SMT
<1> QED
  BY <1>1, BlankType, NoContentType DEF TypeOK, Crash, Absent

-----------------------------------------------------------------------------
(* The type invariant.                                                     *)

LEMMA InitType == StoreInit => TypeOK
<1>1. 0 \in 0..MaxGen /\ 0 \in 0..MaxFs
  BY StoreAssumption, SMT
<1> QED
  BY <1>1, BlankType, NoContentType DEF StoreInit, TypeOK, Absent

LEMMA UseType ==
    ASSUME TypeOK, NEW id \in Ids, Use(id)
    PROVE  TypeOK'
<1>1. CASE Get(id)
  BY <1>1, GetExistingType, CreateType DEF Get
<1>2. CASE Update(id)
  <2>1. Root \in Cwds
    BY StoreAssumption, SMT DEF Root, Cwds
  <2>2. id \in Live => fsys[id, Current(id).fs].tree \in Cwds
    <3>1. FsIds \subseteq Cwds
      BY StoreAssumption, SMT DEF FsIds, Cwds
    <3> QED
      BY <3>1, CurrentType DEF Content
  <2>3. 0..1 \subseteq Nat /\ 0..MaxNet \subseteq Nat
    BY StoreAssumption, SMT
  <2> QED
    BY <1>2, <2>1, <2>2, <2>3, UpdateType DEF Update
<1>3. CASE ChargeCron(id)
  <2>1. 0..1 \subseteq Nat /\ 0..MaxNet \subseteq Nat
    BY StoreAssumption, SMT
  <2> QED
    BY <1>3, <2>1, AddUsageType DEF ChargeCron
<1>4. CASE Import(id)
  <2>1. Root \in Cwds
    BY StoreAssumption, SMT DEF Root, Cwds
  <2>2. PICK b \in 0..MaxBytes, cwd \in {Root, nfs[id] + 1} : Replace(id, NewTree(id, b), cwd)
    BY <1>4 DEF Import
  <2>3. nfs[id] < MaxFs
    BY <1>4 DEF Import
  <2>4. NewTree(id, b) \in Content /\ cwd \in Cwds
    BY <2>1, <2>2, <2>3, NewTreeType
  <2> QED
    BY <2>2, <2>4, ReplaceType
<1> QED
  BY <1>1, <1>2, <1>3, <1>4 DEF Use

LEMMA WriteFsType ==
    ASSUME TypeOK, NEW id \in Ids, WriteFs(id)
    PROVE  TypeOK'
<1>1. id \in Live
  BY DEF WriteFs
<1>2. PICK b \in 0..MaxBytes : fsys' = [fsys EXCEPT ![<<id, Current(id).fs>>].bytes = b]
  BY DEF WriteFs
<1>3. <<id, Current(id).fs>> \in Ids \X FsIds
  BY <1>1, CurrentType DEF Entry
<1>4. fsys' \in [Ids \X FsIds -> Content]
  BY <1>2, <1>3 DEF TypeOK, Content
<1> QED
  BY <1>4 DEF WriteFs, TypeOK

(* The state of the store is always of its types, whatever its callers do. *)
THEOREM TypeCorrect == StoreSpec => []TypeOK
<1>1. TypeOK /\ [StoreNext]_storeVars => TypeOK'
  <2> SUFFICES ASSUME TypeOK, [StoreNext]_storeVars
               PROVE  TypeOK'
    OBVIOUS
  <2>1. CASE \E id \in Ids : Use(id) \/ WriteFs(id) \/ Delete(id)
    BY <2>1, UseType, WriteFsType, DropType DEF Delete
  <2>2. CASE reap
    <3>1. {id \in Live : Current(id).age > TTL} \in SUBSET Ids
      BY DEF Live
    <3> QED
      BY <2>2, <3>1, DropType DEF reap
  <2>3. CASE Tick
    BY <2>3, TickType
  <2>4. CASE Crash
    BY <2>4, CrashType
  <2>5. CASE Restart
    BY <2>5, RestartType
  <2>6. CASE UNCHANGED storeVars
    BY <2>6 DEF storeVars, TypeOK
  <2> QED
    BY <2>1, <2>2, <2>3, <2>4, <2>5, <2>6 DEF StoreNext
<1> QED
  BY InitType, <1>1, PTL DEF StoreSpec

-----------------------------------------------------------------------------
(* Durability and the cap.  While the server is down only the files tell   *)
(* how many sessions there are, and a reload stops at the cap: that it     *)
(* loses no file needs that there never are more files than the cap, which *)
(* neither property says.  DiskWithin is the missing part.                 *)

DiskWithin == ~Faults => /\ MaxEntries > 0 => Cardinality(Files) <= MaxEntries
                         /\ ~Persistent => Files = {}

StoreInv == TypeOK /\ CapRespected /\ DurableState /\ DiskWithin

LEMMA NoFileIsNoRecord == NoFile \notin Record
BY NoFileAssumption

(* What an operation on a live session leaves of the map and of the files. *)
LEMMA PutEffect ==
    ASSUME TypeOK, NEW id \in Live, NEW e \in Entry, Put(id, e)
    PROVE  /\ Live' = Live
           /\ Current(id)' = e
           /\ \A j \in Live \ {id} : Current(j)' = Current(j)
<1>1. Live' = Live /\ entries' = entries
  BY DEF Put, Live
<1>2. <<id, entries[id]>> \in Ids \X Gens
  BY CurrentType
<1>3. Current(id)' = e
  BY <1>1, <1>2 DEF Put, Current, TypeOK
<1>4. ASSUME NEW j \in Live \ {id}
      PROVE  Current(j)' = Current(j)
  <2>1. <<j, entries[j]>> \in Ids \X Gens /\ <<j, entries[j]>> # <<id, entries[id]>>
    BY CurrentType
  <2> QED
    BY <1>1, <1>2, <2>1 DEF Put, Current, TypeOK
<1> QED
  BY <1>1, <1>3, <1>4

LEMMA PersistEffect ==
    ASSUME TypeOK, ~Faults, NEW id \in Ids, NEW e \in Entry, NEW c \in Content,
           persistLocked(id, e, c)
    PROVE  /\ Persistent => disk'[id] = ToRecord(e, c) /\ Files' = Files \cup {id}
           /\ ~Persistent => Files' = Files
           /\ \A j \in Ids \ {id} : disk'[j] = disk[j]
<1>1. CASE Persistent
  <2>1. disk' = [disk EXCEPT ![id] = ToRecord(e, c)]
    BY <1>1 DEF persistLocked, writePersistedSession
  <2>2. ToRecord(e, c) # NoFile
    BY RecordType, NoFileIsNoRecord
  <2> QED
    BY <1>1, <2>1, <2>2 DEF TypeOK, Files
<1>2. CASE ~Persistent
  BY <1>2 DEF persistLocked, writePersistedSession, Files
<1> QED
  BY <1>1, <1>2

LEMMA InsertEffect ==
    ASSUME TypeOK, NEW id \in Ids \ Live, NEW c \in Content, NEW cwd \in Cwds, Insert(id, c, cwd)
    PROVE  /\ Live' = Live \cup {id}
           /\ Current(id)' = [Blank EXCEPT !.fs = nfs[id] + 1, !.cwd = cwd]
           /\ Current(id)' \in Entry
           /\ \A j \in Live : Current(j)' = Current(j)
<1>1. gen[id] + 1 \in Gens /\ gen[id] + 1 # Absent /\ nfs[id] + 1 \in FsIds
  BY StoreAssumption, SMT DEF TypeOK, Insert, Gens, Absent, FsIds
<1>2. entries' = [entries EXCEPT ![id] = gen[id] + 1]
  BY DEF Insert
<1>3. Live' = Live \cup {id}
  BY <1>1, <1>2 DEF TypeOK, Live
<1>4. Current(id)' = [Blank EXCEPT !.fs = nfs[id] + 1, !.cwd = cwd]
  BY <1>1, <1>2 DEF TypeOK, Insert, Current
<1>5. [Blank EXCEPT !.fs = nfs[id] + 1, !.cwd = cwd] \in Entry
  BY <1>1, BlankType DEF Entry, Blank
<1>6. ASSUME NEW j \in Live
      PROVE  Current(j)' = Current(j)
  <2>1. j # id /\ j \in Ids /\ <<j, entries[j]>> \in Ids \X Gens
    BY CurrentType DEF Live
  <2>2. entries'[j] = entries[j]
    BY <1>2, <2>1 DEF TypeOK
  <2> QED
    BY <1>1, <2>1, <2>2 DEF TypeOK, Insert, Current
<1> QED
  BY <1>3, <1>4, <1>5, <1>6

LEMMA LiveFinite == IsFiniteSet(Live) /\ IsFiniteSet(Files)
BY StoreAssumption, FS_Subset DEF Live, Files

(* Fewer sessions, fewer files: both bounds are kept.                      *)
LEMMA FewerKeepsCap ==
    ASSUME CapRespected, Live' \subseteq Live
    PROVE  CapRespected'
<1>1. IsFiniteSet(Live) /\ Live' \in SUBSET Live
  BY LiveFinite
<1>2. Cardinality(Live') <= Cardinality(Live) /\ IsFiniteSet(Live')
  BY <1>1, FS_Subset
<1>3. Cardinality(Live) \in Nat /\ Cardinality(Live') \in Nat
  BY <1>1, <1>2, FS_CardinalityType
<1> QED
  BY <1>2, <1>3, StoreAssumption, SMT DEF CapRespected

LEMMA InsertKeepsCap ==
    ASSUME HasRoom, NEW id \in Ids \ Live, Live' = Live \cup {id}
    PROVE  CapRespected'
<1>1. Cardinality(Live \cup {id}) = Cardinality(Live) + 1
  BY LiveFinite, FS_AddElement
<1>2. Cardinality(Live) \in Nat
  BY LiveFinite, FS_CardinalityType
<1> QED
  BY <1>1, <1>2, StoreAssumption, SMT DEF HasRoom, CapRespected

(* While the server runs, DiskWithin follows from the other two.           *)
LEMMA UpDiskWithin ==
    ASSUME CapRespected, DurableState, up
    PROVE  DiskWithin
<1>1. CASE Persistent /\ ~Faults
  <2>1. Files = Live
    BY <1>1 DEF DurableState, Files, Live
  <2> QED
    BY <1>1, <2>1 DEF DiskWithin, CapRespected
<1>2. CASE ~Persistent /\ ~Faults
  <2>1. Files = {}
    BY <1>2 DEF DurableState, Files
  <2>2. Cardinality({}) = 0
    BY FS_EmptySet
  <2> QED
    BY <1>2, <2>1, <2>2, StoreAssumption, SMT DEF DiskWithin
<1> QED
  BY <1>1, <1>2 DEF DiskWithin

-----------------------------------------------------------------------------
(* The operations preserve the invariant.                                  *)

LEMMA SaveKeeps ==
    ASSUME StoreInv, up, NEW id \in Live, NEW e \in Entry, NEW c \in Content,
           Put(id, e), persistLocked(id, e, c)
    PROVE  CapRespected' /\ DurableState' /\ DiskWithin'
<1>0. TypeOK /\ id \in Ids /\ up'
  BY DEF StoreInv, Live, Put
<1>1. /\ Live' = Live
      /\ Current(id)' = e
      /\ \A j \in Live \ {id} : Current(j)' = Current(j)
  BY <1>0, PutEffect
<1>2. CapRespected'
  BY <1>1, FewerKeepsCap DEF StoreInv
<1>3. ASSUME ~Faults
      PROVE  DurableState'
  <2>1. /\ Persistent => disk'[id] = ToRecord(e, c) /\ Files' = Files \cup {id}
        /\ ~Persistent => Files' = Files
        /\ \A j \in Ids \ {id} : disk'[j] = disk[j]
    BY <1>0, <1>3, PersistEffect
  <2>2. Persistent => Saved(id)'
    BY <1>1, <2>1 DEF Saved, ToRecord
  <2>3. \A j \in (Files \cap Live) \ {id} : Saved(j)'
    BY <1>1, <1>3, <2>1 DEF Saved, StoreInv, DurableState, Files
  <2>4. \A j \in Ids : j \in Files <=> Persistent /\ j \in Live
    BY <1>3 DEF StoreInv, DurableState
  <2> QED
    BY <1>0, <1>1, <1>3, <2>1, <2>2, <2>3, <2>4 DEF DurableState
<1>4. DurableState'
  BY <1>3 DEF DurableState
<1> QED
  BY <1>0, <1>2, <1>4, UpDiskWithin, PTL

LEMMA InsertKeeps ==
    ASSUME StoreInv, up, NEW id \in Ids \ Live, NEW c \in Content, NEW cwd \in Cwds,
           Insert(id, c, cwd)
    PROVE  CapRespected' /\ DurableState' /\ DiskWithin'
<1> DEFINE e == [Blank EXCEPT !.fs = nfs[id] + 1, !.cwd = cwd]
<1>0. TypeOK /\ up' /\ HasRoom
  BY DEF StoreInv, Insert
<1>1. /\ Live' = Live \cup {id}
      /\ Current(id)' = e
      /\ Current(id)' \in Entry
      /\ \A j \in Live : Current(j)' = Current(j)
  BY <1>0, InsertEffect
<1>2. CapRespected'
  BY <1>0, <1>1, InsertKeepsCap
<1>3. ASSUME ~Faults
      PROVE  DurableState'
  <2>0. e \in Entry /\ persistLocked(id, e, c)
    BY <1>1 DEF Insert
  <2>1. /\ Persistent => disk'[id] = ToRecord(e, c) /\ Files' = Files \cup {id}
        /\ ~Persistent => Files' = Files
        /\ \A j \in Ids \ {id} : disk'[j] = disk[j]
    BY <1>0, <1>3, <2>0, PersistEffect
  <2>2. Persistent => Saved(id)'
    BY <1>1, <2>1 DEF Saved, ToRecord
  <2>3. \A j \in (Files \cap Live) \ {id} : Saved(j)'
    BY <1>1, <1>3, <2>1 DEF Saved, StoreInv, DurableState, Files
  <2>4. \A j \in Ids : j \in Files <=> Persistent /\ j \in Live
    BY <1>3 DEF StoreInv, DurableState
  <2> QED
    BY <1>0, <1>1, <1>3, <2>1, <2>2, <2>3, <2>4 DEF DurableState
<1>4. DurableState'
  BY <1>3 DEF DurableState
<1> QED
  BY <1>0, <1>2, <1>4, UpDiskWithin, PTL

(* A lookup changes nothing that is saved.                                 *)
LEMMA GetExistingKeeps ==
    ASSUME StoreInv, NEW id \in Ids, GetExisting(id)
    PROVE  CapRespected' /\ DurableState' /\ DiskWithin'
<1> DEFINE e == [Current(id) EXCEPT !.age = 0]
<1>0. TypeOK /\ id \in Live /\ up' /\ up
  BY DEF StoreInv, GetExisting, Put
<1>1. 0 \in Ages /\ Current(id) \in Entry
  <2>1. 0 \in Ages
    BY StoreAssumption, SMT DEF Ages
  <2> QED
    BY <1>0, <2>1, CurrentType
<1>2. /\ e \in Entry
      /\ e.runtime = Current(id).runtime /\ e.net = Current(id).net
      /\ e.rc = Current(id).rc /\ e.cwd = Current(id).cwd
  BY <1>1 DEF Entry
<1>3. /\ Live' = Live
      /\ Current(id)' = e
      /\ \A j \in Live \ {id} : Current(j)' = Current(j)
  BY <1>0, <1>2, PutEffect DEF GetExisting
<1>4. disk' = disk /\ Files' = Files
  BY DEF GetExisting, Files
<1>5. CapRespected'
  BY <1>3, FewerKeepsCap DEF StoreInv
<1>6. ASSUME ~Faults, NEW j \in Files \cap Live
      PROVE  Saved(j)'
  <2>1. Saved(j)
    BY <1>6 DEF StoreInv, DurableState, Live
  <2> QED
    BY <1>2, <1>3, <1>4, <2>1 DEF Saved
<1>7. DurableState'
  BY <1>0, <1>3, <1>4, <1>6 DEF StoreInv, DurableState
<1> QED
  BY <1>0, <1>5, <1>7, UpDiskWithin, PTL

(* Sessions and their files go together.                                   *)
LEMMA DropKeeps ==
    ASSUME StoreInv, up, NEW gone \in SUBSET Ids, Drop(gone)
    PROVE  CapRespected' /\ DurableState' /\ DiskWithin'
<1>1. Live' = Live \ gone /\ up'
  BY DEF Drop, Live, Absent
<1>2. CapRespected'
  BY <1>1, FewerKeepsCap DEF StoreInv
<1>3. \A j \in Live' : Current(j)' = Current(j)
  BY <1>1 DEF Drop, Current, Live
<1>4. ASSUME ~Faults
      PROVE  DurableState'
  <2>1. disk' = [id \in Ids |-> IF id \in gone THEN NoFile ELSE disk[id]]
    BY <1>4 DEF Drop, deletePersisted
  <2>2. Files' = Files \ gone
    BY <2>1 DEF Files
  <2>3. \A j \in Files' \cap Live' : Saved(j)'
    BY <1>1, <1>3, <1>4, <2>1, <2>2 DEF StoreInv, DurableState, Saved, Files
  <2> QED
    BY <1>1, <1>4, <2>2, <2>3 DEF StoreInv, DurableState
<1>5. DurableState'
  BY <1>4 DEF DurableState
<1> QED
  BY <1>1, <1>2, <1>5, UpDiskWithin, PTL

LEMMA TickKeeps ==
    ASSUME StoreInv, Tick
    PROVE  CapRespected' /\ DurableState' /\ DiskWithin'
<1>0. TypeOK
  BY DEF StoreInv
<1>1. Live' = Live /\ up' = up
  BY DEF Tick, Live
<1>2. \A r \in Record : Older(r) \in Record /\ Older(r) # NoFile
  <2>1. \A a \in Ages : Lesser(a + 1, TTL + 1) \in Ages
    BY StoreAssumption, SMT DEF Ages, Lesser
  <2>2. \A r \in Record : Older(r) \in Record
    BY <2>1 DEF Record, Older
  <2> QED
    BY <2>2, NoFileIsNoRecord
<1>3. Files' = Files
  BY <1>0, <1>2 DEF Tick, Files, TypeOK
<1>4. ASSUME NEW j \in Live
      PROVE  Current(j)' = Older(Current(j)) /\ Current(j) \in Entry
  <2>1. <<j, entries[j]>> \in Ids \X Gens /\ Current(j) \in Entry
    BY <1>0, CurrentType
  <2>2. entries[<<j, entries[j]>>[1]] = <<j, entries[j]>>[2]
    OBVIOUS
  <2> QED
    BY <1>0, <2>1, <2>2 DEF Tick, Current, TypeOK
<1>5. ASSUME NEW j \in Live \cap Files, Saved(j)
      PROVE  Saved(j)'
  <2>1. disk'[j] = Older(disk[j]) /\ disk[j] \in Record
    BY <1>0 DEF Tick, Files, TypeOK
  <2>2. /\ disk'[j].runtime = disk[j].runtime /\ disk'[j].net = disk[j].net
        /\ disk'[j].rc = disk[j].rc /\ disk'[j].cwd = disk[j].cwd
    BY <2>1 DEF Older, Record
  <2>3. /\ Current(j)'.runtime = Current(j).runtime /\ Current(j)'.net = Current(j).net
        /\ Current(j)'.rc = Current(j).rc /\ Current(j)'.cwd = Current(j).cwd
    BY <1>4 DEF Older, Entry
  <2> QED
    BY <1>5, <2>2, <2>3 DEF Saved
<1>6. CapRespected'
  BY <1>1, FewerKeepsCap DEF StoreInv
<1>7. DurableState'
  BY <1>1, <1>3, <1>5 DEF StoreInv, DurableState
<1>8. DiskWithin'
  BY <1>3 DEF StoreInv, DiskWithin
<1> QED
  BY <1>6, <1>7, <1>8

LEMMA CrashKeeps ==
    ASSUME StoreInv, Crash
    PROVE  CapRespected' /\ DurableState' /\ DiskWithin'
<1>1. Live' = {} /\ ~up' /\ Files' = Files
  BY DEF Crash, Live, Files
<1>2. CapRespected'
  BY <1>1, FewerKeepsCap DEF StoreInv
<1>3. DiskWithin'
  BY <1>1, UpDiskWithin DEF StoreInv, Crash, DiskWithin
<1> QED
  BY <1>1, <1>2, <1>3 DEF DurableState

(* A reload that stops at the cap has read every file.                     *)
LEMMA ReloadReadsAll ==
    ASSUME DiskWithin, ~Faults, NEW keep \in SUBSET Files, NEW purged \in SUBSET Files,
           WhatIsRead({}, keep, purged)
    PROVE  keep = Files \ purged
<1> DEFINE old == {id \in Files : Expired(disk[id])}
<1>1. keep \subseteq Files \ old /\ purged \subseteq old
  BY DEF WhatIsRead
<1>2. CASE keep = Files \ old /\ purged = old
  BY <1>2
<1>3. CASE MaxEntries > 0 /\ Cardinality(keep) = MaxEntries
  <2>1. /\ IsFiniteSet(keep)
        /\ Cardinality(keep) <= Cardinality(Files)
        /\ Cardinality(Files) = Cardinality(keep) => Files = keep
    BY LiveFinite, FS_Subset
  <2>2. Cardinality(Files) <= MaxEntries
    BY <1>3 DEF DiskWithin
  <2>3. Cardinality(Files) \in Nat /\ Cardinality(keep) \in Nat
    BY <2>1, LiveFinite, FS_CardinalityType
  <2>4. Cardinality(Files) = Cardinality(keep)
    BY <1>3, <2>1, <2>2, <2>3, StoreAssumption, SMT
  <2> QED
    BY <1>1, <2>1, <2>4
<1> QED
  BY <1>2, <1>3 DEF WhatIsRead

LEMMA RestartKeeps ==
    ASSUME StoreInv, Restart
    PROVE  CapRespected' /\ DurableState' /\ DiskWithin'
<1>0. TypeOK /\ DiskWithin /\ up'
  BY DEF StoreInv, Restart
<1>1. PICK bad \in SUBSET Files, keep \in SUBSET Files, purged \in SUBSET Files :
          /\ bad # {} => Faults
          /\ WhatIsRead(bad, keep, purged)
          /\ Reload(keep, purged)
  BY DEF Restart, loadPersisted
<1>2. Live' = keep
  BY <1>1 DEF Reload, Live, Files, Absent
<1>3. CapRespected'
  BY <1>1, <1>2, StoreAssumption, SMT DEF CapRespected, WhatIsRead
<1>4. ASSUME ~Faults
      PROVE  DurableState'
  <2>1. keep = Files \ purged
    BY <1>0, <1>1, <1>4, ReloadReadsAll
  <2>2. Files' = Files \ purged
    BY <1>1 DEF Reload, Files
  <2>3. ~Persistent => Files = {}
    BY <1>0, <1>4 DEF DiskWithin
  <2>4. ASSUME NEW j \in keep
        PROVE  Saved(j)'
    <3>1. j \in Ids /\ j \in Files /\ disk[j] \in Record
      BY <1>0 DEF Files, TypeOK
    <3>2. <<j, 1>> \in Ids \X Gens
      BY <3>1, StoreAssumption, SMT DEF Gens
    <3>3. entries'[j] = 1
      BY <1>1, <3>1 DEF Reload
    <3>4. Current(j)' = FromRecord(disk[j])
      BY <1>0, <1>1, <3>2, <3>3 DEF Reload, Current, TypeOK
    <3>5. disk'[j] = disk[j]
      BY <1>1, <2>1, <3>1 DEF Reload
    <3>6. FromRecord(disk[j]).cwd = Root <=> disk[j].cwd = Root
      BY StoreAssumption, SMT DEF FromRecord, RestoredCwd, Root, Elsewhere
    <3> QED
      BY <3>4, <3>5, <3>6 DEF Saved, FromRecord
  <2> QED
    BY <1>0, <1>2, <1>4, <2>1, <2>2, <2>3, <2>4 DEF DurableState
<1>5. DurableState'
  BY <1>4 DEF DurableState
<1> QED
  BY <1>0, <1>3, <1>5, UpDiskWithin, PTL

(* The entries that the operations save are of their type.                 *)
LEMMA UpdateKeeps ==
    ASSUME StoreInv, NEW id \in Ids, NEW cwd \in Cwds, NEW rcLoaded \in BOOLEAN, NEW delta \in Nat,
           NEW setNetwork \in BOOLEAN, NEW net \in Nat,
           updateLocked(id, cwd, rcLoaded, delta, setNetwork, net)
    PROVE  CapRespected' /\ DurableState' /\ DiskWithin'
<1>0. TypeOK /\ up
  BY DEF StoreInv, updateLocked
<1>1. CASE id \in Live
  <2> DEFINE e == [Current(id) EXCEPT !.cwd = cwd, !.runtime = @ + delta, !.rc = @ \/ rcLoaded,
                                      !.net = IF setNetwork THEN net ELSE @, !.age = 0]
  <2>1. Current(id) \in Entry /\ fsys[id, Current(id).fs] \in Content
    BY <1>0, <1>1, CurrentType
  <2>2. 0 \in Ages
    BY StoreAssumption, SMT DEF Ages
  <2>3. Current(id).runtime + delta \in Nat
    <3>1. Current(id).runtime \in Nat
      BY <2>1 DEF Entry
    <3> QED
      BY <3>1, SMT
  <2>4. (Current(id).rc \/ rcLoaded) \in BOOLEAN
    OBVIOUS
  <2>5. e \in Entry /\ e.fs = Current(id).fs
    BY <2>1, <2>2, <2>3, <2>4 DEF Entry
  <2>6. Put(id, e) /\ persistLocked(id, e, fsys[id, e.fs])
    BY <1>1 DEF updateLocked
  <2> QED
    BY <1>0, <1>1, <2>1, <2>5, <2>6, SaveKeeps
<1>2. CASE id \notin Live
  <2>1. UNCHANGED <<up, entries, heap, disk>>
    BY <1>2 DEF updateLocked
  <2>2. Live' = Live /\ Files' = Files
    BY <2>1 DEF Live, Files
  <2>3. CapRespected' /\ DurableState'
    BY <2>1, <2>2 DEF StoreInv, CapRespected, DurableState, Saved, Current
  <2>4. DiskWithin'
    BY <2>2 DEF StoreInv, DiskWithin
  <2> QED
    BY <2>3, <2>4
<1> QED
  BY <1>1, <1>2

LEMMA AddUsageKeeps ==
    ASSUME StoreInv, NEW id \in Ids, NEW delta \in Nat, NEW net \in Nat, AddUsage(id, delta, net)
    PROVE  CapRespected' /\ DurableState' /\ DiskWithin'
<1>0. TypeOK /\ up
  BY DEF StoreInv, AddUsage
<1>1. CASE id \in Live
  <2> DEFINE e == [Current(id) EXCEPT !.runtime = @ + delta, !.net = net]
  <2>1. Current(id) \in Entry /\ fsys[id, Current(id).fs] \in Content
    BY <1>0, <1>1, CurrentType
  <2>2. Current(id).runtime + delta \in Nat
    <3>1. Current(id).runtime \in Nat
      BY <2>1 DEF Entry
    <3> QED
      BY <3>1, SMT
  <2>3. e \in Entry /\ e.fs = Current(id).fs
    BY <2>1, <2>2 DEF Entry
  <2>4. Put(id, e) /\ persistLocked(id, e, fsys[id, e.fs])
    BY <1>1 DEF AddUsage
  <2> QED
    BY <1>0, <1>1, <2>1, <2>3, <2>4, SaveKeeps
<1>2. CASE id \notin Live
  <2>1. UNCHANGED <<up, entries, heap, disk>>
    BY <1>2 DEF AddUsage
  <2>2. Live' = Live /\ Files' = Files
    BY <2>1 DEF Live, Files
  <2>3. CapRespected' /\ DurableState'
    BY <2>1, <2>2 DEF StoreInv, CapRespected, DurableState, Saved, Current
  <2>4. DiskWithin'
    BY <2>2 DEF StoreInv, DiskWithin
  <2> QED
    BY <2>3, <2>4
<1> QED
  BY <1>1, <1>2

LEMMA ReplaceKeeps ==
    ASSUME StoreInv, NEW id \in Ids, NEW c \in Content, NEW cwd \in Cwds, Replace(id, c, cwd)
    PROVE  CapRespected' /\ DurableState' /\ DiskWithin'
<1>0. TypeOK /\ up
  BY DEF StoreInv, Replace
<1>1. CASE id \in Live /\ Swap(id, c, cwd)
  <2> DEFINE e == [[Current(id) EXCEPT !.cwd = cwd] EXCEPT !.fs = nfs[id] + 1, !.rc = FALSE, !.age = 0]
  <2>1. nfs[id] + 1 \in FsIds /\ 0 \in Ages
    BY <1>0, <1>1, StoreAssumption, SMT DEF TypeOK, Swap, SwapTo, FsIds, Ages
  <2>2. Current(id) \in Entry
    BY <1>0, <1>1, CurrentType
  <2>3. e \in Entry
    BY <2>1, <2>2 DEF Entry
  <2>4. Put(id, e) /\ persistLocked(id, e, c)
    BY <1>1 DEF Swap, SwapTo
  <2> QED
    BY <1>0, <1>1, <2>3, <2>4, SaveKeeps
<1>2. CASE id \notin Live /\ Insert(id, c, cwd)
  BY <1>0, <1>2, InsertKeeps
<1> QED
  BY <1>1, <1>2 DEF Replace

LEMMA UseKeeps ==
    ASSUME StoreInv, NEW id \in Ids, Use(id)
    PROVE  CapRespected' /\ DurableState' /\ DiskWithin'
<1>0. TypeOK
  BY DEF StoreInv
<1>00. Root \in Cwds /\ FsIds \subseteq Cwds /\ 0 \in 0..MaxBytes
  BY StoreAssumption, SMT DEF Root, Cwds, FsIds
<1>000. 0..1 \subseteq Nat /\ 0..MaxNet \subseteq Nat
  BY StoreAssumption, SMT
<1>1. CASE GetExisting(id)
  BY <1>1, GetExistingKeeps
<1>2. CASE Create(id)
  <2>1. NewTree(id, 0) \in Content
    BY <1>0, <1>00, <1>2, NewTreeType DEF Create, Insert
  <2> QED
    BY <1>00, <1>2, <2>1, InsertKeeps DEF Create
<1>3. CASE Update(id)
  <2>1. id \in Live => fsys[id, Current(id).fs].tree \in Cwds
    BY <1>0, <1>00, CurrentType DEF Content
  <2> QED
    BY <1>00, <1>000, <1>3, <2>1, UpdateKeeps DEF Update
<1>4. CASE ChargeCron(id)
  BY <1>000, <1>4, AddUsageKeeps DEF ChargeCron
<1>5. CASE Import(id)
  <2>1. PICK b \in 0..MaxBytes, cwd \in {Root, nfs[id] + 1} : Replace(id, NewTree(id, b), cwd)
    BY <1>5 DEF Import
  <2>2. NewTree(id, b) \in Content /\ cwd \in Cwds
    BY <1>0, <1>00, <1>5, <2>1, NewTreeType DEF Import
  <2> QED
    BY <2>1, <2>2, ReplaceKeeps
<1> QED
  BY <1>1, <1>2, <1>3, <1>4, <1>5 DEF Use, Get

LEMMA WriteFsKeeps ==
    ASSUME StoreInv, NEW id \in Ids, WriteFs(id)
    PROVE  CapRespected' /\ DurableState' /\ DiskWithin'
<1>1. UNCHANGED <<up, entries, heap, disk>>
  BY DEF WriteFs
<1>2. Live' = Live /\ Files' = Files
  BY <1>1 DEF Live, Files
<1>3. CapRespected' /\ DurableState'
  BY <1>1, <1>2 DEF StoreInv, CapRespected, DurableState, Saved, Current
<1>4. DiskWithin'
  BY <1>2 DEF StoreInv, DiskWithin
<1> QED
  BY <1>3, <1>4

LEMMA StoreInvInit == StoreInit => StoreInv
<1> SUFFICES ASSUME StoreInit
             PROVE  StoreInv
  OBVIOUS
<1>1. TypeOK
  BY InitType
<1>2. Live = {} /\ Files = {} /\ Cardinality({}) = 0
  BY FS_EmptySet DEF StoreInit, Live, Files, Absent
<1>3. CapRespected /\ DurableState /\ DiskWithin
  BY <1>2, StoreAssumption, SMT DEF CapRespected, DurableState, DiskWithin
<1> QED
  BY <1>1, <1>3 DEF StoreInv

LEMMA StoreInvNext == StoreInv /\ TypeOK' /\ [StoreNext]_storeVars => StoreInv'
<1> SUFFICES ASSUME StoreInv, TypeOK', [StoreNext]_storeVars
             PROVE  CapRespected' /\ DurableState' /\ DiskWithin'
  BY DEF StoreInv
<1>1. ASSUME NEW id \in Ids, Use(id) \/ WriteFs(id) \/ Delete(id)
      PROVE  CapRespected' /\ DurableState' /\ DiskWithin'
  BY <1>1, UseKeeps, WriteFsKeeps, DropKeeps DEF Delete
<1>2. CASE reap
  <2>1. {id \in Live : Current(id).age > TTL} \in SUBSET Ids
    BY DEF Live
  <2> QED
    BY <1>2, <2>1, DropKeeps DEF reap
<1>3. CASE Tick
  BY <1>3, TickKeeps
<1>4. CASE Crash
  BY <1>4, CrashKeeps
<1>5. CASE Restart
  BY <1>5, RestartKeeps
<1>6. CASE UNCHANGED storeVars
  <2>1. UNCHANGED <<up, entries, heap, disk>>
    BY <1>6 DEF storeVars
  <2>2. Live' = Live /\ Files' = Files
    BY <2>1 DEF Live, Files
  <2> QED
    BY <2>1, <2>2 DEF StoreInv, CapRespected, DurableState, DiskWithin, Saved, Current
<1> QED
  BY <1>1, <1>2, <1>3, <1>4, <1>5, <1>6 DEF StoreNext

(* Types, cap, durability, and never more files than the cap allows: the   *)
(* four together are inductive for the operations of the store.            *)
THEOREM StoreInvariant == StoreSpec => []StoreInv
<1>1. StoreInv /\ TypeOK' /\ [StoreNext]_storeVars => StoreInv'
  BY StoreInvNext
<1> QED
  BY StoreInvInit, TypeCorrect, <1>1, PTL DEF StoreSpec

(* Never more than --max-sessions sessions, on any path that makes one.    *)
THEOREM CapHolds == StoreSpec => []CapRespected
<1>1. StoreInv => CapRespected
  BY DEF StoreInv
<1> QED
  BY StoreInvariant, <1>1, PTL

(* With a working disk nothing a restart may not lose is ever unsaved.     *)
THEOREM DurabilityHolds == StoreSpec => []DurableState
<1>1. StoreInv => DurableState
  BY DEF StoreInv
<1> QED
  BY StoreInvariant, <1>1, PTL

-----------------------------------------------------------------------------
(* Every entry and every file keeps a cwd together with the tree that it is*)
(* a directory of.                                                         *)

LEMMA FollowRanges ==
    /\ Root \in Cwds /\ FsIds \subseteq Cwds /\ 0 \in Ages
    /\ 0..MaxNet \subseteq Nat /\ 0..1 \subseteq Nat
    /\ \A x, y \in Nat : x + y \in Nat
BY StoreAssumption, SMT DEF Root, Cwds, FsIds, Ages

LEMMA FilesFollow ==
    ASSUME CwdFollowsTree, NEW id \in Files
    PROVE  disk[id].cwd \in {Root, disk[id].tree}
BY DEF CwdFollowsTree, Files

LEMMA SaveFollows ==
    ASSUME TypeOK, CwdFollowsTree, NEW id \in Live, NEW e \in Entry, NEW c \in Content,
           Put(id, e), disk' = disk \/ persistLocked(id, e, c),
           fsys'[id, e.fs].tree = c.tree, e.cwd \in {Root, c.tree},
           \A j \in Live \ {id} : fsys'[j, Current(j).fs] = fsys[j, Current(j).fs]
    PROVE  CwdFollowsTree'
<1>1. /\ Live' = Live /\ Current(id)' = e
      /\ \A j \in Live \ {id} : Current(j)' = Current(j)
  BY PutEffect
<1>2. id \in Ids
  BY DEF Live
<1>3. ASSUME NEW j \in Files'
      PROVE  disk'[j].cwd \in {Root, disk'[j].tree}
  <2>1. CASE disk' = disk
    BY <1>3, <2>1 DEF CwdFollowsTree, Files
  <2>2. CASE disk' = [disk EXCEPT ![id] = ToRecord(e, c)]
    <3>1. j = id => disk'[j] = ToRecord(e, c)
      BY <1>2, <2>2 DEF TypeOK
    <3>2. j # id => j \in Files /\ disk'[j] = disk[j]
      BY <1>3, <2>2 DEF TypeOK, Files
    <3>3. ToRecord(e, c).cwd = e.cwd /\ ToRecord(e, c).tree = c.tree
      BY DEF ToRecord
    <3> QED
      BY <3>1, <3>2, <3>3, FilesFollow
  <2> QED
    BY <2>1, <2>2 DEF persistLocked, writePersistedSession
<1>4. ASSUME NEW j \in Live'
      PROVE  Current(j)'.cwd \in {Root, fsys'[j, Current(j)'.fs].tree}
  <2>1. CASE j = id
    BY <1>1, <2>1
  <2>2. CASE j # id
    <3>1. j \in Live /\ j \in Ids /\ Current(j)' = Current(j)
      BY <1>1, <1>4, <2>2 DEF Live
    <3>2. fsys'[j, Current(j)'.fs] = fsys[j, Current(j).fs]
      BY <2>2, <3>1
    <3>3. Current(j).cwd \in {Root, fsys[j, Current(j).fs].tree}
      BY <3>1 DEF CwdFollowsTree
    <3> QED
      BY <3>1, <3>2, <3>3
  <2> QED
    BY <2>1, <2>2
<1> QED
  BY <1>3, <1>4 DEF CwdFollowsTree

LEMMA InsertFollows ==
    ASSUME TypeOK, CwdFollowsTree, NEW id \in Ids \ Live, NEW c \in Content, NEW cwd \in Cwds,
           Insert(id, c, cwd), cwd \in {Root, c.tree}
    PROVE  CwdFollowsTree'
<1> DEFINE e == [Blank EXCEPT !.fs = nfs[id] + 1, !.cwd = cwd]
<1>1. /\ Live' = Live \cup {id} /\ Current(id)' = e
      /\ \A j \in Live : Current(j)' = Current(j)
  BY InsertEffect
<1>2. e.cwd = cwd /\ e.fs = nfs[id] + 1
  BY DEF Blank
<1>3. nfs[id] + 1 \in FsIds
  BY StoreAssumption, SMT DEF TypeOK, Insert, FsIds
<1>4. fsys' = [fsys EXCEPT ![<<id, nfs[id] + 1>>] = c]
  BY DEF Insert
<1>5. fsys'[id, e.fs] = c /\ \A j \in Live : fsys'[j, Current(j).fs] = fsys[j, Current(j).fs]
  <2>1. <<id, e.fs>> \in Ids \X FsIds
    BY <1>2, <1>3
  <2>2. ASSUME NEW j \in Live
        PROVE  <<j, Current(j).fs>> \in Ids \X FsIds /\ <<j, Current(j).fs>> # <<id, e.fs>>
    BY CurrentType DEF Entry, Live
  <2> QED
    BY <1>2, <1>4, <2>1, <2>2 DEF TypeOK
<1>6. ASSUME NEW j \in Files'
      PROVE  disk'[j].cwd \in {Root, disk'[j].tree}
  <2>1. CASE disk' = disk
    BY <1>6, <2>1 DEF CwdFollowsTree, Files
  <2>2. CASE disk' = [disk EXCEPT ![id] = ToRecord(e, c)]
    <3>1. j = id => disk'[j] = ToRecord(e, c)
      BY <2>2 DEF TypeOK
    <3>2. j # id => j \in Files /\ disk'[j] = disk[j]
      BY <1>6, <2>2 DEF TypeOK, Files
    <3>3. ToRecord(e, c).cwd = cwd /\ ToRecord(e, c).tree = c.tree
      BY <1>2 DEF ToRecord
    <3> QED
      BY <3>1, <3>2, <3>3, FilesFollow
  <2> QED
    BY <2>1, <2>2 DEF Insert, persistLocked, writePersistedSession
<1> HIDE DEF e
<1>7. ASSUME NEW j \in Live'
      PROVE  Current(j)'.cwd \in {Root, fsys'[j, Current(j)'.fs].tree}
  <2>1. CASE j = id
    BY <1>1, <1>2, <1>5, <2>1
  <2>2. CASE j # id
    BY <1>1, <1>5, <1>7, <2>2 DEF CwdFollowsTree, Live
  <2> QED
    BY <2>1, <2>2
<1> QED
  BY <1>6, <1>7 DEF CwdFollowsTree

LEMMA UpdateFollows ==
    ASSUME TypeOK, CwdFollowsTree, NEW id \in Ids, Update(id)
    PROVE  CwdFollowsTree'
<1>1. PICK delta \in 0..1, net \in 0..MaxNet, rcLoaded \in BOOLEAN, setNetwork \in BOOLEAN,
           cwd \in {Root} \cup (IF id \in Live THEN {fsys[id, Current(id).fs].tree} ELSE {}) :
        updateLocked(id, cwd, rcLoaded, delta, setNetwork, net)
  BY DEF Update
<1>2. fsys' = fsys
  BY <1>1 DEF updateLocked
<1>3. CASE id \in Live
  <2> DEFINE e == [Current(id) EXCEPT !.cwd = cwd, !.runtime = @ + delta, !.rc = @ \/ rcLoaded,
                                      !.net = IF setNetwork THEN net ELSE @, !.age = 0]
  <2>1. Put(id, e) /\ persistLocked(id, e, fsys[id, e.fs])
    BY <1>1, <1>3 DEF updateLocked
  <2>2. Current(id) \in Entry /\ fsys[id, Current(id).fs] \in Content
    BY <1>3, CurrentType
  <2>3. cwd \in Cwds /\ 0 \in Ages /\ net \in Nat /\ delta \in Nat
    BY <1>3, <2>2, FollowRanges DEF Content
  <2>4. Current(id).runtime + delta \in Nat
    BY <2>2, <2>3, FollowRanges DEF Entry
  <2>5. e \in Entry /\ e.fs = Current(id).fs /\ e.cwd = cwd
    BY <2>2, <2>3, <2>4 DEF Entry
  <2> HIDE DEF e
  <2> QED
    BY <1>2, <1>3, <2>1, <2>2, <2>5, SaveFollows
<1>4. CASE id \notin Live
  BY <1>1, <1>2, <1>4 DEF updateLocked, CwdFollowsTree, Live, Files, Current
<1> QED
  BY <1>3, <1>4

LEMMA ChargeFollows ==
    ASSUME TypeOK, CwdFollowsTree, NEW id \in Ids, NEW delta \in Nat, NEW net \in Nat,
           AddUsage(id, delta, net)
    PROVE  CwdFollowsTree'
<1>2. fsys' = fsys
  BY DEF AddUsage
<1>3. CASE id \in Live
  <2> DEFINE e == [Current(id) EXCEPT !.runtime = @ + delta, !.net = net]
  <2>1. Put(id, e) /\ persistLocked(id, e, fsys[id, e.fs])
    BY <1>3 DEF AddUsage
  <2>2. Current(id) \in Entry /\ fsys[id, Current(id).fs] \in Content
    BY <1>3, CurrentType
  <2>4. Current(id).runtime + delta \in Nat
    <3>1. Current(id).runtime \in Nat
      BY <2>2 DEF Entry
    <3> QED
      BY <3>1, SMT
  <2>5. e \in Entry /\ e.fs = Current(id).fs /\ e.cwd = Current(id).cwd
    BY <2>2, <2>4 DEF Entry
  <2>6. Current(id).cwd \in {Root, fsys[id, Current(id).fs].tree}
    BY <1>3 DEF CwdFollowsTree
  <2> HIDE DEF e
  <2> QED
    BY <1>2, <1>3, <2>1, <2>2, <2>5, <2>6, SaveFollows
<1>4. CASE id \notin Live
  BY <1>2, <1>4 DEF AddUsage, CwdFollowsTree, Live, Files, Current
<1> QED
  BY <1>3, <1>4

LEMMA GetFollows ==
    ASSUME TypeOK, CwdFollowsTree, NEW id \in Ids, Get(id)
    PROVE  CwdFollowsTree'
<1>0. 0 \in Ages /\ 0 \in 0..MaxBytes /\ Root \in Cwds
  BY StoreAssumption, SMT DEF Ages, Root, Cwds
<1>1. CASE GetExisting(id)
  <2> DEFINE e == [Current(id) EXCEPT !.age = 0]
  <2>1. id \in Live /\ Put(id, e) /\ fsys' = fsys /\ disk' = disk
    BY <1>1 DEF GetExisting
  <2>2. Current(id) \in Entry /\ fsys[id, Current(id).fs] \in Content
    BY <2>1, CurrentType
  <2>3. e \in Entry /\ e.fs = Current(id).fs /\ e.cwd = Current(id).cwd
    BY <1>0, <2>2 DEF Entry
  <2>4. Current(id).cwd \in {Root, fsys[id, Current(id).fs].tree}
    BY <2>1 DEF CwdFollowsTree
  <2> HIDE DEF e
  <2> QED
    BY <2>1, <2>2, <2>3, <2>4, SaveFollows
<1>2. CASE Create(id)
  <2>1. id \notin Live /\ Insert(id, NewTree(id, 0), Root) /\ nfs[id] < MaxFs
    BY <1>2 DEF Create, Insert
  <2> QED
    BY <1>0, <2>1, NewTreeType, InsertFollows
<1> QED
  BY <1>1, <1>2 DEF Get

LEMMA ImportFollows ==
    ASSUME TypeOK, CwdFollowsTree, NEW id \in Ids, Import(id)
    PROVE  CwdFollowsTree'
<1>1. PICK b \in 0..MaxBytes, cwd \in {Root, nfs[id] + 1} : Replace(id, NewTree(id, b), cwd)
  BY DEF Import
<1> DEFINE c == NewTree(id, b)
<1>2. c \in Content /\ cwd \in Cwds /\ cwd \in {Root, c.tree}
  <2>1. Root \in Cwds
    BY StoreAssumption, SMT DEF Root, Cwds
  <2>2. c \in Content /\ nfs[id] + 1 \in Cwds
    BY NewTreeType DEF Import
  <2> QED
    BY <2>1, <2>2 DEF NewTree
<1>3. CASE id \in Live /\ Swap(id, c, cwd)
  <2> DEFINE e == [[Current(id) EXCEPT !.cwd = cwd] EXCEPT !.fs = nfs[id] + 1, !.rc = FALSE, !.age = 0]
  <2>1. /\ Put(id, e) /\ persistLocked(id, e, c)
        /\ fsys' = [fsys EXCEPT ![<<id, nfs[id] + 1>>] = c]
    BY <1>3 DEF Swap, SwapTo
  <2>2. nfs[id] + 1 \in FsIds /\ 0 \in Ages
    BY <1>3, StoreAssumption, SMT DEF TypeOK, Swap, SwapTo, FsIds, Ages
  <2>3. e \in Entry /\ e.fs = nfs[id] + 1 /\ e.cwd = cwd
    BY <1>2, <1>3, <2>2, CurrentType DEF Entry
  <2>4. <<id, nfs[id] + 1>> \in Ids \X FsIds
    BY <2>2
  <2>5. ASSUME NEW j \in Live \ {id}
        PROVE  <<j, Current(j).fs>> \in Ids \X FsIds /\ <<j, Current(j).fs>> # <<id, nfs[id] + 1>>
    BY CurrentType DEF Entry, Live
  <2>6. fsys'[id, e.fs] = c /\ \A j \in Live \ {id} : fsys'[j, Current(j).fs] = fsys[j, Current(j).fs]
    BY <2>1, <2>3, <2>4, <2>5 DEF TypeOK
  <2> HIDE DEF e, c
  <2> QED
    BY <1>2, <1>3, <2>1, <2>3, <2>6, SaveFollows
<1>4. CASE id \notin Live /\ Insert(id, c, cwd)
  BY <1>2, <1>4, InsertFollows
<1> QED
  BY <1>1, <1>3, <1>4 DEF Replace

LEMMA TickFollows ==
    ASSUME TypeOK, CwdFollowsTree, Tick
    PROVE  CwdFollowsTree'
<1>1. Live' = Live /\ entries' = entries /\ fsys' = fsys
  BY DEF Tick, Live
<1>2. ASSUME NEW j \in Live
      PROVE  Current(j)'.cwd = Current(j).cwd /\ Current(j)'.fs = Current(j).fs
  <2>1. <<j, entries[j]>> \in Ids \X Gens /\ Current(j) \in Entry
    BY CurrentType
  <2>2. heap'[<<j, entries[j]>>] = Older(heap[<<j, entries[j]>>])
    BY <2>1 DEF Tick, TypeOK
  <2> QED
    BY <1>1, <2>1, <2>2 DEF Current, Older, Entry
<1>3. ASSUME NEW j \in Files'
      PROVE  j \in Files /\ disk'[j].cwd = disk[j].cwd /\ disk'[j].tree = disk[j].tree
  <2>1. j \in Ids /\ disk'[j] # NoFile
    BY <1>3 DEF Files
  <2>2. j \in Files /\ disk'[j] = Older(disk[j])
    BY <2>1 DEF Tick
  <2>3. disk[j] \in Record
    BY <2>2 DEF TypeOK, Files
  <2> QED
    BY <2>2, <2>3 DEF Older, Record
<1> QED
  BY <1>1, <1>2, <1>3 DEF CwdFollowsTree, Files, Live

(* A restored tree is a new one, and a cwd that was in the saved one is in *)
(* it.                                                                     *)
LEMMA RestartFollows ==
    ASSUME TypeOK, CwdFollowsTree, Restart
    PROVE  CwdFollowsTree'
<1>1. PICK keep \in SUBSET Files, purged \in SUBSET Files : Reload(keep, purged)
  BY DEF Restart, loadPersisted
<1>2. ASSUME NEW j \in Live'
      PROVE  Current(j)'.cwd \in {Root, fsys'[j, Current(j)'.fs].tree}
  <2>1. j \in keep /\ entries'[j] = 1 /\ j \in Ids
    BY <1>1, <1>2 DEF Reload, Live
  <2>2. <<j, 1>> \in Ids \X Gens /\ <<j, 1>> \in Ids \X FsIds
    BY <2>1, StoreAssumption, SMT DEF Gens, FsIds
  <2>3. Current(j)' = FromRecord(disk[j])
    BY <1>1, <2>1, <2>2 DEF Reload, TypeOK, Current
  <2>4. fsys'[<<j, 1>>].tree = 1
    BY <1>1, <2>1, <2>2 DEF Reload, TypeOK
  <2>5. disk[j].cwd \in {Root, disk[j].tree}
    BY <2>1, FilesFollow
  <2>6. Current(j)'.fs = 1 /\ Current(j)'.cwd \in {Root, 1}
    BY <2>3, <2>5 DEF FromRecord, RestoredCwd
  <2> QED
    BY <2>4, <2>6
<1>3. \A j \in Files' : j \in Files /\ disk'[j] = disk[j]
  BY <1>1 DEF Reload, Files
<1> QED
  BY <1>2, <1>3 DEF CwdFollowsTree, Files

LEMMA WriteFsFollows ==
    ASSUME TypeOK, CwdFollowsTree, NEW id \in Ids, WriteFs(id)
    PROVE  CwdFollowsTree'
<1>1. PICK b \in 0..MaxBytes : fsys' = [fsys EXCEPT ![<<id, Current(id).fs>>].bytes = b]
  BY DEF WriteFs
<1>2. UNCHANGED <<entries, heap, disk>> /\ id \in Live
  BY DEF WriteFs
<1>3. ASSUME NEW j \in Live
      PROVE  fsys'[j, Current(j).fs].tree = fsys[j, Current(j).fs].tree
  <2>1. /\ <<j, Current(j).fs>> \in Ids \X FsIds /\ <<id, Current(id).fs>> \in Ids \X FsIds
        /\ fsys[j, Current(j).fs] \in Content
    BY <1>2, CurrentType DEF Entry
  <2> QED
    BY <1>1, <2>1 DEF TypeOK, Content
<1>4. Live' = Live /\ Files' = Files /\ \A j \in Live : Current(j)' = Current(j)
  BY <1>2 DEF Live, Files, Current
<1> QED
  BY <1>2, <1>3, <1>4 DEF CwdFollowsTree, Live

LEMMA DropFollows ==
    ASSUME CwdFollowsTree, NEW gone \in SUBSET Ids, Drop(gone)
    PROVE  CwdFollowsTree'
<1>1. \A j \in Live' : j \in Live /\ Current(j)' = Current(j) /\ fsys' = fsys
  BY DEF Drop, Live, Current
<1>2. \A j \in Files' : j \in Files /\ disk'[j] = disk[j]
  BY DEF Drop, deletePersisted, Files
<1> QED
  BY <1>1, <1>2 DEF CwdFollowsTree, Live, Files

LEMMA CwdNext == TypeOK /\ CwdFollowsTree /\ [StoreNext]_storeVars => CwdFollowsTree'
<1> SUFFICES ASSUME TypeOK, CwdFollowsTree, [StoreNext]_storeVars
             PROVE  CwdFollowsTree'
  OBVIOUS
<1>1. ASSUME NEW id \in Ids, ChargeCron(id)
      PROVE  CwdFollowsTree'
  <2>1. 0..1 \subseteq Nat /\ 0..MaxNet \subseteq Nat
    BY StoreAssumption, SMT
  <2> QED
    BY <1>1, <2>1, ChargeFollows DEF ChargeCron
<1>2. ASSUME NEW id \in Ids, Use(id) \/ WriteFs(id) \/ Delete(id)
      PROVE  CwdFollowsTree'
  BY <1>1, <1>2, GetFollows, UpdateFollows, ImportFollows, WriteFsFollows, DropFollows DEF Use, Delete
<1>3. CASE reap
  <2>1. {id \in Live : Current(id).age > TTL} \in SUBSET Ids
    BY DEF Live
  <2> QED
    BY <1>3, <2>1, DropFollows DEF reap
<1>4. CASE Crash
  BY <1>4 DEF Crash, CwdFollowsTree, Live, Files
<1>5. CASE UNCHANGED storeVars
  BY <1>5 DEF storeVars, CwdFollowsTree, Live, Files, Current
<1> QED
  BY <1>2, <1>3, <1>4, <1>5, TickFollows, RestartFollows DEF StoreNext

(* A session is never seen in, nor restored into, a directory of a tree    *)
(* that it no longer has.                                                  *)
THEOREM CwdFollows == StoreSpec => []CwdFollowsTree
<1>1. StoreInit => CwdFollowsTree
  BY DEF StoreInit, CwdFollowsTree, Live, Files
<1> QED
  BY <1>1, CwdNext, TypeCorrect, PTL DEF StoreSpec

-----------------------------------------------------------------------------
(* SessionStore with a working disk implements SessionMap: every step of   *)
(* the store is a step of the map of budgets, or changes no budget.  The   *)
(* proof needs StoreInv where memory and disk take over from one another,  *)
(* at a crash and at a restart.                                            *)

Budget(r) == [runtime |-> r.runtime, net |-> r.net]

LEMMA BudgetType ==
    ASSUME NEW r, r \in Entry \/ r \in Record
    PROVE  /\ Budget(r) \in Promise!Budget
           /\ Budget(r) # NoFile
           /\ Budget(r).runtime = r.runtime
<1>1. Budget(r) \in [runtime : Nat, net : Nat]
  BY DEF Budget, Entry, Record
<1> QED
  BY <1>1, NoFileAssumption DEF Promise!Budget, Budget

(* The refinement mapping, while the server is up and while it is down.    *)
LEMMA BudgetsUp ==
    ASSUME TypeOK, up
    PROVE  /\ Budgets = [id \in Ids |-> IF id \in Live THEN Budget(Current(id)) ELSE NoFile]
           /\ Promise!Known = Live
<1>1. Budgets = [id \in Ids |-> IF id \in Live THEN Budget(Current(id)) ELSE NoFile]
  BY DEF Budgets, Budget
<1>2. \A id \in Live : Budget(Current(id)) # NoFile
  BY CurrentType, BudgetType
<1> QED
  BY <1>1, <1>2 DEF Promise!Known, Live

LEMMA BudgetsDown ==
    ASSUME ~up
    PROVE  Budgets = [id \in Ids |-> IF id \in Files THEN Budget(disk[id]) ELSE NoFile]
BY DEF Budgets, Budget

LEMMA BudgetsUpNext ==
    ASSUME TypeOK', up'
    PROVE  Budgets' = [id \in Ids |-> IF id \in Live' THEN Budget(Current(id)') ELSE NoFile]
BY DEF Budgets, Budget

LEMMA BudgetsDownNext ==
    ASSUME ~up'
    PROVE  Budgets' = [id \in Ids |-> IF id \in Files' THEN Budget(disk'[id]) ELSE NoFile]
BY DEF Budgets, Budget

-----------------------------------------------------------------------------
(* Steps of the store as steps of the map.                                 *)

(* A live session gets another entry, with no less runtime.                *)
LEMMA PutCharges ==
    ASSUME TypeOK, TypeOK', up, NEW id \in Live, NEW e \in Entry, Put(id, e),
           e.runtime >= Current(id).runtime
    PROVE  Promise!Next
<1>0. id \in Ids /\ up'
  BY DEF Live, Put
<1>1. /\ Live' = Live
      /\ Current(id)' = e
      /\ \A j \in Live \ {id} : Current(j)' = Current(j)
  BY PutEffect
<1>2. Budgets = [j \in Ids |-> IF j \in Live THEN Budget(Current(j)) ELSE NoFile]
  BY BudgetsUp
<1>3. Budgets' = [j \in Ids |-> IF j \in Live' THEN Budget(Current(j)') ELSE NoFile]
  BY <1>0, BudgetsUpNext
<1>4. Budgets[id] = Budget(Current(id)) /\ Budgets'[id] = Budget(e)
  BY <1>0, <1>1, <1>2, <1>3
<1>5. Current(id) \in Entry
  BY CurrentType
<1>6. Budgets' = [Budgets EXCEPT ![id] = Budgets'[id]]
  BY <1>0, <1>1, <1>2, <1>3
<1>7. Promise!Charge(id)
  BY <1>4, <1>5, <1>6, BudgetType DEF Promise!Charge
<1> QED
  BY <1>0, <1>7 DEF Promise!Next

LEMMA InsertOpens ==
    ASSUME TypeOK, TypeOK', up, NEW id \in Ids \ Live, NEW c \in Content, NEW cwd \in Cwds,
           Insert(id, c, cwd)
    PROVE  Promise!Next
<1>0. up' /\ HasRoom
  BY DEF Insert
<1>1. /\ Live' = Live \cup {id}
      /\ Current(id)' = [Blank EXCEPT !.fs = nfs[id] + 1, !.cwd = cwd]
      /\ \A j \in Live : Current(j)' = Current(j)
  BY InsertEffect
<1>2. Budgets = [j \in Ids |-> IF j \in Live THEN Budget(Current(j)) ELSE NoFile]
      /\ Promise!Known = Live
  BY BudgetsUp
<1>3. Budgets' = [j \in Ids |-> IF j \in Live' THEN Budget(Current(j)') ELSE NoFile]
  BY <1>0, BudgetsUpNext
<1>4. Budget(Current(id)') = Promise!Fresh
  BY <1>1 DEF Budget, Blank, Promise!Fresh
<1>5. Budgets[id] = NoFile /\ Budgets' = [Budgets EXCEPT ![id] = Promise!Fresh]
  BY <1>1, <1>2, <1>3, <1>4
<1>6. Promise!Open(id)
  BY <1>0, <1>2, <1>5 DEF Promise!Open, HasRoom, Promise!Cardinality, Cardinality
<1> QED
  BY <1>6 DEF Promise!Next

LEMMA DropForgets ==
    ASSUME TypeOK, TypeOK', up, NEW gone \in SUBSET Ids, Drop(gone)
    PROVE  Promise!Next
<1>1. Live' = Live \ gone /\ up'
  BY DEF Drop, Live, Absent
<1>2. \A j \in Live' : Current(j)' = Current(j)
  BY <1>1 DEF Drop, Current, Live
<1>3. Budgets = [j \in Ids |-> IF j \in Live THEN Budget(Current(j)) ELSE NoFile]
  BY BudgetsUp
<1>4. Budgets' = [j \in Ids |-> IF j \in Live' THEN Budget(Current(j)') ELSE NoFile]
  BY <1>1, BudgetsUpNext
<1>5. Budgets' = [j \in Ids |-> IF j \in gone THEN NoFile ELSE Budgets[j]]
  BY <1>1, <1>2, <1>3, <1>4
<1> QED
  BY <1>5 DEF Promise!Next, Promise!Forget

LEMMA ReplaceIsNext ==
    ASSUME TypeOK, TypeOK', NEW id \in Ids, NEW c \in Content, NEW cwd \in Cwds,
           Replace(id, c, cwd)
    PROVE  Promise!Next
<1>0. up
  BY DEF Replace
<1>1. CASE id \in Live /\ Swap(id, c, cwd)
  <2> DEFINE e == [[Current(id) EXCEPT !.cwd = cwd] EXCEPT !.fs = nfs[id] + 1, !.rc = FALSE, !.age = 0]
  <2>1. nfs[id] + 1 \in FsIds /\ 0 \in Ages
    BY <1>1, StoreAssumption, SMT DEF TypeOK, Swap, SwapTo, FsIds, Ages
  <2>2. Current(id) \in Entry
    BY <1>1, CurrentType
  <2>3. e \in Entry /\ e.runtime = Current(id).runtime /\ Current(id).runtime \in Nat
    BY <2>1, <2>2 DEF Entry
  <2>4. e.runtime >= Current(id).runtime
    BY <2>3, SMT
  <2>5. Put(id, e)
    BY <1>1 DEF Swap, SwapTo
  <2> QED
    BY <1>0, <1>1, <2>3, <2>4, <2>5, PutCharges
<1>2. CASE id \notin Live /\ Insert(id, c, cwd)
  BY <1>0, <1>2, InsertOpens
<1> QED
  BY <1>1, <1>2 DEF Replace

LEMMA GetExistingIsNext ==
    ASSUME TypeOK, TypeOK', NEW id \in Ids, GetExisting(id)
    PROVE  Promise!Next
<1> DEFINE e == [Current(id) EXCEPT !.age = 0]
<1>1. 0 \in Ages
  BY StoreAssumption, SMT DEF Ages
<1>2. id \in Live /\ up /\ Put(id, e) /\ Current(id) \in Entry
  BY CurrentType DEF GetExisting
<1>3. e \in Entry /\ e.runtime = Current(id).runtime /\ Current(id).runtime \in Nat
  BY <1>1, <1>2 DEF Entry
<1>4. e.runtime >= Current(id).runtime
  BY <1>3, SMT
<1> QED
  BY <1>2, <1>3, <1>4, PutCharges

(* A report on a session that is gone changes nothing.                     *)
LEMMA NoEntryNoChange ==
    ASSUME UNCHANGED <<up, entries, heap, disk>>
    PROVE  Budgets' = Budgets
<1>1. Live' = Live /\ Files' = Files /\ up' = up /\ disk' = disk
  BY DEF Live, Files
<1>2. \A id \in Ids : Current(id)' = Current(id)
  BY DEF Current
<1> QED
  BY <1>1, <1>2 DEF Budgets

LEMMA UpdateIsNext ==
    ASSUME TypeOK, TypeOK', NEW id \in Ids, NEW cwd \in Cwds, NEW rcLoaded \in BOOLEAN,
           NEW delta \in Nat, NEW setNetwork \in BOOLEAN, NEW net \in Nat,
           updateLocked(id, cwd, rcLoaded, delta, setNetwork, net)
    PROVE  Promise!Next \/ Budgets' = Budgets
<1>1. CASE id \in Live
  <2> DEFINE e == [Current(id) EXCEPT !.cwd = cwd, !.runtime = @ + delta, !.rc = @ \/ rcLoaded,
                                      !.net = IF setNetwork THEN net ELSE @, !.age = 0]
  <2>1. Current(id) \in Entry
    BY <1>1, CurrentType
  <2>2. 0 \in Ages
    BY StoreAssumption, SMT DEF Ages
  <2>3. /\ Current(id).runtime + delta \in Nat
        /\ Current(id).runtime + delta >= Current(id).runtime
    <3>1. Current(id).runtime \in Nat
      BY <2>1 DEF Entry
    <3> QED
      BY <3>1, SMT
  <2>4. (Current(id).rc \/ rcLoaded) \in BOOLEAN
    OBVIOUS
  <2>5. e \in Entry /\ e.runtime = Current(id).runtime + delta
    BY <2>1, <2>2, <2>3, <2>4 DEF Entry
  <2>6. Put(id, e) /\ up
    BY <1>1 DEF updateLocked
  <2> QED
    BY <1>1, <2>3, <2>5, <2>6, PutCharges
<1>2. CASE id \notin Live
  BY <1>2, NoEntryNoChange DEF updateLocked
<1> QED
  BY <1>1, <1>2

LEMMA AddUsageIsNext ==
    ASSUME TypeOK, TypeOK', NEW id \in Ids, NEW delta \in Nat, NEW net \in Nat,
           AddUsage(id, delta, net)
    PROVE  Promise!Next \/ Budgets' = Budgets
<1>1. CASE id \in Live
  <2> DEFINE e == [Current(id) EXCEPT !.runtime = @ + delta, !.net = net]
  <2>1. Current(id) \in Entry
    BY <1>1, CurrentType
  <2>2. /\ Current(id).runtime + delta \in Nat
        /\ Current(id).runtime + delta >= Current(id).runtime
    <3>1. Current(id).runtime \in Nat
      BY <2>1 DEF Entry
    <3> QED
      BY <3>1, SMT
  <2>3. e \in Entry /\ e.runtime = Current(id).runtime + delta
    BY <2>1, <2>2 DEF Entry
  <2>4. Put(id, e) /\ up
    BY <1>1 DEF AddUsage
  <2> QED
    BY <1>1, <2>2, <2>3, <2>4, PutCharges
<1>2. CASE id \notin Live
  BY <1>2, NoEntryNoChange DEF AddUsage
<1> QED
  BY <1>1, <1>2

LEMMA UseIsNext ==
    ASSUME TypeOK, TypeOK', NEW id \in Ids, Use(id)
    PROVE  Promise!Next \/ Budgets' = Budgets
<1>1. Root \in Cwds /\ FsIds \subseteq Cwds /\ 0 \in 0..MaxBytes
  BY StoreAssumption, SMT DEF Root, Cwds, FsIds
<1>2. 0..1 \subseteq Nat /\ 0..MaxNet \subseteq Nat
  BY StoreAssumption, SMT
<1>3. CASE GetExisting(id)
  BY <1>3, GetExistingIsNext
<1>4. CASE Create(id)
  <2>1. NewTree(id, 0) \in Content /\ up
    BY <1>1, <1>4, NewTreeType DEF Create, Insert
  <2> QED
    BY <1>1, <1>4, <2>1, InsertOpens DEF Create
<1>5. CASE Update(id)
  <2>1. id \in Live => fsys[id, Current(id).fs].tree \in Cwds
    BY <1>1, CurrentType DEF Content
  <2> QED
    BY <1>1, <1>2, <1>5, <2>1, UpdateIsNext DEF Update
<1>6. CASE ChargeCron(id)
  BY <1>2, <1>6, AddUsageIsNext DEF ChargeCron
<1>7. CASE Import(id)
  <2>1. PICK b \in 0..MaxBytes, cwd \in {Root, nfs[id] + 1} : Replace(id, NewTree(id, b), cwd)
    BY <1>7 DEF Import
  <2>2. NewTree(id, b) \in Content /\ cwd \in Cwds
    BY <1>1, <1>7, <2>1, NewTreeType DEF Import
  <2> QED
    BY <2>1, <2>2, ReplaceIsNext
<1> QED
  BY <1>3, <1>4, <1>5, <1>6, <1>7 DEF Use, Get

(* Time does not show in the budgets.                                      *)
LEMMA TickIsInvisible ==
    ASSUME TypeOK, TypeOK', Tick
    PROVE  Budgets' = Budgets
<1>1. Live' = Live /\ up' = up /\ up \in BOOLEAN
  BY DEF Tick, Live, TypeOK
<1>2. \A r : r \in Entry \/ r \in Record => Budget(Older(r)) = Budget(r)
  BY DEF Budget, Older, Entry, Record
<1>3. CASE up
  <2>1. ASSUME NEW j \in Live
        PROVE  Budget(Current(j)') = Budget(Current(j))
    <3>1. <<j, entries[j]>> \in Ids \X Gens /\ Current(j) \in Entry
      BY CurrentType
    <3>2. entries[<<j, entries[j]>>[1]] = <<j, entries[j]>>[2]
      OBVIOUS
    <3>3. Current(j)' = Older(Current(j))
      BY <3>1, <3>2 DEF Tick, Current, TypeOK
    <3> QED
      BY <1>2, <3>1, <3>3
  <2> QED
    BY <1>1, <1>3, <2>1, BudgetsUp, BudgetsUpNext
<1>4. CASE ~up
  <2>1. \A r \in Record : Older(r) \in Record
    <3>1. \A a \in Ages : Lesser(a + 1, TTL + 1) \in Ages
      BY StoreAssumption, SMT DEF Ages, Lesser
    <3> QED
      BY <3>1 DEF Record, Older
  <2>2. Files' = Files
    BY <2>1, NoFileIsNoRecord DEF Tick, Files, TypeOK
  <2>3. \A j \in Files : Budget(disk'[j]) = Budget(disk[j])
    BY <1>2 DEF Tick, Files, TypeOK
  <2> QED
    BY <1>1, <1>4, <2>2, <2>3, BudgetsDown, BudgetsDownNext
<1> QED
  BY <1>3, <1>4

(* A crash forgets what has no file, and what has one keeps its budget.    *)
LEMMA CrashForgets ==
    ASSUME StoreInv, ~Faults, Crash
    PROVE  Promise!Next
<1>1. up /\ ~up' /\ disk' = disk /\ Files' = Files /\ TypeOK
  BY DEF Crash, Files, StoreInv
<1>2. Budgets = [j \in Ids |-> IF j \in Live THEN Budget(Current(j)) ELSE NoFile]
  BY <1>1, BudgetsUp
<1>3. Budgets' = [j \in Ids |-> IF j \in Files THEN Budget(disk[j]) ELSE NoFile]
  BY <1>1, BudgetsDownNext
<1>4. \A j \in Files : j \in Live /\ Saved(j)
  BY <1>1 DEF StoreInv, DurableState, Files
<1>5. \A j \in Files : Budget(disk[j]) = Budget(Current(j))
  BY <1>4 DEF Saved, Budget
<1>6. Budgets' = [j \in Ids |-> IF j \in Ids \ Files THEN NoFile ELSE Budgets[j]]
  BY <1>2, <1>3, <1>4, <1>5
<1> QED
  BY <1>6 DEF Promise!Next, Promise!Forget

(* A restart forgets what has expired.                                     *)
LEMMA RestartForgets ==
    ASSUME StoreInv, TypeOK', ~Faults, Restart
    PROVE  Promise!Next
<1>0. TypeOK /\ DiskWithin /\ ~up /\ up'
  BY DEF StoreInv, Restart
<1>1. PICK keep \in SUBSET Files, purged \in SUBSET Files :
          /\ WhatIsRead({}, keep, purged)
          /\ Reload(keep, purged)
  BY DEF Restart, loadPersisted
<1>2. keep = Files \ purged
  BY <1>0, <1>1, ReloadReadsAll
<1>3. Live' = keep
  BY <1>1 DEF Reload, Live, Files, Absent
<1>4. ASSUME NEW j \in keep
      PROVE  Budget(Current(j)') = Budget(disk[j])
  <2>1. j \in Ids
    BY DEF Files
  <2>2. <<j, 1>> \in Ids \X Gens
    BY <2>1, StoreAssumption, SMT DEF Gens
  <2>3. Current(j)' = FromRecord(disk[j])
    BY <1>0, <1>1, <2>1, <2>2 DEF Reload, Current, TypeOK
  <2> QED
    BY <2>3 DEF FromRecord, Budget
<1>5. Budgets = [j \in Ids |-> IF j \in Files THEN Budget(disk[j]) ELSE NoFile]
  BY <1>0, BudgetsDown
<1>6. Budgets' = [j \in Ids |-> IF j \in keep THEN Budget(Current(j)') ELSE NoFile]
  BY <1>0, <1>3, BudgetsUpNext
<1>7. Budgets' = [j \in Ids |-> IF j \in purged THEN NoFile ELSE Budgets[j]]
  BY <1>2, <1>4, <1>5, <1>6 DEF Files
<1>8. purged \in SUBSET Ids
  BY DEF Files
<1> QED
  BY <1>7, <1>8 DEF Promise!Next, Promise!Forget

-----------------------------------------------------------------------------

LEMMA RefinedInit == StoreInit => Promise!Init
<1> SUFFICES ASSUME StoreInit
             PROVE  Promise!Init
  OBVIOUS
<1>1. TypeOK /\ up
  BY InitType DEF StoreInit
<1>2. Live = {} /\ Cardinality({}) = 0
  BY FS_EmptySet DEF StoreInit, Live, Absent
<1>3. Budgets = [id \in Ids |-> NoFile] /\ Promise!Known = {}
  BY <1>1, <1>2, BudgetsUp
<1> QED
  BY <1>2, <1>3, StoreAssumption, SMT DEF Promise!Init, Promise!Cardinality, Cardinality

LEMMA RefinedNext ==
    ASSUME StoreInv, TypeOK', ~Faults, [StoreNext]_storeVars
    PROVE  Promise!Next \/ Budgets' = Budgets
<1>0. TypeOK
  BY DEF StoreInv
<1>1. ASSUME NEW id \in Ids, Use(id)
      PROVE  Promise!Next \/ Budgets' = Budgets
  BY <1>0, <1>1, UseIsNext
<1>2. ASSUME NEW id \in Ids, WriteFs(id)
      PROVE  Budgets' = Budgets
  BY <1>2, NoEntryNoChange DEF WriteFs
<1>3. ASSUME NEW id \in Ids, Delete(id)
      PROVE  Promise!Next
  BY <1>0, <1>3, DropForgets DEF Delete
<1>4. CASE reap
  <2>1. {id \in Live : Current(id).age > TTL} \in SUBSET Ids
    BY DEF Live
  <2> QED
    BY <1>0, <1>4, <2>1, DropForgets DEF reap
<1>5. CASE Tick
  BY <1>0, <1>5, TickIsInvisible
<1>6. CASE Crash
  BY <1>6, CrashForgets
<1>7. CASE Restart
  BY <1>7, RestartForgets
<1>8. CASE UNCHANGED storeVars
  BY <1>8, NoEntryNoChange DEF storeVars
<1> QED
  BY <1>1, <1>2, <1>3, <1>4, <1>5, <1>6, <1>7, <1>8 DEF StoreNext

(* With a working disk the store keeps the promise of SessionMap: crashes, *)
(* restarts, imports and rollbacks reset no budget and forget only whole   *)
(* sessions.                                                               *)
THEOREM PromiseKept == ASSUME ~Faults
                       PROVE  StoreSpec => StoreKeepsPromise
<1>1. StoreInv /\ TypeOK' /\ [StoreNext]_storeVars => [Promise!Next]_Budgets
  BY RefinedNext
<1> QED
  BY <1>1, RefinedInit, StoreInvariant, TypeCorrect, PTL
     DEF StoreSpec, StoreKeepsPromise, Promise!Spec
=============================================================================
