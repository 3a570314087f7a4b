----------------------------- MODULE QuotaFsProofs -----------------------------
(***************************************************************************)
(* The counter of a QuotaFs never knows of less than there is, whatever    *)
(* commands of a pipeline, background jobs and cron jobs do to the files   *)
(* between the moment one of them measures and the moment it settles.      *)
(*                                                                         *)
(* Two things make that hold.  What a command has measured stays so until  *)
(* its wrapped call, because no other command is busy with the same file;  *)
(* and the counter covers the tree together with all that commands have    *)
(* reserved and not yet written, or freed and not yet given back.  The     *)
(* second is about sums over any number of files and of commands (Sums).   *)
(***************************************************************************)
EXTENDS QuotaFs, Sums

-----------------------------------------------------------------------------
(* The library's fold, over the sizes of the files under names.            *)
LEMMA FoldOfSizes ==
    ASSUME IsFiniteSet(Names), NEW S \in SUBSET Names
    PROVE  MapThenSumSet(Size, S) = Sum([n \in Names |-> Size(n)], S)
<1> DEFINE f == [n \in Names |-> Size(n)]
           IsFold(g) == g = [s \in SUBSET S |-> IF s = {} THEN 0 ELSE Size(Pick(s)) + g[s \ {Pick(s)}]]
<1>1. IsFiniteSet(S)
  BY FS_Subset
<1>2. MapThenSumSet(Size, S) = (CHOOSE g : IsFold(g))[S]
  BY DEF MapThenSumSet, MapThenFoldSet, Pick
<1>3. ASSUME NEW g
      PROVE  IsFold(g) <=> IsSum(f, S, g)
  <2>1. \A s \in SUBSET S : s # {} => Size(Pick(s)) = f[Pick(s)]
    BY PickIn
  <2> HIDE DEF f
  <2>2. [s \in SUBSET S |-> IF s = {} THEN 0 ELSE Size(Pick(s)) + g[s \ {Pick(s)}]]
        = [s \in SUBSET S |-> IF s = {} THEN 0 ELSE f[Pick(s)] + g[s \ {Pick(s)}]]
    BY <2>1
  <2> QED
    BY <2>2 DEF IsSum
<1>4. PICK g : IsSum(f, S, g)
  BY <1>1, SumExists
<1>5. IsFold(g)
  BY <1>3, <1>4
<1> HIDE DEF f, IsFold
<1>6. IsFold(CHOOSE h : IsFold(h))
  BY <1>5
<1>7. IsSum(f, S, CHOOSE h : IsFold(h))
  BY <1>3, <1>6
<1>8. (CHOOSE h : IsFold(h))[S] = Sum(f, S)
  BY <1>1, <1>7, SumIs
<1> QED
  BY <1>2, <1>8 DEF f

-----------------------------------------------------------------------------
(* The inductive invariant.                                                *)

SizeOf == [n \in Names |-> Size(n)]

(* What a command has reserved and not yet used, or freed and not yet      *)
(* given back.                                                             *)
Owes(o) == \/ o.step = "refund"
           \/ o.step = "call" /\ o.kind \in {"open", "write", "truncate"}
Due(o)  == IF Owes(o) THEN o.due ELSE None

DueBytes == [c \in Commands |-> Due(op[c]).bytes]
DueFiles == [c \in Commands |-> Due(op[c]).files]

Ledger == /\ Sum(SizeOf, Names) + Sum(DueBytes, Commands) <= q.bytes
          /\ Cardinality(Linked) + Sum(DueFiles, Commands) <= q.files

Limits == /\ maxBytes > 0 => q.bytes <= maxBytes
          /\ maxFiles > 0 => q.files <= maxFiles

(* No file has two names.                                                  *)
OneName == \A m, n \in Linked : names[m] = names[n] => m = n

(* What the operation o, on the handle h, has measured is still so.        *)
OpenSound(o) ==
    o.kind = "open" => /\ o.to \in Names /\ o.names = {o.to} /\ o.off = Size(o.to)
                       /\ o.due.bytes = 0
                       /\ o.due.files = IF o.to \notin Linked /\ o.mode # "update" THEN 1 ELSE 0
RemoveSound(o) ==
    /\ o.kind = "remove" => \E n \in Names : o.names = {n} /\ o.due = Used({n})
    /\ o.kind = "removeAll" => /\ o.names = Names \/ \E n \in Names : o.names = {n}
                               /\ o.due = Used(o.names)
RenameSound(o) ==
    o.kind = "rename" => /\ o.from \in Names /\ o.to \in Names /\ o.from # o.to
                         /\ o.names = {o.from, o.to} /\ o.due = Used({o.to})
WriteSound(o, f) ==
    /\ o.kind \in {"write", "truncate"} => f \in Inodes /\ o.names = NamesOf(f) /\ o.due.files = 0
    /\ o.kind = "write" => /\ o.due.bytes \in Nat
                           /\ o.names # {} => Growth(f, o.off) <= o.due.bytes
    /\ o.kind = "truncate" => o.names # {} /\ o.due.bytes = o.off - size[f]

Pending(o, f) == OpenSound(o) /\ RemoveSound(o) /\ RenameSound(o) /\ WriteSound(o, f)

Sound(o, f) ==
    /\ o.step = "idle" => o.names = {}
    /\ o.step = "reserve" => o.kind \in {"open", "write", "truncate"}
    /\ o.step \in {"reserve", "call"} => Pending(o, f)
    /\ o.step = "refund" => o.due.bytes \in Nat /\ o.due.files \in Nat

HandlesOpen == \A c \in Commands : handle[c] # Closed => handle[c].file \in Inodes

Measured == \A c \in Commands : Sound(op[c], handle[c].file)

Apart == \A c, d \in Commands : c # d => op[c].names \cap op[d].names = {}

QuotaInv == TypeOK /\ OneName /\ HandlesOpen /\ Measured /\ Apart /\ Limits /\ Ledger

-----------------------------------------------------------------------------
(* What there is.                                                          *)

LEMMA Finite == IsFiniteSet(Commands) /\ IsFiniteSet(Names)
BY QuotaAssumption

LEMMA SizeType ==
    ASSUME TypeOK
    PROVE  /\ \A n \in Names : Size(n) \in Nat /\ SizeOf[n] = Size(n)
           /\ \A n \in Linked : names[n] \in Inodes /\ Size(n) = size[names[n]]
           /\ \A n \in Names \ Linked : Size(n) = 0
<1>1. \A f \in Inodes : size[f] \in Nat
  BY QuotaAssumption, SMT DEF TypeOK
<1> QED
  BY <1>1 DEF TypeOK, Size, SizeOf, Linked

LEMMA UsedIs ==
    ASSUME TypeOK, NEW S \in SUBSET Names
    PROVE  /\ Used(S).bytes = Sum(SizeOf, S) /\ Used(S).bytes \in Nat
           /\ Used(S).files = Cardinality(S \cap Linked) /\ Used(S).files \in Nat
<1>1. Used(S).bytes = Sum(SizeOf, S) /\ Used(S).files = Cardinality(S \cap Linked)
  BY FoldOfSizes, Finite DEF Used, SizeOf
<1>2. Sum(SizeOf, S) \in Nat
  BY SizeType, Finite, SumNotNegative
<1>3. IsFiniteSet(S \cap Linked)
  BY FS_Subset, Finite
<1>4. Cardinality(S \cap Linked) \in Nat
  BY <1>3, FS_CardinalityType
<1> QED
  BY <1>1, <1>2, <1>4

LEMMA UsedOne ==
    ASSUME TypeOK, NEW n \in Names
    PROVE  /\ Used({n}).bytes = Size(n)
           /\ Used({n}).files = IF n \in Linked THEN 1 ELSE 0
<1>1. SizeOf[n] \in Nat /\ SizeOf[n] = Size(n)
  BY SizeType
<1>2. Sum(SizeOf, {n}) = SizeOf[n] + Sum(SizeOf, {})
  <2>1. IsFiniteSet({n}) /\ {n} \ {Pick({n})} = {} /\ Pick({n}) = n
    BY FS_Singleton, PickIn
  <2> QED
    BY <2>1, SumUnfolds
<1>3. Sum(SizeOf, {}) = 0
  BY FS_EmptySet, SumUnfolds
<1>4. Used({n}).bytes = Size(n)
  <2>1. {n} \in SUBSET Names
    OBVIOUS
  <2>2. Used({n}).bytes = Size(n) + 0
    BY <1>1, <1>2, <1>3, <2>1, UsedIs
  <2>3. \A x \in Nat : x + 0 = x
    BY SMT
  <2> QED
    BY <1>1, <2>2, <2>3
<1>5. {n} \cap Linked = IF n \in Linked THEN {n} ELSE {}
  OBVIOUS
<1>6. Cardinality({n} \cap Linked) = IF n \in Linked THEN 1 ELSE 0
  BY <1>5, FS_Singleton, FS_EmptySet
<1> QED
  BY <1>4, <1>6, UsedIs

-----------------------------------------------------------------------------
(* What a step of a command leaves to the others.                          *)

Untouched(c) ==
    /\ \A d \in Commands \ {c} : op'[d] = op[d] /\ handle'[d] = handle[d]
    /\ \A n \in Names \ op[c].names : names'[n] = names[n] /\ Size(n)' = Size(n)
    /\ \A n \in op[c].names : \/ names'[n] = Nothing
                              \/ \E m \in op[c].names : names'[n] = names[m]
                              \/ names'[n] \notin Held

LEMMA OpType ==
    ASSUME TypeOK, NEW c \in Commands
    PROVE  /\ op[c] \in Op /\ handle[c] \in Handle
           /\ op[c].names \in SUBSET Names /\ op[c].due.bytes \in Int /\ op[c].due.files \in Int
           /\ op[c].off \in 0..MaxSize
BY DEF TypeOK, Op, Usage

LEMMA SameNames ==
    ASSUME TypeOK, TypeOK', NEW c \in Commands, Untouched(c),
           NEW f \in Inodes, f \in Held, NamesOf(f) \cap op[c].names = {}
    PROVE  /\ NamesOf(f)' = NamesOf(f)
           /\ NamesOf(f) # {} => size'[f] = size[f]
<1>1. \A n \in Names : n \in NamesOf(f) <=> names[n] = f
  BY QuotaAssumption DEF NamesOf, Linked
<1>2. \A n \in Names : n \in NamesOf(f)' <=> names'[n] = f
  BY QuotaAssumption DEF NamesOf, Linked
<1>3. op[c].names \in SUBSET Names
  BY OpType
<1>4. \A n \in Names : n \in NamesOf(f)' <=> n \in NamesOf(f)
  <2> SUFFICES ASSUME NEW n \in Names
               PROVE  names'[n] = f <=> names[n] = f
    BY <1>1, <1>2
  <2>1. CASE n \notin op[c].names
    BY <2>1 DEF Untouched
  <2>2. CASE n \in op[c].names
    <3>1. \A m \in op[c].names : names[m] # f
      BY <1>1, <1>3
    <3>2. names'[n] # f
      BY <2>2, <3>1, QuotaAssumption DEF Untouched
    <3> QED
      BY <2>2, <3>1, <3>2
  <2> QED
    BY <2>1, <2>2
<1>5. NamesOf(f)' = NamesOf(f)
  BY <1>4 DEF NamesOf, Linked
<1>6. ASSUME NEW n \in NamesOf(f)
      PROVE  size'[f] = size[f]
  <2>1. n \in Names /\ n \notin op[c].names /\ names[n] = f /\ names'[n] = f
    BY <1>1, <1>2, <1>4, <1>6 DEF NamesOf, Linked
  <2>2. Size(n)' = Size(n)
    BY <2>1 DEF Untouched
  <2>3. Size(n) = size[f] /\ Size(n)' = size'[f]
    BY <2>1, QuotaAssumption DEF Size, Linked
  <2> QED
    BY <2>2, <2>3
<1> QED
  BY <1>5, <1>6

LEMMA SameUsed ==
    ASSUME TypeOK, TypeOK', NEW S \in SUBSET Names,
           \A n \in S : names'[n] = names[n] /\ Size(n)' = Size(n)
    PROVE  Used(S)' = Used(S)
<1>1. S \cap Linked' = S \cap Linked
  BY DEF Linked
<1>2. \A n \in S : SizeOf[n] = SizeOf'[n]
  BY SizeType DEF SizeOf
<1>3. IsFiniteSet(S)
  BY Finite, FS_Subset
<1>4. Sum(SizeOf', S) = Sum(SizeOf, S)
  BY <1>2, <1>3, SumSame
<1>5. Sum(SizeOf, S)' = Sum(SizeOf', S)
  BY DEF Sum, IsSum, Pick
<1>6. Used(S).bytes = Sum(SizeOf, S)
  BY UsedIs
<1>7. (Used(S).bytes = Sum(SizeOf, S))'
  BY UsedIs, PTL
<1> QED
  BY <1>1, <1>4, <1>5, <1>6, <1>7 DEF Used

(* What has been measured stays so.                                        *)
LEMMA PendingStays ==
    ASSUME TypeOK, TypeOK', NEW c \in Commands, Untouched(c),
           NEW o \in Op, o.names \cap op[c].names = {}, NEW f, f \in Inodes => f \in Held,
           Pending(o, f)
    PROVE  Pending(o, f)'
<1>0. o.names \in SUBSET Names
  BY DEF Op
<1>1. \A n \in Names : n \in o.names => names'[n] = names[n] /\ Size(n)' = Size(n)
  BY DEF Untouched
<1>2. \A n \in Names : n \in o.names => (n \in Linked' <=> n \in Linked)
  BY <1>1 DEF Linked
<1>4. OpenSound(o) /\ RemoveSound(o) /\ RenameSound(o) /\ WriteSound(o, f)
  BY DEF Pending
<1>5. OpenSound(o)'
  BY <1>0, <1>1, <1>2, <1>4 DEF OpenSound
<1>6. RemoveSound(o)'
  <2>1. Used(o.names)' = Used(o.names)
    BY <1>0, <1>1, SameUsed
  <2> QED
    BY <1>4, <2>1 DEF RemoveSound
<1>7. RenameSound(o)'
  <2> SUFFICES ASSUME o.kind = "rename"
               PROVE  RenameSound(o)'
    BY DEF RenameSound
  <2>1. {o.to} \in SUBSET Names /\ \A n \in {o.to} : names'[n] = names[n] /\ Size(n)' = Size(n)
    BY <1>1, <1>4 DEF RenameSound
  <2>2. Used({o.to})' = Used({o.to})
    BY <2>1, SameUsed
  <2> QED
    BY <1>4, <2>2 DEF RenameSound
<1>8. WriteSound(o, f)'
  <2> SUFFICES ASSUME o.kind \in {"write", "truncate"}
               PROVE  WriteSound(o, f)'
    BY DEF WriteSound
  <2>1. f \in Inodes /\ o.names = NamesOf(f) /\ o.due.files = 0
    BY <1>4 DEF WriteSound
  <2>2. NamesOf(f)' = o.names /\ (o.names # {} => size'[f] = size[f])
    BY <2>1, SameNames
  <2>3. o.names # {} => Growth(f, o.off)' = Growth(f, o.off)
    BY <2>2 DEF Growth
  <2> QED
    BY <1>4, <2>1, <2>2, <2>3 DEF WriteSound
<1> QED
  BY <1>5, <1>6, <1>7, <1>8 DEF Pending

LEMMA OthersSound ==
    ASSUME QuotaInv, TypeOK', NEW c \in Commands, Untouched(c), NEW d \in Commands \ {c}
    PROVE  Sound(op[d], handle[d].file)'
<1>1. PICK o : o = op[d]
  OBVIOUS
<1>2. PICK f : f = handle[d].file
  OBVIOUS
<1>3. op'[d] = o /\ handle'[d].file = f /\ Sound(o, f) /\ o \in Op /\ o.names \cap op[c].names = {}
  BY <1>1, <1>2, OpType DEF QuotaInv, Untouched, Measured, Apart
<1>4. f \in Inodes => f \in Held
  BY <1>2 DEF Held
<1>5. Pending(o, f) => Pending(o, f)'
  BY <1>3, <1>4, PendingStays DEF QuotaInv
<1> QED
  BY <1>3, <1>5 DEF Sound

-----------------------------------------------------------------------------
(* The ledger.                                                             *)

Balanced(c) ==
    /\ Sum(SizeOf, Names)' + Due(op[c])'.bytes - q'.bytes <= Sum(SizeOf, Names) + Due(op[c]).bytes - q.bytes
    /\ Cardinality(Linked)' + Due(op[c])'.files - q'.files <= Cardinality(Linked) + Due(op[c]).files - q.files

LEMMA DueType ==
    ASSUME TypeOK, NEW c \in Commands
    PROVE  Due(op[c]).bytes \in Int /\ Due(op[c]).files \in Int
BY OpType DEF Due, None

DuesTyped == \A d \in Commands : Due(op[d]).bytes \in Int /\ Due(op[d]).files \in Int

LEMMA DueTypes == TypeOK => DuesTyped
BY DueType DEF DuesTyped

LEMMA Totals ==
    ASSUME TypeOK
    PROVE  /\ Sum(SizeOf, Names) \in Int /\ Cardinality(Linked) \in Int
           /\ Sum(DueBytes, Commands) \in Int /\ Sum(DueFiles, Commands) \in Int
           /\ q.bytes \in Int /\ q.files \in Int
<1>1. Sum(SizeOf, Names) \in Int
  BY SizeType, Finite, SumType DEF SizeOf
<1>2. Sum(DueBytes, Commands) \in Int
  BY DueType, Finite, SumType DEF DueBytes
<1>3. Sum(DueFiles, Commands) \in Int
  BY DueType, Finite, SumType DEF DueFiles
<1>4. Cardinality(Linked) \in Int
  BY FS_Subset, FS_CardinalityType, Finite DEF Linked
<1> QED
  BY <1>1, <1>2, <1>3, <1>4 DEF TypeOK, Usage

LEMMA LedgerSteps ==
    ASSUME TypeOK, TypeOK', Ledger, NEW c \in Commands,
           \A d \in Commands \ {c} : op'[d] = op[d], Balanced(c)
    PROVE  Ledger'
<1>1. /\ Sum(DueBytes', Commands) = Sum(DueBytes, Commands) - Due(op[c]).bytes + Due(op[c])'.bytes
      /\ Sum(DueFiles', Commands) = Sum(DueFiles, Commands) - Due(op[c]).files + Due(op[c])'.files
  <2>1. \A d \in Commands : /\ DueBytes[d] = Due(op[d]).bytes /\ DueBytes'[d] = Due(op[d])'.bytes
                            /\ DueFiles[d] = Due(op[d]).files /\ DueFiles'[d] = Due(op[d])'.files
    BY DEF DueBytes, DueFiles
  <2>2. \A d \in Commands : /\ Due(op[d]).bytes \in Int /\ Due(op[d]).files \in Int
                            /\ Due(op[d])'.bytes \in Int /\ Due(op[d])'.files \in Int
    <3>1. \A d \in Commands : Due(op[d]).bytes \in Int /\ Due(op[d]).files \in Int
      BY DueType
    <3>2. \A d \in Commands : Due(op[d])'.bytes \in Int /\ Due(op[d])'.files \in Int
      <4>1. DuesTyped'
        BY DueTypes, PTL
      <4> QED
        BY <4>1 DEF DuesTyped
    <3> QED
      BY <3>1, <3>2
  <2>3. \A d \in Commands \ {c} : Due(op[d])' = Due(op[d])
    BY DEF Due, Owes, None
  <2>4. \A d \in Commands \ {c} : DueBytes[d] = DueBytes'[d] /\ DueFiles[d] = DueFiles'[d]
    BY <2>1, <2>3
  <2>5. \A d \in Commands : /\ DueBytes[d] \in Int /\ DueBytes'[d] \in Int
                            /\ DueFiles[d] \in Int /\ DueFiles'[d] \in Int
    BY <2>1, <2>2
  <2>6. Sum(DueBytes', Commands) = Sum(DueBytes, Commands) - DueBytes[c] + DueBytes'[c]
    BY <2>4, <2>5, Finite, SumChanges
  <2>7. Sum(DueFiles', Commands) = Sum(DueFiles, Commands) - DueFiles[c] + DueFiles'[c]
    BY <2>4, <2>5, Finite, SumChanges
  <2> QED
    BY <2>1, <2>6, <2>7
<1>2. /\ Sum(DueBytes, Commands)' = Sum(DueBytes', Commands)
      /\ Sum(DueFiles, Commands)' = Sum(DueFiles', Commands)
  BY DEF Sum, IsSum, Pick
<1>3. /\ Sum(SizeOf, Names) \in Int /\ Cardinality(Linked) \in Int
      /\ Sum(DueBytes, Commands) \in Int /\ Sum(DueFiles, Commands) \in Int
      /\ q.bytes \in Int /\ q.files \in Int
  BY Totals
<1>4. (/\ Sum(SizeOf, Names) \in Int /\ Cardinality(Linked) \in Int
       /\ Sum(DueBytes, Commands) \in Int /\ Sum(DueFiles, Commands) \in Int
       /\ q.bytes \in Int /\ q.files \in Int)'
  BY Totals, PTL
<1>5. Due(op[c]).bytes \in Int /\ Due(op[c]).files \in Int
  BY DueType
<1>6. (Due(op[c]).bytes \in Int /\ Due(op[c]).files \in Int)'
  BY DueType, PTL
<1>7. \A s, t, u, v, x, y, z, w \in Int :
        s + t <= u /\ v + x - w <= s + y - u => v + (t - y + x) <= w
  BY SMT
<1> QED
  BY <1>1, <1>2, <1>3, <1>4, <1>5, <1>6, <1>7 DEF Ledger, Balanced

LEMMA SizeSum == Sum(SizeOf, Names)' = Sum(SizeOf', Names)
BY DEF Sum, IsSum, Pick

LEMMA SizeTypes ==
    ASSUME TypeOK, TypeOK'
    PROVE  \A n \in Names : /\ SizeOf[n] \in Int /\ SizeOf[n] = Size(n) /\ Size(n) \in Nat
                            /\ SizeOf'[n] \in Int /\ SizeOf'[n] = Size(n)' /\ Size(n)' \in Nat
<1>1. \A n \in Names : SizeOf[n] = Size(n) /\ Size(n) \in Nat
  BY SizeType
<1>2. (\A n \in Names : Size(n) \in Nat /\ SizeOf[n] = Size(n))'
  BY SizeType, PTL
<1> QED
  BY <1>1, <1>2

LEMMA SizesStay ==
    ASSUME TypeOK, TypeOK', \A n \in Names : Size(n)' = Size(n)
    PROVE  Sum(SizeOf, Names)' = Sum(SizeOf, Names)
BY SizeSum, SizeTypes, Finite, SumSame

LEMMA OneSizeChanges ==
    ASSUME TypeOK, TypeOK', NEW n \in Names, \A m \in Names \ {n} : Size(m)' = Size(m)
    PROVE  Sum(SizeOf, Names)' = Sum(SizeOf, Names) - Size(n) + Size(n)'
<1>1. Sum(SizeOf', Names) = Sum(SizeOf, Names) - SizeOf[n] + SizeOf'[n]
  BY SizeTypes, Finite, SumChanges
<1> QED
  BY <1>1, SizeSum, SizeTypes

LEMMA FileMoves ==
    ASSUME TypeOK, TypeOK', NEW m \in Names, NEW n \in Names, m # n,
           \A l \in Names \ {m, n} : Size(l)' = Size(l), Size(n)' = Size(m), Size(m)' = 0
    PROVE  Sum(SizeOf, Names)' = Sum(SizeOf, Names) - Size(n)
<1> DEFINE h == [l \in Names |-> IF l = n THEN Size(m) ELSE Size(l)]
<1>1. \A l \in Names : h[l] \in Int /\ h[l] = IF l = n THEN Size(m) ELSE Size(l)
  BY SizeTypes
<1> HIDE DEF h
<1>2. Sum(h, Names) = Sum(SizeOf, Names) - SizeOf[n] + h[n]
  BY <1>1, SizeTypes, Finite, SumChanges
<1>3. Sum(SizeOf', Names) = Sum(h, Names) - h[m] + SizeOf'[m]
  BY <1>1, SizeTypes, Finite, SumChanges
<1>4. /\ h[n] = Size(m) /\ h[m] = Size(m) /\ SizeOf'[m] = 0 /\ SizeOf[n] = Size(n)
      /\ Size(m) \in Int /\ Size(n) \in Int
  BY <1>1, SizeTypes
<1>5. Sum(SizeOf, Names) \in Int
  BY Totals
<1> QED
  BY <1>2, <1>3, <1>4, <1>5, SizeSum, SMT

LEMMA LinkedFinite == IsFiniteSet(Linked) /\ Cardinality(Linked) \in Int
BY FS_Subset, FS_CardinalityType, Finite DEF Linked

-----------------------------------------------------------------------------
(* A step of a command that keeps the invariant.                           *)

Keeps(c) ==
    /\ TypeOK' /\ OneName' /\ HandlesOpen' /\ Limits'
    /\ Untouched(c)
    /\ Sound(op[c], handle[c].file)'
    /\ \A d \in Commands \ {c} : op'[c].names \cap op[d].names = {}
    /\ Balanced(c)

LEMMA KeepsQuota ==
    ASSUME QuotaInv, NEW c \in Commands, Keeps(c)
    PROVE  QuotaInv'
<1>1. Measured'
  <2>1. \A d \in Commands : Sound(op[d], handle[d].file)'
    BY OthersSound DEF Keeps
  <2> QED
    BY <2>1 DEF Measured
<1>2. Apart'
  <2>1. \A d \in Commands \ {c} : op'[d] = op[d]
    BY DEF Keeps, Untouched
  <2> QED
    BY <2>1 DEF QuotaInv, Apart, Keeps
<1>3. Ledger'
  BY LedgerSteps DEF QuotaInv, Keeps, Untouched
<1> QED
  BY <1>1, <1>2, <1>3 DEF QuotaInv, Keeps

Freed == [bytes : Nat, files : Nat]

LEMMA NoneType == None \in Freed /\ None \in Usage /\ None.bytes = 0 /\ None.files = 0
BY SMT DEF None, Freed, Usage

(* A wrapped call has done its work and settles.                           *)
Over(o) == /\ o.step \in {"idle", "refund"}
           /\ o.step = "idle" => o.names = {}
           /\ o.step = "refund" => o.due \in Freed

LEMMA OverIsSound == ASSUME NEW c, Over(op[c])' PROVE Sound(op[c], handle[c].file)'
BY DEF Over, Sound, Freed

LEMMA Settled ==
    ASSUME TypeOK, NEW c \in Commands, NEW due \in Freed, Settle(c, due)
    PROVE  /\ op' \in [Commands -> Op]
           /\ \A d \in Commands \ {c} : op'[d] = op[d]
           /\ Due(op'[c]) = due
           /\ op'[c].names \subseteq op[c].names
           /\ Over(op[c])'
<1>0. op[c] \in Op /\ op \in [Commands -> Op] /\ due \in Usage
  BY OpType DEF TypeOK, Freed, Usage
<1>1. CASE due = None
  <2>1. op' = [op EXCEPT ![c] = Idle]
    BY <1>1 DEF Settle, Finish
  <2>2. Idle \in Op /\ Idle.step = "idle" /\ Idle.names = {}
    BY NoneType, QuotaAssumption, SMT DEF Idle, Op, Kinds, Modes
  <2>3. op' \in [Commands -> Op] /\ op'[c] = Idle /\ \A d \in Commands \ {c} : op'[d] = op[d]
    BY <1>0, <2>1, <2>2
  <2>4. Due(op'[c]) = None
    BY <2>2, <2>3 DEF Due, Owes
  <2>5. Over(op[c])'
    BY <2>2, <2>3 DEF Over
  <2> QED
    BY <1>1, <2>2, <2>3, <2>4, <2>5
<1>2. CASE due # None
  <2> DEFINE o == [op[c] EXCEPT !.step = "refund", !.due = due]
  <2>1. op' = [op EXCEPT ![c] = o]
    BY <1>0, <1>2 DEF Settle, Op
  <2>2. o \in Op /\ o.step = "refund" /\ o.due = due /\ o.names = op[c].names
    BY <1>0 DEF Op
  <2> HIDE DEF o
  <2>3. op' \in [Commands -> Op] /\ op'[c] = o /\ \A d \in Commands \ {c} : op'[d] = op[d]
    BY <1>0, <2>1, <2>2
  <2>4. Due(op'[c]) = due
    BY <2>2, <2>3 DEF Due, Owes
  <2>5. Over(op[c])'
    BY <2>2, <2>3 DEF Over
  <2> QED
    BY <2>2, <2>3, <2>4, <2>5
<1> QED
  BY <1>1, <1>2

LEMMA CallTyped ==
    ASSUME TypeOK, NEW c \in Commands, NEW due \in Freed, Settle(c, due), q' = q,
           names' \in [Names -> Inodes \cup {Nothing}], size' \in [Inodes -> 0..MaxSize],
           handle' \in [Commands -> Handle]
    PROVE  TypeOK'
BY Settled DEF TypeOK

LEMMA CallKeeps ==
    ASSUME QuotaInv, TypeOK', NEW c \in Commands, NEW due \in Freed, Settle(c, due), q' = q,
           \A d \in Commands \ {c} : handle'[d] = handle[d],
           handle'[c] # Closed => handle'[c].file \in Inodes,
           OneName',
           \A n \in Names \ op[c].names : names'[n] = names[n] /\ Size(n)' = Size(n),
           \A n \in op[c].names : \/ names'[n] = Nothing
                                  \/ \E m \in op[c].names : names'[n] = names[m]
                                  \/ names'[n] \notin Held,
           Sum(SizeOf, Names)' + due.bytes <= Sum(SizeOf, Names) + Due(op[c]).bytes,
           Cardinality(Linked)' + due.files <= Cardinality(Linked) + Due(op[c]).files
    PROVE  QuotaInv'
<1>1. /\ \A d \in Commands \ {c} : op'[d] = op[d]
      /\ Due(op'[c]) = due /\ op'[c].names \subseteq op[c].names /\ Over(op[c])'
  BY Settled DEF QuotaInv
<1>2. HandlesOpen' /\ Limits'
  BY DEF QuotaInv, HandlesOpen, Limits
<1>3. Untouched(c)
  BY <1>1 DEF Untouched
<1>4. \A d \in Commands \ {c} : op'[c].names \cap op[d].names = {}
  BY <1>1 DEF QuotaInv, Apart
<1>5. Balanced(c)
  <2>1. \A a, b, x, y, z \in Int : a + x <= b + y => a + x - z <= b + y - z
    BY SMT
  <2>2. /\ Sum(SizeOf, Names) \in Int /\ Cardinality(Linked) \in Int
        /\ q.bytes \in Int /\ q.files \in Int
    BY Totals DEF QuotaInv
  <2>3. (Sum(SizeOf, Names) \in Int /\ Cardinality(Linked) \in Int)'
    BY Totals, PTL
  <2>4. /\ Due(op[c]).bytes \in Int /\ Due(op[c]).files \in Int
        /\ due.bytes \in Int /\ due.files \in Int
    BY DueType DEF QuotaInv, Freed
  <2>5. Due(op[c])' = due
    BY <1>1 DEF Due, Owes, None
  <2> QED
    BY <2>1, <2>2, <2>3, <2>4, <2>5 DEF Balanced
<1> QED
  BY <1>1, <1>2, <1>3, <1>4, <1>5, OverIsSound, KeepsQuota DEF Keeps

-----------------------------------------------------------------------------
(* A file of a new size, a new name, a name less.                          *)

LEMMA Resized ==
    ASSUME TypeOK, TypeOK', OneName, names' = names, NEW f \in Inodes, NEW v \in Nat,
           size' = [size EXCEPT ![f] = v]
    PROVE  /\ Linked' = Linked /\ OneName'
           /\ \A n \in Names \ NamesOf(f) : Size(n)' = Size(n)
           /\ NamesOf(f) = {} => Sum(SizeOf, Names)' = Sum(SizeOf, Names)
           /\ NamesOf(f) # {} => Sum(SizeOf, Names)' = Sum(SizeOf, Names) - size[f] + v
<1>1. Linked' = Linked /\ OneName'
  BY DEF Linked, OneName
<1>2. size'[f] = v /\ \A g \in Inodes \ {f} : size'[g] = size[g]
  BY DEF TypeOK
<1>3. \A n \in Names \ NamesOf(f) : Size(n)' = Size(n)
  BY <1>1, <1>2, SizeType DEF Size, NamesOf
<1>4. CASE NamesOf(f) = {}
  BY <1>1, <1>3, <1>4, SizesStay
<1>5. CASE NamesOf(f) # {}
  <2>1. PICK n \in NamesOf(f) : TRUE
    BY <1>5
  <2>2. n \in Linked /\ names[n] = f
    BY DEF NamesOf
  <2>3. NamesOf(f) = {n}
    BY <2>2 DEF NamesOf, OneName
  <2>4. Size(n) = size[f] /\ Size(n)' = v /\ n \in Names
    BY <1>1, <1>2, <2>2 DEF Size, Linked
  <2>5. Sum(SizeOf, Names)' = Sum(SizeOf, Names) - Size(n) + Size(n)'
    BY <1>3, <2>3, <2>4, OneSizeChanges
  <2> QED
    BY <1>1, <1>3, <1>5, <2>4, <2>5
<1> QED
  BY <1>4, <1>5

LEMMA Unlinked ==
    ASSUME TypeOK, TypeOK', OneName, NEW n \in Names, names' = [names EXCEPT ![n] = Nothing], size' = size
    PROVE  /\ OneName'
           /\ \A m \in Names \ {n} : names'[m] = names[m] /\ Size(m)' = Size(m)
           /\ Sum(SizeOf, Names)' = Sum(SizeOf, Names) - Size(n) + 0
           /\ Cardinality(Linked)' = IF n \in Linked THEN Cardinality(Linked) - 1 ELSE Cardinality(Linked)
<1>1. \A m \in Names : names'[m] = IF m = n THEN Nothing ELSE names[m]
  BY DEF TypeOK
<1>2. Linked' = Linked \ {n}
  BY <1>1 DEF Linked
<1>3. OneName'
  BY <1>1, <1>2 DEF OneName, Linked
<1>4. \A m \in Names \ {n} : Size(m)' = Size(m)
  BY <1>1, <1>2 DEF Size
<1>5. Size(n)' = 0
  BY <1>2 DEF Size
<1>6. Cardinality(Linked') = IF n \in Linked THEN Cardinality(Linked) - 1 ELSE Cardinality(Linked)
  BY <1>2, LinkedFinite, FS_RemoveElement
<1> QED
  BY <1>1, <1>3, <1>4, <1>5, <1>6, OneSizeChanges

-----------------------------------------------------------------------------
(* Every wrapped call keeps the invariant.                                 *)

LEMMA Calling ==
    ASSUME QuotaInv, NEW c \in Commands, op[c].step = "call"
    PROVE  /\ TypeOK /\ OneName /\ Pending(op[c], handle[c].file)
           /\ op[c].names \in SUBSET Names
           /\ op[c].kind \in {"open", "write", "truncate"} => Due(op[c]) = op[c].due
           /\ op[c].kind \notin {"open", "write", "truncate"} => Due(op[c]) = None
BY OpType DEF QuotaInv, Measured, Sound, Due, Owes

LEMMA IdleCall ==
    ASSUME QuotaInv, NEW c \in Commands, op[c].step = "call", NEW due \in Freed, Settle(c, due),
           due.bytes <= Due(op[c]).bytes, due.files <= Due(op[c]).files,
           names' = names, size' = size, q' = q,
           handle' \in [Commands -> Handle],
           \A d \in Commands \ {c} : handle'[d] = handle[d],
           handle'[c] # Closed => handle'[c].file \in Inodes
    PROVE  QuotaInv'
<1>1. TypeOK /\ OneName /\ op[c].names \in SUBSET Names
  BY Calling
<1>2. TypeOK'
  BY <1>1, CallTyped DEF TypeOK
<1>3. Linked' = Linked /\ OneName' /\ \A n \in Names : Size(n)' = Size(n)
  BY <1>1 DEF Linked, Size, OneName
<1>4. Sum(SizeOf, Names)' = Sum(SizeOf, Names)
  BY <1>1, <1>2, <1>3, SizesStay
<1>5. \A n \in op[c].names : \E m \in op[c].names : names'[n] = names[m]
  OBVIOUS
<1>6. \A x, y, z \in Int : x <= y => z + x <= z + y
  BY SMT
<1>7. /\ Sum(SizeOf, Names)' + due.bytes <= Sum(SizeOf, Names) + Due(op[c]).bytes
      /\ Cardinality(Linked)' + due.files <= Cardinality(Linked) + Due(op[c]).files
  BY <1>1, <1>3, <1>4, <1>6, Totals, DueType DEF Freed
<1> QED
  BY <1>2, <1>3, <1>5, <1>7, CallKeeps

LEMMA RemoveKeeps ==
    ASSUME QuotaInv, NEW c \in Commands, RemoveCall(c)
    PROVE  QuotaInv'
<1>0. op[c].step = "call" /\ op[c].kind = "remove" /\ size' = size /\ q' = q /\ handle' = handle
  BY DEF RemoveCall
<1>1. TypeOK /\ OneName /\ Due(op[c]) = None /\ RemoveSound(op[c]) /\ handle \in [Commands -> Handle]
  BY <1>0, Calling DEF Pending, TypeOK
<1>2. PICK n \in Names : op[c].names = {n} /\ op[c].due = Used({n})
  BY <1>0, <1>1 DEF RemoveSound
<1>3. CASE op[c].names \subseteq Linked
  <2>1. names' = [names EXCEPT ![n] = Nothing] /\ Settle(c, Used({n})) /\ n \in Linked
    BY <1>1, <1>2, <1>3 DEF RemoveCall, TypeOK
  <2>2. Used({n}) \in Freed
    BY <1>1, UsedIs DEF Used, Freed
  <2>3. TypeOK'
    BY <1>0, <1>1, <2>1, <2>2, CallTyped DEF TypeOK
  <2>4. /\ OneName'
        /\ \A m \in Names \ {n} : names'[m] = names[m] /\ Size(m)' = Size(m)
        /\ Sum(SizeOf, Names)' = Sum(SizeOf, Names) - Size(n) + 0
        /\ Cardinality(Linked)' = Cardinality(Linked) - 1
    BY <1>0, <1>1, <2>1, <2>3, Unlinked
  <2>5. Used({n}).bytes = Size(n) /\ Used({n}).files = 1 /\ Size(n) \in Int
    BY <1>1, <2>1, UsedOne, SizeType
  <2>6. /\ Sum(SizeOf, Names)' + Used({n}).bytes <= Sum(SizeOf, Names) + Due(op[c]).bytes
        /\ Cardinality(Linked)' + Used({n}).files <= Cardinality(Linked) + Due(op[c]).files
    <3>1. \A x, y \in Int : x - y + 0 + y <= x + 0 /\ x - 1 + 1 <= x + 0
      BY SMT
    <3> QED
      BY <1>1, <2>4, <2>5, <3>1, Totals, NoneType
  <2>7. names'[n] = Nothing
    BY <1>1, <2>1 DEF TypeOK
  <2> QED
    BY <1>0, <1>2, <2>1, <2>2, <2>3, <2>4, <2>6, <2>7, CallKeeps DEF QuotaInv, HandlesOpen
<1>4. CASE ~(op[c].names \subseteq Linked)
  <2>1. Settle(c, None) /\ names' = names
    BY <1>4 DEF RemoveCall, Settle
  <2> QED
    BY <1>0, <1>1, <2>1, NoneType, IdleCall DEF QuotaInv, HandlesOpen
<1> QED
  BY <1>3, <1>4

LEMMA RemoveAllKeeps ==
    ASSUME QuotaInv, NEW c \in Commands, RemoveAllCall(c)
    PROVE  QuotaInv'
<1>0. op[c].step = "call" /\ op[c].kind = "removeAll" /\ size' = size /\ q' = q /\ handle' = handle
  BY DEF RemoveAllCall
<1>1. TypeOK /\ OneName /\ Due(op[c]) = None /\ RemoveSound(op[c]) /\ handle \in [Commands -> Handle]
  BY <1>0, Calling DEF Pending, TypeOK
<1>2. PICK S \in SUBSET Names : op[c].names = S /\ op[c].due = Used(S)
  BY <1>0, <1>1, Calling DEF RemoveSound
<1>3. names' = [n \in Names |-> IF n \in S THEN Nothing ELSE names[n]] /\ Settle(c, Used(S))
  BY <1>2 DEF RemoveAllCall
<1>4. Used(S) \in Freed
  BY <1>1, UsedIs DEF Used, Freed
<1>5. TypeOK'
  BY <1>0, <1>1, <1>3, <1>4, CallTyped DEF TypeOK
<1>6. \A n \in S : names'[n] = Nothing
  BY <1>3
<1>7. ASSUME NEW n \in Names, S = {n}
      PROVE  /\ OneName'
             /\ \A m \in Names \ S : names'[m] = names[m] /\ Size(m)' = Size(m)
             /\ Sum(SizeOf, Names)' + Used(S).bytes <= Sum(SizeOf, Names) + Due(op[c]).bytes
             /\ Cardinality(Linked)' + Used(S).files <= Cardinality(Linked) + Due(op[c]).files
  <2>1. names' = [names EXCEPT ![n] = Nothing]
    BY <1>1, <1>3, <1>7 DEF TypeOK
  <2>2. /\ OneName'
        /\ \A m \in Names \ {n} : names'[m] = names[m] /\ Size(m)' = Size(m)
        /\ Sum(SizeOf, Names)' = Sum(SizeOf, Names) - Size(n) + 0
        /\ Cardinality(Linked)' = IF n \in Linked THEN Cardinality(Linked) - 1 ELSE Cardinality(Linked)
    BY <1>0, <1>1, <1>5, <2>1, Unlinked
  <2>3. /\ Used({n}).bytes = Size(n) /\ Size(n) \in Int
        /\ Used({n}).files = IF n \in Linked THEN 1 ELSE 0
    BY <1>1, UsedOne, SizeType
  <2>4. \A x, y \in Int : x - y + 0 + y <= x + 0 /\ x - 1 + 1 <= x + 0 /\ x + 0 <= x + 0
    BY SMT
  <2> QED
    BY <1>1, <1>7, <2>2, <2>3, <2>4, Totals, NoneType
<1>8. ASSUME S = Names
      PROVE  /\ OneName'
             /\ \A m \in Names \ S : names'[m] = names[m] /\ Size(m)' = Size(m)
             /\ Sum(SizeOf, Names)' + Used(S).bytes <= Sum(SizeOf, Names) + Due(op[c]).bytes
             /\ Cardinality(Linked)' + Used(S).files <= Cardinality(Linked) + Due(op[c]).files
  <2>1. Linked' = {} /\ OneName'
    BY <1>3, <1>8 DEF Linked, OneName
  <2>2. \A n \in Names : SizeOf'[n] = 0
    BY <2>1 DEF SizeOf, Size
  <2>3. Sum(SizeOf, Names)' = 0
    BY <2>2, Finite, SumOfZeros, SizeSum
  <2>4. Cardinality(Linked)' = 0
    BY <2>1, FS_EmptySet
  <2>5. Used(Names).bytes = Sum(SizeOf, Names) /\ Used(Names).files = Cardinality(Linked)
    <3>1. Names \in SUBSET Names /\ Names \cap Linked = Linked
      BY DEF Linked
    <3> QED
      BY <1>1, <3>1, UsedIs
  <2>6. \A x \in Int : 0 + x <= x + 0
    BY SMT
  <2> QED
    BY <1>1, <1>8, <2>1, <2>3, <2>4, <2>5, <2>6, Totals, NoneType
<1>9. /\ OneName'
      /\ \A m \in Names \ S : names'[m] = names[m] /\ Size(m)' = Size(m)
      /\ Sum(SizeOf, Names)' + Used(S).bytes <= Sum(SizeOf, Names) + Due(op[c]).bytes
      /\ Cardinality(Linked)' + Used(S).files <= Cardinality(Linked) + Due(op[c]).files
  <2>1. S = Names \/ \E n \in Names : S = {n}
    BY <1>0, <1>1, <1>2 DEF RemoveSound
  <2> QED
    BY <1>7, <1>8, <2>1
<1> QED
  BY <1>0, <1>2, <1>3, <1>4, <1>5, <1>6, <1>9, CallKeeps DEF QuotaInv, HandlesOpen

LEMMA RenameKeeps ==
    ASSUME QuotaInv, NEW c \in Commands, RenameCall(c)
    PROVE  QuotaInv'
<1>0. op[c].step = "call" /\ op[c].kind = "rename" /\ size' = size /\ q' = q /\ handle' = handle
  BY DEF RenameCall
<1>1. TypeOK /\ OneName /\ Due(op[c]) = None /\ RenameSound(op[c]) /\ handle \in [Commands -> Handle]
  BY <1>0, Calling DEF Pending, TypeOK
<1>2. PICK m \in Names, n \in Names : /\ op[c].from = m /\ op[c].to = n /\ m # n
                                      /\ op[c].names = {m, n} /\ op[c].due = Used({n})
  BY <1>0, <1>1 DEF RenameSound
<1>3. CASE m \in Linked
  <2>1. /\ names' = [l \in Names |-> CASE l = n -> names[m]
                                       [] l = m -> Nothing
                                       [] OTHER -> names[l]]
        /\ Settle(c, Used({n}))
    BY <1>2, <1>3 DEF RenameCall
  <2>2. names'[n] = names[m] /\ names'[m] = Nothing /\ \A l \in Names \ {m, n} : names'[l] = names[l]
    BY <1>2, <2>1
  <2>3. Used({n}) \in Freed
    BY <1>1, UsedIs DEF Used, Freed
  <2>4. names' \in [Names -> Inodes \cup {Nothing}]
    BY <1>1, <2>1, <2>2 DEF TypeOK
  <2>5. TypeOK'
    BY <1>0, <1>1, <2>1, <2>3, <2>4, CallTyped DEF TypeOK
  <2>6. Linked' = (Linked \ {m}) \cup {n} /\ n \notin {m} /\ names[m] # Nothing
    BY <1>2, <1>3, <2>2 DEF Linked
  <2>7. OneName'
    <3> SUFFICES ASSUME NEW k \in Linked', NEW l \in Linked', names'[k] = names'[l]
                 PROVE  k = l
      BY DEF OneName
    <3>1. k # m /\ l # m /\ k \in Names /\ l \in Names
      BY <1>2, <2>6 DEF Linked
    <3>2. CASE k = n /\ l # n
      BY <1>1, <1>3, <2>2, <2>6, <3>1, <3>2 DEF OneName
    <3>3. CASE l = n /\ k # n
      BY <1>1, <1>3, <2>2, <2>6, <3>1, <3>3 DEF OneName
    <3>4. CASE k # n /\ l # n
      BY <1>1, <2>2, <2>6, <3>1, <3>4 DEF OneName
    <3> QED
      BY <3>2, <3>3, <3>4
  <2>8. /\ \A l \in Names \ {m, n} : Size(l)' = Size(l)
        /\ Size(n)' = Size(m) /\ Size(m)' = 0
    BY <1>0, <1>2, <1>3, <2>2, <2>6 DEF Size
  <2>9. Sum(SizeOf, Names)' = Sum(SizeOf, Names) - Size(n)
    BY <1>1, <1>2, <2>5, <2>8, FileMoves
  <2>10. Cardinality(Linked') = Cardinality(Linked) - 1 + (IF n \in Linked THEN 0 ELSE 1)
    <3>1. IsFiniteSet(Linked \ {m}) /\ Cardinality(Linked \ {m}) = Cardinality(Linked) - 1
      BY <1>3, LinkedFinite, FS_RemoveElement
    <3>2. Cardinality(Linked') = IF n \in Linked THEN Cardinality(Linked \ {m}) ELSE Cardinality(Linked \ {m}) + 1
      BY <1>2, <2>6, <3>1, FS_AddElement
    <3>3. \A x \in Int : x - 1 + 0 = x - 1
      BY SMT
    <3> QED
      BY <3>1, <3>2, <3>3, LinkedFinite
  <2>11. /\ Used({n}).bytes = Size(n) /\ Size(n) \in Int
         /\ Used({n}).files = IF n \in Linked THEN 1 ELSE 0
    BY <1>1, UsedOne, SizeType
  <2>12. /\ Sum(SizeOf, Names)' + Used({n}).bytes <= Sum(SizeOf, Names) + Due(op[c]).bytes
         /\ Cardinality(Linked)' + Used({n}).files <= Cardinality(Linked) + Due(op[c]).files
    <3>1. \A x, y \in Int : x - y + y <= x + 0 /\ x - 1 + 0 + 1 <= x + 0 /\ x - 1 + 1 + 0 <= x + 0
      BY SMT
    <3> QED
      BY <1>1, <2>9, <2>10, <2>11, <3>1, Totals, NoneType
  <2>13. \A l \in op[c].names : names'[l] = Nothing \/ \E k \in op[c].names : names'[l] = names[k]
    BY <1>2, <2>2
  <2>14. \A l \in Names \ op[c].names : names'[l] = names[l] /\ Size(l)' = Size(l)
    BY <1>2, <2>2, <2>8
  <2> QED
    BY <1>0, <2>1, <2>3, <2>5, <2>7, <2>12, <2>13, <2>14, CallKeeps DEF QuotaInv, HandlesOpen
<1>4. CASE m \notin Linked
  <2>1. Settle(c, None) /\ names' = names
    BY <1>2, <1>4 DEF RenameCall, Settle
  <2> QED
    BY <1>0, <1>1, <2>1, NoneType, IdleCall DEF QuotaInv, HandlesOpen
<1> QED
  BY <1>3, <1>4

LEMMA WriteKeeps ==
    ASSUME QuotaInv, NEW c \in Commands, WriteCall(c)
    PROVE  QuotaInv'
<1>0. op[c].step = "call" /\ op[c].kind = "write" /\ names' = names /\ q' = q
  BY DEF WriteCall
<1>1. /\ TypeOK /\ OneName /\ Due(op[c]) = op[c].due /\ WriteSound(op[c], handle[c].file)
      /\ op[c].off \in 0..MaxSize /\ op[c].due.bytes \in Nat /\ op[c].due.files = 0
  BY <1>0, Calling, OpType DEF Pending, WriteSound
<1>2. PICK f \in Inodes : f = handle[c].file /\ op[c].names = NamesOf(f)
  BY <1>0, <1>1 DEF WriteSound
<1>3. PICK v : v = size[f] + Growth(f, op[c].off)
  OBVIOUS
<1>4. v \in 0..MaxSize /\ v \in Nat /\ v - size[f] = Growth(f, op[c].off) /\ size[f] \in Int
  <2>1. size[f] \in 0..MaxSize
    BY <1>1 DEF TypeOK
  <2>2. PICK s \in 0..MaxSize, e \in 0..MaxSize : s = size[f] /\ e = op[c].off
    BY <1>1, <2>1
  <2>3. v = s + (IF e > s THEN e - s ELSE 0) /\ Growth(f, op[c].off) = IF e > s THEN e - s ELSE 0
    BY <1>3, <2>2 DEF Growth
  <2> QED
    BY <2>2, <2>3, QuotaAssumption, SMT
<1>5. size' = [size EXCEPT ![f] = v] /\ handle' = [handle EXCEPT ![c].at = op[c].off] /\ Settle(c, None)
  BY <1>2, <1>3 DEF WriteCall, Settle
<1>6. /\ handle' \in [Commands -> Handle]
      /\ \A d \in Commands \ {c} : handle'[d] = handle[d]
      /\ handle'[c].file \in Inodes
  BY <1>1, <1>2, <1>5 DEF TypeOK, Handle
<1>7. size' \in [Inodes -> 0..MaxSize] /\ names' \in [Names -> Inodes \cup {Nothing}]
  BY <1>0, <1>1, <1>4, <1>5 DEF TypeOK
<1>8. TypeOK'
  BY <1>0, <1>1, <1>5, <1>6, <1>7, NoneType, CallTyped
<1>9. /\ Linked' = Linked /\ OneName'
      /\ \A n \in Names \ NamesOf(f) : Size(n)' = Size(n)
      /\ NamesOf(f) = {} => Sum(SizeOf, Names)' = Sum(SizeOf, Names)
      /\ NamesOf(f) # {} => Sum(SizeOf, Names)' = Sum(SizeOf, Names) - size[f] + v
  BY <1>0, <1>1, <1>4, <1>5, <1>8, Resized
<1>10. Sum(SizeOf, Names)' + None.bytes <= Sum(SizeOf, Names) + op[c].due.bytes
  <2>1. Sum(SizeOf, Names) \in Int
    BY <1>1, Totals
  <2>2. CASE NamesOf(f) = {}
    <3>1. \A x \in Int, y \in Nat : x + 0 <= x + y
      BY SMT
    <3> QED
      BY <1>1, <1>9, <2>1, <2>2, <3>1, NoneType
  <2>3. CASE NamesOf(f) # {}
    <3>1. v - size[f] <= op[c].due.bytes
      BY <1>0, <1>1, <1>2, <1>4, <2>3 DEF WriteSound
    <3>2. \A x, y, z \in Int, d \in Nat : z - y <= d => x - y + z + 0 <= x + d
      BY SMT
    <3>3. v \in Int
      BY <1>4, SMT
    <3> QED
      BY <1>1, <1>4, <1>9, <2>1, <2>3, <3>1, <3>2, <3>3, NoneType
  <2> QED
    BY <2>2, <2>3
<1>11. Cardinality(Linked)' + None.files <= Cardinality(Linked) + op[c].due.files
  <2>1. \A x \in Int : x + 0 <= x + 0
    BY SMT
  <2> QED
    BY <1>1, <1>9, <2>1, Totals, NoneType
<1>12. /\ \A n \in op[c].names : \E m \in op[c].names : names'[n] = names[m]
       /\ \A n \in Names \ op[c].names : names'[n] = names[n] /\ Size(n)' = Size(n)
  BY <1>0, <1>2, <1>9
<1> QED
  BY <1>0, <1>1, <1>5, <1>6, <1>8, <1>9, <1>10, <1>11, <1>12, NoneType, CallKeeps

LEMMA TruncateKeeps ==
    ASSUME QuotaInv, NEW c \in Commands, TruncateCall(c)
    PROVE  QuotaInv'
<1>0. op[c].step = "call" /\ op[c].kind = "truncate" /\ names' = names /\ q' = q /\ handle' = handle
  BY DEF TruncateCall
<1>1. /\ TypeOK /\ OneName /\ Due(op[c]) = op[c].due /\ WriteSound(op[c], handle[c].file)
      /\ op[c].due.files = 0 /\ op[c].names # {} /\ handle \in [Commands -> Handle]
  BY <1>0, Calling DEF Pending, WriteSound, TypeOK
<1>2. PICK f \in Inodes : f = handle[c].file /\ op[c].names = NamesOf(f)
  BY <1>0, <1>1 DEF WriteSound
<1>3. PICK v \in 0..MaxSize : v = op[c].off
  BY <1>1, OpType
<1>4. v \in Nat /\ size[f] \in Int /\ op[c].due.bytes = v - size[f]
  <2>1. \A x \in 0..MaxSize : x \in Nat /\ x \in Int
    BY QuotaAssumption, SMT
  <2>2. size[f] \in 0..MaxSize
    BY <1>1 DEF TypeOK
  <2> QED
    BY <1>0, <1>1, <1>2, <1>3, <2>1, <2>2 DEF WriteSound
<1>5. size' = [size EXCEPT ![f] = v] /\ Settle(c, None)
  BY <1>2, <1>3 DEF TruncateCall, Settle
<1>6. size' \in [Inodes -> 0..MaxSize] /\ names' \in [Names -> Inodes \cup {Nothing}]
  BY <1>0, <1>1, <1>3, <1>5 DEF TypeOK
<1>7. TypeOK'
  BY <1>0, <1>1, <1>5, <1>6, NoneType, CallTyped
<1>8. /\ Linked' = Linked /\ OneName'
      /\ \A n \in Names \ NamesOf(f) : Size(n)' = Size(n)
      /\ Sum(SizeOf, Names)' = Sum(SizeOf, Names) - size[f] + v
  BY <1>0, <1>1, <1>2, <1>4, <1>5, <1>7, Resized
<1>9. Sum(SizeOf, Names)' + None.bytes <= Sum(SizeOf, Names) + op[c].due.bytes
  <2>1. \A x, y, z \in Int : x - y + z + 0 <= x + (z - y)
    BY SMT
  <2> QED
    BY <1>1, <1>4, <1>8, <2>1, NoneType, Totals
<1>10. Cardinality(Linked)' + None.files <= Cardinality(Linked) + op[c].due.files
  <2>1. \A x \in Int : x + 0 <= x + 0
    BY SMT
  <2> QED
    BY <1>1, <1>8, <2>1, Totals, NoneType
<1>11. /\ \A n \in op[c].names : \E m \in op[c].names : names'[n] = names[m]
       /\ \A n \in Names \ op[c].names : names'[n] = names[n] /\ Size(n)' = Size(n)
  BY <1>0, <1>2, <1>8
<1> QED
  BY <1>0, <1>1, <1>5, <1>7, <1>8, <1>9, <1>10, <1>11, NoneType, CallKeeps DEF QuotaInv, HandlesOpen

LEMMA OpenKeeps ==
    ASSUME QuotaInv, NEW c \in Commands, OpenCall(c)
    PROVE  QuotaInv'
<1>0. op[c].step = "call" /\ op[c].kind = "open" /\ q' = q
  BY DEF OpenCall
<1>1. /\ TypeOK /\ OneName /\ Due(op[c]) = op[c].due /\ OpenSound(op[c])
      /\ handle \in [Commands -> Handle] /\ size \in [Inodes -> 0..MaxSize]
      /\ names \in [Names -> Inodes \cup {Nothing}]
  BY <1>0, Calling DEF Pending, TypeOK
<1>2. PICK n \in Names : /\ n = op[c].to /\ op[c].names = {n} /\ op[c].off = Size(n) /\ op[c].due.bytes = 0
                         /\ op[c].due.files = IF n \notin Linked /\ op[c].mode # "update" THEN 1 ELSE 0
  BY <1>0, <1>1 DEF OpenSound
<1> DEFINE New(f, at) == [file |-> f, append |-> op[c].mode = "append", at |-> at]
<1>3. Size(n) \in Nat /\ Size(n) \in Int /\ 0 \in 0..MaxSize /\ 0 \in Nat
  BY <1>1, SizeType, QuotaAssumption, SMT
<1>5. CASE /\ n \in Linked
           /\ handle' = [handle EXCEPT ![c] = New(names[n], IF op[c].mode = "append"
                                                             THEN size[names[n]] ELSE 0)]
           /\ size' = IF op[c].mode = "truncate" THEN [size EXCEPT ![names[n]] = 0] ELSE size
           /\ Settle(c, IF op[c].mode = "truncate" /\ op[c].due.files = 0
                        THEN [bytes |-> op[c].off, files |-> 0] ELSE None)
           /\ names' = names
  <2>1. names[n] \in Inodes /\ op[c].due.files = 0 /\ size[names[n]] = Size(n)
    BY <1>1, <1>2, <1>5, SizeType
  <2>2. /\ handle' \in [Commands -> Handle]
        /\ \A d \in Commands \ {c} : handle'[d] = handle[d]
        /\ handle'[c].file \in Inodes
    BY <1>1, <1>3, <1>5, <2>1 DEF Handle
  <2>3. CASE op[c].mode = "truncate"
    <3> DEFINE freed == [bytes |-> Size(n), files |-> 0]
    <3>1. Settle(c, freed) /\ size' = [size EXCEPT ![names[n]] = 0]
      BY <1>2, <1>5, <2>1, <2>3
    <3>2. freed \in Freed /\ freed.bytes = Size(n) /\ freed.files = 0
      BY <1>3 DEF Freed
    <3> HIDE DEF freed
    <3>3. size' \in [Inodes -> 0..MaxSize]
      BY <1>1, <1>3, <3>1
    <3>4. TypeOK'
      BY <1>0, <1>1, <1>5, <2>2, <3>1, <3>2, <3>3, CallTyped
    <3>5. NamesOf(names[n]) = {n}
      BY <1>1, <1>5 DEF NamesOf, OneName
    <3>6. /\ Linked' = Linked /\ OneName'
          /\ \A m \in Names \ {n} : Size(m)' = Size(m)
          /\ Sum(SizeOf, Names)' = Sum(SizeOf, Names) - Size(n) + 0
      BY <1>1, <1>3, <1>5, <2>1, <3>1, <3>4, <3>5, Resized
    <3>7. /\ Sum(SizeOf, Names)' + freed.bytes <= Sum(SizeOf, Names) + op[c].due.bytes
          /\ Cardinality(Linked)' + freed.files <= Cardinality(Linked) + op[c].due.files
      <4>1. \A x, y \in Int : x - y + 0 + y <= x + 0 /\ x + 0 <= x + 0
        BY SMT
      <4> QED
        BY <1>1, <1>2, <1>3, <2>1, <3>2, <3>6, <4>1, Totals
    <3>8. \A l \in op[c].names : \E k \in op[c].names : names'[l] = names[k]
      BY <1>5
    <3> QED
      BY <1>0, <1>1, <1>2, <1>5, <2>2, <3>1, <3>2, <3>4, <3>6, <3>7, <3>8, CallKeeps
  <2>4. CASE op[c].mode # "truncate"
    <3>1. Settle(c, None) /\ size' = size
      BY <1>5, <2>4
    <3>2. None.bytes <= op[c].due.bytes /\ None.files <= op[c].due.files
      BY <1>2, <2>1, NoneType, SMT
    <3> QED
      BY <1>0, <1>1, <1>5, <2>2, <3>1, <3>2, NoneType, IdleCall
  <2> QED
    BY <2>3, <2>4
<1>6. CASE /\ n \notin Linked /\ op[c].mode # "update"
           /\ \E f \in Inodes \ Held :
                 /\ names' = [names EXCEPT ![n] = f]
                 /\ size'  = [size EXCEPT ![f] = 0]
                 /\ handle' = [handle EXCEPT ![c] = New(f, 0)]
           /\ Settle(c, IF op[c].mode = "truncate" /\ op[c].due.files = 0
                        THEN [bytes |-> op[c].off, files |-> 0] ELSE None)
  <2>1. op[c].due.files = 1 /\ Settle(c, None)
    BY <1>2, <1>6
  <2>2. PICK f \in Inodes \ Held : /\ names' = [names EXCEPT ![n] = f]
                                   /\ size'  = [size EXCEPT ![f] = 0]
                                   /\ handle' = [handle EXCEPT ![c] = New(f, 0)]
    BY <1>6
  <2>3. /\ handle' \in [Commands -> Handle]
        /\ \A d \in Commands \ {c} : handle'[d] = handle[d]
        /\ handle'[c].file \in Inodes
        /\ size' \in [Inodes -> 0..MaxSize]
        /\ names' \in [Names -> Inodes \cup {Nothing}]
    BY <1>1, <1>3, <2>2 DEF Handle
  <2>4. TypeOK'
    BY <1>0, <1>1, <2>1, <2>3, NoneType, CallTyped
  <2>5. /\ names'[n] = f /\ \A m \in Names \ {n} : names'[m] = names[m]
        /\ size'[f] = 0 /\ \A g \in Inodes \ {f} : size'[g] = size[g]
        /\ f # Nothing /\ \A m \in Linked : names[m] # f
    BY <1>1, <2>2, QuotaAssumption DEF Held
  <2>6. Linked' = Linked \cup {n}
    BY <2>5 DEF Linked
  <2>7. OneName'
    BY <1>1, <2>5, <2>6 DEF OneName, Linked
  <2>8. \A m \in Names : Size(m)' = Size(m)
    <3>1. \A m \in Linked : names[m] \in Inodes
      BY <1>1, SizeType
    <3> QED
      BY <1>6, <2>5, <2>6, <3>1 DEF Size
  <2>9. Sum(SizeOf, Names)' = Sum(SizeOf, Names)
    BY <1>1, <2>4, <2>8, SizesStay
  <2>10. Cardinality(Linked') = Cardinality(Linked) + 1
    BY <1>6, <2>6, LinkedFinite, FS_AddElement
  <2>11. /\ Sum(SizeOf, Names)' + None.bytes <= Sum(SizeOf, Names) + op[c].due.bytes
         /\ Cardinality(Linked)' + None.files <= Cardinality(Linked) + op[c].due.files
    <3>1. \A x \in Int : x + 0 <= x + 0 /\ x + 1 + 0 <= x + 1
      BY SMT
    <3> QED
      BY <1>1, <1>2, <2>1, <2>9, <2>10, <3>1, Totals, NoneType
  <2>12. /\ \A l \in op[c].names : names'[l] \notin Held
         /\ \A l \in Names \ op[c].names : names'[l] = names[l] /\ Size(l)' = Size(l)
    BY <1>2, <2>2, <2>5, <2>8
  <2> QED
    BY <1>0, <1>1, <2>1, <2>3, <2>4, <2>7, <2>11, <2>12, NoneType, CallKeeps
<1>7. CASE /\ n \notin Linked
           /\ Settle(c, [bytes |-> 0, files |-> op[c].due.files])
           /\ UNCHANGED <<names, size, handle>>
  <2> DEFINE back == [bytes |-> 0, files |-> op[c].due.files]
  <2>1. Settle(c, back) /\ names' = names /\ size' = size /\ handle' = handle
    BY <1>7
  <2>2. op[c].due.files \in Nat /\ 0 <= op[c].due.bytes /\ op[c].due.files <= op[c].due.files
    BY <1>2, SMT
  <2>3. back \in Freed /\ back.bytes = 0 /\ back.files = op[c].due.files
    BY <2>2 DEF Freed
  <2> HIDE DEF back
  <2> QED
    BY <1>0, <1>1, <2>1, <2>2, <2>3, IdleCall DEF QuotaInv, HandlesOpen
<1> QED
  BY <1>2, <1>5, <1>6, <1>7 DEF OpenCall

-----------------------------------------------------------------------------
(* Reserving, giving back, closing: the files stay as they are.            *)

LEMMA FilesStay ==
    ASSUME QuotaInv, TypeOK', NEW c \in Commands, names' = names, size' = size,
           \A d \in Commands \ {c} : op'[d] = op[d] /\ handle'[d] = handle[d],
           HandlesOpen', Limits', Sound(op[c], handle[c].file)',
           \A d \in Commands \ {c} : op'[c].names \cap op[d].names = {},
           Due(op[c])'.bytes - q'.bytes <= Due(op[c]).bytes - q.bytes,
           Due(op[c])'.files - q'.files <= Due(op[c]).files - q.files
    PROVE  QuotaInv'
<1>1. TypeOK /\ OneName /\ op[c].names \in SUBSET Names
  BY OpType DEF QuotaInv
<1>2. Linked' = Linked /\ OneName' /\ \A n \in Names : Size(n)' = Size(n)
  BY <1>1 DEF Linked, Size, OneName
<1>3. Sum(SizeOf, Names)' = Sum(SizeOf, Names)
  BY <1>1, <1>2, SizesStay
<1>4. Untouched(c)
  BY <1>1, <1>2 DEF Untouched
<1>5. Balanced(c)
  <2>1. \A a, x, y, v, w \in Int : x - v <= y - w => a + x - v <= a + y - w
    BY SMT
  <2>2. /\ Sum(SizeOf, Names) \in Int /\ Cardinality(Linked) \in Int
        /\ q.bytes \in Int /\ q.files \in Int
    BY <1>1, Totals
  <2>3. (q.bytes \in Int /\ q.files \in Int)'
    BY Totals, PTL
  <2>4. Due(op[c]).bytes \in Int /\ Due(op[c]).files \in Int
    BY <1>1, DueType
  <2>5. (Due(op[c]).bytes \in Int /\ Due(op[c]).files \in Int)'
    BY DueType, PTL
  <2> QED
    BY <1>2, <1>3, <2>1, <2>2, <2>3, <2>4, <2>5 DEF Balanced
<1> QED
  BY <1>2, <1>4, <1>5, KeepsQuota DEF Keeps

LEMMA ChargeType ==
    ASSUME TypeOK, NEW d \in Usage, Charge(d)
    PROVE  q' \in Usage /\ q'.bytes = q.bytes + d.bytes /\ q'.files = q.files + d.files
<1>1. q.bytes + d.bytes \in Int /\ q.files + d.files \in Int
  BY SMT DEF TypeOK, Usage
<1>2. q' = [bytes |-> q.bytes + d.bytes, files |-> q.files + d.files]
  BY DEF Charge
<1> QED
  BY <1>1, <1>2 DEF Usage

(* The wrapped call is not made, or everything is settled.                 *)
LEMMA Finished ==
    ASSUME TypeOK, NEW c \in Commands, Finish(c)
    PROVE  /\ op' \in [Commands -> Op]
           /\ \A d \in Commands \ {c} : op'[d] = op[d]
           /\ op'[c].names = {} /\ Due(op[c])' = None /\ Sound(op[c], handle[c].file)'
<1>1. Settle(c, None)
  BY DEF Settle
<1>2. /\ op' \in [Commands -> Op]
      /\ \A d \in Commands \ {c} : op'[d] = op[d]
      /\ Due(op'[c]) = None /\ Over(op[c])'
  BY <1>1, NoneType, Settled
<1>3. op'[c] = Idle
  BY DEF Finish, TypeOK
<1> QED
  BY <1>2, <1>3, OverIsSound DEF Idle, Due, Owes, None

LEMMA ReserveKeeps ==
    ASSUME QuotaInv, NEW c \in Commands, Reserve(c)
    PROVE  QuotaInv'
<1>0. TypeOK /\ Limits /\ HandlesOpen /\ q.bytes \in Int /\ q.files \in Int
  BY DEF QuotaInv, TypeOK, Usage
<1>1. /\ op[c].step = "reserve" /\ names' = names /\ size' = size /\ handle' = handle
      /\ HandlesOpen'
  BY <1>0 DEF Reserve, HandlesOpen
<1>2. /\ op[c].kind \in {"open", "write", "truncate"} /\ Pending(op[c], handle[c].file)
      /\ Due(op[c]) = None /\ op[c].due \in Usage
      /\ op[c].due.bytes \in Int /\ op[c].due.files \in Int
      /\ op[c] \in Op /\ op \in [Commands -> Op]
  BY <1>0, <1>1, OpType DEF QuotaInv, Measured, Sound, Due, Owes, TypeOK, Op
<1>3. CASE /\ Fits(op[c].due)
           /\ Charge(op[c].due)
           /\ op' = [op EXCEPT ![c].step = "call"]
  <2> DEFINE o == [op[c] EXCEPT !.step = "call"]
  <2>1. /\ o \in Op /\ o.step = "call" /\ o.kind = op[c].kind /\ o.names = op[c].names /\ o.due = op[c].due
        /\ o.to = op[c].to /\ o.from = op[c].from /\ o.mode = op[c].mode /\ o.off = op[c].off
    BY <1>2 DEF Op
  <2>2. op' = [op EXCEPT ![c] = o]
    BY <1>2, <1>3
  <2> HIDE DEF o
  <2>3. op' \in [Commands -> Op] /\ op'[c] = o /\ \A d \in Commands \ {c} : op'[d] = op[d]
    BY <1>2, <2>1, <2>2
  <2>4. q' \in Usage /\ q'.bytes = q.bytes + op[c].due.bytes /\ q'.files = q.files + op[c].due.files
    BY <1>0, <1>2, <1>3, ChargeType
  <2>5. TypeOK'
    BY <1>0, <1>1, <2>3, <2>4 DEF TypeOK
  <2>6. Due(op[c])' = op[c].due
    BY <1>2, <2>1, <2>3 DEF Due, Owes
  <2>7. Limits'
    <3>1. \A x, d, m \in Int : x <= m /\ (d > 0 => x + d <= m) => x + d <= m
      BY SMT
    <3>2. maxBytes \in Int /\ maxFiles \in Int
      BY QuotaAssumption, SMT
    <3> QED
      BY <1>0, <1>2, <1>3, <2>4, <3>1, <3>2 DEF Limits, Fits
  <2>8. Sound(op[c], handle[c].file)'
    <3>1. PICK f : f = handle[c].file
      OBVIOUS
    <3>2. Pending(op[c], f) /\ handle'[c].file = f
      BY <1>1, <1>2, <3>1
    <3>3. Linked' = Linked /\ \A n \in Names : Size(n)' = Size(n)
      BY <1>1 DEF Linked, Size
    <3>4. \A S \in SUBSET Names : Used(S)' = Used(S)
      BY <1>0, <1>1, <2>5, <3>3, SameUsed
    <3>5. PICK u : u = o
      OBVIOUS
    <3>6. Pending(u, f)
      BY <2>1, <3>2, <3>5 DEF Pending, OpenSound, RemoveSound, RenameSound, WriteSound
    <3>7. u \in Op /\ u.kind \in {"open", "write", "truncate"}
      BY <1>2, <2>1, <3>5
    <3>8. Pending(u, f)'
      <4>1. OpenSound(u)'
        BY <3>3, <3>6 DEF Pending, OpenSound
      <4>2. RemoveSound(u)' /\ RenameSound(u)'
        BY <3>7 DEF RemoveSound, RenameSound
      <4>3. WriteSound(u, f)'
        BY <1>1, <3>3, <3>6 DEF Pending, WriteSound, NamesOf, Growth
      <4> QED
        BY <4>1, <4>2, <4>3 DEF Pending
    <3>9. op'[c] = u /\ u.step = "call"
      BY <2>1, <2>3, <3>5
    <3> QED
      BY <3>2, <3>8, <3>9 DEF Sound
  <2>9. /\ Due(op[c])'.bytes - q'.bytes <= Due(op[c]).bytes - q.bytes
        /\ Due(op[c])'.files - q'.files <= Due(op[c]).files - q.files
    <3>1. \A x, d \in Int : d - (x + d) <= 0 - x
      BY SMT
    <3> QED
      BY <1>0, <1>2, <2>4, <2>6, <3>1, NoneType
  <2>10. \A d \in Commands \ {c} : op'[c].names \cap op[d].names = {}
    BY <2>1, <2>3 DEF QuotaInv, Apart
  <2> QED
    BY <1>1, <2>3, <2>5, <2>7, <2>8, <2>9, <2>10, FilesStay
<1>4. CASE ~Fits(op[c].due) /\ Finish(c) /\ q' = q
  <2>1. /\ op' \in [Commands -> Op]
        /\ \A d \in Commands \ {c} : op'[d] = op[d]
        /\ op'[c].names = {} /\ Due(op[c])' = None /\ Sound(op[c], handle[c].file)'
    BY <1>0, <1>4, Finished
  <2>2. TypeOK' /\ Limits'
    BY <1>0, <1>1, <1>4, <2>1 DEF TypeOK, Limits
  <2>3. \A x \in Int : 0 - x <= 0 - x
    BY SMT
  <2> QED
    BY <1>0, <1>1, <1>2, <1>4, <2>1, <2>2, <2>3, NoneType, FilesStay
<1> QED
  BY <1>3, <1>4 DEF Reserve

LEMMA RefundKeeps ==
    ASSUME QuotaInv, NEW c \in Commands, Refund(c)
    PROVE  QuotaInv'
<1>0. TypeOK /\ Limits /\ HandlesOpen /\ q.bytes \in Int /\ q.files \in Int
  BY DEF QuotaInv, TypeOK, Usage
<1>1. /\ op[c].step = "refund" /\ names' = names /\ size' = size /\ handle' = handle
      /\ Charge(Minus(op[c].due)) /\ Finish(c) /\ HandlesOpen'
  BY <1>0 DEF Refund, HandlesOpen
<1>2. Due(op[c]) = op[c].due /\ op[c].due.bytes \in Nat /\ op[c].due.files \in Nat
  BY <1>1 DEF QuotaInv, Measured, Sound, Due, Owes
<1>3. /\ Minus(op[c].due) \in Usage
      /\ Minus(op[c].due).bytes = -op[c].due.bytes /\ Minus(op[c].due).files = -op[c].due.files
  BY <1>2, SMT DEF Minus, Usage
<1>4. q' \in Usage /\ q'.bytes = q.bytes - op[c].due.bytes /\ q'.files = q.files - op[c].due.files
  <2>1. q' \in Usage /\ q'.bytes = q.bytes + (-op[c].due.bytes) /\ q'.files = q.files + (-op[c].due.files)
    BY <1>0, <1>1, <1>3, ChargeType
  <2>2. \A x \in Int, d \in Nat : x + (-d) = x - d
    BY SMT
  <2> QED
    BY <1>0, <1>2, <2>1, <2>2
<1>5. /\ op' \in [Commands -> Op]
      /\ \A d \in Commands \ {c} : op'[d] = op[d]
      /\ op'[c].names = {} /\ Due(op[c])' = None /\ Sound(op[c], handle[c].file)'
  BY <1>0, <1>1, Finished
<1>6. TypeOK'
  BY <1>0, <1>1, <1>4, <1>5 DEF TypeOK
<1>7. Limits'
  <2>1. \A x, m \in Int, d \in Nat : x <= m => x - d <= m
    BY SMT
  <2>2. maxBytes \in Int /\ maxFiles \in Int
    BY QuotaAssumption, SMT
  <2> QED
    BY <1>0, <1>2, <1>4, <2>1, <2>2 DEF Limits
<1>8. /\ Due(op[c])'.bytes - q'.bytes <= Due(op[c]).bytes - q.bytes
      /\ Due(op[c])'.files - q'.files <= Due(op[c]).files - q.files
  <2>1. \A x \in Int, d \in Nat : 0 - (x - d) <= d - x
    BY SMT
  <2> QED
    BY <1>0, <1>2, <1>4, <1>5, <2>1, NoneType
<1> QED
  BY <1>1, <1>5, <1>6, <1>7, <1>8, FilesStay

LEMMA CloseKeeps ==
    ASSUME QuotaInv, NEW c \in Commands, Close(c)
    PROVE  QuotaInv'
<1>0. TypeOK /\ Limits /\ HandlesOpen /\ q.bytes \in Int /\ q.files \in Int /\ handle \in [Commands -> Handle]
  BY DEF QuotaInv, TypeOK, Usage
<1>1. /\ op[c].step = "idle" /\ names' = names /\ size' = size /\ q' = q /\ op' = op
      /\ handle' = [handle EXCEPT ![c] = Closed]
  BY DEF Close
<1>2. Closed \in Handle
  BY QuotaAssumption, SMT DEF Closed, Handle
<1>3. /\ handle' \in [Commands -> Handle] /\ handle'[c] = Closed
      /\ \A d \in Commands \ {c} : handle'[d] = handle[d]
  BY <1>0, <1>1, <1>2
<1>4. TypeOK' /\ Limits'
  BY <1>0, <1>1, <1>3 DEF TypeOK, Limits
<1>5. HandlesOpen'
  BY <1>0, <1>3 DEF HandlesOpen
<1>6. op[c].names = {}
  BY <1>1 DEF QuotaInv, Measured, Sound
<1>7. Sound(op[c], handle[c].file)'
  BY <1>1, <1>6 DEF Sound
<1>8. Due(op[c])' = Due(op[c])
  BY <1>1 DEF Due, Owes, None
<1>9. /\ Due(op[c])'.bytes - q'.bytes <= Due(op[c]).bytes - q.bytes
      /\ Due(op[c])'.files - q'.files <= Due(op[c]).files - q.files
  <2>1. \A x, y \in Int : x - y <= x - y
    BY SMT
  <2> QED
    BY <1>0, <1>1, <1>8, <2>1, DueType
<1> QED
  BY <1>1, <1>3, <1>4, <1>5, <1>6, <1>7, <1>9, FilesStay

-----------------------------------------------------------------------------
(* Measuring: an operation starts on files no other one is busy with.      *)

LEMMA PendingSame ==
    ASSUME TypeOK, TypeOK', names' = names, size' = size, NEW o \in Op, NEW f, Pending(o, f)
    PROVE  Pending(o, f)'
<1>1. Linked' = Linked /\ \A n \in Names : Size(n)' = Size(n)
  BY DEF Linked, Size
<1>2. \A S \in SUBSET Names : Used(S)' = Used(S)
  BY <1>1, SameUsed
<1>3. o.names \in SUBSET Names
  BY DEF Op
<1>4. OpenSound(o)'
  BY <1>1 DEF Pending, OpenSound
<1>5. RemoveSound(o)'
  BY <1>2, <1>3 DEF Pending, RemoveSound
<1>6. RenameSound(o)'
  <2>1. o.kind = "rename" => {o.to} \in SUBSET Names
    BY DEF Pending, RenameSound
  <2> QED
    BY <1>2, <2>1 DEF Pending, RenameSound
<1>7. WriteSound(o, f)'
  BY <1>1 DEF Pending, WriteSound, NamesOf, Growth
<1> QED
  BY <1>4, <1>5, <1>6, <1>7 DEF Pending

LEMMA BeginKeeps ==
    ASSUME QuotaInv, ~Overlap, NEW c \in Commands, NEW o \in Op, Begin(c, o),
           \/ o.step = "reserve" /\ o.kind \in {"open", "write", "truncate"}
           \/ o.step = "call" /\ Due(o) = None,
           Pending(o, handle[c].file)
    PROVE  QuotaInv'
<1>0. TypeOK /\ Limits /\ HandlesOpen /\ q.bytes \in Int /\ q.files \in Int /\ op \in [Commands -> Op]
  BY DEF QuotaInv, TypeOK, Usage
<1>1. /\ op[c].step = "idle" /\ names' = names /\ size' = size /\ q' = q /\ handle' = handle
      /\ op' = [op EXCEPT ![c] = o]
      /\ \A d \in Busy : op[d].names \cap o.names = {}
  BY DEF Begin
<1>2. op' \in [Commands -> Op] /\ op'[c] = o /\ \A d \in Commands \ {c} : op'[d] = op[d]
  BY <1>0, <1>1
<1>3. TypeOK' /\ Limits' /\ HandlesOpen'
  BY <1>0, <1>1, <1>2 DEF TypeOK, Limits, HandlesOpen
<1>4. \A d \in Commands \ {c} : op'[c].names \cap op[d].names = {}
  <2> SUFFICES ASSUME NEW d \in Commands \ {c}
               PROVE  o.names \cap op[d].names = {}
    BY <1>2
  <2>1. CASE d \in Busy
    BY <1>1, <2>1
  <2>2. CASE d \notin Busy
    BY <2>2 DEF Busy, QuotaInv, Measured, Sound
  <2> QED
    BY <2>1, <2>2
<1>5. Due(op[c]) = None /\ Due(op[c])' = None
  BY <1>1, <1>2 DEF Due, Owes, None
<1>6. Sound(op[c], handle[c].file)'
  <2>1. PICK f : f = handle[c].file
    OBVIOUS
  <2>2. Pending(o, f) /\ handle'[c].file = f
    BY <1>1, <2>1
  <2>6. Pending(o, f)'
    BY <1>0, <1>1, <1>3, <2>2, PendingSame
  <2> QED
    BY <1>2, <2>2, <2>6 DEF Sound
<1>7. \A x \in Int : 0 - x <= 0 - x
  BY SMT
<1> QED
  BY <1>0, <1>1, <1>2, <1>3, <1>4, <1>5, <1>6, <1>7, NoneType, FilesStay

LEMMA IdleType == Idle \in Op
BY NoneType, QuotaAssumption, SMT DEF Idle, Op, Kinds, Modes

LEMMA OpenBegins ==
    ASSUME QuotaInv, ~Overlap, NEW c \in Commands, Open(c)
    PROVE  QuotaInv'
<1>0. TypeOK
  BY DEF QuotaInv
<1>1. PICK n \in Names, mode \in Modes :
        LET new == n \notin Linked /\ mode # "update"
            due == [bytes |-> 0, files |-> IF new THEN 1 ELSE 0]
        IN Begin(c, [Idle EXCEPT !.step = Reserving(due), !.kind = "open", !.names = {n},
                                 !.to = n, !.mode = mode, !.off = Size(n), !.due = due])
  BY DEF Open
<1> DEFINE due == [bytes |-> 0, files |-> IF n \notin Linked /\ mode # "update" THEN 1 ELSE 0]
           o == [Idle EXCEPT !.step = Reserving(due), !.kind = "open", !.names = {n},
                             !.to = n, !.mode = mode, !.off = Size(n), !.due = due]
<1>2. Begin(c, o)
  BY <1>1
<1>3. /\ due \in Usage /\ due.bytes = 0 /\ (due = None <=> due.files = 0)
      /\ due.files = IF n \notin Linked /\ mode # "update" THEN 1 ELSE 0
  BY SMT DEF Usage, None
<1>4. Size(n) \in 0..MaxSize
  BY <1>0, QuotaAssumption, SMT DEF TypeOK, Size, Linked
<1> HIDE DEF due
<1>5. /\ o \in Op /\ o.step = Reserving(due) /\ o.kind = "open" /\ o.names = {n} /\ o.to = n
      /\ o.mode = mode /\ o.off = Size(n) /\ o.due = due
  BY <1>3, <1>4, IdleType DEF Op, Reserving, Kinds
<1> HIDE DEF o
<1>6. \/ o.step = "reserve" /\ o.kind \in {"open", "write", "truncate"}
      \/ o.step = "call" /\ Due(o) = None
  BY <1>5 DEF Reserving, Due, None
<1>7. Pending(o, handle[c].file)
  BY <1>3, <1>5 DEF Pending, OpenSound, RemoveSound, RenameSound, WriteSound
<1> QED
  BY <1>2, <1>5, <1>6, <1>7, BeginKeeps

LEMMA RemoveBegins ==
    ASSUME QuotaInv, ~Overlap, NEW c \in Commands, Remove(c) \/ RemoveAll(c)
    PROVE  QuotaInv'
<1>0. TypeOK
  BY DEF QuotaInv
<1>1. PICK kind \in {"remove", "removeAll"}, S \in SUBSET Names :
        /\ Begin(c, [Idle EXCEPT !.step = "call", !.kind = kind, !.names = S, !.due = Used(S)])
        /\ \/ \E n \in Names : S = {n}
           \/ kind = "removeAll" /\ S = Names
  <2>1. CASE Remove(c)
    <3>1. PICK n \in Names :
            Begin(c, [Idle EXCEPT !.step = "call", !.kind = "remove", !.names = {n}, !.due = Used({n})])
      BY <2>1 DEF Remove
    <3> QED
      BY <3>1
  <2>2. CASE RemoveAll(c)
    <3>1. PICK S \in {{n} : n \in Names} \cup {Names} :
            Begin(c, [Idle EXCEPT !.step = "call", !.kind = "removeAll", !.names = S, !.due = Used(S)])
      BY <2>2 DEF RemoveAll
    <3> QED
      BY <3>1
  <2> QED
    BY <2>1, <2>2
<1> DEFINE o == [Idle EXCEPT !.step = "call", !.kind = kind, !.names = S, !.due = Used(S)]
<1>2. Begin(c, o)
  BY <1>1
<1>3. Used(S) \in Usage
  <2>1. Used(S).bytes \in Int /\ Used(S).files \in Int
    <3>1. Used(S).bytes \in Nat /\ Used(S).files \in Nat
      BY <1>0, UsedIs
    <3> QED
      BY <3>1, SMT
  <2> QED
    BY <2>1 DEF Used, Usage
<1>4. o \in Op /\ o.step = "call" /\ o.kind = kind /\ o.names = S /\ o.due = Used(S)
  BY <1>3, IdleType DEF Op, Kinds
<1> HIDE DEF o
<1>5. Due(o) = None
  BY <1>4 DEF Due, Owes
<1>6. Pending(o, handle[c].file)
  BY <1>1, <1>4 DEF Pending, OpenSound, RemoveSound, RenameSound, WriteSound
<1> QED
  BY <1>2, <1>4, <1>5, <1>6, BeginKeeps

LEMMA RenameBegins ==
    ASSUME QuotaInv, ~Overlap, ~RefundTwice, NEW c \in Commands, Rename(c)
    PROVE  QuotaInv'
<1>0. TypeOK
  BY DEF QuotaInv
<1>1. PICK m \in Names, n \in Names :
        /\ m # n
        /\ Begin(c, [Idle EXCEPT !.step = "call", !.kind = "rename", !.names = {m, n},
                                 !.from = m, !.to = n, !.due = Used({n})])
  BY DEF Rename
<1> DEFINE o == [Idle EXCEPT !.step = "call", !.kind = "rename", !.names = {m, n},
                             !.from = m, !.to = n, !.due = Used({n})]
<1>2. Begin(c, o)
  BY <1>1
<1>3. Used({n}) \in Usage
  <2>1. Used({n}).bytes \in Int /\ Used({n}).files \in Int
    <3>1. {n} \in SUBSET Names
      OBVIOUS
    <3>2. Used({n}).bytes \in Nat /\ Used({n}).files \in Nat
      BY <1>0, <3>1, UsedIs
    <3> QED
      BY <3>2, SMT
  <2> QED
    BY <2>1 DEF Used, Usage
<1>4. /\ o \in Op /\ o.step = "call" /\ o.kind = "rename" /\ o.names = {m, n} /\ o.from = m /\ o.to = n
      /\ o.due = Used({n})
  BY <1>3, IdleType DEF Op, Kinds
<1> HIDE DEF o
<1>5. Due(o) = None
  BY <1>4 DEF Due, Owes
<1>6. Pending(o, handle[c].file)
  BY <1>1, <1>4 DEF Pending, OpenSound, RemoveSound, RenameSound, WriteSound
<1> QED
  BY <1>2, <1>4, <1>5, <1>6, BeginKeeps

LEMMA GrowthType ==
    ASSUME TypeOK, NEW f \in Inodes, NEW end \in Nat
    PROVE  Growth(f, end) \in Nat
<1>1. size[f] \in Nat
  BY QuotaAssumption, SMT DEF TypeOK
<1>2. PICK s \in Nat : s = size[f]
  BY <1>1
<1> QED
  BY <1>2, SMT DEF Growth

LEMMA GrowthGrows ==
    ASSUME TypeOK, NEW f \in Inodes, NEW m \in Nat, NEW n \in Nat, m <= n
    PROVE  Growth(f, m) <= Growth(f, n)
<1>1. size[f] \in Nat
  BY QuotaAssumption, SMT DEF TypeOK
<1>2. PICK s \in Nat : s = size[f]
  BY <1>1
<1> QED
  BY <1>2, SMT DEF Growth

(* A command is charged at least for what its write will add.              *)
LEMMA WriteBegins ==
    ASSUME QuotaInv, ~Overlap, ~AppendStale, NEW c \in Commands, Write(c)
    PROVE  QuotaInv'
<1>0. TypeOK /\ handle[c] # Closed /\ handle[c].file \in Inodes
  BY DEF QuotaInv, HandlesOpen, Write
<1>1. PICK f \in Inodes : f = handle[c].file
  BY <1>0
<1>2. size[f] \in Nat /\ handle[c].at \in Nat
  <2>1. size[f] \in 0..MaxSize /\ handle[c].at \in 0..MaxSize
    BY <1>0, <1>1 DEF TypeOK, Handle
  <2> QED
    BY <2>1, QuotaAssumption, SMT
<1>3. PICK call \in {"Write", "WriteAt"}, n \in 1..2 :
        LET at   == IF call = "Write" THEN handle[c].at ELSE 0
            from == IF call = "Write" /\ handle[c].append THEN size[f] ELSE at
            due  == [bytes |-> Growth(f, from + n), files |-> 0]
        IN
        /\ from < at => AppendStale
        /\ at + n <= MaxSize
        /\ Begin(c, [Idle EXCEPT !.step = Reserving(due), !.kind = "write", !.off = at + n,
                                 !.names = NamesOf(f), !.due = due])
  BY <1>1 DEF Write
<1>4. PICK at : at = IF call = "Write" THEN handle[c].at ELSE 0
  OBVIOUS
<1>5. PICK from : from = IF call = "Write" /\ handle[c].append THEN size[f] ELSE at
  OBVIOUS
<1>6. at \in Nat /\ from \in Nat
  BY <1>2, <1>4, <1>5, SMT
<1>7. PICK end, charged : end = at + n /\ charged = from + n
  OBVIOUS
<1> DEFINE due == [bytes |-> Growth(f, charged), files |-> 0]
           o == [Idle EXCEPT !.step = Reserving(due), !.kind = "write", !.off = end,
                             !.names = NamesOf(f), !.due = due]
<1>8. ~(from < at) /\ end <= MaxSize /\ Begin(c, o)
  BY <1>3, <1>4, <1>5, <1>7
<1>9. end \in 0..MaxSize /\ end \in Nat /\ charged \in Nat /\ end <= charged
  BY <1>6, <1>7, <1>8, QuotaAssumption, SMT
<1>10. /\ due \in Usage /\ due.bytes = Growth(f, charged) /\ due.bytes \in Nat /\ due.files = 0
       /\ Growth(f, end) <= due.bytes
  <2>1. Growth(f, charged) \in Nat /\ Growth(f, charged) \in Int /\ 0 \in Int
    BY <1>0, <1>9, GrowthType, SMT
  <2>2. Growth(f, end) <= Growth(f, charged)
    BY <1>0, <1>9, GrowthGrows
  <2> QED
    BY <2>1, <2>2 DEF Usage
<1>11. NamesOf(f) \in SUBSET Names
  BY DEF NamesOf, Linked
<1> HIDE DEF due
<1>12. /\ o \in Op /\ o.step = Reserving(due) /\ o.kind = "write" /\ o.names = NamesOf(f)
       /\ o.off = end /\ o.due = due
  BY <1>9, <1>10, <1>11, IdleType DEF Op, Reserving, Kinds
<1> HIDE DEF o
<1>13. \/ o.step = "reserve" /\ o.kind \in {"open", "write", "truncate"}
       \/ o.step = "call" /\ Due(o) = None
  BY <1>12 DEF Reserving, Due, None
<1>14. Pending(o, f)
  BY <1>10, <1>12 DEF Pending, OpenSound, RemoveSound, RenameSound, WriteSound
<1> QED
  BY <1>1, <1>8, <1>12, <1>13, <1>14, BeginKeeps

LEMMA TruncateBegins ==
    ASSUME QuotaInv, ~Overlap, ~RefundTwice, NEW c \in Commands, Truncate(c)
    PROVE  QuotaInv'
<1>0. TypeOK /\ handle[c] # Closed /\ handle[c].file \in Inodes
  BY DEF QuotaInv, HandlesOpen, Truncate
<1>1. PICK f \in Inodes : f = handle[c].file
  BY <1>0
<1>2. PICK to \in 0..MaxSize :
        LET due == [bytes |-> to - size[f], files |-> 0] IN
        /\ NamesOf(f) = {} => RefundTwice
        /\ Begin(c, [Idle EXCEPT !.step = Reserving(due), !.kind = "truncate", !.off = to,
                                 !.names = NamesOf(f), !.due = due])
  BY <1>1 DEF Truncate
<1> DEFINE due == [bytes |-> to - size[f], files |-> 0]
           o == [Idle EXCEPT !.step = Reserving(due), !.kind = "truncate", !.off = to,
                             !.names = NamesOf(f), !.due = due]
<1>3. Begin(c, o) /\ NamesOf(f) # {} /\ NamesOf(f) \in SUBSET Names
  BY <1>2 DEF NamesOf, Linked
<1>4. due \in Usage /\ due.bytes = to - size[f] /\ due.files = 0
  <2>1. PICK s \in 0..MaxSize : s = size[f]
    BY <1>0 DEF TypeOK
  <2>2. to - s \in Int /\ 0 \in Int
    BY SMT
  <2> QED
    BY <2>1, <2>2 DEF Usage
<1> HIDE DEF due
<1>5. /\ o \in Op /\ o.step = Reserving(due) /\ o.kind = "truncate" /\ o.names = NamesOf(f)
      /\ o.off = to /\ o.due = due
  BY <1>3, <1>4, IdleType DEF Op, Reserving, Kinds
<1> HIDE DEF o
<1>6. \/ o.step = "reserve" /\ o.kind \in {"open", "write", "truncate"}
      \/ o.step = "call" /\ Due(o) = None
  BY <1>5 DEF Reserving, Due, None
<1>7. Pending(o, f)
  BY <1>3, <1>4, <1>5 DEF Pending, OpenSound, RemoveSound, RenameSound, WriteSound
<1> QED
  BY <1>1, <1>3, <1>5, <1>6, <1>7, BeginKeeps

-----------------------------------------------------------------------------
(* The invariant holds.                                                    *)

LEMMA QuotaInvInit == Init => QuotaInv
<1> SUFFICES ASSUME Init
             PROVE  QuotaInv
  OBVIOUS
<1>1. TypeOK
  <2>1. Used(Names) \in Usage
    <3>1. IsFiniteSet(Names \cap Linked) /\ Names \in SUBSET Names
      BY FS_Subset, Finite
    <3>2. Cardinality(Names \cap Linked) \in Int
      BY <3>1, FS_CardinalityType
    <3>3. \A n \in Names : SizeOf[n] \in Int
      <4>1. \A f \in Inodes : size[f] \in Int
        BY QuotaAssumption, SMT DEF Init
      <4> QED
        BY <4>1 DEF Init, SizeOf, Size, Linked
    <3>4. MapThenSumSet(Size, Names) = Sum(SizeOf, Names)
      BY <3>1, FoldOfSizes, Finite DEF SizeOf
    <3>5. Sum(SizeOf, Names) \in Int
      BY <3>1, <3>3, Finite, SumType
    <3> QED
      BY <3>2, <3>4, <3>5 DEF Used, Usage
  <2>2. Closed \in Handle
    BY QuotaAssumption, SMT DEF Closed, Handle
  <2> QED
    BY <2>1, <2>2, IdleType DEF Init, TypeOK
<1>2. OneName
  BY DEF Init, OneName, Linked
<1>3. \A c \in Commands : op[c] = Idle /\ handle[c] = Closed
  BY DEF Init
<1>4. \A c \in Commands : op[c].step = "idle" /\ op[c].names = {} /\ Due(op[c]) = None
  BY <1>3 DEF Idle, Due, Owes
<1>5. HandlesOpen /\ Measured /\ Apart
  BY <1>3, <1>4 DEF HandlesOpen, Measured, Apart, Sound
<1>6. Limits
  BY DEF Init, Limits
<1>7. Ledger
  <2>1. \A c \in Commands : DueBytes[c] = 0 /\ DueFiles[c] = 0
    BY <1>4, NoneType DEF DueBytes, DueFiles
  <2>2. Sum(DueBytes, Commands) = 0 /\ Sum(DueFiles, Commands) = 0
    BY <2>1, Finite, SumOfZeros
  <2>3. Names \in SUBSET Names /\ Names \cap Linked = Linked
    BY DEF Linked
  <2>4. q.bytes = Sum(SizeOf, Names) /\ q.files = Cardinality(Linked)
    BY <1>1, <2>3, UsedIs DEF Init
  <2>5. \A x \in Int : x + 0 <= x
    BY SMT
  <2> QED
    BY <1>1, <2>2, <2>4, <2>5, Totals DEF Ledger
<1> QED
  BY <1>1, <1>2, <1>5, <1>6, <1>7 DEF QuotaInv

LEMMA QuotaInvStutters == QuotaInv /\ UNCHANGED vars => QuotaInv'
<1> SUFFICES ASSUME QuotaInv, UNCHANGED vars
             PROVE  QuotaInv'
  OBVIOUS
<1>1. names' = names /\ size' = size /\ q' = q /\ handle' = handle /\ op' = op
  BY DEF vars
<1>2. TypeOK' /\ OneName' /\ HandlesOpen' /\ Apart' /\ Limits'
  BY <1>1 DEF QuotaInv, TypeOK, OneName, Linked, HandlesOpen, Apart, Limits
<1>3. Measured'
  <2> SUFFICES ASSUME NEW c \in Commands
               PROVE  Sound(op[c], handle[c].file)'
    BY DEF Measured
  <2>1. PICK o, f : o = op[c] /\ f = handle[c].file
    OBVIOUS
  <2>2. TypeOK /\ o \in Op /\ Sound(o, f) /\ op'[c] = o /\ handle'[c].file = f
    BY <1>1, <2>1, OpType DEF QuotaInv, Measured
  <2>3. Pending(o, f) => Pending(o, f)'
    BY <1>1, <1>2, <2>2, PendingSame
  <2> QED
    BY <2>2, <2>3 DEF Sound
<1>4. Ledger'
  <2>1. Linked' = Linked /\ SizeOf' = SizeOf /\ DueBytes' = DueBytes /\ DueFiles' = DueFiles
    BY <1>1 DEF Linked, SizeOf, Size, DueBytes, DueFiles, Due, Owes, None
  <2>2. /\ Sum(SizeOf, Names)' = Sum(SizeOf, Names)
        /\ Sum(DueBytes, Commands)' = Sum(DueBytes, Commands)
        /\ Sum(DueFiles, Commands)' = Sum(DueFiles, Commands)
    BY <2>1 DEF Sum, IsSum, Pick
  <2> QED
    BY <1>1, <2>1, <2>2 DEF QuotaInv, Ledger
<1> QED
  BY <1>2, <1>3, <1>4 DEF QuotaInv

LEMMA QuotaInvNext == ASSUME ~Overlap, ~RefundTwice, ~AppendStale PROVE QuotaInv /\ [Next]_vars => QuotaInv'
<1> SUFFICES ASSUME QuotaInv, [Next]_vars
             PROVE  QuotaInv'
  OBVIOUS
<1>1. ASSUME NEW c \in Commands, Start(c)
      PROVE  QuotaInv'
  BY <1>1, OpenBegins, RemoveBegins, RenameBegins, WriteBegins, TruncateBegins DEF Start
<1>2. ASSUME NEW c \in Commands, Call(c)
      PROVE  QuotaInv'
  BY <1>2, OpenKeeps, RemoveKeeps, RemoveAllKeeps, RenameKeeps, WriteKeeps, TruncateKeeps DEF Call
<1>3. ASSUME NEW c \in Commands, Reserve(c) \/ Refund(c) \/ Close(c)
      PROVE  QuotaInv'
  BY <1>3, ReserveKeeps, RefundKeeps, CloseKeeps
<1> QED
  BY <1>1, <1>2, <1>3, QuotaInvStutters DEF Next

(* What commands have reserved and freed accounts for every difference     *)
(* between the counter and the tree, with any number of commands, names    *)
(* and files, as long as no two commands are busy with one file at a time  *)
(* and nothing is refunded twice.                                          *)
THEOREM QuotaInvariant == ASSUME ~Overlap, ~RefundTwice, ~AppendStale PROVE Spec => []QuotaInv
BY QuotaInvInit, QuotaInvNext, PTL DEF Spec

LEMMA QuotaInvSuffices == QuotaInv => QuotaKept
<1> SUFFICES ASSUME QuotaInv
             PROVE  QuotaKept
  OBVIOUS
<1>0. TypeOK /\ Limits /\ Ledger
  BY DEF QuotaInv
<1>1. Names \in SUBSET Names /\ Names \cap Linked = Linked
  BY DEF Linked
<1>2. Used(Names).bytes = Sum(SizeOf, Names) /\ Used(Names).files = Cardinality(Linked)
  BY <1>0, <1>1, UsedIs
<1>3. Busy = {} => Sum(DueBytes, Commands) = 0 /\ Sum(DueFiles, Commands) = 0
  <2> SUFFICES ASSUME Busy = {}
               PROVE  Sum(DueBytes, Commands) = 0 /\ Sum(DueFiles, Commands) = 0
    OBVIOUS
  <2>1. \A c \in Commands : Due(op[c]) = None
    BY DEF Busy, Due, Owes
  <2>2. \A c \in Commands : DueBytes[c] = 0 /\ DueFiles[c] = 0
    BY <2>1, NoneType DEF DueBytes, DueFiles
  <2> QED
    BY <2>2, Finite, SumOfZeros
<1>4. /\ Sum(SizeOf, Names) \in Int /\ Cardinality(Linked) \in Int
      /\ q.bytes \in Int /\ q.files \in Int
  BY <1>0, Totals
<1>5. \A x, y \in Int : x + 0 <= y => x <= y
  BY SMT
<1>6. NeverUndercounts
  BY <1>0, <1>2, <1>3, <1>4, <1>5 DEF NeverUndercounts, Ledger
<1>7. \A x, y, z \in Int : x <= y /\ y <= z => x <= z
  BY SMT
<1>8. maxBytes \in Int /\ maxFiles \in Int
  BY QuotaAssumption, SMT
<1>9. QuotaEnforced
  BY <1>0, <1>2, <1>4, <1>6, <1>7, <1>8 DEF QuotaEnforced, NeverUndercounts, Limits
<1> QED
  BY <1>0, <1>6, <1>9 DEF QuotaKept

(* Between operations the counter never knows of less than there is, and   *)
(* the session is within --session-max-bytes and --session-max-files.      *)
THEOREM QuotaHolds == ASSUME ~Overlap, ~RefundTwice, ~AppendStale PROVE Spec => []QuotaKept
BY QuotaInvariant, QuotaInvSuffices, PTL
=============================================================================
