-------------------------------- MODULE Sums --------------------------------
(***************************************************************************)
(* Sums of a function over a finite set, which the models take with the    *)
(* community modules' MapThenSumSet: over the files of a tree, the commands*)
(* of a shell, the connections of a meter, the ages of a history.  They    *)
(* exist, do not depend on an order, and change with one element by what   *)
(* that element changes.                                                   *)
(***************************************************************************)
EXTENDS Integers, FiniteSets, FiniteSetsExt, FiniteSetTheorems, WellFoundedInduction, TLAPS

Pick(s) == CHOOSE x \in s : TRUE

IsSum(f, S, g) ==
    g = [s \in SUBSET S |-> IF s = {} THEN 0 ELSE f[Pick(s)] + g[s \ {Pick(s)}]]

Sum(f, S) == (CHOOSE g : IsSum(f, S, g))[S]

LEMMA SubsetInduction ==
    ASSUME NEW S, IsFiniteSet(S), NEW G,
           {} \in G,
           \A s \in SUBSET S : s # {} /\ (\A x \in s : s \ {x} \in G) => s \in G
    PROVE  \A s \in SUBSET S : s \in G
<1> SUFFICES ASSUME (SUBSET S) \ G # {}
             PROVE  FALSE
  OBVIOUS
<1> DEFINE T == (SUBSET S) \ G
<1>1. IsWellFoundedOn(StrictSubsetOrdering(S), FiniteSubsetsOf(S))
  BY FS_StrictSubsetOrderingWellFounded
<1>2. T \subseteq FiniteSubsetsOf(S) /\ T # {}
  BY FS_Subset DEF FiniteSubsetsOf
<1>3. PICK s \in T : \A t \in T : ~(<<t, s>> \in StrictSubsetOrdering(S))
  <2> HIDE DEF T
  <2> QED
    BY <1>1, <1>2, WFMin
<1>4. \A x \in s : s \ {x} \in G
  <2> SUFFICES ASSUME NEW x \in s, s \ {x} \notin G
               PROVE  FALSE
    OBVIOUS
  <2>1. s \ {x} \in T /\ s \ {x} \subseteq s /\ s \ {x} # s
    OBVIOUS
  <2>2. <<s \ {x}, s>> \in StrictSubsetOrdering(S)
    BY <2>1 DEF StrictSubsetOrdering
  <2> QED
    BY <1>3, <2>1, <2>2
<1> QED
  BY <1>4

LEMMA PickIn == \A s : s # {} => Pick(s) \in s
BY DEF Pick

LEMMA SumsAgree ==
    ASSUME NEW f, NEW S, IsFiniteSet(S), NEW T \in SUBSET S, NEW g, NEW h,
           IsSum(f, S, g), IsSum(f, T, h)
    PROVE  \A s \in SUBSET T : g[s] = h[s]
<1> DEFINE G == {s \in SUBSET T : g[s] = h[s]}
<1>1. IsFiniteSet(T)
  BY FS_Subset
<1>2. \A s \in SUBSET T : /\ g[s] = IF s = {} THEN 0 ELSE f[Pick(s)] + g[s \ {Pick(s)}]
                          /\ h[s] = IF s = {} THEN 0 ELSE f[Pick(s)] + h[s \ {Pick(s)}]
  <2>1. \A s \in SUBSET S : g[s] = IF s = {} THEN 0 ELSE f[Pick(s)] + g[s \ {Pick(s)}]
    BY DEF IsSum
  <2>2. \A s \in SUBSET T : h[s] = IF s = {} THEN 0 ELSE f[Pick(s)] + h[s \ {Pick(s)}]
    BY DEF IsSum
  <2> QED
    BY <2>1, <2>2
<1>3. {} \in G
  BY <1>2
<1>4. \A s \in SUBSET T : s # {} /\ (\A x \in s : s \ {x} \in G) => s \in G
  BY <1>2, PickIn
<1>5. \A s \in SUBSET T : s \in G
  <2> HIDE DEF G
  <2> QED
    BY <1>1, <1>3, <1>4, SubsetInduction
<1> QED
  BY <1>5

LEMMA SumRestricts ==
    ASSUME NEW f, NEW S, NEW T \in SUBSET S, NEW g, IsSum(f, S, g),
           NEW h, h = [s \in SUBSET T |-> g[s]]
    PROVE  IsSum(f, T, h)
<1>1. \A s \in SUBSET S : g[s] = IF s = {} THEN 0 ELSE f[Pick(s)] + g[s \ {Pick(s)}]
  BY DEF IsSum
<1>2. \A s \in SUBSET T : h[s] = IF s = {} THEN 0 ELSE f[Pick(s)] + h[s \ {Pick(s)}]
  BY <1>1
<1> QED
  BY <1>2 DEF IsSum

LEMMA SumsMeet ==
    ASSUME NEW f, NEW S, NEW T, IsFiniteSet(S), IsFiniteSet(T), NEW g, NEW h,
           IsSum(f, S, g), IsSum(f, T, h), NEW U, U \subseteq S, U \subseteq T
    PROVE  g[U] = h[U]
<1> DEFINE r == [s \in SUBSET U |-> g[s]]
<1>0. U \in SUBSET S /\ r = [s \in SUBSET U |-> g[s]]
  OBVIOUS
<1>1. IsSum(f, U, r)
  <2> HIDE DEF r
  <2> QED
    BY <1>0, SumRestricts
<1>2. U \in SUBSET U
  OBVIOUS
<1> HIDE DEF r
<1>3. g[U] = r[U]
  BY <1>1, <1>2, SumsAgree
<1>4. h[U] = r[U]
  BY <1>1, <1>2, SumsAgree
<1> QED
  BY <1>3, <1>4

LEMMA SumExists ==
    ASSUME NEW f, NEW S, IsFiniteSet(S)
    PROVE  \A T \in SUBSET S : \E g : IsSum(f, T, g)
<1> DEFINE G == {T \in SUBSET S : \E g : IsSum(f, T, g)}
<1>1. {} \in G
  <2> DEFINE g == [s \in SUBSET {} |-> 0]
  <2>1. IsSum(f, {}, g)
    BY DEF IsSum
  <2> QED
    BY <2>1
<1>2. ASSUME NEW T \in SUBSET S, T # {}, \A x \in T : T \ {x} \in G
      PROVE  T \in G
  <2>0. IsFiniteSet(T)
    BY FS_Subset
  <2> DEFINE H(x) == CHOOSE g : IsSum(f, T \ {x}, g)
             y == Pick(T)
             W(s) == CHOOSE x \in T : x \notin s
             g == [s \in SUBSET T |-> IF s = T THEN f[y] + H(y)[T \ {y}] ELSE H(W(s))[s]]
  <2>1. \A x \in T : IsSum(f, T \ {x}, H(x))
    BY <1>2
  <2>2. \A s \in SUBSET T : s # T => W(s) \in T /\ W(s) \notin s
    OBVIOUS
  <2>3. y \in T
    BY <1>2, PickIn
  <2>4. ASSUME NEW x \in T, NEW z \in T, NEW s \in SUBSET T, x \notin s, z \notin s
        PROVE  H(x)[s] = H(z)[s]
    <3>1. IsSum(f, T \ {x}, H(x)) /\ IsSum(f, T \ {z}, H(z))
      BY <2>1
    <3>2. IsFiniteSet(T \ {x}) /\ IsFiniteSet(T \ {z}) /\ s \subseteq T \ {x} /\ s \subseteq T \ {z}
      BY <2>0, <2>4, FS_RemoveElement
    <3> HIDE DEF H
    <3> QED
      BY <3>1, <3>2, SumsMeet
  <2>5. ASSUME NEW x \in T, NEW s \in SUBSET T, x \notin s
        PROVE  H(x)[s] = IF s = {} THEN 0 ELSE f[Pick(s)] + H(x)[s \ {Pick(s)}]
    <3> HIDE DEF H
    <3>1. IsSum(f, T \ {x}, H(x)) /\ s \in SUBSET (T \ {x})
      BY <2>1, <2>5
    <3> QED
      BY <3>1 DEF IsSum
  <2> HIDE DEF H, W, y
  <2>6. \A s \in SUBSET T : s # T => g[s] = H(W(s))[s]
    OBVIOUS
  <2>7. \A s \in SUBSET T, x \in T : x \notin s => g[s] = H(x)[s]
    BY <2>2, <2>4, <2>6
  <2>8. ASSUME NEW s \in SUBSET T
        PROVE  g[s] = IF s = {} THEN 0 ELSE f[Pick(s)] + g[s \ {Pick(s)}]
    <3>1. CASE s = T
      <4>1. g[T \ {y}] = H(y)[T \ {y}]
        BY <2>3, <2>7
      <4>2. g[T] = f[y] + H(y)[T \ {y}]
        OBVIOUS
      <4> HIDE DEF g
      <4> QED
        BY <1>2, <3>1, <4>1, <4>2 DEF y
    <3>2. CASE s # T
      <4>1. PICK x \in T : x \notin s
        BY <2>2, <3>2
      <4>2. g[s] = H(x)[s] /\ g[s \ {Pick(s)}] = H(x)[s \ {Pick(s)}]
        BY <2>7, <4>1
      <4> HIDE DEF g
      <4> QED
        BY <2>5, <4>1, <4>2
    <3> QED
      BY <3>1, <3>2
  <2>9. IsSum(f, T, g)
    BY <2>8 DEF IsSum
  <2> QED
    BY <2>9
<1>3. \A T \in SUBSET S : T \in G
  <2> HIDE DEF G
  <2> QED
    BY <1>1, <1>2, SubsetInduction
<1> QED
  BY <1>3

LEMMA SumIs ==
    ASSUME NEW f, NEW S, IsFiniteSet(S), NEW g, IsSum(f, S, g)
    PROVE  g[S] = Sum(f, S)
<1>1. IsSum(f, S, CHOOSE h : IsSum(f, S, h))
  OBVIOUS
<1> HIDE DEF IsSum
<1> QED
  BY <1>1, SumsAgree DEF Sum

LEMMA SumUnfolds ==
    ASSUME NEW f, NEW S, IsFiniteSet(S)
    PROVE  Sum(f, S) = IF S = {} THEN 0 ELSE f[Pick(S)] + Sum(f, S \ {Pick(S)})
<1>1. PICK g : IsSum(f, S, g)
  BY SumExists
<1>2. g[S] = IF S = {} THEN 0 ELSE f[Pick(S)] + g[S \ {Pick(S)}]
  BY <1>1 DEF IsSum
<1>3. g[S] = Sum(f, S)
  BY <1>1, SumIs
<1>4. CASE S # {}
  <2> DEFINE T == S \ {Pick(S)}
             h == [s \in SUBSET T |-> g[s]]
  <2>0. IsFiniteSet(T) /\ T \in SUBSET S
    BY FS_RemoveElement
  <2>1. IsSum(f, T, h)
    <3>1. h = [s \in SUBSET T |-> g[s]]
      OBVIOUS
    <3> HIDE DEF T, h
    <3> QED
      BY <1>1, <2>0, <3>1, SumRestricts
  <2>2. h[T] = g[T]
    OBVIOUS
  <2> HIDE DEF h
  <2>3. h[T] = Sum(f, T)
    BY <2>0, <2>1, SumIs
  <2> QED
    BY <1>2, <1>3, <1>4, <2>2, <2>3
<1> QED
  BY <1>2, <1>3, <1>4

LEMMA SumType ==
    ASSUME NEW f, NEW S, IsFiniteSet(S), \A x \in S : f[x] \in Int
    PROVE  \A s \in SUBSET S : Sum(f, s) \in Int
<1> DEFINE G == {s \in SUBSET S : Sum(f, s) \in Int}
<1>0. \A s \in SUBSET S : IsFiniteSet(s)
  BY FS_Subset
<1>1. \A s \in SUBSET S : Sum(f, s) = IF s = {} THEN 0 ELSE f[Pick(s)] + Sum(f, s \ {Pick(s)})
  BY <1>0, SumUnfolds
<1>2. {} \in G
  <2>1. Sum(f, {}) = 0
    BY FS_EmptySet, SumUnfolds
  <2> QED
    BY <2>1
<1>3. ASSUME NEW s \in SUBSET S, s # {}, \A x \in s : s \ {x} \in G
      PROVE  s \in G
  <2>1. Pick(s) \in s /\ f[Pick(s)] \in Int /\ Sum(f, s \ {Pick(s)}) \in Int
    BY <1>3, PickIn
  <2>2. f[Pick(s)] + Sum(f, s \ {Pick(s)}) \in Int
    BY <2>1, SMT
  <2> QED
    BY <1>1, <1>3, <2>2
<1> HIDE DEF G
<1>4. \A s \in SUBSET S : s \in G
  BY <1>2, <1>3, SubsetInduction
<1> QED
  BY <1>4 DEF G

LEMMA SumRemoves ==
    ASSUME NEW f, NEW S, IsFiniteSet(S), \A x \in S : f[x] \in Int
    PROVE  \A s \in SUBSET S : \A x \in s : Sum(f, s) = f[x] + Sum(f, s \ {x})
<1> DEFINE G == {s \in SUBSET S : \A x \in s : Sum(f, s) = f[x] + Sum(f, s \ {x})}
<1>0. \A s \in SUBSET S : IsFiniteSet(s) /\ Sum(f, s) \in Int
  BY FS_Subset, SumType
<1>1. \A s \in SUBSET S : s # {} => Sum(f, s) = f[Pick(s)] + Sum(f, s \ {Pick(s)})
  BY <1>0, SumUnfolds
<1>2. {} \in G
  OBVIOUS
<1>3. ASSUME NEW s \in SUBSET S, s # {}, \A x \in s : s \ {x} \in G
      PROVE  s \in G
  <2> SUFFICES ASSUME NEW x \in s
               PROVE  Sum(f, s) = f[x] + Sum(f, s \ {x})
    OBVIOUS
  <2> DEFINE y == Pick(s)
             u == (s \ {x}) \ {y}
  <2>1. y \in s /\ Sum(f, s) = f[y] + Sum(f, s \ {y})
    BY <1>1, <1>3, PickIn
  <2>2. CASE x = y
    BY <2>1, <2>2
  <2>3. CASE x # y
    <3>1. (s \ {y}) \ {x} = u
      OBVIOUS
    <3>2. Sum(f, s \ {y}) = f[x] + Sum(f, u)
      <4>1. s \ {y} \in G /\ x \in s \ {y}
        BY <1>3, <2>1, <2>3
      <4> QED
        BY <3>1, <4>1
    <3>3. Sum(f, s \ {x}) = f[y] + Sum(f, u)
      <4>1. s \ {x} \in G /\ y \in s \ {x}
        BY <1>3, <2>1, <2>3
      <4> QED
        BY <4>1
    <3>4. f[x] \in Int /\ f[y] \in Int /\ Sum(f, u) \in Int
      BY <1>0, <2>1
    <3> QED
      BY <2>1, <3>2, <3>3, <3>4, SMT
  <2> QED
    BY <2>2, <2>3
<1> HIDE DEF G
<1>4. \A s \in SUBSET S : s \in G
  BY <1>2, <1>3, SubsetInduction
<1> QED
  BY <1>4 DEF G

LEMMA SumSame ==
    ASSUME NEW f, NEW h, NEW S, IsFiniteSet(S), \A x \in S : f[x] = h[x]
    PROVE  Sum(f, S) = Sum(h, S)
<1>1. PICK g : IsSum(f, S, g)
  BY SumExists
<1>2. \A s \in SUBSET S : g[s] = IF s = {} THEN 0 ELSE f[Pick(s)] + g[s \ {Pick(s)}]
  BY <1>1 DEF IsSum
<1>3. \A s \in SUBSET S : g[s] = IF s = {} THEN 0 ELSE h[Pick(s)] + g[s \ {Pick(s)}]
  BY <1>2, PickIn
<1>4. g = [s \in SUBSET S |-> g[s]]
  BY <1>1 DEF IsSum
<1>5. IsSum(h, S, g)
  BY <1>3, <1>4 DEF IsSum
<1> QED
  BY <1>1, <1>5, SumIs

LEMMA SumChanges ==
    ASSUME NEW f, NEW h, NEW S, IsFiniteSet(S), NEW x \in S,
           \A y \in S : f[y] \in Int /\ h[y] \in Int,
           \A y \in S \ {x} : f[y] = h[y]
    PROVE  Sum(h, S) = Sum(f, S) - f[x] + h[x]
<1>1. Sum(f, S) = f[x] + Sum(f, S \ {x}) /\ Sum(h, S) = h[x] + Sum(h, S \ {x})
  BY SumRemoves
<1>2. IsFiniteSet(S \ {x})
  BY FS_RemoveElement
<1>3. Sum(f, S \ {x}) = Sum(h, S \ {x})
  BY <1>2, SumSame
<1>4. Sum(f, S \ {x}) \in Int /\ f[x] \in Int /\ h[x] \in Int
  BY SumType
<1> QED
  BY <1>1, <1>3, <1>4, SMT

LEMMA SumNotNegative ==
    ASSUME NEW f, NEW S, IsFiniteSet(S), \A x \in S : f[x] \in Nat
    PROVE  \A s \in SUBSET S : Sum(f, s) \in Nat
<1> DEFINE G == {s \in SUBSET S : Sum(f, s) \in Nat}
<1>0. \A s \in SUBSET S : IsFiniteSet(s)
  BY FS_Subset
<1>1. \A s \in SUBSET S : Sum(f, s) = IF s = {} THEN 0 ELSE f[Pick(s)] + Sum(f, s \ {Pick(s)})
  BY <1>0, SumUnfolds
<1>2. {} \in G
  <2>1. Sum(f, {}) = 0
    BY FS_EmptySet, SumUnfolds
  <2> QED
    BY <2>1
<1>3. ASSUME NEW s \in SUBSET S, s # {}, \A x \in s : s \ {x} \in G
      PROVE  s \in G
  <2>1. Pick(s) \in s /\ f[Pick(s)] \in Nat /\ Sum(f, s \ {Pick(s)}) \in Nat
    BY <1>3, PickIn
  <2>2. f[Pick(s)] + Sum(f, s \ {Pick(s)}) \in Nat
    BY <2>1, SMT
  <2> QED
    BY <1>1, <1>3, <2>2
<1> HIDE DEF G
<1>4. \A s \in SUBSET S : s \in G
  BY <1>2, <1>3, SubsetInduction
<1> QED
  BY <1>4 DEF G

LEMMA SumOfZeros ==
    ASSUME NEW f, NEW S, IsFiniteSet(S), \A x \in S : f[x] = 0
    PROVE  Sum(f, S) = 0
<1> DEFINE h == [x \in {} |-> 0]
           g == [s \in SUBSET S |-> 0]
<1>1. \A s \in SUBSET S : g[s] = IF s = {} THEN 0 ELSE f[Pick(s)] + g[s \ {Pick(s)}]
  BY PickIn
<1>2. IsSum(f, S, g)
  BY <1>1 DEF IsSum
<1>3. g[S] = 0
  OBVIOUS
<1> HIDE DEF g
<1> QED
  BY <1>2, <1>3, SumIs

(* The library's fold is this sum.                                         *)
LEMMA FoldIsSum ==
    ASSUME NEW f, NEW S, IsFiniteSet(S)
    PROVE  MapThenSumSet(LAMBDA x : f[x], S) = Sum(f, S)
<1>1. MapThenSumSet(LAMBDA x : f[x], S) =
        (CHOOSE g : g = [s \in SUBSET S |-> IF s = {} THEN 0 ELSE f[Pick(s)] + g[s \ {Pick(s)}]])[S]
  BY DEF MapThenSumSet, MapThenFoldSet, Pick
<1> QED
  BY <1>1 DEF Sum, IsSum

-----------------------------------------------------------------------------
(* A set in two parts.                                                     *)
LEMMA SumSplits ==
    ASSUME NEW f, NEW S, IsFiniteSet(S), \A x \in S : f[x] \in Int
    PROVE  \A T \in SUBSET S : Sum(f, S) = Sum(f, T) + Sum(f, S \ T)
<1> DEFINE G == {T \in SUBSET S : Sum(f, S) = Sum(f, T) + Sum(f, S \ T)}
<1>0. \A T \in SUBSET S : IsFiniteSet(T) /\ Sum(f, T) \in Int
  BY FS_Subset, SumType
<1>1. {} \in G
  <2>1. Sum(f, {}) = 0
    BY FS_EmptySet, SumUnfolds
  <2>2. S \ {} = S /\ Sum(f, S) \in Int
    BY <1>0
  <2> QED
    BY <2>1, <2>2
<1>2. ASSUME NEW T \in SUBSET S, T # {}, \A x \in T : T \ {x} \in G
      PROVE  T \in G
  <2>1. PICK x \in T : TRUE
    BY <1>2
  <2> DEFINE R == S \ T
             Q == S \ (T \ {x})
  <2>2. Sum(f, S) = Sum(f, T \ {x}) + Sum(f, Q)
    BY <1>2
  <2>3. Sum(f, T) = f[x] + Sum(f, T \ {x})
    BY SumRemoves
  <2>4. Q \in SUBSET S /\ x \in Q /\ Q \ {x} = R
    OBVIOUS
  <2>5. Sum(f, Q) = f[x] + Sum(f, R)
    BY <2>4, SumRemoves
  <2>6. f[x] \in Int /\ Sum(f, T \ {x}) \in Int /\ Sum(f, R) \in Int
    BY <1>0
  <2> HIDE DEF R, Q
  <2>7. Sum(f, S) = Sum(f, T) + Sum(f, R)
    BY <2>2, <2>3, <2>5, <2>6
  <2> QED
    BY <2>7 DEF R
<1> HIDE DEF G
<1>3. \A T \in SUBSET S : T \in G
  BY <1>1, <1>2, SubsetInduction
<1> QED
  BY <1>3 DEF G

(* Larger terms make no smaller sum.                                       *)
LEMMA SumGrows ==
    ASSUME NEW f, NEW h, NEW S, IsFiniteSet(S),
           \A x \in S : f[x] \in Int /\ h[x] \in Int /\ f[x] <= h[x]
    PROVE  Sum(f, S) <= Sum(h, S)
<1> DEFINE G == {T \in SUBSET S : Sum(f, T) <= Sum(h, T)}
<1>0. \A T \in SUBSET S : Sum(f, T) \in Int /\ Sum(h, T) \in Int
  BY SumType
<1>1. {} \in G
  <2>1. Sum(f, {}) = 0 /\ Sum(h, {}) = 0
    BY FS_EmptySet, SumUnfolds
  <2> QED
    BY <2>1
<1>2. ASSUME NEW T \in SUBSET S, T # {}, \A x \in T : T \ {x} \in G
      PROVE  T \in G
  <2>1. PICK x \in T : TRUE
    BY <1>2
  <2>2. Sum(f, T) = f[x] + Sum(f, T \ {x}) /\ Sum(h, T) = h[x] + Sum(h, T \ {x})
    BY SumRemoves
  <2>3. Sum(f, T \ {x}) <= Sum(h, T \ {x})
    BY <1>2
  <2>4. /\ Sum(f, T \ {x}) \in Int /\ Sum(h, T \ {x}) \in Int
        /\ f[x] \in Int /\ h[x] \in Int /\ f[x] <= h[x]
    BY <1>0
  <2> QED
    BY <2>2, <2>3, <2>4, SMT
<1> HIDE DEF G
<1>3. \A T \in SUBSET S : T \in G
  BY <1>1, <1>2, SubsetInduction
<1> QED
  BY <1>3 DEF G

(* A part of natural numbers is no more than all of them.                  *)
LEMMA SumOfPart ==
    ASSUME NEW f, NEW S, IsFiniteSet(S), \A x \in S : f[x] \in Nat, NEW T \in SUBSET S
    PROVE  Sum(f, T) <= Sum(f, S)
<1>1. Sum(f, S) = Sum(f, T) + Sum(f, S \ T)
  BY SumSplits
<1>2. Sum(f, T) \in Nat /\ Sum(f, S \ T) \in Nat
  BY SumNotNegative
<1> QED
  BY <1>1, <1>2

(* The same terms in other places: g takes the terms of f to those of h.   *)
Moves(g, f, S, h, Q) ==
    /\ \A x \in S : f[x] \in Int /\ h[g[x]] = f[x] /\ g[x] \in Q
    /\ \A x \in S, y \in S : g[x] = g[y] => x = y
    /\ \A y \in Q : \E x \in S : g[x] = y

LEMMA SumMoves ==
    ASSUME NEW g, NEW f, NEW S, NEW h, NEW Q, IsFiniteSet(S), Moves(g, f, S, h, Q)
    PROVE  Sum(h, Q) = Sum(f, S)
<1> USE DEF Moves
<1> DEFINE I(T) == {g[x] : x \in T}
           G == {T \in SUBSET S : Sum(h, I(T)) = Sum(f, T)}
<1>0. \A T \in SUBSET S : IsFiniteSet(I(T))
  <2> SUFFICES ASSUME NEW T \in SUBSET S
               PROVE  IsFiniteSet(I(T))
    OBVIOUS
  <2>1. IsFiniteSet(T)
    BY FS_Subset
  <2>3. [x \in T |-> g[x]] \in Surjection(T, I(T))
    BY DEF Surjection
  <2> QED
    BY <2>1, <2>3, FS_Surjection
<1>1. {} \in G
  <2>1. I({}) = {}
    OBVIOUS
  <2>2. Sum(h, {}) = 0 /\ Sum(f, {}) = 0
    BY FS_EmptySet, SumUnfolds
  <2> QED
    BY <2>1, <2>2
<1>2. ASSUME NEW T \in SUBSET S, T # {}, \A x \in T : T \ {x} \in G
      PROVE  T \in G
  <2>1. PICK x \in T : TRUE
    BY <1>2
  <2>2. I(T \ {x}) = I(T) \ {g[x]} /\ g[x] \in I(T)
    OBVIOUS
  <2>3. Sum(f, T) = f[x] + Sum(f, T \ {x})
    BY SumRemoves
  <2>4. \A z \in I(T) : h[z] \in Int
    OBVIOUS
  <2>5. Sum(h, I(T)) = h[g[x]] + Sum(h, I(T) \ {g[x]})
    <3>1. IsFiniteSet(I(T)) /\ I(T) \in SUBSET I(T)
      BY <1>0
    <3> HIDE DEF I
    <3> QED
      BY <2>2, <2>4, <3>1, SumRemoves
  <2>6. Sum(h, I(T \ {x})) = Sum(f, T \ {x})
    BY <1>2
  <2> HIDE DEF I
  <2>7. Sum(h, I(T)) = Sum(f, T)
    BY <2>2, <2>3, <2>5, <2>6
  <2> QED
    BY <2>7
<1> HIDE DEF G
<1>3. \A T \in SUBSET S : T \in G
  BY <1>1, <1>2, SubsetInduction
<1>4. I(S) = Q
  OBVIOUS
<1>5. S \in G
  BY <1>3
<1> QED
  BY <1>4, <1>5 DEF G

(* A history that gets older: terms move on by one, or out of sight.       *)
LEMMA SumAges ==
    ASSUME NEW f, NEW h, NEW A, NEW B, IsFiniteSet(A), IsFiniteSet(B),
           A \subseteq Nat, B \subseteq Nat, \A t \in A : f[t] \in Nat,
           \A t \in B : IF t = 0 THEN h[t] = 0 ELSE t - 1 \in A /\ h[t] = f[t - 1]
    PROVE  Sum(h, B) <= Sum(f, A)
<1> DEFINE P == {t \in A : t + 1 \in B}
           g == [t \in P |-> t + 1]
<1>1. P \in SUBSET A /\ IsFiniteSet(P)
  BY FS_Subset
<1>2. (\A t \in B \ {0} : \E x \in P : g[x] = t) /\ (\A x \in P : g[x] \in B \ {0})
  <2>1. ASSUME NEW t \in B \ {0}
        PROVE  \E x \in P : g[x] = t
    <3>1. t - 1 \in A /\ (t - 1) + 1 = t /\ t \in Nat
      BY <2>1
    <3>2. t - 1 \in P /\ g[t - 1] = t
      BY <3>1
    <3> QED
      BY <3>2
  <2>2. ASSUME NEW x \in P
        PROVE  g[x] \in B \ {0}
    <3>1. x \in Nat /\ x + 1 \in B /\ g[x] = x + 1
      OBVIOUS
    <3> QED
      BY <3>1
  <2> HIDE DEF P, g
  <2> QED
    BY <2>1, <2>2
<1>3. \A t \in P : h[g[t]] = f[t] /\ f[t] \in Int
  <2> SUFFICES ASSUME NEW t \in P
               PROVE  h[t + 1] = f[t] /\ f[t] \in Int
    OBVIOUS
  <2>1. t \in Nat /\ t + 1 \in B /\ t + 1 # 0 /\ (t + 1) - 1 = t /\ f[t] \in Nat
    OBVIOUS
  <2>2. h[t + 1] = f[(t + 1) - 1]
    BY <2>1
  <2> QED
    BY <2>1, <2>2
<1>4. \A x \in P, y \in P : g[x] = g[y] => x = y
  <2> SUFFICES ASSUME NEW x \in P, NEW y \in P, x + 1 = y + 1
               PROVE  x = y
    OBVIOUS
  <2>1. x \in Nat /\ y \in Nat
    OBVIOUS
  <2> QED
    BY <2>1
<1>5. Sum(h, B \ {0}) = Sum(f, P)
  <2> HIDE DEF P, g
  <2>1. Moves(g, f, P, h, B \ {0})
    BY <1>2, <1>3, <1>4 DEF Moves
  <2> QED
    BY <1>1, <2>1, SumMoves
<1>6. Sum(f, P) <= Sum(f, A) /\ Sum(f, P) \in Nat /\ Sum(f, A) \in Nat
  <2> HIDE DEF P
  <2>1. A \in SUBSET A
    OBVIOUS
  <2>2. Sum(f, P) \in Nat /\ Sum(f, A) \in Nat
    BY <1>1, <2>1, SumNotNegative
  <2> QED
    BY <1>1, <2>2, SumOfPart
<1>7. \A t \in B : h[t] \in Int
  OBVIOUS
<1>8. Sum(h, B) = Sum(h, B \ {0})
  <2>1. CASE 0 \in B
    <3>1. B \in SUBSET B /\ h[0] = 0
      BY <2>1
    <3>2. \A s \in SUBSET B : \A x \in s : Sum(h, s) = h[x] + Sum(h, s \ {x})
      <4> HIDE DEF P, g
      <4> QED
        BY ONLY IsFiniteSet(B), <1>7, SumRemoves
    <3>3. Sum(h, B) = h[0] + Sum(h, B \ {0})
      BY <2>1, <3>1, <3>2
    <3> QED
      BY <1>5, <1>6, <3>1, <3>3
  <2>2. CASE 0 \notin B
    <3>1. B \ {0} = B
      BY <2>2
    <3> QED
      BY <3>1
  <2> QED
    BY <2>1, <2>2
<1> QED
  BY <1>5, <1>6, <1>8

(* One more for each of some: their sum grows by how many they are.        *)
LEMMA SumCounts ==
    ASSUME NEW f, NEW h, NEW S, IsFiniteSet(S), NEW T \in SUBSET S,
           \A x \in S : f[x] \in Int /\ h[x] = IF x \in T THEN f[x] + 1 ELSE f[x]
    PROVE  Sum(h, S) = Sum(f, S) + Cardinality(T)
<1> DEFINE G == {s \in SUBSET S : Sum(h, s) = Sum(f, s) + Cardinality(s \cap T)}
<1>0. /\ \A x \in S : f[x] \in Int /\ h[x] \in Int
      /\ \A s \in SUBSET S : /\ IsFiniteSet(s \cap T) /\ Cardinality(s \cap T) \in Nat
                             /\ Sum(f, s) \in Int
  <2>1. \A x \in S : f[x] \in Int /\ h[x] \in Int
    OBVIOUS
  <2>2. ASSUME NEW s \in SUBSET S
        PROVE  IsFiniteSet(s \cap T) /\ Cardinality(s \cap T) \in Nat
    BY FS_Subset, FS_CardinalityType
  <2> QED
    BY <2>1, <2>2, SumType
<1>1. {} \in G
  <2>1. Sum(f, {}) = 0 /\ Sum(h, {}) = 0
    BY FS_EmptySet, SumUnfolds
  <2>2. Cardinality({} \cap T) = 0
    BY FS_EmptySet
  <2> QED
    BY <2>1, <2>2
<1>2. ASSUME NEW s \in SUBSET S, s # {}, \A x \in s : s \ {x} \in G
      PROVE  s \in G
  <2>1. PICK x \in s : TRUE
    BY <1>2
  <2>2. Sum(f, s) = f[x] + Sum(f, s \ {x}) /\ Sum(h, s) = h[x] + Sum(h, s \ {x})
    BY <1>0, SumRemoves
  <2>3. Sum(h, s \ {x}) = Sum(f, s \ {x}) + Cardinality((s \ {x}) \cap T)
    BY <1>2
  <2>4. /\ f[x] \in Int /\ Sum(f, s \ {x}) \in Int
        /\ Cardinality((s \ {x}) \cap T) \in Nat /\ Cardinality(s \cap T) \in Nat
    BY <1>0
  <2>5. CASE x \in T
    <3>1. (s \ {x}) \cap T = (s \cap T) \ {x} /\ x \in s \cap T
      BY <2>5
    <3>2. Cardinality((s \ {x}) \cap T) = Cardinality(s \cap T) - 1
      <4>1. IsFiniteSet(s \cap T)
        BY <1>0
      <4>2. Cardinality((s \cap T) \ {x}) = Cardinality(s \cap T) - 1
        BY ONLY <3>1, <4>1, FS_RemoveElement
      <4> QED
        BY ONLY <3>1, <4>2
    <3>3. h[x] = f[x] + 1
      BY <2>5
    <3> QED
      BY <2>2, <2>3, <2>4, <3>2, <3>3, SMT
  <2>6. CASE x \notin T
    <3>1. (s \ {x}) \cap T = s \cap T
      BY <2>6
    <3>2. h[x] = f[x]
      BY <2>6
    <3> QED
      BY <2>2, <2>3, <2>4, <3>1, <3>2, SMT
  <2> QED
    BY <2>5, <2>6
<1> HIDE DEF G
<1>3. S \in G
  BY <1>1, <1>2, SubsetInduction
<1>4. S \cap T = T
  OBVIOUS
<1> QED
  BY <1>3, <1>4 DEF G
=============================================================================
