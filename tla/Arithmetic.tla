----------------------------- MODULE Arithmetic -----------------------------
(***************************************************************************)
(* Facts about numbers that the proofs of several components need:         *)
(* remainders, for counters and ring positions that wrap, and sums over    *)
(* the elements of a set.                                                  *)
(***************************************************************************)
EXTENDS Integers, FiniteSets, Functions, FiniteSetTheorems, WellFoundedInduction, TLAPS

-----------------------------------------------------------------------------
(* Remainders.  A positive divisor is written M \in Nat \ {0}.              *)

LEMMA RemDef ==
  ASSUME NEW x \in Int, NEW M \in Nat \ {0}
  PROVE  x % M \in 0 .. M-1 /\ x \div M \in Int /\ x % M = x - M * (x \div M)
<1>1. x % M \in 0 .. M-1 /\ x \div M \in Int
  OBVIOUS
<1>2. x % M = x - M * (x \div M)
  OBVIOUS
<1> QED BY <1>1, <1>2

(* The remainder is the only number in its range at a multiple of M away.  *)
LEMMA RemUnique ==
  ASSUME NEW x \in Int, NEW M \in Nat \ {0}, NEW q \in Int, NEW r \in 0 .. M-1,
         x = q * M + r
  PROVE  x % M = r /\ x \div M = q
OBVIOUS

LEMMA RemSmall ==
  ASSUME NEW M \in Nat \ {0}, NEW x \in 0 .. M-1
  PROVE  x % M = x /\ x \div M = 0
<1>1. x = 0 * M + x
  OBVIOUS
<1> QED BY <1>1, RemUnique

(* Whole multiples do not matter.                                          *)
LEMMA RemShift ==
  ASSUME NEW x \in Int, NEW M \in Nat \ {0}, NEW k \in Int
  PROVE  (x + k * M) % M = x % M
<1> DEFINE q == x \div M
           r == x % M
<1>1. q \in Int /\ r \in 0 .. M-1 /\ r = x - M * q
  BY RemDef
<1> HIDE DEF q, r
<1>2. x + k * M = (q + k) * M + r
  BY <1>1
<1>3. (x + k * M) % M = r
  <2>1. q + k \in Int /\ x + k * M \in Int
    BY <1>1
  <2> QED BY <1>1, <1>2, <2>1, RemUnique
<1> QED BY <1>3 DEF r

(* Remainders inside sums may be taken or left.                            *)
LEMMA RemAdd ==
  ASSUME NEW x \in Int, NEW y \in Int, NEW M \in Nat \ {0}
  PROVE  /\ ((x % M) + y) % M = (x + y) % M
         /\ (y + (x % M)) % M = (x + y) % M
         /\ (y - (x % M)) % M = (y - x) % M
<1> DEFINE q == x \div M
           r == x % M
<1>1. q \in Int /\ r \in 0 .. M-1 /\ r = x - M * q
  BY RemDef
<1> HIDE DEF q, r
<1>2. r + y = (x + y) + (-q) * M /\ y + r = r + y /\ y - r = (y - x) + q * M
  BY <1>1
<1>3. (r + y) % M = (x + y) % M
  <2> DEFINE s == x + y
             k == -q
  <2>1. (s + k * M) % M = s % M
    <3>1. s \in Int /\ k \in Int
      BY <1>1
    <3> HIDE DEF s, k
    <3> QED BY <3>1, RemShift
  <2> QED BY <1>2, <2>1
<1>4. (y - r) % M = (y - x) % M
  <2> DEFINE s == y - x
  <2>1. (s + q * M) % M = s % M
    <3>1. s \in Int
      OBVIOUS
    <3> HIDE DEF s
    <3> QED BY <1>1, <3>1, RemShift
  <2> QED BY <1>2, <2>1
<1> QED BY <1>2, <1>3, <1>4 DEF r

(* Equal remainders of numbers less than M apart.                          *)
LEMMA RemEqual ==
  ASSUME NEW x \in Int, NEW y \in Int, NEW M \in Nat \ {0}, x % M = y % M,
         x - y < M, y - x < M
  PROVE  x = y
<1> DEFINE p == x \div M
           q == y \div M
           r == x % M
<1>1. p \in Int /\ q \in Int /\ r \in 0 .. M-1 /\ r = x - M * p /\ r = y - M * q
  BY RemDef
<1> HIDE DEF p, q, r
<1>2. x - y = M * (p - q)
  BY <1>1
<1>3. ~(p - q >= 1)
  <2>1. p - q >= 1 => M * (p - q) >= M
    BY <1>1
  <2> QED BY <1>1, <1>2, <2>1
<1>4. ~(p - q <= -1)
  <2>1. p - q <= -1 => M * (p - q) <= -M
    BY <1>1
  <2> QED BY <1>1, <1>2, <2>1
<1> QED BY <1>1, <1>2, <1>3, <1>4

(* The remainder by a multiple of M first.                                 *)
LEMMA RemOfRem ==
  ASSUME NEW x \in Int, NEW M \in Nat \ {0}, NEW N \in Nat \ {0}, N % M = 0
  PROVE  (x % N) % M = x % M
<1> DEFINE k == N \div M
           q == x \div N
<1>1. k \in Int /\ N = M * k
  BY RemDef
<1>2. q \in Int /\ x % N = x - N * q /\ x % N \in Int
  BY RemDef
<1> HIDE DEF k, q
<1>3. x % N = x + (-(k * q)) * M
  BY <1>1, <1>2
<1>4. (x + (-(k * q)) * M) % M = x % M
  <2>1. -(k * q) \in Int
    BY <1>1, <1>2
  <2> QED BY <2>1, RemShift
<1> QED BY <1>3, <1>4

-----------------------------------------------------------------------------
(* Sums.  SumFunctionOnSet of the community modules is a fold, a recursive *)
(* function over the subsets of a set.  Induction is stated here for a set *)
(* of "good" subsets instead of a predicate, which the provers can apply.  *)

(* Induction over the subsets of a finite set: a set that is good whenever *)
(* its proper subsets are is good.                                         *)
LEMMA SubsetInduction ==
  ASSUME NEW S, IsFiniteSet(S), NEW Good,
         \A T \in SUBSET S : (\A U \in SUBSET T : U # T => U \in Good) => T \in Good
  PROVE  S \in Good
<1> DEFINE Bad == {T \in SUBSET S : T \notin Good}
<1>1. SUFFICES ASSUME S \notin Good PROVE FALSE
  OBVIOUS
<1>2. IsWellFoundedOn(StrictSubsetOrdering(S), FiniteSubsetsOf(S))
  BY FS_StrictSubsetOrderingWellFounded
<1>3. Bad \subseteq FiniteSubsetsOf(S) /\ Bad # {}
  BY <1>1, FS_FiniteSubsetsOfFinite
<1>4. PICK T \in Bad : \A U \in Bad : <<U, T>> \notin StrictSubsetOrdering(S)
  <2> HIDE DEF Bad
  <2> QED BY ONLY <1>2, <1>3, WFMin
<1>5. \A U \in SUBSET T : U # T => U \in Good
  BY <1>4 DEF StrictSubsetOrdering
<1> QED BY <1>4, <1>5

(* The element a fold takes from a set.                                    *)
Pick(s) == CHOOSE x \in s : TRUE

LEMMA PickIn == ASSUME NEW s, s # {} PROVE Pick(s) \in s
BY DEF Pick

(* Induction along the elements a fold takes.                              *)
LEMMA FoldInduction ==
  ASSUME NEW S, IsFiniteSet(S), NEW Good, {} \in Good,
         \A T \in SUBSET S : T # {} /\ T \ {Pick(T)} \in Good => T \in Good
  PROVE  S \in Good
<1>1. ASSUME NEW T \in SUBSET S, \A U \in SUBSET T : U # T => U \in Good
      PROVE  T \in Good
  <2>1. CASE T = {} BY <2>1
  <2>2. CASE T # {} BY <1>1, <2>2, PickIn
  <2> QED BY <2>1, <2>2
<1> QED BY <1>1, SubsetInduction, Zenon

(* g is the fold's recursive function over the subsets of S.               *)
Folds(f, S, g) ==
  g = [s \in SUBSET S |-> IF s = {} THEN 0 ELSE f[Pick(s)] + g[s \ {Pick(s)}]]

LEMMA FoldsAgree ==
  ASSUME NEW f, NEW S, NEW T \in SUBSET S, IsFiniteSet(S), NEW g, NEW h,
         Folds(f, S, g), Folds(f, T, h)
  PROVE  g[T] = h[T]
<1> DEFINE Good == {U \in SUBSET T : g[U] = h[U]}
<1>1. {} \in Good
  BY DEF Folds
<1>2. ASSUME NEW U \in SUBSET T, U # {}, U \ {Pick(U)} \in Good
      PROVE  U \in Good
  <2>1. g[U] = f[Pick(U)] + g[U \ {Pick(U)}]
    BY <1>2 DEF Folds
  <2>2. h[U] = f[Pick(U)] + h[U \ {Pick(U)}]
    BY <1>2 DEF Folds
  <2> QED BY <1>2, <2>1, <2>2
<1>3. T \in Good
  <2>1. IsFiniteSet(T) BY FS_Subset
  <2> HIDE DEF Good
  <2> QED BY <1>1, <1>2, <2>1, FoldInduction
<1> QED BY <1>3

LEMMA FoldsExist ==
  ASSUME NEW f, NEW S, IsFiniteSet(S)
  PROVE  \E g : Folds(f, S, g)
<1> DEFINE Good == {T \in SUBSET S : \E g : Folds(f, T, g)}
           G(T) == CHOOSE g : Folds(f, T, g)
<1>1. ASSUME NEW T \in SUBSET S, \A U \in SUBSET T : U # T => U \in Good
      PROVE  T \in Good
  <2> DEFINE Value(s) == IF s = {} THEN 0 ELSE f[Pick(s)] + G(s \ {Pick(s)})[s \ {Pick(s)}]
             g == [s \in SUBSET T |-> Value(s)]
  <2>1. ASSUME NEW U \in SUBSET T, U # T PROVE Folds(f, U, G(U)) /\ IsFiniteSet(U)
    BY <1>1, <2>1, FS_Subset
  <2>2. ASSUME NEW U \in SUBSET T, U # T PROVE g[U] = G(U)[U]
    <3>1. CASE U = {}
      <4> HIDE DEF G
      <4>1. G(U)[{}] = 0 BY <2>1, <2>2, <3>1 DEF Folds
      <4> QED BY <3>1, <4>1
    <3>2. CASE U # {}
      <4>1. U \ {Pick(U)} \in SUBSET U /\ U \ {Pick(U)} # T
        BY <2>2, <3>2
      <4>2. G(U)[U \ {Pick(U)}] = G(U \ {Pick(U)})[U \ {Pick(U)}]
        <5> HIDE DEF G
        <5> QED BY <2>1, <2>2, <4>1, FoldsAgree
      <4>3. G(U)[U] = f[Pick(U)] + G(U)[U \ {Pick(U)}]
        <5> HIDE DEF G
        <5> QED BY <2>1, <2>2, <3>2 DEF Folds
      <4> QED BY <3>2, <4>2, <4>3
    <3> QED BY <3>1, <3>2
  <2>3. ASSUME NEW s \in SUBSET T
        PROVE  g[s] = IF s = {} THEN 0 ELSE f[Pick(s)] + g[s \ {Pick(s)}]
    <3>1. CASE s = {} BY <3>1
    <3>2. CASE s # {}
      <4>1. s \ {Pick(s)} \in SUBSET T /\ s \ {Pick(s)} # T
        BY <3>2, PickIn
      <4>2. g[s \ {Pick(s)}] = G(s \ {Pick(s)})[s \ {Pick(s)}]
        <5> HIDE DEF g, G
        <5> QED BY <2>2, <4>1
      <4> QED BY <3>2, <4>2
    <3> QED BY <3>1, <3>2
  <2>4. Folds(f, T, g)
    <3>1. g = [s \in SUBSET T |-> g[s]] OBVIOUS
    <3> HIDE DEF g
    <3> QED BY <2>3, <3>1 DEF Folds
  <2> QED BY <2>4
<1>2. S \in Good
  <2> HIDE DEF Good
  <2> QED BY <1>1, SubsetInduction, Zenon
<1> QED BY <1>2

(* A sum is its fold's function at the whole set.                          *)
LEMMA SumFolds ==
  ASSUME NEW f, NEW S, IsFiniteSet(S)
  PROVE  \E g : Folds(f, S, g) /\ SumFunctionOnSet(f, S) = g[S]
<1> DEFINE c == CHOOSE g : Folds(f, S, g)
<1>1. Folds(f, S, c) BY FoldsExist
<1>2. SumFunctionOnSet(f, S) = c[S]
  BY DEF SumFunctionOnSet, FoldFunctionOnSet, MapThenFoldSet, Folds, Pick
<1> QED BY <1>1, <1>2

(* Taking one element off.                                                 *)
LEMMA SumUnfold ==
  ASSUME NEW f, NEW S, IsFiniteSet(S)
  PROVE  SumFunctionOnSet(f, S) =
           IF S = {} THEN 0 ELSE f[Pick(S)] + SumFunctionOnSet(f, S \ {Pick(S)})
<1>1. PICK g : Folds(f, S, g) /\ SumFunctionOnSet(f, S) = g[S]
  BY SumFolds
<1>2. CASE S = {} BY <1>1, <1>2 DEF Folds
<1>3. CASE S # {}
  <2> DEFINE T == S \ {Pick(S)}
  <2>1. T \in SUBSET S /\ IsFiniteSet(T) BY FS_Subset
  <2>2. PICK h : Folds(f, T, h) /\ SumFunctionOnSet(f, T) = h[T]
    BY <2>1, SumFolds
  <2>3. g[T] = h[T] BY <1>1, <2>1, <2>2, FoldsAgree
  <2>4. g[S] = f[Pick(S)] + g[T] BY <1>1, <1>3 DEF Folds
  <2> QED BY <1>1, <1>3, <2>2, <2>3, <2>4
<1> QED BY <1>2, <1>3

LEMMA SumEmpty == ASSUME NEW f PROVE SumFunctionOnSet(f, {}) = 0
<1>1. IsFiniteSet({}) BY FS_EmptySet
<1> QED BY <1>1, SumUnfold, Zenon

LEMMA SumType ==
  ASSUME NEW S, IsFiniteSet(S), NEW f, \A x \in S : f[x] \in Int
  PROVE  SumFunctionOnSet(f, S) \in Int
<1> DEFINE Good == {T \in SUBSET S : SumFunctionOnSet(f, T) \in Int}
<1>1. {} \in Good
  BY FS_EmptySet, SumEmpty
<1>2. ASSUME NEW T \in SUBSET S, T # {}, T \ {Pick(T)} \in Good
      PROVE  T \in Good
  <2>1. IsFiniteSet(T) /\ f[Pick(T)] \in Int
    BY <1>2, FS_Subset, PickIn
  <2> QED BY <1>2, <2>1, SumUnfold
<1>3. S \in Good
  <2> HIDE DEF Good
  <2> QED BY <1>1, <1>2, FoldInduction
<1> QED BY <1>3

LEMMA SumOfZeros ==
  ASSUME NEW S, IsFiniteSet(S), NEW f \in [S -> Int], \A x \in S : f[x] = 0
  PROVE  SumFunctionOnSet(f, S) = 0
<1> DEFINE Good == {T \in SUBSET S : SumFunctionOnSet(f, T) = 0}
<1>1. {} \in Good
  BY FS_EmptySet, SumEmpty
<1>2. ASSUME NEW T \in SUBSET S, T # {}, T \ {Pick(T)} \in Good
      PROVE  T \in Good
  <2>1. IsFiniteSet(T) /\ f[Pick(T)] = 0
    BY <1>2, FS_Subset, PickIn
  <2> QED BY <1>2, <2>1, SumUnfold
<1>3. S \in Good
  <2> HIDE DEF Good
  <2> QED BY <1>1, <1>2, FoldInduction
<1> QED BY <1>3

(* Two functions that differ at one argument, by d.                        *)
LEMMA SumChange ==
  ASSUME NEW S, IsFiniteSet(S), NEW f \in [S -> Int], NEW g \in [S -> Int],
         NEW h \in S, NEW d \in Int, g[h] = f[h] + d,
         \A x \in S : x # h => g[x] = f[x]
  PROVE  SumFunctionOnSet(g, S) = SumFunctionOnSet(f, S) + d
<1> DEFINE Good == {T \in SUBSET S : /\ SumFunctionOnSet(f, T) \in Int
                                     /\ SumFunctionOnSet(g, T) =
                                          SumFunctionOnSet(f, T) + (IF h \in T THEN d ELSE 0)}
<1>1. {} \in Good
  BY FS_EmptySet, SumEmpty
<1>2. ASSUME NEW T \in SUBSET S, T # {}, T \ {Pick(T)} \in Good
      PROVE  T \in Good
  <2> DEFINE x == Pick(T)
             R == T \ {x}
  <2>1. IsFiniteSet(T) /\ x \in T /\ x \in S
    BY <1>2, FS_Subset, PickIn
  <2>2. /\ SumFunctionOnSet(f, T) = f[x] + SumFunctionOnSet(f, R)
        /\ SumFunctionOnSet(g, T) = g[x] + SumFunctionOnSet(g, R)
    BY <1>2, <2>1, SumUnfold
  <2>3. CASE x = h
    <3>1. SumFunctionOnSet(g, R) = SumFunctionOnSet(f, R) /\ h \in T
      BY <1>2, <2>1, <2>3
    <3> QED BY <1>2, <2>1, <2>2, <2>3, <3>1
  <2>4. CASE x # h
    <3>1. g[x] = f[x] /\ (h \in R <=> h \in T)
      BY <2>1, <2>4
    <3> QED BY <1>2, <2>1, <2>2, <3>1
  <2> QED BY <2>3, <2>4
<1>3. S \in Good
  <2> HIDE DEF Good
  <2> QED BY <1>1, <1>2, FoldInduction
<1> QED BY <1>3

(* A bound that holds at each argument, added up.                          *)
LEMMA SumBound ==
  ASSUME NEW S, IsFiniteSet(S), NEW f \in [S -> Int], NEW g \in [S -> Int],
         NEW a \in Int, NEW b \in Int, NEW c \in Int,
         \A x \in S : a * f[x] <= b * g[x] + c
  PROVE  a * SumFunctionOnSet(f, S) <= b * SumFunctionOnSet(g, S) + c * Cardinality(S)
<1> DEFINE Good == {T \in SUBSET S :
             a * SumFunctionOnSet(f, T) <= b * SumFunctionOnSet(g, T) + c * Cardinality(T)}
<1>1. {} \in Good
  BY FS_EmptySet, SumEmpty
<1>2. ASSUME NEW T \in SUBSET S, T # {}, T \ {Pick(T)} \in Good
      PROVE  T \in Good
  <2> DEFINE x == Pick(T)
             R == T \ {x}
  <2>1. IsFiniteSet(T) /\ IsFiniteSet(R) /\ x \in T /\ x \in S
    BY <1>2, FS_Subset, PickIn
  <2>2. /\ SumFunctionOnSet(f, T) = f[x] + SumFunctionOnSet(f, R)
        /\ SumFunctionOnSet(g, T) = g[x] + SumFunctionOnSet(g, R)
    BY <1>2, <2>1, SumUnfold
  <2>3. Cardinality(T) = Cardinality(R) + 1 /\ Cardinality(R) \in Nat
    BY <2>1, FS_RemoveElement, FS_CardinalityType
  <2>5. SumFunctionOnSet(f, R) \in Int /\ SumFunctionOnSet(g, R) \in Int
    BY <2>1, SumType
  <2>6. ASSUME NEW u \in Int, NEW v \in Int, NEW n \in Int,
               a * u <= b * v + c * n, a * f[x] <= b * g[x] + c
        PROVE  a * (f[x] + u) <= b * (g[x] + v) + c * (n + 1)
    <3>1. f[x] \in Int /\ g[x] \in Int BY <2>1
    <3>2. a * (f[x] + u) = a * f[x] + a * u BY <3>1
    <3>3. b * (g[x] + v) = b * g[x] + b * v BY <3>1
    <3>4. c * (n + 1) = c * n + c OBVIOUS
    <3> HIDE DEF x
    <3> QED BY <2>6, <3>1, <3>2, <3>3, <3>4
  <2>7. a * SumFunctionOnSet(f, R) <= b * SumFunctionOnSet(g, R) + c * Cardinality(R)
    BY <1>2
  <2>8. a * (f[x] + SumFunctionOnSet(f, R))
          <= b * (g[x] + SumFunctionOnSet(g, R)) + c * (Cardinality(R) + 1)
    <3> HIDE DEF x, R
    <3> QED BY <2>1, <2>3, <2>5, <2>6, <2>7
  <2> QED
    <3> HIDE DEF x, R
    <3> QED BY <1>2, <2>2, <2>3, <2>8
<1>3. S \in Good
  <2> HIDE DEF Good
  <2> QED BY <1>1, <1>2, FoldInduction
<1> QED BY <1>3
=============================================================================
