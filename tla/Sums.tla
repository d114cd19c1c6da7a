-------------------------------- MODULE Sums --------------------------------
(***************************************************************************)
(* Sums over finite sets, which the ledgers of the contracts are about:    *)
(* what the escrow, the staking and the delegation contract hold is the    *)
(* sum of what they owe. The lemmas say how a sum changes when one summand *)
(* does, when two functions are added and when the set grows or shrinks.   *)
(*                                                                         *)
(* The library's induction theorems take a predicate as parameter, which   *)
(* the provers cannot instantiate; SubsetInduction takes the set of the    *)
(* subsets that satisfy the predicate instead.                             *)
(***************************************************************************)
EXTENDS Integers, FiniteSets, FiniteSetsExt, FiniteSetTheorems, WellFoundedInduction, TLAPS

(* The sum of f[x] over the x of S. *)
SumOver(f, S) == MapThenSumSet(LAMBDA x : f[x], S)

(* Every non-empty set of naturals has a least element. *)
LEMMA LeastElement ==
  ASSUME NEW T \in SUBSET Nat, T # {}
  PROVE  \E x \in T : \A y \in T : x <= y
<1>1. IsWellFoundedOn(OpToRel(<, Nat), Nat)
  BY NatLessThanWellFounded, Zenon
<1>2. PICK x \in T : \A y \in T : ~ (<<y, x>> \in OpToRel(<, Nat))
  BY <1>1, WFMin, Zenon
<1>3. ASSUME NEW y \in T PROVE x <= y
  <2>1. ~ (<<y, x>> \in {r \in Nat \X Nat : r[1] < r[2]})
    BY <1>2, <1>3 DEF OpToRel
  <2> QED BY <2>1, <1>3, SMT
<1> QED BY <1>3

(* Induction on the subsets of a finite set: a set G of subsets that holds *)
(* every subset of which it holds all the proper ones holds the whole set. *)
LEMMA SubsetInduction ==
  ASSUME NEW S, IsFiniteSet(S), NEW G \in SUBSET (SUBSET S),
         \A s \in SUBSET S : (\A t \in SUBSET s : t # s => t \in G) => s \in G
  PROVE  S \in G
<1> DEFINE T == {n \in Nat : \E s \in SUBSET S : s \notin G /\ Cardinality(s) = n}
<1>1. SUFFICES ASSUME S \notin G PROVE FALSE
  OBVIOUS
<1>2. Cardinality(S) \in T
  BY <1>1, FS_CardinalityType
<1>3. PICK n \in T : \A m \in T : n <= m
  <2>1. T \in SUBSET Nat
    OBVIOUS
  <2> HIDE DEF T
  <2> QED BY <1>2, <2>1, LeastElement
<1>4. PICK s \in SUBSET S : s \notin G /\ Cardinality(s) = n
  BY <1>3
<1>5. IsFiniteSet(s)
  BY FS_Subset
<1>6. ASSUME NEW t \in SUBSET s, t # s PROVE t \in G
  <2>1. IsFiniteSet(t) /\ Cardinality(t) <= n /\ Cardinality(t) # n
    BY <1>4, <1>5, <1>6, FS_Subset
  <2>2. Cardinality(t) \in Nat /\ n \in Nat
    BY <1>3, <2>1, FS_CardinalityType
  <2>3. Cardinality(t) \notin T
    BY <1>3, <2>1, <2>2
  <2>4. t \in SUBSET S
    OBVIOUS
  <2> QED BY <2>2, <2>3, <2>4
<1> QED BY <1>4, <1>6

(* The element the sum takes next, and the table of the sums over the      *)
(* subsets of S.                                                           *)
Summand(s) == CHOOSE x \in s : TRUE
IsSumTable(g, f, S) ==
  g = [s \in SUBSET S |-> IF s = {} THEN 0 ELSE f[Summand(s)] + g[s \ {Summand(s)}]]

LEMMA SummandPicked == ASSUME NEW s, s # {} PROVE Summand(s) \in s /\ s \ {Summand(s)} # s
BY DEF Summand

(* Tables agree on what they have in common. *)
LEMMA SumTablesAgree ==
  ASSUME NEW f, NEW S, NEW g, IsSumTable(g, f, S),
         NEW T \in SUBSET S, IsFiniteSet(T), NEW h, IsSumTable(h, f, T)
  PROVE  g[T] = h[T]
<1> DEFINE G == {s \in SUBSET T : g[s] = h[s]}
<1>1. ASSUME NEW s \in SUBSET T, \A t \in SUBSET s : t # s => t \in G
      PROVE  s \in G
  <2>1. g[s] = IF s = {} THEN 0 ELSE f[Summand(s)] + g[s \ {Summand(s)}]
    BY Zenon DEF IsSumTable
  <2>2. h[s] = IF s = {} THEN 0 ELSE f[Summand(s)] + h[s \ {Summand(s)}]
    BY Zenon DEF IsSumTable
  <2>3. s # {} => g[s \ {Summand(s)}] = h[s \ {Summand(s)}]
    BY <1>1, SummandPicked
  <2> QED BY <2>1, <2>2, <2>3
<1>2. T \in G
  <2>1. G \in SUBSET (SUBSET T)
    OBVIOUS
  <2> HIDE DEF G
  <2> QED BY <1>1, <2>1, SubsetInduction
<1> QED BY <1>2

(* The sum as the table of S gives it. *)
TableSum(f, S) == (CHOOSE g : IsSumTable(g, f, S))[S]

(* A finite set has a table of sums. *)
LEMMA SumTableExists ==
  ASSUME NEW f, NEW S, IsFiniteSet(S)
  PROVE  \E g : IsSumTable(g, f, S)
<1> DEFINE G == {s \in SUBSET S : \E g : IsSumTable(g, f, s)}
<1>1. ASSUME NEW s \in SUBSET S, \A t \in SUBSET s : t # s => t \in G
      PROVE  s \in G
  <2>f. \A t \in SUBSET s : IsFiniteSet(t)
    BY FS_Subset
  <2>1. ASSUME NEW u \in SUBSET s, u # s
        PROVE  TableSum(f, u) = IF u = {} THEN 0 ELSE f[Summand(u)] + TableSum(f, u \ {Summand(u)})
    <3> DEFINE h == CHOOSE g : IsSumTable(g, f, u)
               w == u \ {Summand(u)}
    <3>1. IsSumTable(h, f, u)
      BY <1>1, <2>1
    <3>2. h[u] = IF u = {} THEN 0 ELSE f[Summand(u)] + h[w]
      <4> HIDE DEF h
      <4> QED BY <3>1, Zenon DEF IsSumTable
    <3>3. u # {} => h[w] = TableSum(f, w)
      <4> SUFFICES ASSUME u # {} PROVE h[w] = TableSum(f, w)
        OBVIOUS
      <4>1. w \in SUBSET u /\ w \in SUBSET s /\ w # s
        BY <2>1, SummandPicked
      <4>2. IsSumTable(CHOOSE g : IsSumTable(g, f, w), f, w)
        BY <1>1, <4>1, Zenon
      <4> HIDE DEF h, w
      <4> QED BY <2>f, <3>1, <4>1, <4>2, SumTablesAgree DEF TableSum
    <3> QED BY <3>2, <3>3 DEF TableSum
  <2> DEFINE g == [t \in SUBSET s |->
                     IF t = {} THEN 0 ELSE f[Summand(t)] + TableSum(f, t \ {Summand(t)})]
  <2>2. ASSUME NEW t \in SUBSET s, t # {}
        PROVE  g[t \ {Summand(t)}] = TableSum(f, t \ {Summand(t)})
    <3> DEFINE u == t \ {Summand(t)}
    <3>1. u \in SUBSET s /\ u # s
      BY <2>2, SummandPicked
    <3> QED BY <2>1, <3>1, Zenon
  <2>3. IsSumTable(g, f, s)
    <3>1. g = [t \in SUBSET s |-> IF t = {} THEN 0 ELSE f[Summand(t)] + g[t \ {Summand(t)}]]
      BY <2>2, Zenon
    <3> QED BY <3>1, Zenon DEF IsSumTable
  <2> QED BY <2>3
<1>2. S \in G
  <2>1. G \in SUBSET (SUBSET S)
    OBVIOUS
  <2> HIDE DEF G
  <2> QED BY <1>1, <2>1, SubsetInduction
<1> QED BY <1>2

(* What the sum is made of: nothing for the empty set, else the element    *)
(* picked and the sum of the others.                                       *)
LEMMA SumOverPick ==
  ASSUME NEW f, NEW S, IsFiniteSet(S)
  PROVE  SumOver(f, S) = IF S = {} THEN 0 ELSE f[Summand(S)] + SumOver(f, S \ {Summand(S)})
<1>1. ASSUME NEW T PROVE SumOver(f, T) = TableSum(f, T)
  BY DEF SumOver, MapThenSumSet, MapThenFoldSet, TableSum, IsSumTable, Summand
<1> DEFINE g == CHOOSE h : IsSumTable(h, f, S)
           R == S \ {Summand(S)}
<1>2. IsSumTable(g, f, S)
  BY SumTableExists
<1>3. g[S] = IF S = {} THEN 0 ELSE f[Summand(S)] + g[R]
  <2> HIDE DEF g
  <2> QED BY <1>2, Zenon DEF IsSumTable
<1>4. g[R] = TableSum(f, R)
  <2>1. IsFiniteSet(R) /\ R \in SUBSET S
    BY FS_Subset
  <2>2. IsSumTable(CHOOSE h : IsSumTable(h, f, R), f, R)
    BY <2>1, SumTableExists
  <2> HIDE DEF g, R
  <2> QED BY <1>2, <2>1, <2>2, SumTablesAgree DEF TableSum
<1>5. SumOver(f, S) = g[S] /\ SumOver(f, R) = TableSum(f, R)
  BY <1>1, Zenon DEF TableSum
<1> HIDE DEF g
<1> QED BY <1>3, <1>4, <1>5
-----------------------------------------------------------------------------
(* The sum of integers is an integer, of naturals a natural. *)
LEMMA SumOverType ==
  ASSUME NEW S, IsFiniteSet(S), NEW f, \A x \in S : f[x] \in Int
  PROVE  /\ SumOver(f, S) \in Int
         /\ (\A x \in S : f[x] \in Nat) => SumOver(f, S) \in Nat
<1> DEFINE nat == \A x \in S : f[x] \in Nat
           G == {s \in SUBSET S : SumOver(f, s) \in Int /\ (nat => SumOver(f, s) \in Nat)}
<1>1. ASSUME NEW s \in SUBSET S, \A t \in SUBSET s : t # s => t \in G
      PROVE  s \in G
  <2>1. IsFiniteSet(s)
    BY FS_Subset
  <2>2. SumOver(f, s) = IF s = {} THEN 0 ELSE f[Summand(s)] + SumOver(f, s \ {Summand(s)})
    BY <2>1, SumOverPick
  <2>3. s # {} => /\ Summand(s) \in S /\ s \ {Summand(s)} \in G
    BY <1>1, SummandPicked
  <2>4. s # {} => /\ f[Summand(s)] \in Int /\ (nat => f[Summand(s)] \in Nat)
                  /\ SumOver(f, s \ {Summand(s)}) \in Int
                  /\ (nat => SumOver(f, s \ {Summand(s)}) \in Nat)
    BY <2>3
  <2> HIDE DEF nat
  <2> QED BY <2>2, <2>4
<1>2. S \in G
  <2>1. G \in SUBSET (SUBSET S)
    OBVIOUS
  <2> HIDE DEF G
  <2> QED BY <1>1, <2>1, SubsetInduction
<1> QED BY <1>2

(* Any element of the set may be taken out first. *)
LEMMA SumOverRemove ==
  ASSUME NEW S, IsFiniteSet(S), NEW f, \A x \in S : f[x] \in Int, NEW a \in S
  PROVE  SumOver(f, S) = f[a] + SumOver(f, S \ {a})
<1> DEFINE G == {s \in SUBSET S : \A x \in s : SumOver(f, s) = f[x] + SumOver(f, s \ {x})}
<1>1. ASSUME NEW s \in SUBSET S, \A t \in SUBSET s : t # s => t \in G
      PROVE  s \in G
  <2> SUFFICES ASSUME NEW x \in s PROVE SumOver(f, s) = f[x] + SumOver(f, s \ {x})
    OBVIOUS
  <2> DEFINE y == Summand(s)
  <2>1. \A t \in SUBSET s : IsFiniteSet(t) /\ SumOver(f, t) \in Int
    <3> SUFFICES ASSUME NEW t \in SUBSET s PROVE IsFiniteSet(t) /\ SumOver(f, t) \in Int
      OBVIOUS
    <3>1. IsFiniteSet(t)
      <4>1. t \in SUBSET S
        OBVIOUS
      <4> QED BY <4>1, FS_Subset
    <3> QED BY <3>1, SumOverType
  <2>2. y \in s /\ SumOver(f, s) = f[y] + SumOver(f, s \ {y})
    BY <2>1, SummandPicked, SumOverPick
  <2> HIDE DEF y
  <2>3. CASE x = y
    BY <2>2, <2>3
  <2>4. CASE x # y
    <3> DEFINE r == (s \ {x}) \ {y}
    <3>1. s \ {y} \in G /\ s \ {x} \in G
      BY <1>1, <2>2
    <3>2. SumOver(f, s \ {y}) = f[x] + SumOver(f, r)
      <4>1. (s \ {y}) \ {x} = r
        OBVIOUS
      <4>2. SumOver(f, s \ {y}) = f[x] + SumOver(f, (s \ {y}) \ {x})
        BY <2>4, <3>1
      <4> HIDE DEF r
      <4> QED BY <4>1, <4>2
    <3>3. SumOver(f, s \ {x}) = f[y] + SumOver(f, r)
      BY <2>2, <2>4, <3>1
    <3>4. SumOver(f, r) \in Int /\ f[x] \in Int /\ f[y] \in Int
      BY <2>1, <2>2
    <3> HIDE DEF r
    <3> QED BY <2>2, <3>2, <3>3, <3>4
  <2> QED BY <2>3, <2>4
<1>2. S \in G
  <2>1. G \in SUBSET (SUBSET S)
    OBVIOUS
  <2> HIDE DEF G
  <2> QED BY <1>1, <2>1, SubsetInduction
<1> QED BY <1>2

(* Adding functions adds their sums. *)
LEMMA SumOverPlus ==
  ASSUME NEW S, IsFiniteSet(S), NEW f, NEW g, NEW h,
         \A x \in S : f[x] \in Int /\ g[x] \in Int /\ h[x] = f[x] + g[x]
  PROVE  SumOver(h, S) = SumOver(f, S) + SumOver(g, S)
<1> DEFINE G == {s \in SUBSET S : SumOver(h, s) = SumOver(f, s) + SumOver(g, s)}
<1>1. ASSUME NEW s \in SUBSET S, \A t \in SUBSET s : t # s => t \in G
      PROVE  s \in G
  <2> DEFINE y == Summand(s)
             r == s \ {y}
  <2>1. IsFiniteSet(s) /\ IsFiniteSet(r)
    BY FS_Subset
  <2>2. \A k : SumOver(k, s) = IF s = {} THEN 0 ELSE k[y] + SumOver(k, r)
    BY <2>1, SumOverPick
  <2>3. s # {} => y \in S /\ r \in G
    BY <1>1, SummandPicked
  <2>4. SumOver(f, r) \in Int /\ SumOver(g, r) \in Int
    <3>1. \A x \in r : f[x] \in Int /\ g[x] \in Int
      OBVIOUS
    <3> QED BY <2>1, <3>1, SumOverType
  <2>5. s # {} => /\ f[y] \in Int /\ g[y] \in Int /\ h[y] = f[y] + g[y]
                  /\ SumOver(h, r) = SumOver(f, r) + SumOver(g, r)
    BY <2>3
  <2>6. SumOver(h, s) = SumOver(f, s) + SumOver(g, s)
    <3> HIDE DEF y, r
    <3> QED BY <2>2, <2>4, <2>5
  <2> QED BY <2>6
<1>2. S \in G
  <2>1. G \in SUBSET (SUBSET S)
    OBVIOUS
  <2> HIDE DEF G
  <2> QED BY <1>1, <2>1, SubsetInduction
<1> QED BY <1>2

(* Functions that agree on the set have the same sum. *)
LEMMA SumOverSame ==
  ASSUME NEW S, IsFiniteSet(S), NEW f, NEW g, \A x \in S : f[x] \in Int /\ g[x] = f[x]
  PROVE  SumOver(g, S) = SumOver(f, S)
<1> DEFINE G == {s \in SUBSET S : SumOver(g, s) = SumOver(f, s)}
<1>1. ASSUME NEW s \in SUBSET S, \A t \in SUBSET s : t # s => t \in G
      PROVE  s \in G
  <2>1. IsFiniteSet(s)
    BY FS_Subset
  <2>2. \A k : SumOver(k, s) = IF s = {} THEN 0 ELSE k[Summand(s)] + SumOver(k, s \ {Summand(s)})
    BY <2>1, SumOverPick
  <2>3. s # {} => Summand(s) \in S /\ s \ {Summand(s)} \in G
    BY <1>1, SummandPicked
  <2> QED BY <2>2, <2>3
<1>2. S \in G
  <2>1. G \in SUBSET (SUBSET S)
    OBVIOUS
  <2> HIDE DEF G
  <2> QED BY <1>1, <2>1, SubsetInduction
<1> QED BY <1>2

(* Changing one summand changes the sum by the same amount. *)
LEMMA SumOverUpdate ==
  ASSUME NEW S, IsFiniteSet(S), NEW f, NEW g, NEW a \in S,
         \A x \in S : f[x] \in Int, g[a] \in Int, \A x \in S : x # a => g[x] = f[x]
  PROVE  SumOver(g, S) = SumOver(f, S) + g[a] - f[a]
<1> DEFINE R == S \ {a}
<1>1. IsFiniteSet(R) /\ \A x \in R : f[x] \in Int /\ g[x] = f[x]
  BY FS_Subset
<1>2. SumOver(g, R) = SumOver(f, R) /\ SumOver(f, R) \in Int
  BY <1>1, SumOverSame, SumOverType
<1>3. SumOver(f, S) = f[a] + SumOver(f, R)
  BY SumOverRemove
<1>4. SumOver(g, S) = g[a] + SumOver(g, R)
  <2>1. \A x \in S : g[x] \in Int
    OBVIOUS
  <2> QED BY <2>1, SumOverRemove
<1> HIDE DEF R
<1> QED BY <1>2, <1>3, <1>4

(* The summand of a is raised by v, or lowered if v is negative. *)
Credited(g, f, S, a, v) ==
  \A x \in S : f[x] \in Int /\ g[x] = f[x] + (IF x = a THEN v ELSE 0)

LEMMA Credit ==
  ASSUME NEW S, IsFiniteSet(S), NEW f, NEW g, NEW a \in S, NEW v \in Int, Credited(g, f, S, a, v)
  PROVE  /\ SumOver(g, S) = SumOver(f, S) + v
         /\ \A x \in S : g[x] \in Int
<1>1. g[a] = f[a] + v /\ f[a] \in Int
  BY DEF Credited
<1>2. \A x \in S : f[x] \in Int /\ g[x] \in Int
  BY DEF Credited
<1>3. \A x \in S : x # a => g[x] = f[x]
  BY DEF Credited
<1>4. SumOver(g, S) = SumOver(f, S) + g[a] - f[a]
  <2>1. g[a] \in Int
    BY <1>2
  <2>2. \A x \in S : f[x] \in Int
    BY <1>2
  <2> QED BY <2>1, <2>2, <1>3, SumOverUpdate
<1>5. SumOver(f, S) \in Int
  BY <1>2, SumOverType
<1> QED BY <1>1, <1>2, <1>4, <1>5

(* The sum of a constant. *)
LEMMA SumOverConst ==
  ASSUME NEW S, IsFiniteSet(S), NEW f, NEW c \in Int, \A x \in S : f[x] = c
  PROVE  SumOver(f, S) = c * Cardinality(S)
<1> DEFINE G == {s \in SUBSET S : SumOver(f, s) = c * Cardinality(s)}
<1>1. ASSUME NEW s \in SUBSET S, \A t \in SUBSET s : t # s => t \in G
      PROVE  s \in G
  <2> DEFINE y == Summand(s)
             r == s \ {y}
  <2>1. IsFiniteSet(s) /\ Cardinality(s) \in Nat
    BY FS_Subset, FS_CardinalityType
  <2>2. SumOver(f, s) = IF s = {} THEN 0 ELSE f[y] + SumOver(f, r)
    BY <2>1, SumOverPick
  <2>3. s # {} => y \in s /\ f[y] = c /\ SumOver(f, r) = c * Cardinality(r)
    BY <1>1, SummandPicked
  <2>4. s # {} => Cardinality(r) = Cardinality(s) - 1
    BY <2>1, <2>3, FS_RemoveElement, Zenon
  <2>5. s = {} => Cardinality(s) = 0
    BY FS_EmptySet
  <2>6. SumOver(f, s) = c * Cardinality(s)
    <3> HIDE DEF y, r
    <3>1. CASE s = {}
      BY <2>2, <2>5, <3>1
    <3>2. CASE s # {}
      <4>1. SumOver(f, s) = c + c * (Cardinality(s) - 1)
        BY <2>2, <2>3, <2>4, <3>2
      <4>2. \A n \in Nat : c + c * (n - 1) = c * n
        OBVIOUS
      <4> QED BY <2>1, <4>1, <4>2
    <3> QED BY <3>1, <3>2
  <2> QED BY <2>6
<1>2. S \in G
  <2>1. G \in SUBSET (SUBSET S)
    OBVIOUS
  <2> HIDE DEF G
  <2> QED BY <1>1, <2>1, SubsetInduction
<1> QED BY <1>2

(* The sum of zeros is zero, and of a function with one other value that   *)
(* value.                                                                  *)
LEMMA SumOverZero ==
  ASSUME NEW S, IsFiniteSet(S), NEW f, \A x \in S : f[x] = 0
  PROVE  SumOver(f, S) = 0
<1>1. SumOver(f, S) = 0 * Cardinality(S) /\ Cardinality(S) \in Nat
  BY SumOverConst, FS_CardinalityType
<1> QED BY <1>1

LEMMA SumOverSingle ==
  ASSUME NEW S, IsFiniteSet(S), NEW f, NEW a \in S, f[a] \in Int,
         \A x \in S : x # a => f[x] = 0
  PROVE  SumOver(f, S) = f[a]
<1> DEFINE R == S \ {a}
<1>1. IsFiniteSet(R) /\ \A x \in R : f[x] = 0
  BY FS_Subset
<1>2. SumOver(f, R) = 0
  BY <1>1, SumOverZero
<1>3. \A x \in S : f[x] \in Int
  OBVIOUS
<1>4. SumOver(f, S) = f[a] + SumOver(f, R)
  BY <1>3, SumOverRemove
<1> QED BY <1>2, <1>4

(* The sum over two sets that have nothing in common. *)
LEMMA SumOverUnion ==
  ASSUME NEW S, IsFiniteSet(S), NEW T, IsFiniteSet(T), S \cap T = {},
         NEW f, \A x \in S \cup T : f[x] \in Int
  PROVE  SumOver(f, S \cup T) = SumOver(f, S) + SumOver(f, T)
<1> DEFINE G == {s \in SUBSET S : SumOver(f, s \cup T) = SumOver(f, s) + SumOver(f, T)}
<1>1. ASSUME NEW s \in SUBSET S, \A t \in SUBSET s : t # s => t \in G
      PROVE  s \in G
  <2>1. IsFiniteSet(s)
    BY FS_Subset
  <2>2. SumOver(f, T) \in Int
    BY SumOverType
  <2>3. CASE s = {}
    <3>1. s \cup T = T /\ SumOver(f, s) = 0
      BY <2>1, <2>3, SumOverPick, Zenon
    <3>2. SumOver(f, s \cup T) = SumOver(f, T)
      BY <3>1
    <3> QED BY <2>2, <3>1, <3>2
  <2>4. CASE s # {}
    <3> DEFINE y == Summand(s)
               r == s \ {y}
    <3>1. y \in s /\ r \in G
      BY <1>1, <2>4, SummandPicked
    <3>2. (s \cup T) \ {y} = r \cup T
      BY <3>1
    <3>3. SumOver(f, s \cup T) = f[y] + SumOver(f, r \cup T)
      <4>1. IsFiniteSet(s \cup T)
        BY <2>1, FS_Union, Zenon
      <4>2. \A x \in s \cup T : f[x] \in Int
        OBVIOUS
      <4>3. SumOver(f, s \cup T) = f[y] + SumOver(f, (s \cup T) \ {y})
        BY <3>1, <4>1, <4>2, SumOverRemove
      <4> HIDE DEF r
      <4> QED BY <3>2, <4>3, Zenon
    <3>4. SumOver(f, s) = f[y] + SumOver(f, r)
      BY <2>1, <3>1, SumOverRemove
    <3>5. SumOver(f, r) \in Int /\ f[y] \in Int
      <4>1. IsFiniteSet(r) /\ \A x \in r : f[x] \in Int
        BY <2>1, FS_Subset
      <4> QED BY <3>1, <4>1, SumOverType
    <3>6. SumOver(f, r \cup T) = SumOver(f, r) + SumOver(f, T)
      BY <3>1
    <3>7. SumOver(f, s \cup T) = SumOver(f, s) + SumOver(f, T)
      <4> HIDE DEF y, r
      <4> QED BY <2>2, <3>3, <3>4, <3>5, <3>6
    <3> QED BY <3>7
  <2> QED BY <2>3, <2>4
<1>2. S \in G
  <2>1. G \in SUBSET (SUBSET S)
    OBVIOUS
  <2> HIDE DEF G
  <2> QED BY <1>1, <2>1, SubsetInduction
<1> QED BY <1>2

(* A summand of a sum of naturals is at most the sum. *)
LEMMA SumOverBound ==
  ASSUME NEW S, IsFiniteSet(S), NEW f, \A x \in S : f[x] \in Nat, NEW a \in S
  PROVE  SumOver(f, S) \in Nat /\ f[a] <= SumOver(f, S)
<1> DEFINE R == S \ {a}
<1>1. IsFiniteSet(R) /\ \A x \in R : f[x] \in Nat
  BY FS_Subset
<1>2. SumOver(f, R) \in Nat
  BY <1>1, SumOverType
<1>3. SumOver(f, S) = f[a] + SumOver(f, R)
  BY SumOverRemove
<1> HIDE DEF R
<1> QED BY <1>2, <1>3
-----------------------------------------------------------------------------
(* Shares of an amount, computed with integer division. *)

(* Multiplication by a natural is monotone. *)
LEMMA MulMono ==
  ASSUME NEW a \in Nat, NEW b \in Nat, NEW d \in Nat, b <= d
  PROVE  a*b <= a*d /\ a*b \in Nat
OBVIOUS

(* A quotient of a number of at most a*d by d is at most a. *)
LEMMA DivRange ==
  ASSUME NEW x \in Nat, NEW a \in Nat, NEW d \in Nat \ {0}, x <= a*d
  PROVE  x \div d \in 0..a
<1>1. x \div d \in Nat
  OBVIOUS
<1>2. (x \div d) * d <= x
  OBVIOUS
<1>3. x \div d > a => (x \div d) * d >= (a+1)*d
  BY <1>1
<1>4. (a+1)*d = a*d + d
  OBVIOUS
<1> QED BY <1>1, <1>2, <1>3, <1>4

(* The share b/d of an amount a, rounded down, is between 0 and a. *)
LEMMA ShareRange ==
  ASSUME NEW a \in Nat, NEW b \in Nat, NEW d \in Nat \ {0}, b <= d
  PROVE  (a*b) \div d \in 0..a
BY MulMono, DivRange
=============================================================================
