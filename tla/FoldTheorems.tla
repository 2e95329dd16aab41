----------------------------- MODULE FoldTheorems ----------------------------
(***************************************************************************)
(* Induction without operator parameters, and what it says of the folds    *)
(* that the modules use: a recursive function on the subsets of a finite   *)
(* set exists, the sum of a function does not depend on the order, a fold  *)
(* over a sequence goes through its prefixes.                              *)
(*                                                                         *)
(* A property P is handed to an induction lemma as the set of values that  *)
(* have it, which makes the lemma one of first-order logic.                *)
(***************************************************************************)
EXTENDS Integers, SequencesExt, FiniteSetTheorems, WellFoundedInduction, TLAPS

LEMMA LeastNatural ==
    ASSUME NEW T, T \subseteq Nat, T # {}
    PROVE  \E m \in T : \A k \in T : m <= k
<1>1. \E m \in T : \A k \in T : ~(<<k, m>> \in OpToRel(<, Nat))
  BY NatLessThanWellFounded, WFMin, Zenon
<1>2. PICK m \in T : \A k \in T : ~(<<k, m>> \in OpToRel(<, Nat))
  BY <1>1, Zenon
<1>3. \A k \in T : ~(k < m)
  BY <1>2 DEF OpToRel
<1> QED BY <1>3

LEMMA SetInduction ==
    ASSUME NEW P, 0 \in P, \A n \in Nat : n \in P => n + 1 \in P
    PROVE  Nat \subseteq P
<1> SUFFICES ASSUME Nat \ P # {} PROVE FALSE
  OBVIOUS
<1>1. PICK m \in Nat \ P : \A k \in Nat \ P : m <= k
  BY LeastNatural
<1>2. m # 0 /\ m - 1 \in Nat
  BY <1>1
<1>3. m - 1 \in P
  BY <1>1, <1>2
<1>4. (m - 1) + 1 \in P
  BY <1>2, <1>3
<1> QED BY <1>2, <1>4

(* The same on an interval from zero.                                      *)
LEMMA IntervalInduction ==
    ASSUME NEW N \in Nat, NEW P, 0 \in P, \A n \in 0..N : n < N /\ n \in P => n + 1 \in P
    PROVE  0..N \subseteq P
<1> DEFINE Q == {n \in Nat : n <= N => n \in P}
<1>1. 0 \in Q
  OBVIOUS
<1>2. ASSUME NEW n \in Nat, n \in Q PROVE n + 1 \in Q
  BY <1>2
<1> HIDE DEF Q
<1>3. Nat \subseteq Q
  BY <1>1, <1>2, SetInduction
<1> QED BY <1>3 DEF Q

-----------------------------------------------------------------------------
(* Recursion on the subsets of a finite set                                *)

Small(S, n) == {s \in SUBSET S : Cardinality(s) <= n}

(* One element is taken from a set, and the rest is folded before.         *)
Level(S, n, base, pick, step, g) ==
    [s \in Small(S, n) |-> IF s = {} THEN base ELSE step[s][g[s \ {pick[s]}]]]

Picks(pick, S) == \A s \in SUBSET S : s # {} => pick[s] \in s
Steps(step, S, V) == \A s \in SUBSET S : \A v \in V : step[s][v] \in V

IsTable(g, S, base, pick, step) ==
    g = [s \in SUBSET S |-> IF s = {} THEN base ELSE step[s][g[s \ {pick[s]}]]]

LEMMA SmallerSet ==
    ASSUME NEW S, IsFiniteSet(S), NEW n \in Nat, NEW s \in Small(S, n + 1), NEW x \in s
    PROVE  s \ {x} \in Small(S, n)
<1>1. IsFiniteSet(s)
  BY FS_Subset DEF Small
<1>2. Cardinality(s) \in Nat /\ Cardinality(s \ {x}) = Cardinality(s) - 1
  BY <1>1, FS_CardinalityType, FS_RemoveElement
<1> QED BY <1>2 DEF Small

LEMMA SmallGrows ==
    ASSUME NEW S, IsFiniteSet(S), NEW n \in Nat, NEW s \in Small(S, n)
    PROVE  s \in Small(S, n + 1)
<1>1. IsFiniteSet(s)
  BY FS_Subset DEF Small
<1>2. Cardinality(s) \in Nat
  BY <1>1, FS_CardinalityType
<1> QED BY <1>2 DEF Small

LEMMA NextLevel ==
    ASSUME NEW S, IsFiniteSet(S), NEW V, NEW base \in V, NEW pick, NEW step, NEW n \in Nat,
           Picks(pick, S), Steps(step, S, V),
           NEW g \in [Small(S, n) -> V], g = Level(S, n, base, pick, step, g)
    PROVE  \E h \in [Small(S, n + 1) -> V] : h = Level(S, n + 1, base, pick, step, h)
<1> DEFINE h == Level(S, n + 1, base, pick, step, g)
<1>1. \A s \in Small(S, n + 1) : s \in SUBSET S /\ (s # {} => s \ {pick[s]} \in Small(S, n))
  BY SmallerSet DEF Small, Picks
<1>2. \A s \in Small(S, n + 1) :
         h[s] = IF s = {} THEN base ELSE step[s][g[s \ {pick[s]}]]
  BY DEF Level
<1>3. h \in [Small(S, n + 1) -> V]
  <2>1. \A s \in Small(S, n + 1) : h[s] \in V
    BY <1>1, <1>2 DEF Steps
  <2> QED BY <2>1 DEF Level
<1>4. \A s \in Small(S, n) : h[s] = g[s]
  <2>1. \A s \in Small(S, n) :
           g[s] = IF s = {} THEN base ELSE step[s][g[s \ {pick[s]}]]
    BY DEF Level
  <2> QED BY <1>2, <2>1, SmallGrows
<1>5. \A s \in Small(S, n + 1) :
         h[s] = IF s = {} THEN base ELSE step[s][h[s \ {pick[s]}]]
  BY <1>1, <1>2, <1>4
<1>6. DOMAIN h = Small(S, n + 1) /\ h = [s \in Small(S, n + 1) |-> h[s]]
  BY <1>3
<1> HIDE DEF h
<1>7. h = Level(S, n + 1, base, pick, step, h)
  BY <1>5, <1>6 DEF Level
<1> QED BY <1>3, <1>7

(* What holds of the empty set, and of a set once it holds of the set      *)
(* without any one of its elements, holds of all.                          *)
LEMMA SubsetInduction ==
    ASSUME NEW S, IsFiniteSet(S), NEW P, {} \in P,
           \A s \in SUBSET S : s # {} /\ (\A x \in s : s \ {x} \in P) => s \in P
    PROVE  SUBSET S \subseteq P
<1> DEFINE Q == {n \in Nat : Small(S, n) \subseteq P}
<1>1. \A s \in SUBSET S : IsFiniteSet(s) /\ Cardinality(s) \in Nat /\ Cardinality(s) <= Cardinality(S)
  BY FS_Subset, FS_CardinalityType
<1>2. 0 \in Q
  <2>1. \A s \in SUBSET S : Cardinality(s) <= 0 => s = {}
    BY <1>1, FS_EmptySet
  <2> QED BY <2>1 DEF Small
<1>3. ASSUME NEW n \in Nat, n \in Q PROVE n + 1 \in Q
  <2>1. Small(S, n) \subseteq P
    BY <1>3
  <2>2. ASSUME NEW s \in Small(S, n + 1) PROVE s \in P
    <3>1. \A x \in s : s \ {x} \in P
      BY <2>1, SmallerSet
    <3> QED BY <3>1 DEF Small
  <2> QED BY <2>2
<1> HIDE DEF Q
<1>4. Nat \subseteq Q
  BY <1>2, <1>3, SetInduction
<1>5. Small(S, Cardinality(S)) \subseteq P
  BY <1>4, FS_CardinalityType DEF Q
<1> QED BY <1>1, <1>5 DEF Small

(* The function that a recursive definition on SUBSET S names does exist.  *)
LEMMA SubsetRecursion ==
    ASSUME NEW S, IsFiniteSet(S), NEW V, NEW base \in V, NEW pick, NEW step,
           Picks(pick, S), Steps(step, S, V)
    PROVE  \E g \in [SUBSET S -> V] : IsTable(g, S, base, pick, step)
<1> DEFINE Done == {n \in Nat : \E g \in [Small(S, n) -> V] : g = Level(S, n, base, pick, step, g)}
<1>1. 0 \in Done
  <2> DEFINE g == [s \in Small(S, 0) |-> base]
  <2>1. Small(S, 0) = {{}}
    <3>1. \A s \in SUBSET S : IsFiniteSet(s) /\ Cardinality(s) \in Nat
      BY FS_Subset, FS_CardinalityType
    <3> QED BY <3>1, FS_EmptySet DEF Small
  <2>2. g = Level(S, 0, base, pick, step, g)
    BY <2>1 DEF Level
  <2> QED BY <2>2
<1>2. ASSUME NEW n \in Nat, n \in Done PROVE n + 1 \in Done
  <2>1. PICK g \in [Small(S, n) -> V] : g = Level(S, n, base, pick, step, g)
    BY <1>2
  <2>2. \E h \in [Small(S, n + 1) -> V] : h = Level(S, n + 1, base, pick, step, h)
    BY <2>1, NextLevel
  <2> QED BY <2>2
<1> HIDE DEF Done
<1>3. Nat \subseteq Done
  BY <1>1, <1>2, SetInduction
<1>4. Cardinality(S) \in Nat /\ Small(S, Cardinality(S)) = SUBSET S
  BY FS_CardinalityType, FS_Subset DEF Small
<1>5. PICK g \in [SUBSET S -> V] : g = Level(S, Cardinality(S), base, pick, step, g)
  BY <1>3, <1>4 DEF Done
<1>6. IsTable(g, S, base, pick, step)
  BY <1>4, <1>5 DEF Level, IsTable
<1> QED BY <1>6

-----------------------------------------------------------------------------
(* The sum of a function with a finite domain                              *)

First(s) == CHOOSE x \in s : TRUE

IsSumTable(g, D, f) ==
    g = [s \in SUBSET D |-> IF s = {} THEN 0 ELSE f[First(s)] + g[s \ {First(s)}]]

SumTable(D, f) == CHOOSE g : IsSumTable(g, D, f)

LEMMA SumTableExists ==
    ASSUME NEW D, IsFiniteSet(D), NEW f \in [D -> Nat]
    PROVE  \E g : IsSumTable(g, D, f)
<1> DEFINE pick == [s \in SUBSET D |-> First(s)]
           more == [s \in SUBSET D |-> IF s = {} THEN 0 ELSE f[First(s)]]
           step == [s \in SUBSET D |-> [v \in Nat |-> more[s] + v]]
<1>1. \A s \in SUBSET D : s # {} => First(s) \in s /\ f[First(s)] \in Nat
  BY DEF First
<1>2. Picks(pick, D)
  BY <1>1 DEF Picks
<1>3. \A s \in SUBSET D : more[s] \in Nat /\ (s # {} => more[s] = f[First(s)])
  BY <1>1
<1> HIDE DEF more
<1>4. \A s \in SUBSET D : \A v \in Nat : step[s][v] = more[s] + v
  OBVIOUS
<1>5. \A s \in SUBSET D : pick[s] = First(s)
  OBVIOUS
<1> HIDE DEF pick, step
<1>6. Steps(step, D, Nat)
  BY <1>3, <1>4 DEF Steps
<1>7. PICK g \in [SUBSET D -> Nat] : IsTable(g, D, 0, pick, step)
  BY <1>2, <1>6, SubsetRecursion
<1>8. \A s \in SUBSET D : g[s] = IF s = {} THEN 0 ELSE f[First(s)] + g[s \ {First(s)}]
  <2> SUFFICES ASSUME NEW s \in SUBSET D, s # {} PROVE g[s] = f[First(s)] + g[s \ {First(s)}]
    BY <1>7 DEF IsTable
  <2>1. g[s \ {First(s)}] \in Nat
    OBVIOUS
  <2>2. g[s] = step[s][g[s \ {First(s)}]]
    BY <1>5, <1>7 DEF IsTable
  <2> QED BY <1>3, <1>4, <2>1, <2>2
<1> QED BY <1>8 DEF IsSumTable

(* What the table says of one subset.                                      *)
PartialSum(D, f, s) == SumTable(D, f)[s]

LEMMA PartialSumRule ==
    ASSUME NEW D, IsFiniteSet(D), NEW f \in [D -> Nat], NEW s \in SUBSET D
    PROVE  PartialSum(D, f, s) = IF s = {} THEN 0 ELSE f[First(s)] + PartialSum(D, f, s \ {First(s)})
<1> DEFINE t == SumTable(D, f)
<1>1. \E g : IsSumTable(g, D, f)
  BY SumTableExists
<1>2. IsSumTable(t, D, f)
  BY <1>1, Zenon DEF SumTable
<1> HIDE DEF t
<1>3. t[s] = IF s = {} THEN 0 ELSE f[First(s)] + t[s \ {First(s)}]
  BY <1>2 DEF IsSumTable
<1> QED BY <1>3 DEF PartialSum, t

LEMMA PartialSumEmpty ==
    ASSUME NEW D, IsFiniteSet(D), NEW f \in [D -> Nat]
    PROVE  PartialSum(D, f, {}) = 0
  BY PartialSumRule

LEMMA FirstIsElement == ASSUME NEW s, s # {} PROVE First(s) \in s
  BY DEF First

LEMMA PartialSumType ==
    ASSUME NEW D, IsFiniteSet(D), NEW f \in [D -> Nat], NEW s \in SUBSET D
    PROVE  PartialSum(D, f, s) \in Nat
<1> DEFINE P == {r \in SUBSET D : PartialSum(D, f, r) \in Nat}
<1>1. {} \in P
  BY PartialSumEmpty
<1>2. ASSUME NEW r \in SUBSET D, r # {}, \A x \in r : r \ {x} \in P PROVE r \in P
  <2>1. First(r) \in r /\ r \ {First(r)} \in P
    BY <1>2, FirstIsElement
  <2>2. f[First(r)] \in Nat /\ PartialSum(D, f, r \ {First(r)}) \in Nat
    BY <2>1
  <2>3. PartialSum(D, f, r) = f[First(r)] + PartialSum(D, f, r \ {First(r)})
    BY <1>2, PartialSumRule
  <2>4. PartialSum(D, f, r) \in Nat
    BY <2>2, <2>3
  <2> QED BY <2>4
<1> HIDE DEF P
<1>3. SUBSET D \subseteq P
  BY <1>1, <1>2, SubsetInduction
<1> QED BY <1>3 DEF P

(* The order does not count: any element may be taken first.               *)
LEMMA PartialSumTake ==
    ASSUME NEW D, IsFiniteSet(D), NEW f \in [D -> Nat], NEW s \in SUBSET D, NEW x \in s
    PROVE  PartialSum(D, f, s) = f[x] + PartialSum(D, f, s \ {x})
<1> DEFINE Takes(r) == \A y \in r : PartialSum(D, f, r) = f[y] + PartialSum(D, f, r \ {y})
           P == {r \in SUBSET D : Takes(r)}
<1>1. {} \in P
  OBVIOUS
<1>2. ASSUME NEW r \in SUBSET D, r # {}, \A y \in r : r \ {y} \in P PROVE r \in P
  <2> SUFFICES ASSUME NEW y \in r PROVE PartialSum(D, f, r) = f[y] + PartialSum(D, f, r \ {y})
    OBVIOUS
  <2> DEFINE z == First(r)
             rest == (r \ {y}) \ {z}
  <2>1. z \in r /\ PartialSum(D, f, r) = f[z] + PartialSum(D, f, r \ {z})
    BY <1>2, FirstIsElement, PartialSumRule
  <2> HIDE DEF z
  <2>2. CASE y = z
    BY <2>1, <2>2
  <2>3. CASE y # z
    <3>1. PartialSum(D, f, r \ {z}) = f[y] + PartialSum(D, f, rest)
      <4>1. r \ {z} \in P /\ y \in r \ {z} /\ (r \ {z}) \ {y} = rest
        BY <1>2, <2>1, <2>3
      <4> QED BY <4>1
    <3>2. PartialSum(D, f, r \ {y}) = f[z] + PartialSum(D, f, rest)
      <4>1. r \ {y} \in P /\ z \in r \ {y}
        BY <1>2, <2>1, <2>3
      <4> QED BY <4>1
    <3>3. f[y] \in Nat /\ f[z] \in Nat
      BY <2>1
    <3>4. PartialSum(D, f, rest) \in Nat
      BY PartialSumType
    <3> QED BY <2>1, <3>1, <3>2, <3>3, <3>4
  <2> QED BY <2>2, <2>3
<1> HIDE DEF P
<1>3. SUBSET D \subseteq P
  BY <1>1, <1>2, SubsetInduction
<1> QED BY <1>3 DEF P

Total(f) == FoldFunction(+, 0, f)

LEMMA TotalIsPartialSum ==
    ASSUME NEW D, NEW f \in [D -> Nat]
    PROVE  Total(f) = PartialSum(D, f, D)
  BY DEF Total, FoldFunction, FoldFunctionOnSet, MapThenFoldSet, PartialSum, SumTable, IsSumTable, First

LEMMA TotalIsNat ==
    ASSUME NEW D, IsFiniteSet(D), NEW f \in [D -> Nat]
    PROVE  Total(f) \in Nat
  BY TotalIsPartialSum, PartialSumEmpty, PartialSumType, PartialSumTake

(* Functions that agree on a set have the same sum there.                  *)
LEMMA SameSums ==
    ASSUME NEW D, IsFiniteSet(D), NEW f \in [D -> Nat],
           NEW E, IsFiniteSet(E), NEW h \in [E -> Nat],
           NEW S, S \subseteq D, S \subseteq E, \A x \in S : f[x] = h[x]
    PROVE  PartialSum(D, f, S) = PartialSum(E, h, S)
<1> DEFINE P == {s \in SUBSET S : PartialSum(D, f, s) = PartialSum(E, h, s)}
<1>1. {} \in P
  BY PartialSumEmpty, PartialSumType, PartialSumTake
<1>2. ASSUME NEW s \in SUBSET S, s # {}, \A x \in s : s \ {x} \in P PROVE s \in P
  <2>1. PICK x \in s : TRUE
    BY <1>2
  <2>2. PartialSum(D, f, s) = f[x] + PartialSum(D, f, s \ {x})
    BY PartialSumEmpty, PartialSumType, PartialSumTake
  <2>3. PartialSum(E, h, s) = h[x] + PartialSum(E, h, s \ {x})
    BY PartialSumEmpty, PartialSumType, PartialSumTake
  <2> QED BY <1>2, <2>2, <2>3
<1> HIDE DEF P
<1>3. IsFiniteSet(S)
  BY FS_Subset
<1>4. SUBSET S \subseteq P
  BY <1>1, <1>2, <1>3, SubsetInduction
<1> QED BY <1>4 DEF P

(* One value changes.                                                      *)
LEMMA TotalAfterChange ==
    ASSUME NEW D, IsFiniteSet(D), NEW f \in [D -> Nat], NEW h \in [D -> Nat],
           NEW x \in D, \A y \in D \ {x} : h[y] = f[y]
    PROVE  Total(h) + f[x] = Total(f) + h[x]
<1>1. PartialSum(D, f, D) = f[x] + PartialSum(D, f, D \ {x})
  BY PartialSumEmpty, PartialSumType, PartialSumTake
<1>2. PartialSum(D, h, D) = h[x] + PartialSum(D, h, D \ {x})
  BY PartialSumEmpty, PartialSumType, PartialSumTake
<1>3. PartialSum(D, f, D \ {x}) = PartialSum(D, h, D \ {x})
  BY SameSums
<1>4. PartialSum(D, h, D \ {x}) \in Nat
  BY PartialSumEmpty, PartialSumType, PartialSumTake
<1>5. f[x] \in Nat /\ h[x] \in Nat
  OBVIOUS
<1> QED BY <1>1, <1>2, <1>3, <1>4, <1>5, TotalIsPartialSum

(* The domain gets one more element.                                       *)
LEMMA TotalWithOneMore ==
    ASSUME NEW E, IsFiniteSet(E), NEW x, x \notin E, NEW h \in [E -> Nat],
           NEW f \in [E \cup {x} -> Nat], \A y \in E : f[y] = h[y]
    PROVE  Total(f) = f[x] + Total(h)
<1> DEFINE D == E \cup {x}
<1>1. IsFiniteSet(D) /\ x \in D /\ D \ {x} = E
  BY FS_AddElement
<1> HIDE DEF D
<1>2. f \in [D -> Nat]
  BY DEF D
<1>3. PartialSum(D, f, D) = f[x] + PartialSum(D, f, E)
  BY <1>1, <1>2, PartialSumEmpty, PartialSumType, PartialSumTake
<1>4. PartialSum(D, f, E) = PartialSum(E, h, E)
  BY <1>1, <1>2, SameSums
<1> QED BY <1>2, <1>3, <1>4, TotalIsPartialSum

LEMMA TotalOfZeros ==
    ASSUME NEW D, IsFiniteSet(D), NEW f \in [D -> Nat], \A x \in D : f[x] = 0
    PROVE  Total(f) = 0
<1> DEFINE P == {s \in SUBSET D : PartialSum(D, f, s) = 0}
<1>1. {} \in P
  BY PartialSumEmpty, PartialSumType, PartialSumTake
<1>2. ASSUME NEW s \in SUBSET D, s # {}, \A x \in s : s \ {x} \in P PROVE s \in P
  <2>1. PICK x \in s : TRUE
    BY <1>2
  <2>2. PartialSum(D, f, s) = f[x] + PartialSum(D, f, s \ {x})
    BY PartialSumEmpty, PartialSumType, PartialSumTake
  <2> QED BY <1>2, <2>2
<1> HIDE DEF P
<1>3. SUBSET D \subseteq P
  BY <1>1, <1>2, SubsetInduction
<1>4. D \in P
  BY <1>3
<1> QED BY <1>4, TotalIsPartialSum DEF P

-----------------------------------------------------------------------------
(* A fold from left to right goes through the prefixes of a sequence       *)

LEMMA LastOfPrefix ==
    ASSUME NEW k \in Nat, k # 0
    PROVE  Max(1..k) = k /\ (1..k) \ {k} = 1..(k - 1)
<1>1. k \in 1..k /\ \A y \in 1..k : k >= y
  OBVIOUS
<1>2. Max(1..k) \in 1..k /\ \A y \in 1..k : Max(1..k) >= y
  BY <1>1 DEF Max
<1>3. Max(1..k) = k
  BY <1>1, <1>2
<1> QED BY <1>3

LEMMA LastOfSome ==
    ASSUME NEW n \in Nat, NEW s \in SUBSET (1..n), s # {}
    PROVE  Max(s) \in s
<1> DEFINE above == {k \in Nat : k <= n /\ n - k \in s}
<1>1. \A y \in s : y \in Nat /\ n - y \in above
  OBVIOUS
<1>2. above \subseteq Nat /\ above # {}
  BY <1>1
<1>3. \A k \in above : k \in Nat /\ n - k \in s
  OBVIOUS
<1> HIDE DEF above
<1>4. PICK m \in above : \A k \in above : m <= k
  BY <1>2, LeastNatural
<1>5. \A y \in s : n - m >= y
  BY <1>1, <1>3, <1>4
<1>6. \E x \in s : \A y \in s : x >= y
  BY <1>3, <1>5
<1> QED BY <1>6 DEF Max

LEMMA SequenceIsFunction ==
    ASSUME NEW list \in Seq(Nat)
    PROVE  list \in [1..Len(list) -> Nat] /\ Len(list) \in Nat
  OBVIOUS

LEMMA LargestIsElement ==
    ASSUME NEW list \in Seq(Nat), NEW s \in SUBSET (DOMAIN list), s # {}
    PROVE  Max(s) \in s /\ list[Max(s)] \in Nat
<1>1. DOMAIN list = 1..Len(list) /\ Len(list) \in Nat
  OBVIOUS
<1>2. Max(s) \in s
  BY <1>1, LastOfSome
<1>3. Max(s) \in 1..Len(list)
  BY <1>1, <1>2
<1> QED BY <1>2, <1>3, SequenceIsFunction

(* `acc` are the intermediate results of a fold of `list`, where step[a]   *)
(* is what becomes of a result a with each next element.                   *)
Accumulates(acc, step, list) ==
    /\ acc \in [0..Len(list) -> Nat]
    /\ acc[0] = 0
    /\ \A i \in 1..Len(list) : acc[i] = step[acc[i - 1]][list[i]]

IsFoldTable(t, step, list) ==
    t = [s \in SUBSET (DOMAIN list) |->
            IF s = {} THEN 0 ELSE step[t[s \ {Max(s)}]][list[Max(s)]]]

LEMMA FoldTableExists ==
    ASSUME NEW list \in Seq(Nat), NEW step \in [Nat -> [Nat -> Nat]]
    PROVE  \E t \in [SUBSET (DOMAIN list) -> Nat] : IsFoldTable(t, step, list)
<1> DEFINE D == DOMAIN list
           pick == [s \in SUBSET D |-> Max(s)]
           next == [s \in SUBSET D |-> [v \in Nat |-> IF s = {} THEN 0 ELSE step[v][list[Max(s)]]]]
<1>1. D = 1..Len(list) /\ Len(list) \in Nat /\ IsFiniteSet(D)
  BY FS_Interval
<1>2. \A s \in SUBSET D : s # {} => Max(s) \in s /\ list[Max(s)] \in Nat
  BY LargestIsElement
<1>3. \A s \in SUBSET D : pick[s] = Max(s)
  OBVIOUS
<1>4. \A s \in SUBSET D : \A v \in Nat :
         /\ next[s][v] \in Nat
         /\ s # {} => next[s][v] = step[v][list[Max(s)]]
  BY <1>2
<1> HIDE DEF pick, next
<1>5. Picks(pick, D) /\ Steps(next, D, Nat)
  BY <1>2, <1>3, <1>4 DEF Picks, Steps
<1>6. PICK t \in [SUBSET D -> Nat] : IsTable(t, D, 0, pick, next)
  BY <1>1, <1>5, SubsetRecursion
<1>7. \A s \in SUBSET D : t[s] = IF s = {} THEN 0 ELSE step[t[s \ {Max(s)}]][list[Max(s)]]
  <2> SUFFICES ASSUME NEW s \in SUBSET D, s # {} PROVE t[s] = step[t[s \ {Max(s)}]][list[Max(s)]]
    BY <1>6 DEF IsTable
  <2>1. t[s \ {Max(s)}] \in Nat
    OBVIOUS
  <2>2. t[s] = next[s][t[s \ {Max(s)}]]
    BY <1>3, <1>6 DEF IsTable
  <2> QED BY <1>4, <2>1, <2>2
<1>8. IsFoldTable(t, step, list)
  BY <1>7 DEF IsFoldTable
<1> QED BY <1>8

LEMMA TableOfNumbers ==
    ASSUME NEW list \in Seq(Nat), NEW t, t[{}] = 0,
           \A s \in SUBSET (DOMAIN list) : s # {} /\ t[s \ {Max(s)}] \in Nat => t[s] \in Nat
    PROVE  \A s \in SUBSET (DOMAIN list) : t[s] \in Nat
<1> DEFINE D == DOMAIN list
           P == {s \in SUBSET D : t[s] \in Nat}
<1>1. {} \in P
  OBVIOUS
<1>2. IsFiniteSet(D)
  BY SequenceIsFunction, FS_Interval
<1>3. ASSUME NEW s \in SUBSET D, s # {}, \A x \in s : s \ {x} \in P PROVE s \in P
  <2>1. Max(s) \in s
    BY <1>3, LargestIsElement
  <2>2. t[s \ {Max(s)}] \in Nat
    BY <1>3, <2>1
  <2>3. t[s] \in Nat
    BY <1>3, <2>2
  <2> QED BY <2>3
<1>4. \A s \in P : t[s] \in Nat
  OBVIOUS
<1> HIDE DEF P, D
<1>5. SUBSET D \subseteq P
  BY <1>1, <1>2, <1>3, SubsetInduction
<1> QED BY <1>4, <1>5 DEF D

LEMMA FoldTablePrefixes ==
    ASSUME NEW list \in Seq(Nat), NEW step \in [Nat -> [Nat -> Nat]],
           NEW t, IsFoldTable(t, step, list)
    PROVE  \E acc : Accumulates(acc, step, list) /\ acc[Len(list)] = t[DOMAIN list]
<1> DEFINE n == Len(list)
           acc == [i \in 0..n |-> t[1..i]]
<1>1. n \in Nat
  OBVIOUS
<1>2. \A i \in 1..n : list[i] \in Nat
  BY SequenceIsFunction
<1>3. DOMAIN list = 1..n /\ \A i \in 0..n : 1..i \in SUBSET (DOMAIN list)
  OBVIOUS
<1>4. \A s \in SUBSET (DOMAIN list) :
         t[s] = IF s = {} THEN 0 ELSE step[t[s \ {Max(s)}]][list[Max(s)]]
  BY DEF IsFoldTable
<1>5. \A i \in 0..n : acc[i] = t[1..i]
  OBVIOUS
<1>6. acc = [i \in 0..n |-> acc[i]]
  OBVIOUS
<1> HIDE DEF n, acc
<1>7. acc[0] = 0
  <2>1. 1..0 = {} /\ 0 \in 0..n
    BY <1>1
  <2> QED BY <1>3, <1>4, <1>5, <2>1
<1>8. ASSUME NEW i \in 1..n PROVE acc[i] = step[acc[i - 1]][list[i]]
  <2>1. i \in Nat /\ i # 0 /\ i - 1 \in 0..n /\ i \in 0..n /\ i \in 1..i
    BY <1>1
  <2>2. t[1..i] = step[t[(1..i) \ {Max(1..i)}]][list[Max(1..i)]]
    BY <1>3, <1>4, <2>1
  <2>3. Max(1..i) = i /\ (1..i) \ {i} = 1..(i - 1)
    BY <2>1, LastOfPrefix
  <2> QED BY <1>5, <2>1, <2>2, <2>3
<1>9. \A i \in 0..n : acc[i] \in Nat
  <2> DEFINE P == {i \in 0..n : acc[i] \in Nat}
  <2>1. 0 \in P
    <3>1. 0 \in 0..n
      BY <1>1
    <3>2. acc[0] \in Nat
      BY <1>7
    <3> QED BY <3>1, <3>2
  <2>2. ASSUME NEW i \in 0..n, i < n, i \in P PROVE i + 1 \in P
    <3>1. i + 1 \in 1..n /\ i + 1 \in 0..n /\ (i + 1) - 1 = i /\ acc[i] \in Nat
      BY <1>1, <2>2
    <3>2. acc[i + 1] = step[acc[i]][list[i + 1]] /\ list[i + 1] \in Nat
      BY <1>2, <1>8, <3>1
    <3>3. acc[i + 1] \in Nat
      BY <3>1, <3>2
    <3> QED BY <3>1, <3>3
  <2> HIDE DEF P
  <2>3. 0..n \subseteq P
    BY <1>1, <2>1, <2>2, IntervalInduction
  <2> QED BY <2>3 DEF P
<1>10. acc \in [0..n -> Nat]
  BY <1>6, <1>9
<1>11. Accumulates(acc, step, list)
  BY <1>7, <1>8, <1>10 DEF Accumulates, n
<1>12. acc[Len(list)] = t[DOMAIN list]
  <2>1. n \in 0..n
    BY <1>1
  <2>2. acc[n] = t[DOMAIN list]
    BY <1>3, <1>5, <2>1
  <2> QED BY <2>2 DEF n
<1> QED BY <1>11, <1>12

(* The results of a sum are those of its prefixes.                         *)
Adding == [a \in Nat |-> [b \in Nat |-> a + b]]
SumInOrder(list) == FoldLeft(+, 0, list)

LEMMA SumAccumulates ==
    ASSUME NEW list \in Seq(Nat)
    PROVE  \E acc : Accumulates(acc, Adding, list) /\ acc[Len(list)] = SumInOrder(list)
<1> DEFINE D == DOMAIN list
           Is(t) == t = [s \in SUBSET D |-> IF s = {} THEN 0 ELSE t[s \ {Max(s)}] + list[Max(s)]]
           t == CHOOSE u : Is(u)
<1>1. SumInOrder(list) = t[D]
  BY DEF SumInOrder, FoldLeft, MapThenFoldSet
<1>2. IsFiniteSet(D)
  BY SequenceIsFunction, FS_Interval
<1>3. \A s \in SUBSET D : s # {} => Max(s) \in s /\ list[Max(s)] \in Nat
  BY LargestIsElement
<1>4. Adding \in [Nat -> [Nat -> Nat]] /\ \A a, b \in Nat : Adding[a][b] = a + b
  BY DEF Adding
<1>5. \E u : Is(u)
  <2>1. PICK u \in [SUBSET D -> Nat] : IsFoldTable(u, Adding, list)
    BY <1>4, FoldTableExists
  <2>2. \A s \in SUBSET D : u[s] = IF s = {} THEN 0 ELSE u[s \ {Max(s)}] + list[Max(s)]
    <3> SUFFICES ASSUME NEW s \in SUBSET D, s # {}
                 PROVE  u[s] = u[s \ {Max(s)}] + list[Max(s)]
      BY <2>1 DEF IsFoldTable
    <3>1. u[s] = Adding[u[s \ {Max(s)}]][list[Max(s)]]
      BY <2>1 DEF IsFoldTable
    <3> QED BY <1>3, <1>4, <3>1
  <2> QED BY <2>2
<1>6. Is(t)
  BY <1>5, Zenon
<1> HIDE DEF t, D
<1>7. \A s \in SUBSET D : t[s] \in Nat
  <2>1. t[{}] = 0
    BY <1>6
  <2>2. ASSUME NEW s \in SUBSET D, s # {}, t[s \ {Max(s)}] \in Nat PROVE t[s] \in Nat
    <3>1. list[Max(s)] \in Nat
      BY <1>3, <2>2
    <3>2. t[s] = t[s \ {Max(s)}] + list[Max(s)]
      BY <1>6, <2>2
    <3> QED BY <2>2, <3>1, <3>2
  <2> QED BY <2>1, <2>2, TableOfNumbers DEF D
<1>8. IsFoldTable(t, Adding, list)
  <2>1. \A s \in SUBSET D : t[s] = IF s = {} THEN 0 ELSE Adding[t[s \ {Max(s)}]][list[Max(s)]]
    BY <1>3, <1>4, <1>6, <1>7
  <2>2. t = [s \in SUBSET D |-> t[s]]
    BY <1>6
  <2> QED BY <2>1, <2>2 DEF IsFoldTable, D
<1>9. \E acc : Accumulates(acc, Adding, list) /\ acc[Len(list)] = t[DOMAIN list]
  BY <1>4, <1>8, FoldTablePrefixes
<1> QED BY <1>1, <1>9 DEF D

=============================================================================
