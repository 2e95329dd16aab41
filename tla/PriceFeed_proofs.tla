-------------------------- MODULE PriceFeed_proofs --------------------------
(* Unsigned prices, for any number of nodes, pools, prices and blocks.     *)
EXTENDS PriceFeed, FoldTheorems, SequenceTheorems

(* What a pool holds was valid when it was offered.  Later the chain may   *)
(* have moved on, but then NextUnsignedAt lies beyond every block that has *)
(* been offered for.                                                       *)
WindowInv ==
    /\ block \in Nat /\ lastUnsigned \in Nat
    /\ next_unsigned_at \in Nat /\ head.next \in Nat
    /\ lastUnsigned # 0 => next_unsigned_at = lastUnsigned + UnsignedInterval
    /\ lastNumber \in Nat /\ lastNumber <= lastUnsigned
    /\ head.next = next_unsigned_at \/ block < next_unsigned_at

PoolInv ==
    \A n \in Nodes : \A tx \in pool[n] :
        /\ tx.bn \in Nat /\ tx.bn <= block
        /\ tx.tag = next_unsigned_at \/ tx.bn < next_unsigned_at

PoolsOK == pool = [n \in Nodes |-> pool[n]]

FeedInv == WindowInv /\ PoolInv /\ PoolsOK

LEMMA FeedInitInv == FeedInit => FeedInv
  BY DEF FeedInit, FeedInv, WindowInv, PoolInv, PoolsOK

LEMMA OfferInv ==
    ASSUME FeedInv, NEW n \in Nodes, NEW bn \in 0..MaxBlock, NEW price \in Prices,
           Offer(n, bn, price)
    PROVE  FeedInv'
<1> DEFINE tx == [bn |-> bn, price |-> price, tag |-> head.next,
                  deviation |-> Deviation(head.prices, price), until |-> block + Longevity]
<1>1. /\ head.next <= bn /\ bn <= block
      /\ pool' = [pool EXCEPT ![n] = (@ \ Rivals(n)) \cup {tx}]
      /\ UNCHANGED <<block, next_unsigned_at, head, lastUnsigned, lastNumber>>
  BY DEF Offer, PoolAccepts, validate_transaction_parameters
<1>2. bn \in Nat /\ tx.bn = bn /\ tx.tag = head.next
  BY PriceFeedAssumption
<1> HIDE DEF tx
<1>3. \A m \in Nodes : pool'[m] \subseteq pool[m] \cup {tx}
  BY <1>1 DEF FeedInv, PoolsOK
<1>4. tx.tag = next_unsigned_at \/ tx.bn < next_unsigned_at
  BY <1>1, <1>2 DEF FeedInv, WindowInv
<1>5. PoolInv'
  BY <1>1, <1>2, <1>3, <1>4 DEF FeedInv, PoolInv
<1>6. PoolsOK'
  BY <1>1 DEF FeedInv, PoolsOK
<1> QED BY <1>1, <1>5, <1>6 DEF FeedInv, WindowInv

LEMMA IncludeUnsignedInv ==
    ASSUME FeedInv, NEW n \in Nodes, NEW tx \in pool[n], IncludeUnsigned(n, tx)
    PROVE  /\ FeedInv'
           /\ lastUnsigned # 0 => /\ block >= lastUnsigned + UnsignedInterval
                                  /\ lastNumber' > lastNumber
<1>1. /\ next_unsigned_at <= tx.bn /\ tx.bn <= block
      /\ next_unsigned_at' = block + UnsignedInterval /\ lastUnsigned' = block /\ lastNumber' = tx.bn
      /\ UNCHANGED <<block, head, pool>>
  BY DEF IncludeUnsigned, validate_transaction_parameters, submit_price_unsigned
<1>2. tx.bn \in Nat
  BY DEF FeedInv, PoolInv
<1>3. block < next_unsigned_at' /\ next_unsigned_at' \in Nat
  BY <1>1, PriceFeedAssumption DEF FeedInv, WindowInv
<1>4. WindowInv'
  BY <1>1, <1>2, <1>3 DEF FeedInv, WindowInv
<1>5. PoolInv'
  BY <1>1, <1>3 DEF FeedInv, WindowInv, PoolInv
<1>6. lastUnsigned # 0 => /\ block >= lastUnsigned + UnsignedInterval
                           /\ lastNumber' > lastNumber
  BY <1>1, <1>2, PriceFeedAssumption DEF FeedInv, WindowInv
<1> QED BY <1>1, <1>4, <1>5, <1>6 DEF FeedInv, PoolsOK

LEMMA SealBlockInv == ASSUME FeedInv, SealBlock PROVE FeedInv'
<1>1. /\ block' = block + 1 /\ head'.next = next_unsigned_at
      /\ pool' = [n \in Nodes |-> {tx \in pool[n] : tx.tag \notin included /\ block < tx.until}]
      /\ UNCHANGED <<next_unsigned_at, lastUnsigned, lastNumber>>
  BY DEF SealBlock
<1>2. \A n \in Nodes : pool'[n] \subseteq pool[n]
  BY <1>1
<1>3. PoolInv'
  BY <1>1, <1>2 DEF FeedInv, WindowInv, PoolInv
<1> QED BY <1>1, <1>3 DEF FeedInv, WindowInv, PoolsOK

LEMMA RestartInv == ASSUME FeedInv, NEW n \in Nodes, Restart(n) PROVE FeedInv'
  BY DEF Restart, FeedInv, WindowInv, PoolInv, PoolsOK

SpacedStep ==
    lastUnsigned' # lastUnsigned /\ lastUnsigned # 0
        => lastUnsigned' >= lastUnsigned + UnsignedInterval

GrowStep ==
    lastUnsigned' # lastUnsigned /\ lastUnsigned # 0
        => lastNumber' > lastNumber

StepOK == FeedInv' /\ SpacedStep /\ GrowStep

LEMMA FeedStepInv == FeedInv /\ [Next]_feedVars => StepOK
<1> SUFFICES ASSUME FeedInv, [Next]_feedVars PROVE StepOK
  OBVIOUS
<1>1. ASSUME NEW price \in Prices, submit_price(price) PROVE StepOK
  BY <1>1 DEF submit_price, FeedInv, WindowInv, PoolInv, PoolsOK, StepOK, SpacedStep, GrowStep
<1>2. ASSUME NEW n \in Nodes, NEW bn \in 0..MaxBlock, NEW price \in Prices, Offer(n, bn, price)
      PROVE  StepOK
  BY <1>2, OfferInv DEF Offer, StepOK, SpacedStep, GrowStep
<1>3. ASSUME NEW n \in Nodes, NEW tx \in pool[n], IncludeUnsigned(n, tx)
      PROVE  StepOK
  BY <1>3, IncludeUnsignedInv
     DEF IncludeUnsigned, submit_price_unsigned, StepOK, SpacedStep, GrowStep
<1>4. CASE SealBlock
  BY <1>4, SealBlockInv DEF SealBlock, StepOK, SpacedStep, GrowStep
<1>5. ASSUME NEW n \in Nodes, Restart(n) PROVE StepOK
  BY <1>5, RestartInv DEF Restart, StepOK, SpacedStep, GrowStep
<1>6. CASE UNCHANGED feedVars
  BY <1>6 DEF feedVars, FeedInv, WindowInv, PoolInv, PoolsOK, StepOK, SpacedStep, GrowStep
<1> QED BY <1>1, <1>2, <1>3, <1>4, <1>5, <1>6 DEF Next, FeedStep

LEMMA FeedInvariant == FeedSpec => []FeedInv
<1>1. FeedInv /\ [Next]_feedVars => FeedInv'
  BY FeedStepInv DEF StepOK
<1> QED BY <1>1, FeedInitInv, PTL DEF FeedSpec

(* Unsigned prices are applied at least UnsignedInterval blocks apart      *)
(* (lines 356-363 and 760-786).                                            *)
THEOREM UnsignedPricesKeepDistance == FeedSpec => UnsignedPricesAreSpaced
<1>1. FeedInv /\ [Next]_feedVars => [SpacedStep]_feedVars
  BY FeedStepInv DEF StepOK
<1> QED BY <1>1, FeedInvariant, PTL DEF FeedSpec, UnsignedPricesAreSpaced, SpacedStep

(* No unsigned price is applied twice: the numbers that applied            *)
(* transactions carry grow (lines 356-363 and 760-773).                    *)
THEOREM UnsignedPricesAreNotReplayed == FeedSpec => UnsignedNumbersGrow
<1>1. FeedInv /\ [Next]_feedVars => [GrowStep]_feedVars
  BY FeedStepInv DEF StepOK
<1> QED BY <1>1, FeedInvariant, PTL DEF FeedSpec, UnsignedNumbersGrow, GrowStep

(* A pooled price that a block would still apply is tagged with the        *)
(* current NextUnsignedAt (line 782).                                      *)
THEOREM UsableTransactionsAreCurrent == FeedSpec => []UsableMeansCurrent
<1>1. FeedInv => UsableMeansCurrent
  BY DEF FeedInv, WindowInv, PoolInv, UsableMeansCurrent, validate_transaction_parameters
<1> QED BY <1>1, FeedInvariant, PTL

-----------------------------------------------------------------------------
(* Pools                                                                   *)

OnePerTag == \A n \in Nodes : \A tx, other \in pool[n] : tx.tag = other.tag => tx = other

LEMMA OnePerTagKept == FeedInv /\ OnePerTag /\ [Next]_feedVars => OnePerTag'
<1> SUFFICES ASSUME FeedInv, OnePerTag, [Next]_feedVars PROVE OnePerTag'
  OBVIOUS
<1>1. ASSUME NEW n \in Nodes, NEW bn \in 0..MaxBlock, NEW price \in Prices, Offer(n, bn, price)
      PROVE  OnePerTag'
  <2> DEFINE tx == [bn |-> bn, price |-> price, tag |-> head.next,
                    deviation |-> Deviation(head.prices, price), until |-> block + Longevity]
  <2>1. tx.tag = head.next /\ pool' = [pool EXCEPT ![n] = (@ \ Rivals(n)) \cup {tx}]
    BY <1>1 DEF Offer
  <2> HIDE DEF tx
  <2>2. \A m \in Nodes : pool'[m] = IF m = n THEN (pool[n] \ Rivals(n)) \cup {tx} ELSE pool[m]
    BY <2>1 DEF FeedInv, PoolsOK
  <2>3. \A other \in pool[n] \ Rivals(n) : other.tag # tx.tag
    BY <2>1 DEF Rivals
  <2> QED BY <2>2, <2>3 DEF OnePerTag
<1>2. CASE \A n \in Nodes : pool'[n] \subseteq pool[n]
  BY <1>2 DEF OnePerTag
<1>3. ASSUME NEW n \in Nodes, Restart(n) PROVE \A m \in Nodes : pool'[m] \subseteq pool[m]
  BY <1>3 DEF Restart, FeedInv, PoolsOK
<1>4. CASE SealBlock
  <2>1. \A n \in Nodes : pool'[n] \subseteq pool[n]
    BY <1>4 DEF SealBlock
  <2> QED BY <1>2, <2>1
<1>5. CASE pool' = pool
  BY <1>2, <1>5
<1> QED BY <1>1, <1>2, <1>3, <1>4, <1>5
        DEF Next, FeedStep, submit_price, IncludeUnsigned, feedVars

(* A pool offers a block one price for an interval, however many it was    *)
(* sent: the later one replaces the other or is refused (line 782).        *)
THEOREM PoolsOfferOnePrice == FeedSpec => []OneUsablePerPool
<1>1. FeedInit => OnePerTag
  BY DEF FeedInit, OnePerTag
<1>2. FeedSpec => []OnePerTag
  BY <1>1, OnePerTagKept, FeedInvariant, PTL DEF FeedSpec
<1>3. UsableMeansCurrent /\ OnePerTag => OneUsablePerPool
  BY DEF UsableMeansCurrent, OnePerTag, OneUsablePerPool
<1> QED BY <1>2, <1>3, UsableTransactionsAreCurrent, PTL

-----------------------------------------------------------------------------
(* The average.  The code adds prices up and stops at MaxU32; the sums of  *)
(* the prefixes of the vector are compared with multiples of its smallest  *)
(* and of its largest price.                                               *)

AddingSaturated == [a \in Nat |-> [b \in Nat |-> Saturating(a + b)]]
SaturatedSum(list) == FoldLeft(LAMBDA a, b : Saturating(a + b), 0, list)

LEMMA SaturatingIsNat ==
    /\ MaxU32 \in Nat
    /\ \A x \in Nat : Saturating(x) \in 0..MaxU32 /\ Saturating(x) \in Nat /\ Saturating(x) <= x
    /\ \A x \in Nat : x <= MaxU32 => Saturating(x) = x
  BY PriceFeedAssumption DEF Saturating

LEMMA SaturatingStep ==
    ASSUME NEW a \in Nat, NEW b \in Nat
    PROVE  /\ Saturating(a + b) \in Nat /\ Saturating(a + b) <= a + b
           /\ a + b <= MaxU32 => a <= MaxU32 /\ Saturating(a + b) = a + b
  BY PriceFeedAssumption DEF Saturating

LEMMA SaturatedSumAccumulates ==
    ASSUME NEW list \in Seq(Nat)
    PROVE  \E acc : Accumulates(acc, AddingSaturated, list) /\ acc[Len(list)] = SaturatedSum(list)
<1> DEFINE D == DOMAIN list
           Is(t) == t = [s \in SUBSET D |->
                            IF s = {} THEN 0 ELSE Saturating(t[s \ {Max(s)}] + list[Max(s)])]
           t == CHOOSE u : Is(u)
<1>1. SaturatedSum(list) = t[D]
  BY DEF SaturatedSum, FoldLeft, MapThenFoldSet
<1>2. IsFiniteSet(D)
  BY SequenceIsFunction, FS_Interval
<1>3. \A s \in SUBSET D : s # {} => Max(s) \in s /\ list[Max(s)] \in Nat
  BY LargestIsElement
<1>4. /\ AddingSaturated \in [Nat -> [Nat -> Nat]]
      /\ \A a, b \in Nat : AddingSaturated[a][b] = Saturating(a + b)
  BY SaturatingIsNat DEF AddingSaturated
<1>5. \E u : Is(u)
  <2>1. PICK u \in [SUBSET D -> Nat] : IsFoldTable(u, AddingSaturated, list)
    BY <1>4, FoldTableExists
  <2>2. \A s \in SUBSET D :
           u[s] = IF s = {} THEN 0 ELSE Saturating(u[s \ {Max(s)}] + list[Max(s)])
    <3> SUFFICES ASSUME NEW s \in SUBSET D, s # {}
                 PROVE  u[s] = Saturating(u[s \ {Max(s)}] + list[Max(s)])
      BY <2>1 DEF IsFoldTable
    <3>1. u[s] = AddingSaturated[u[s \ {Max(s)}]][list[Max(s)]]
      BY <2>1 DEF IsFoldTable
    <3> QED BY <1>3, <1>4, <3>1
  <2> QED BY <2>2
<1>6. Is(t)
  BY <1>5, Zenon
<1> HIDE DEF t, D
<1>7. \A s \in SUBSET D : t[s] \in Nat
  <2>1. t[{}] = 0
    BY <1>6
  <2>2. ASSUME NEW s \in SUBSET D, s # {}, t[s \ {Max(s)}] \in Nat PROVE t[s] \in Nat
    <3>1. list[Max(s)] \in Nat
      BY <1>3, <2>2
    <3>2. t[s] = Saturating(t[s \ {Max(s)}] + list[Max(s)])
      BY <1>6, <2>2
    <3> QED BY <2>2, <3>1, <3>2, SaturatingIsNat
  <2> QED BY <2>1, <2>2, TableOfNumbers DEF D
<1>8. IsFoldTable(t, AddingSaturated, list)
  <2>1. \A s \in SUBSET D :
           t[s] = IF s = {} THEN 0 ELSE AddingSaturated[t[s \ {Max(s)}]][list[Max(s)]]
    BY <1>3, <1>4, <1>6, <1>7
  <2>2. t = [s \in SUBSET D |-> t[s]]
    BY <1>6
  <2> QED BY <2>1, <2>2 DEF IsFoldTable, D
<1>9. \E acc : Accumulates(acc, AddingSaturated, list) /\ acc[Len(list)] = t[DOMAIN list]
  BY <1>4, <1>8, FoldTablePrefixes
<1> QED BY <1>1, <1>9 DEF D

LEMMA NextMultiple == ASSUME NEW i \in Nat, NEW m \in Nat PROVE (i + 1) * m = i * m + m /\ i * m \in Nat
  OBVIOUS

LEMMA Quotient ==
    ASSUME NEW a \in Nat, NEW n \in Nat \ {0}, NEW m \in Nat
    PROVE  /\ a \div n \in Nat
           /\ a <= n * m => a \div n <= m
           /\ a >= n * m => a \div n >= m
<1> DEFINE q == a \div n
<1>1. q \in Int /\ n * q <= a /\ a < n * (q + 1)
  OBVIOUS
<1> HIDE DEF q
<1>2. q \in Nat
  BY <1>1
<1>3. ASSUME a <= n * m PROVE q <= m
  <2>1. CASE q > m
    <3>1. n * q >= n * (m + 1)
      BY <1>2, <2>1
    <3> QED BY <1>1, <1>2, <1>3, <3>1
  <2> QED BY <1>2, <2>1
<1>4. ASSUME a >= n * m PROVE q >= m
  <2>1. CASE q < m
    <3>1. n * m >= n * (q + 1)
      BY <1>2, <2>1
    <3> QED BY <1>1, <1>2, <1>4, <3>1
  <2> QED BY <1>2, <2>1
<1> QED BY <1>2, <1>3, <1>4 DEF q

LEMMA SaturatedAtMost ==
    ASSUME NEW list \in Seq(Nat), NEW m \in Nat, \A i \in 1..Len(list) : list[i] <= m
    PROVE  SaturatedSum(list) \in Nat /\ SaturatedSum(list) <= Len(list) * m
<1> DEFINE n == Len(list)
<1>1. n \in Nat /\ \A i \in 1..n : list[i] \in Nat /\ list[i] <= m
  BY SequenceIsFunction
<1>2. PICK acc : Accumulates(acc, AddingSaturated, list) /\ acc[n] = SaturatedSum(list)
  BY SaturatedSumAccumulates
<1> DEFINE P == {i \in 0..n : acc[i] <= i * m}
<1> HIDE DEF n
<1>3. acc \in [0..n -> Nat] /\ acc[0] = 0
  BY <1>2 DEF Accumulates, n
<1>4. \A i \in 1..n : acc[i] = AddingSaturated[acc[i - 1]][list[i]]
  BY <1>2 DEF Accumulates, n
<1>5. 0 \in P
  BY <1>1, <1>3
<1>6. ASSUME NEW i \in 0..n, i < n, i \in P PROVE i + 1 \in P
  <2>1. i + 1 \in 1..n /\ i + 1 \in 0..n /\ (i + 1) - 1 = i /\ i \in Nat
    BY <1>1, <1>6
  <2>2. acc[i] \in Nat /\ acc[i] <= i * m /\ list[i + 1] \in Nat /\ list[i + 1] <= m
    BY <1>1, <1>3, <1>6, <2>1
  <2>3. acc[i + 1] = Saturating(acc[i] + list[i + 1])
    BY <1>4, <2>1, <2>2 DEF AddingSaturated
  <2>4. acc[i + 1] \in Nat /\ acc[i + 1] <= acc[i] + list[i + 1]
    BY <2>2, <2>3, SaturatingStep
  <2>5. (i + 1) * m = i * m + m /\ i * m \in Nat
    BY <2>1, NextMultiple
  <2>6. acc[i + 1] <= (i + 1) * m
    BY <2>2, <2>4, <2>5
  <2> QED BY <2>1, <2>6
<1>7. n \in P
  <2> HIDE DEF P
  <2>1. 0..n \subseteq P
    BY <1>1, <1>5, <1>6, IntervalInduction
  <2> QED BY <1>1, <2>1
<1>8. acc[n] \in Nat /\ acc[n] <= n * m
  BY <1>1, <1>3, <1>7
<1> QED BY <1>2, <1>8 DEF n

(* A sum that does not saturate is a sum.                                  *)
LEMMA SaturatedIsSum ==
    ASSUME NEW list \in Seq(Nat), SumInOrder(list) <= MaxU32
    PROVE  SaturatedSum(list) = SumInOrder(list)
<1> DEFINE n == Len(list)
<1>1. n \in Nat /\ \A i \in 1..n : list[i] \in Nat
  BY SequenceIsFunction
<1>2. PICK acc : Accumulates(acc, AddingSaturated, list) /\ acc[n] = SaturatedSum(list)
  BY SaturatedSumAccumulates
<1>3. PICK sum : Accumulates(sum, Adding, list) /\ sum[n] = SumInOrder(list)
  BY SumAccumulates
<1> DEFINE P == {i \in 0..n : sum[i] <= MaxU32 => acc[i] = sum[i]}
<1> HIDE DEF n
<1>4. /\ acc \in [0..n -> Nat] /\ acc[0] = 0
      /\ sum \in [0..n -> Nat] /\ sum[0] = 0
  BY <1>2, <1>3 DEF Accumulates, n
<1>5. \A i \in 1..n : acc[i] = AddingSaturated[acc[i - 1]][list[i]] /\ sum[i] = Adding[sum[i - 1]][list[i]]
  BY <1>2, <1>3 DEF Accumulates, n
<1>6. 0 \in P
  BY <1>1, <1>4
<1>7. ASSUME NEW i \in 0..n, i < n, i \in P PROVE i + 1 \in P
  <2>1. i + 1 \in 1..n /\ i + 1 \in 0..n /\ (i + 1) - 1 = i
    BY <1>1, <1>7
  <2>2. acc[i] \in Nat /\ sum[i] \in Nat /\ list[i + 1] \in Nat
    BY <1>1, <1>4, <2>1
  <2>3. acc[i + 1] = Saturating(acc[i] + list[i + 1])
    BY <1>5, <2>1, <2>2 DEF AddingSaturated
  <2>4. sum[i + 1] = sum[i] + list[i + 1]
    BY <1>5, <2>1, <2>2 DEF Adding
  <2>5. sum[i] <= MaxU32 => acc[i] = sum[i]
    BY <1>7
  <2>6. sum[i + 1] <= MaxU32 => acc[i + 1] = sum[i + 1]
    BY <2>2, <2>3, <2>4, <2>5, SaturatingStep
  <2> QED BY <2>1, <2>6
<1>8. n \in P
  <2> HIDE DEF P
  <2>1. 0..n \subseteq P
    BY <1>1, <1>6, <1>7, IntervalInduction
  <2> QED BY <1>1, <2>1
<1> QED BY <1>2, <1>3, <1>8 DEF n

LEMMA SumAtLeast ==
    ASSUME NEW list \in Seq(Nat), NEW m \in Nat, \A i \in 1..Len(list) : m <= list[i]
    PROVE  SumInOrder(list) \in Nat /\ Len(list) * m <= SumInOrder(list)
<1> DEFINE n == Len(list)
<1>1. n \in Nat /\ \A i \in 1..n : list[i] \in Nat /\ m <= list[i]
  BY SequenceIsFunction
<1>2. PICK sum : Accumulates(sum, Adding, list) /\ sum[n] = SumInOrder(list)
  BY SumAccumulates
<1> DEFINE P == {i \in 0..n : i * m <= sum[i]}
<1> HIDE DEF n
<1>3. sum \in [0..n -> Nat] /\ sum[0] = 0
  BY <1>2 DEF Accumulates, n
<1>4. \A i \in 1..n : sum[i] = Adding[sum[i - 1]][list[i]]
  BY <1>2 DEF Accumulates, n
<1>5. 0 \in P
  BY <1>1, <1>3
<1>6. ASSUME NEW i \in 0..n, i < n, i \in P PROVE i + 1 \in P
  <2>1. i + 1 \in 1..n /\ i + 1 \in 0..n /\ (i + 1) - 1 = i /\ i \in Nat
    BY <1>1, <1>6
  <2>2. sum[i] \in Nat /\ i * m <= sum[i] /\ list[i + 1] \in Nat /\ m <= list[i + 1]
    BY <1>1, <1>3, <1>6, <2>1
  <2>3. sum[i + 1] = sum[i] + list[i + 1]
    BY <1>4, <2>1, <2>2 DEF Adding
  <2>4. (i + 1) * m = i * m + m /\ i * m \in Nat
    BY <2>1, NextMultiple
  <2>5. (i + 1) * m <= sum[i + 1]
    BY <2>2, <2>3, <2>4
  <2> QED BY <2>1, <2>5
<1>7. n \in P
  <2> HIDE DEF P
  <2>1. 0..n \subseteq P
    BY <1>1, <1>5, <1>6, IntervalInduction
  <2> QED BY <1>1, <2>1
<1>8. sum[n] \in Nat /\ n * m <= sum[n]
  BY <1>1, <1>3, <1>7
<1> QED BY <1>2, <1>8 DEF n

LEMMA SmallestAndLargest ==
    ASSUME NEW list \in Seq(Prices), list # <<>>
    PROVE  \E lo, hi \in 1..Len(list) : \A i \in 1..Len(list) : list[lo] <= list[i] /\ list[i] <= list[hi]
<1> DEFINE D == 1..Len(list)
           low == {p \in Nat : \E i \in D : p = list[i]}
           gap == {k \in Nat : \E i \in D : k = MaxU32 - list[i]}
<1>1. 1 \in D /\ \A i \in D : list[i] \in Prices
  OBVIOUS
<1>2. MaxU32 \in Nat /\ \A p \in Prices : p \in Nat /\ MaxU32 - p \in Nat
  BY PriceFeedAssumption
<1>3. \A i \in D : list[i] \in low /\ MaxU32 - list[i] \in gap
  BY <1>1, <1>2
<1>4. low \subseteq Nat /\ gap \subseteq Nat /\ low # {} /\ gap # {}
  BY <1>1, <1>3
<1>5. /\ \A p \in low : \E i \in D : p = list[i]
      /\ \A k \in gap : \E i \in D : k = MaxU32 - list[i]
  OBVIOUS
<1> HIDE DEF low, gap, D
<1>6. PICK lo \in D : \A i \in D : list[lo] <= list[i]
  <2>1. PICK p \in low : \A q \in low : p <= q
    BY <1>4, LeastNatural
  <2> QED BY <1>3, <1>5, <2>1
<1>7. PICK hi \in D : \A i \in D : list[i] <= list[hi]
  <2>1. PICK k \in gap : \A q \in gap : k <= q
    BY <1>4, LeastNatural
  <2>2. PICK hi \in D : k = MaxU32 - list[hi]
    BY <1>5, <2>1
  <2>3. \A i \in D : MaxU32 - list[hi] <= MaxU32 - list[i]
    BY <1>3, <2>1, <2>2
  <2>4. \A i \in D : list[i] <= list[hi]
    BY <1>1, <1>2, <2>3
  <2> QED BY <2>4
<1> QED BY <1>6, <1>7 DEF D

LEMMA AverageBounds ==
    ASSUME NEW list \in Seq(Prices), list # <<>>
    PROVE  /\ average_price(list) \in 0..MaxU32
           /\ \E i \in 1..Len(list) : average_price(list) <= list[i]
           /\ SumInOrder(list) <= MaxU32 => \E i \in 1..Len(list) : list[i] <= average_price(list)
<1> DEFINE n == Len(list)
           average == average_price(list)
<1>1. PICK lo, hi \in 1..n : \A i \in 1..n : list[lo] <= list[i] /\ list[i] <= list[hi]
  BY SmallestAndLargest
<1>2. n \in Nat \ {0}
  OBVIOUS
<1>3. \A p \in Prices : p \in Nat /\ p <= MaxU32
  BY PriceFeedAssumption
<1>4. list \in Seq(Nat)
  BY <1>3
<1>5. list[lo] \in Nat /\ list[hi] \in Nat /\ list[hi] <= MaxU32
  BY <1>3
<1>6. average = SaturatedSum(list) \div n
  BY DEF average_price, SaturatedSum
<1>7. SaturatedSum(list) \in Nat /\ SaturatedSum(list) <= n * list[hi]
  BY <1>1, <1>4, <1>5, SaturatedAtMost
<1>8. SumInOrder(list) \in Nat /\ n * list[lo] <= SumInOrder(list)
  BY <1>1, <1>4, <1>5, SumAtLeast
<1> HIDE DEF n, average
<1>9. average \in Nat /\ average <= list[hi]
  BY <1>2, <1>5, <1>6, <1>7, Quotient
<1>10. SumInOrder(list) <= MaxU32 => list[lo] <= average
  <2> SUFFICES ASSUME SumInOrder(list) <= MaxU32 PROVE list[lo] <= average
    OBVIOUS
  <2>1. SaturatedSum(list) = SumInOrder(list)
    BY <1>4, SaturatedIsSum
  <2>2. SaturatedSum(list) >= n * list[lo]
    BY <1>2, <1>5, <1>8, <2>1
  <2> QED BY <1>2, <1>5, <1>6, <1>7, <2>2, Quotient
<1>11. average \in 0..MaxU32
  BY <1>5, <1>9, SaturatingIsNat
<1> QED BY <1>9, <1>10, <1>11 DEF n, average

-----------------------------------------------------------------------------
(* Types                                                                   *)

LEMMA PricesFit ==
    ASSUME FeedTypeOK, NEW price \in Prices
    PROVE  add_data(prices, price) \in Seq(Prices) /\ Len(add_data(prices, price)) <= MaxPrices
<1>1. prices \in Seq(Prices) /\ Len(prices) <= MaxPrices
  BY DEF FeedTypeOK
<1>2. CASE Len(prices) < MaxPrices
  BY <1>1, <1>2, PriceFeedAssumption DEF add_data
<1>3. CASE ~(Len(prices) < MaxPrices)
  <2> DEFINE index == (price % MaxPrices) + 1
             new == [prices EXCEPT ![index] = price]
  <2>1. add_data(prices, price) = new
    BY <1>3 DEF add_data
  <2>2. index \in 1..Len(prices)
    BY <1>1, <1>3, PriceFeedAssumption
  <2> HIDE DEF index
  <2>3. new \in Seq(Prices) /\ Len(new) = Len(prices)
    BY <1>1, <2>2, ExceptSeq
  <2> QED BY <1>1, <2>1, <2>3
<1> QED BY <1>2, <1>3

LEMMA DeviationIsU32 ==
    ASSUME NEW list \in Seq(Prices), NEW price \in Prices
    PROVE  Deviation(list, price) \in 0..MaxU32
<1>1. price \in 0..MaxU32 /\ MaxU32 \in Nat
  BY PriceFeedAssumption
<1>2. CASE list = <<>>
  BY <1>1, <1>2 DEF Deviation
<1>3. CASE list # <<>>
  <2> DEFINE average == average_price(list)
  <2>1. average \in 0..MaxU32
    BY <1>3, AverageBounds
  <2> HIDE DEF average
  <2>2. Deviation(list, price) = IF average > price THEN average - price ELSE price - average
    BY <1>3 DEF Deviation, average
  <2> QED BY <1>1, <2>1, <2>2
<1> QED BY <1>2, <1>3

(* What a transaction in a pool is made of.                                *)
TxOK(tx) ==
    /\ tx.bn \in 0..MaxBlock /\ tx.price \in Prices /\ tx.tag \in 0..MaxBlock
    /\ tx.deviation \in 0..MaxU32 /\ tx.until \in Nat

LEMMA OfferTypes ==
    ASSUME FeedInv, FeedTypeOK, NEW n \in Nodes, NEW bn \in 0..MaxBlock, NEW price \in Prices,
           Offer(n, bn, price)
    PROVE  FeedTypeOK'
<1> DEFINE tx == [bn |-> bn, price |-> price, tag |-> head.next,
                  deviation |-> Deviation(head.prices, price), until |-> block + Longevity]
<1>1. /\ head.next <= bn /\ bn <= block
      /\ pool' = [pool EXCEPT ![n] = (@ \ Rivals(n)) \cup {tx}]
      /\ UNCHANGED <<block, prices, next_unsigned_at, head, lastUnsigned, lastNumber>>
  BY DEF Offer, PoolAccepts, validate_transaction_parameters
<1>2. block \in Nat /\ head.next \in Nat /\ head.prices \in Seq(Prices)
  BY PriceFeedAssumption DEF FeedTypeOK
<1>3. Deviation(head.prices, price) \in 0..MaxU32
  BY <1>2, DeviationIsU32
<1>4. TxOK(tx)
  BY <1>1, <1>2, <1>3, PriceFeedAssumption DEF TxOK
<1> HIDE DEF tx
<1>5. \A m \in Nodes : pool'[m] \subseteq pool[m] \cup {tx}
  BY <1>1 DEF FeedInv, PoolsOK
<1>6. \A m \in Nodes : \A other \in pool'[m] : TxOK(other)
  BY <1>4, <1>5 DEF FeedTypeOK, TxOK
<1> QED BY <1>1, <1>6 DEF FeedTypeOK, TxOK

LEMMA FeedTypesKept == FeedInv /\ FeedTypeOK /\ [Next]_feedVars => FeedTypeOK'
<1> SUFFICES ASSUME FeedInv, FeedTypeOK, [Next]_feedVars PROVE FeedTypeOK'
  OBVIOUS
<1>1. ASSUME NEW price \in Prices, submit_price(price) PROVE FeedTypeOK'
  BY <1>1, PricesFit DEF submit_price, FeedTypeOK
<1>2. ASSUME NEW n \in Nodes, NEW tx \in pool[n], IncludeUnsigned(n, tx) PROVE FeedTypeOK'
  <2>1. /\ tx.bn <= block /\ tx.price \in Prices /\ tx.bn \in 0..MaxBlock
        /\ prices' = add_data(prices, tx.price)
        /\ next_unsigned_at' = block + UnsignedInterval
        /\ lastUnsigned' = block /\ lastNumber' = tx.bn
        /\ UNCHANGED <<block, head, pool>>
    BY <1>2 DEF IncludeUnsigned, submit_price_unsigned, validate_transaction_parameters, FeedTypeOK
  <2>2. prices' \in Seq(Prices) /\ Len(prices') <= MaxPrices
    BY <2>1, PricesFit
  <2>3. /\ next_unsigned_at' \in 0..(MaxBlock + UnsignedInterval)
        /\ lastUnsigned' \in 0..MaxBlock /\ lastNumber' \in 0..lastUnsigned'
    BY <2>1, PriceFeedAssumption DEF FeedTypeOK
  <2> QED BY <2>1, <2>2, <2>3 DEF FeedTypeOK
<1>3. CASE SealBlock
  <2>1. /\ block < MaxBlock /\ block' = block + 1
        /\ head' = [next |-> next_unsigned_at, prices |-> prices]
        /\ pool' = [n \in Nodes |-> {tx \in pool[n] : tx.tag \notin included /\ block < tx.until}]
        /\ UNCHANGED <<prices, next_unsigned_at, lastUnsigned, lastNumber>>
    BY <1>3 DEF SealBlock
  <2>2. \A n \in Nodes : pool'[n] \subseteq pool[n]
    BY <2>1
  <2>3. block' \in 1..MaxBlock
    BY <2>1, PriceFeedAssumption DEF FeedTypeOK
  <2>4. head'.next \in 0..(MaxBlock + UnsignedInterval) /\ head'.prices \in Seq(Prices)
    BY <2>1 DEF FeedTypeOK
  <2> QED BY <2>1, <2>2, <2>3, <2>4 DEF FeedTypeOK
<1>4. ASSUME NEW n \in Nodes, Restart(n) PROVE FeedTypeOK'
  <2>1. \A m \in Nodes : pool'[m] \subseteq pool[m]
    BY <1>4 DEF Restart, FeedInv, PoolsOK
  <2> QED BY <1>4, <2>1 DEF Restart, FeedTypeOK
<1>5. CASE UNCHANGED feedVars
  BY <1>5 DEF feedVars, FeedTypeOK
<1> QED BY <1>1, <1>2, <1>3, <1>4, <1>5, OfferTypes DEF Next, FeedStep

(* Every variable of the feed keeps its type: the vector stays within its  *)
(* bound and the deviation that raises a priority is a u32, whatever the   *)
(* sum of the prices (lines 732-758 and 775-786).                          *)
THEOREM FeedTypeCorrect == FeedSpec => []FeedTypeOK
<1>1. FeedInit => FeedTypeOK
  BY PriceFeedAssumption DEF FeedInit, FeedTypeOK
<1> QED BY <1>1, FeedTypesKept, FeedInvariant, PTL DEF FeedSpec

(* The average is never above all prices, and never below all of them      *)
(* unless the sum has saturated (lines 751-758).                           *)
THEOREM AverageStaysInRange == FeedSpec => []AverageInRange
<1>1. FeedTypeOK => AverageInRange
  <2> SUFFICES ASSUME FeedTypeOK, prices # <<>>
               PROVE  LET listed == {prices[i] : i \in 1..Len(prices)}
                          average == average_price(prices)
                      IN  /\ \E p \in listed : average <= p
                          /\ SumInOrder(prices) <= MaxU32 => \E p \in listed : p <= average
    BY DEF AverageInRange, SumInOrder
  <2>1. prices \in Seq(Prices)
    BY DEF FeedTypeOK
  <2> DEFINE average == average_price(prices)
             sum == SumInOrder(prices)
  <2>2. /\ \E i \in 1..Len(prices) : average <= prices[i]
        /\ sum <= MaxU32 => \E i \in 1..Len(prices) : prices[i] <= average
    BY <2>1, AverageBounds
  <2> HIDE DEF average, sum
  <2>3. LET listed == {prices[i] : i \in 1..Len(prices)}
        IN  /\ \E p \in listed : average <= p
            /\ sum <= MaxU32 => \E p \in listed : p <= average
    BY <2>2
  <2> QED BY <2>3 DEF average, sum
<1> QED BY <1>1, FeedTypeCorrect, PTL
=============================================================================
