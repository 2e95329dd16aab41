------------------------------ MODULE PriceFeed ------------------------------
(***************************************************************************)
(* The price feed of pallets/ocw-pallet/src/lib.rs: a bounded vector of    *)
(* prices that signed calls may extend at any time and unsigned calls once *)
(* per UnsignedInterval blocks.  Unsigned calls are not restricted to      *)
(* anybody: what keeps them apart is the validation of the block number    *)
(* they carry, made by each pool and again when a block applies them, and  *)
(* the tag that pools know them by.  Both unsigned calls do the same; the  *)
(* signature of the second one may be of any key.                          *)
(*                                                                         *)
(* A pool validates against the state its head block left, as if for the   *)
(* next block; blocks and pools are external.                              *)
(***************************************************************************)
EXTENDS Naturals, Sequences, FiniteSets, SequencesExt

CONSTANTS
    Nodes,              \* nodes with a pool
    Prices,             \* the prices that are submitted
    MaxU32,             \* the largest u32
    MaxPrices,          \* bound of the vector, 500 in the runtime
    UnsignedInterval,   \* 3 in the runtime
    Longevity,          \* blocks a transaction stays in a pool, 5 in the code
    MaxBlock            \* bound: number of blocks explored

ASSUME PriceFeedAssumption ==
    /\ MaxU32 \in Nat
    /\ Prices \subseteq 0..MaxU32
    /\ MaxPrices \in Nat \ {0}
    /\ UnsignedInterval \in Nat \ {0}
    /\ Longevity \in Nat
    /\ MaxBlock \in Nat \ {0}

VARIABLES
    block,              \* the block being executed
    prices,
    next_unsigned_at,
    head,               \* what the pools validate against: the parent's state
    pool,               \* the unsigned transactions each node's pool holds
    included,           \* the tags of those applied in this block
    lastUnsigned,       \* history: the block of the last unsigned price, 0 for none
    lastNumber          \* history: the block number that price was sent for

feedVars == <<block, prices, next_unsigned_at, head, pool, included, lastUnsigned, lastNumber>>

FeedTypeOK ==
    /\ block \in 1..MaxBlock
    /\ prices \in Seq(Prices) /\ Len(prices) <= MaxPrices
    /\ next_unsigned_at \in 0..(MaxBlock + UnsignedInterval)
    /\ head.next \in 0..(MaxBlock + UnsignedInterval) /\ head.prices \in Seq(Prices)
    /\ \A n \in Nodes : \A tx \in pool[n] :
          /\ tx.bn \in 0..MaxBlock /\ tx.price \in Prices /\ tx.tag \in 0..MaxBlock
          /\ tx.deviation \in 0..MaxU32 /\ tx.until \in Nat
    /\ lastUnsigned \in 0..MaxBlock
    /\ lastNumber \in 0..lastUnsigned

FeedInit ==
    /\ block = 1
    /\ prices = <<>>
    /\ next_unsigned_at = 0
    /\ head = [next |-> 0, prices |-> <<>>]
    /\ pool = [n \in Nodes |-> {}]
    /\ included = {}
    /\ lastUnsigned = 0
    /\ lastNumber = 0

-----------------------------------------------------------------------------
(* The vector of prices                                                    *)

(* A full vector loses the price at an index that the new price chooses.   *)
add_data(list, price) ==
    IF Len(list) < MaxPrices THEN Append(list, price)
                             ELSE [list EXCEPT ![(price % MaxPrices) + 1] = price]

Saturating(x) == IF x > MaxU32 THEN MaxU32 ELSE x

\* Mutant: the sum is divided by the capacity of the vector.
average_price_of_all(list) ==
    FoldLeft(LAMBDA a, b : Saturating(a + b), 0, list) \div MaxPrices

average_price(list) ==
    FoldLeft(LAMBDA a, b : Saturating(a + b), 0, list) \div Len(list)

(* What a new price adds to the priority of its transaction.               *)
Deviation(list, price) ==
    LET average == average_price(list) IN
    IF list = <<>> THEN 0
    ELSE IF average > price THEN average - price ELSE price - average

-----------------------------------------------------------------------------

submit_price(price) ==
    /\ prices' = add_data(prices, price)
    /\ UNCHANGED <<block, next_unsigned_at, head, pool, included, lastUnsigned, lastNumber>>

\* Mutant: the next one is expected at the block number of the call.
submit_price_unsigned_early(block_number, price) ==
    /\ prices' = add_data(prices, price)
    /\ next_unsigned_at' = block_number
    /\ lastUnsigned' = block
    /\ lastNumber' = block_number

submit_price_unsigned(block_number, price) ==
    /\ prices' = add_data(prices, price)
    /\ next_unsigned_at' = block + UnsignedInterval
    /\ lastUnsigned' = block
    /\ lastNumber' = block_number

\* Mutant: no check for Stale.
validate_not_future(next, block_number) == block_number <= block

\* Mutant: no check for Future.
validate_not_stale(next, block_number) == next <= block_number

validate_transaction_parameters(next, block_number) ==
    next <= block_number /\ block_number <= block

(* A transaction reaches a pool, from an off-chain worker, a user or a     *)
(* peer.  It provides the block at which the next one is expected as a     *)
(* tag: of two with the same tag a pool keeps the one of higher priority,  *)
(* which is the one further from the average.                              *)
Rivals(n) == {other \in pool[n] : other.tag = head.next}

PoolAccepts(n, block_number, price) ==
    /\ validate_transaction_parameters(head.next, block_number)
    /\ \A other \in Rivals(n) : other.deviation < Deviation(head.prices, price)

\* Mutant: the tag is the block number of the call.
OfferTaggedByNumber(n, block_number, price) ==
    LET rivals == {other \in pool[n] : other.tag = block_number}
        tx == [bn |-> block_number, price |-> price, tag |-> block_number,
               deviation |-> Deviation(head.prices, price), until |-> block + Longevity]
    IN  /\ validate_transaction_parameters(head.next, block_number)
        /\ \A other \in rivals : other.deviation < tx.deviation
        /\ pool' = [pool EXCEPT ![n] = (@ \ rivals) \cup {tx}]
        /\ UNCHANGED <<block, prices, next_unsigned_at, head, included, lastUnsigned, lastNumber>>

Offer(n, block_number, price) ==
    LET tx == [bn |-> block_number, price |-> price, tag |-> head.next,
               deviation |-> Deviation(head.prices, price), until |-> block + Longevity]
    IN  /\ PoolAccepts(n, block_number, price)
        /\ pool' = [pool EXCEPT ![n] = (@ \ Rivals(n)) \cup {tx}]
        /\ UNCHANGED <<block, prices, next_unsigned_at, head, included, lastUnsigned, lastNumber>>

(* A block author applies a transaction, after validating it again.        *)
IncludeUnsigned(n, tx) ==
    /\ tx \in pool[n]
    /\ validate_transaction_parameters(next_unsigned_at, tx.bn)
    /\ submit_price_unsigned(tx.bn, tx.price)
    /\ included' = included \cup {tx.tag}
    /\ UNCHANGED <<block, head, pool>>

(* The block is sealed and imported: the pools drop what provides a tag    *)
(* that it provided, and what has outlived its longevity.                  *)
SealBlock ==
    /\ block < MaxBlock
    /\ block' = block + 1
    /\ head' = [next |-> next_unsigned_at, prices |-> prices]
    /\ pool' = [n \in Nodes |-> {tx \in pool[n] : tx.tag \notin included /\ block < tx.until}]
    /\ included' = {}
    /\ UNCHANGED <<prices, next_unsigned_at, lastUnsigned, lastNumber>>

(* A node that restarts has lost its pool.                                 *)
Restart(n) ==
    /\ pool[n] # {}
    /\ pool' = [pool EXCEPT ![n] = {}]
    /\ UNCHANGED <<block, prices, next_unsigned_at, head, included, lastUnsigned, lastNumber>>

(* Users, peers and block authors.                                         *)
FeedStep ==
    \/ SealBlock
    \/ \E price \in Prices : submit_price(price)
    \/ \E n \in Nodes : \E tx \in pool[n] : IncludeUnsigned(n, tx)
    \/ \E n \in Nodes, bn \in 0..MaxBlock, price \in Prices : Offer(n, bn, price)

Next == (\E n \in Nodes : Restart(n)) \/ FeedStep

FeedSpec == FeedInit /\ [][Next]_feedVars

-----------------------------------------------------------------------------
(* Properties                                                              *)

(* Two unsigned prices are at least UnsignedInterval blocks apart, however *)
(* many are offered to however many pools (lines 356-363 and 419-438).     *)
UnsignedPricesAreSpaced ==
    [][lastUnsigned' # lastUnsigned /\ lastUnsigned # 0
          => lastUnsigned' >= lastUnsigned + UnsignedInterval]_feedVars

(* No transaction is applied twice, whoever replays it: the block numbers  *)
(* that applied transactions carry grow (lines 356-363 and 760-773).       *)
UnsignedNumbersGrow ==
    [][lastUnsigned' # lastUnsigned /\ lastUnsigned # 0
          => lastNumber' > lastNumber]_feedVars

(* The tag names the interval: a transaction of a pool that a block would  *)
(* still apply carries the current NextUnsignedAt as its tag, although it  *)
(* was tagged on an older state.                                           *)
UsableMeansCurrent ==
    \A n \in Nodes : \A tx \in pool[n] :
        validate_transaction_parameters(next_unsigned_at, tx.bn) => tx.tag = next_unsigned_at

(* So no pool ever holds two prices for the next interval, of which a      *)
(* block would apply the first and then refuse the other (line 782).       *)
OneUsablePerPool ==
    \A n \in Nodes : \A tx, other \in pool[n] :
        /\ validate_transaction_parameters(next_unsigned_at, tx.bn)
        /\ validate_transaction_parameters(next_unsigned_at, other.bn)
        => tx = other

(* The average lies between the smallest and the largest price, unless the *)
(* sum saturates (lines 751-758): then it may be below all of them, and is *)
(* never above.                                                            *)
AverageInRange ==
    LET listed == {prices[i] : i \in 1..Len(prices)}
        sum == FoldLeft(+, 0, prices)
        average == average_price(prices)
    IN  prices # <<>> =>
          /\ \E p \in listed : average <= p
          /\ sum <= MaxU32 => \E p \in listed : p <= average
=============================================================================
