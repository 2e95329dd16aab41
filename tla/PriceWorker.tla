----------------------------- MODULE PriceWorker -----------------------------
(***************************************************************************)
(* The off-chain worker of the price feed, pallets/ocw-pallet/src/lib.rs:  *)
(* a run takes the slot `last_send` of the node's local storage by a       *)
(* compare-and-set, chooses from the block number how to send, fetches a   *)
(* price and hands it to the pool of the node.  Runs of several blocks     *)
(* overlap; the local storage survives a restart, runs and pool do not.    *)
(*                                                                         *)
(* The hook that starts a run is commented out at this commit: runs follow *)
(* the two dispatches that the comment shows (lines 228-238).  The copies  *)
(* of responses that a run leaves in the local storage (lines 692-703) are *)
(* never read and left out.                                                *)
(***************************************************************************)
EXTENDS PriceFeed, Integers

CONSTANTS
    Runs,               \* bound: off-chain worker runs a node has at a time
    GracePeriod,        \* 3 in the runtime
    Accounts,           \* keys of the pallet's type in each node's keystore
    Numbers             \* bound: the integers found in answers of the price source

ASSUME PriceWorkerAssumption ==
    /\ GracePeriod \in Nat
    /\ Accounts \in [Nodes -> Nat]
    /\ Numbers \subseteq Int
    /\ \A number \in Numbers : number % (MaxU32 + 1) \in Prices

VARIABLES
    last_send,          \* local storage of each node: 0 stands for no value
    run,                \* what each run of each node does
    slots               \* history: the block numbers each node took the slot with

vars == <<feedVars, last_send, run, slots>>

TransactionType == {"Signed", "UnsignedForAny", "UnsignedForAll", "Raw"}

Idle == [pc |-> "idle"]

(* `bn` and `next` are what a run was started with: the number of the      *)
(* imported block, and NextUnsignedAt in its state.  `left` counts the     *)
(* transactions that the run has still to send.                            *)
RunStates ==
    LET Blocks == 1..MaxBlock IN
    {Idle}
    \cup [pc : {"choose"}, bn : Blocks, next : 0..(MaxBlock + UnsignedInterval)]
    \cup [pc : {"acquire"}, bn : Blocks, next : 0..(MaxBlock + UnsignedInterval), seen : 0..MaxBlock]
    \cup [pc : {"fetch"}, bn : Blocks, type : TransactionType]
    \cup [pc : {"send"}, bn : Blocks, price : Prices, left : Nat]

WorkerTypeOK ==
    /\ FeedTypeOK
    /\ last_send \in [Nodes -> 0..MaxBlock]
    /\ run \in [Nodes -> [Runs -> RunStates]]
    /\ \A n \in Nodes : slots[n] \in Seq(1..MaxBlock)

WorkerInit ==
    /\ FeedInit
    /\ last_send = [n \in Nodes |-> 0]
    /\ run = [n \in Nodes |-> [r \in Runs |-> Idle]]
    /\ slots = [n \in Nodes |-> <<>>]

-----------------------------------------------------------------------------
(* One run                                                                 *)

Becomes(n, r, state) == run' = [run EXCEPT ![n][r] = state]

(* Before a run fetches: a signed price needs an account, an unsigned one  *)
(* a block number that is not too early.                                   *)
MayFetch(n, me, type) == IF type = "Signed" THEN Accounts[n] > 0 ELSE me.next <= me.bn

Fetching(n, me, type) ==
    IF MayFetch(n, me, type) THEN [pc |-> "fetch", bn |-> me.bn, type |-> type] ELSE Idle

(* A block has been imported and its hook runs, possibly late, or twice    *)
(* when the best block changes.  Either the slot decides how to send, or a *)
(* raw unsigned transaction is sent without asking for it.                 *)
Start(n, r) ==
    LET me == [pc |-> "choose", bn |-> block - 1, next |-> head.next] IN
    /\ run[n][r] = Idle
    /\ block > 1
    /\ Becomes(n, r, me) \/ Becomes(n, r, Fetching(n, me, "Raw"))
    /\ UNCHANGED <<feedVars, last_send, slots>>

RECENTLY_SENT(block_number, last) == last # 0 /\ block_number < last + GracePeriod

(* `mutate` reads the slot and computes what to put there.                 *)
ReadSlot(n, r) ==
    LET me == run[n][r] IN
    /\ me.pc = "choose"
    /\ Becomes(n, r, IF RECENTLY_SENT(me.bn, last_send[n]) THEN Idle
                     ELSE [pc |-> "acquire", bn |-> me.bn, next |-> me.next,
                           seen |-> last_send[n]])
    /\ UNCHANGED <<feedVars, last_send, slots>>

TypeOf(block_number) ==
    CASE block_number % 3 = 0 -> "Signed"
      [] block_number % 3 = 1 -> "UnsignedForAny"
      [] block_number % 3 = 2 -> "UnsignedForAll"

Acquire(n, r) ==
    LET me == run[n][r] IN
    /\ last_send' = [last_send EXCEPT ![n] = me.bn]
    /\ slots' = [slots EXCEPT ![n] = Append(@, me.bn)]
    /\ Becomes(n, r, Fetching(n, me, TypeOf(me.bn)))

\* Mutant: the slot is set without comparing.
SetSlot(n, r) ==
    /\ run[n][r].pc = "acquire"
    /\ Acquire(n, r)
    /\ UNCHANGED feedVars

(* ... and puts it there unless another run has: ConcurrentModification.   *)
SwapSlot(n, r) ==
    LET me == run[n][r] IN
    /\ me.pc = "acquire"
    /\ \/ /\ last_send[n] = me.seen
          /\ Acquire(n, r)
       \/ /\ last_send[n] # me.seen
          /\ Becomes(n, r, Idle)
          /\ UNCHANGED <<last_send, slots>>
    /\ UNCHANGED feedVars

(* The price source does not answer within 5 seconds, or not with a price. *)
FetchFails(n, r) ==
    /\ run[n][r].pc = "fetch"
    /\ Becomes(n, r, Idle)
    /\ UNCHANGED <<feedVars, last_send, slots>>

(* What is sent for one price.  A signed transaction is not: the runtime   *)
(* asks for a metadata hash that its default build does not have, so       *)
(* create_transaction returns None for every account.                      *)
Sendings(n, type) ==
    CASE type = "Signed" -> 0
      [] type = "Raw" -> 1
      [] type = "UnsignedForAny" -> IF Accounts[n] = 0 THEN 0 ELSE 1
      [] type = "UnsignedForAll" -> Accounts[n]

\* Mutant: the integer is kept as it is.
parse_data_wide(number) == number

(* The integer of the answer, as a u32.                                    *)
parse_data(number) == number % (MaxU32 + 1)

Fetched(n, r) ==
    LET me == run[n][r] IN
    /\ me.pc = "fetch"
    /\ \E number \in Numbers :
          Becomes(n, r, IF Sendings(n, me.type) = 0 THEN Idle
                        ELSE [pc |-> "send", bn |-> me.bn, price |-> parse_data(number),
                              left |-> Sendings(n, me.type)])
    /\ UNCHANGED <<feedVars, last_send, slots>>

AfterSending(me) ==
    IF me.left = 1 THEN Idle
    ELSE [pc |-> "send", bn |-> me.bn, price |-> me.price, left |-> me.left - 1]

(* The pool takes an unsigned transaction or refuses it; either way the    *)
(* run goes on to the next account.                                        *)
SendUnsigned(n, r) ==
    LET me == run[n][r] IN
    /\ me.pc = "send"
    /\ \/ Offer(n, me.bn, me.price)
       \/ ~PoolAccepts(n, me.bn, me.price) /\ UNCHANGED feedVars
    /\ Becomes(n, r, AfterSending(me))
    /\ UNCHANGED <<last_send, slots>>

RunStep(n, r) ==
    \/ Start(n, r) \/ ReadSlot(n, r) \/ SwapSlot(n, r)
    \/ FetchFails(n, r) \/ Fetched(n, r) \/ SendUnsigned(n, r)

-----------------------------------------------------------------------------

RestartNode(n) ==
    /\ pool' = [pool EXCEPT ![n] = {}]
    /\ run' = [run EXCEPT ![n] = [r \in Runs |-> Idle]]
    /\ UNCHANGED <<block, prices, next_unsigned_at, head, included, lastUnsigned, lastNumber>>
    /\ UNCHANGED <<last_send, slots>>

WorkerNext ==
    \/ \E n \in Nodes, r \in Runs : RunStep(n, r)
    \/ \E n \in Nodes : RestartNode(n)
    \/ FeedStep /\ UNCHANGED <<last_send, run, slots>>

WorkerSpec == WorkerInit /\ [][WorkerNext]_vars

-----------------------------------------------------------------------------
(* Properties                                                              *)

(* However the runs of a node overlap, repeat, come late or are cut off by *)
(* a restart, the slot is taken with block numbers that are GracePeriod    *)
(* apart: "only one worker will be able to acquire a lock" (lines 484-500  *)
(* and 530-538).                                                           *)
SlotsAreSpaced ==
    \A n \in Nodes : \A i, j \in 1..Len(slots[n]) :
        i < j => slots[n][j] >= slots[n][i] + GracePeriod
=============================================================================
