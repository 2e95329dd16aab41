------------------------- MODULE PriceWorker_proofs -------------------------
(* Runs of the price worker, for any number of nodes, runs, keys and       *)
(* blocks: the slot is taken GracePeriod apart, and a run only does to the *)
(* feed what anybody may do.                                               *)
EXTENDS PriceWorker, PriceFeed_proofs

(* What a run carries.  One that is about to take the slot was allowed to  *)
(* by the value it has read.                                               *)
RunOK(me) ==
    /\ me.pc # "idle" => me.bn \in 1..MaxBlock
    /\ me.pc = "acquire" => me.seen \in Nat /\ ~RECENTLY_SENT(me.bn, me.seen)
    /\ me.pc = "send" => me.price \in Prices

RunsOK == \A n \in Nodes : \A r \in Runs : RunOK(run[n][r])

(* The slot holds the latest number it was taken with.                     *)
SlotOK(taken, last) ==
    /\ taken \in Seq(Nat) /\ last \in Nat
    /\ last = 0 => taken = <<>>
    /\ \A i \in 1..Len(taken) : taken[i] <= last
    /\ \A i, j \in 1..Len(taken) : i < j => taken[j] >= taken[i] + GracePeriod

SlotsOK == \A n \in Nodes : SlotOK(slots[n], last_send[n])

Shapes ==
    /\ block \in 1..MaxBlock
    /\ pool = [n \in Nodes |-> pool[n]]
    /\ run = [n \in Nodes |-> run[n]] /\ \A n \in Nodes : run[n] = [r \in Runs |-> run[n][r]]
    /\ last_send = [n \in Nodes |-> last_send[n]]
    /\ slots = [n \in Nodes |-> slots[n]]

WorkerInv == Shapes /\ RunsOK /\ SlotsOK

LEMMA IdleOK == RunOK(Idle)
  BY PriceFeedAssumption DEF RunOK, Idle

LEMMA WorkerInitInv == WorkerInit => WorkerInv
<1> SUFFICES ASSUME WorkerInit PROVE WorkerInv
  OBVIOUS
<1>1. Shapes
  BY PriceFeedAssumption DEF WorkerInit, FeedInit, Shapes
<1>2. RunsOK
  BY IdleOK DEF WorkerInit, RunsOK
<1>3. SlotsOK
  BY DEF WorkerInit, SlotsOK, SlotOK
<1> QED BY <1>1, <1>2, <1>3 DEF WorkerInv

-----------------------------------------------------------------------------
(* Steps that change one run                                               *)

LEMMA BecomesOK ==
    ASSUME WorkerInv, NEW n \in Nodes, NEW r \in Runs, NEW me, RunOK(me), Becomes(n, r, me)
    PROVE  /\ RunsOK'
           /\ run' = [m \in Nodes |-> run'[m]] /\ \A m \in Nodes : run'[m] = [s \in Runs |-> run'[m][s]]
<1>1. \A m \in Nodes : \A s \in Runs :
         run'[m][s] = IF m = n /\ s = r THEN me ELSE run[m][s]
  BY DEF Becomes, WorkerInv, Shapes
<1>2. RunsOK'
  BY <1>1 DEF WorkerInv, RunsOK, RunOK, RECENTLY_SENT
<1>3. /\ run' = [m \in Nodes |-> run'[m]]
      /\ \A m \in Nodes : run'[m] = [s \in Runs |-> run'[m][s]]
  BY DEF Becomes, WorkerInv, Shapes
<1> QED BY <1>2, <1>3

(* A step of a run that leaves the slot and the feed alone.                *)
LEMMA LocalStepOK ==
    ASSUME WorkerInv, NEW n \in Nodes, NEW r \in Runs, NEW me, RunOK(me), Becomes(n, r, me),
           UNCHANGED <<feedVars, last_send, slots>>
    PROVE  WorkerInv'
  BY BecomesOK DEF WorkerInv, Shapes, SlotsOK, feedVars

LEMMA FetchingOK ==
    ASSUME NEW n, NEW me, NEW type, me.bn \in 1..MaxBlock
    PROVE  RunOK(Fetching(n, me, type))
  BY DEF RunOK, Fetching, Idle

LEMMA StartOK ==
    ASSUME WorkerInv, NEW n \in Nodes, NEW r \in Runs, Start(n, r)
    PROVE  WorkerInv'
<1> DEFINE me == [pc |-> "choose", bn |-> block - 1, next |-> head.next]
<1>1. block - 1 \in 1..MaxBlock
  BY PriceFeedAssumption DEF Start, WorkerInv, Shapes
<1>2. RunOK(me) /\ me.bn \in 1..MaxBlock
  BY <1>1 DEF RunOK
<1>3. Becomes(n, r, me) \/ Becomes(n, r, Fetching(n, me, "Raw"))
  BY DEF Start
<1> HIDE DEF me
<1>4. RunOK(Fetching(n, me, "Raw"))
  BY <1>2, FetchingOK
<1>5. UNCHANGED <<feedVars, last_send, slots>>
  BY DEF Start
<1>6. CASE Becomes(n, r, me)
  BY <1>2, <1>5, <1>6, LocalStepOK
<1>7. CASE Becomes(n, r, Fetching(n, me, "Raw"))
  BY <1>4, <1>5, <1>7, LocalStepOK
<1> QED BY <1>3, <1>6, <1>7

LEMMA ReadSlotOK ==
    ASSUME WorkerInv, NEW n \in Nodes, NEW r \in Runs, ReadSlot(n, r)
    PROVE  WorkerInv'
<1> DEFINE me == run[n][r]
           next == [pc |-> "acquire", bn |-> me.bn, next |-> me.next, seen |-> last_send[n]]
<1>1. /\ RunOK(me) /\ me.pc = "choose" /\ last_send[n] \in Nat
      /\ Becomes(n, r, IF RECENTLY_SENT(me.bn, last_send[n]) THEN Idle ELSE next)
      /\ UNCHANGED <<feedVars, last_send, slots>>
  BY DEF ReadSlot, WorkerInv, RunsOK, SlotsOK, SlotOK
<1>2. CASE RECENTLY_SENT(me.bn, last_send[n])
  BY <1>1, <1>2, IdleOK, LocalStepOK
<1>3. CASE ~RECENTLY_SENT(me.bn, last_send[n])
  <2>1. RunOK(next)
    BY <1>1, <1>3 DEF RunOK
  <2> HIDE DEF next
  <2> QED BY <1>1, <1>3, <2>1, LocalStepOK
<1> QED BY <1>2, <1>3

-----------------------------------------------------------------------------
(* Taking the slot                                                         *)

LEMMA TakenOK ==
    ASSUME NEW taken, NEW last, NEW bn \in 1..MaxBlock, SlotOK(taken, last),
           ~RECENTLY_SENT(bn, last)
    PROVE  SlotOK(Append(taken, bn), bn)
<1> DEFINE now == Append(taken, bn)
<1>1. /\ taken \in Seq(Nat) /\ last \in Nat /\ GracePeriod \in Nat /\ bn \in Nat
      /\ last = 0 => taken = <<>>
      /\ \A i \in 1..Len(taken) : taken[i] <= last /\ taken[i] \in Nat
  BY PriceWorkerAssumption DEF SlotOK
<1>2. /\ now \in Seq(Nat) /\ Len(now) = Len(taken) + 1 /\ Len(taken) \in Nat
      /\ \A i \in 1..Len(taken) : now[i] = taken[i]
      /\ now[Len(taken) + 1] = bn
  BY <1>1
<1>3. \A i \in 1..Len(taken) : taken[i] + GracePeriod <= bn
  <2>1. CASE last = 0
    BY <1>1, <2>1
  <2>2. CASE last # 0
    <3>1. last + GracePeriod <= bn
      BY <1>1, <2>2 DEF RECENTLY_SENT
    <3> QED BY <1>1, <3>1
  <2> QED BY <2>1, <2>2
<1> HIDE DEF now
<1>4. \A i \in 1..Len(now) : now[i] <= bn
  <2> SUFFICES ASSUME NEW i \in 1..Len(now) PROVE now[i] <= bn
    OBVIOUS
  <2>1. CASE i = Len(taken) + 1
    BY <1>1, <1>2, <2>1
  <2>2. CASE i # Len(taken) + 1
    <3>1. i \in 1..Len(taken)
      BY <1>2, <2>2
    <3>2. taken[i] \in Nat /\ taken[i] + GracePeriod <= bn /\ now[i] = taken[i]
      BY <1>1, <1>2, <1>3, <3>1
    <3> QED BY <1>1, <3>2
  <2> QED BY <2>1, <2>2
<1>5. \A i, j \in 1..Len(now) : i < j => now[j] >= now[i] + GracePeriod
  <2> SUFFICES ASSUME NEW i \in 1..Len(now), NEW j \in 1..Len(now), i < j
               PROVE  now[j] >= now[i] + GracePeriod
    OBVIOUS
  <2>1. i \in 1..Len(taken) /\ now[i] = taken[i]
    BY <1>2
  <2>2. CASE j = Len(taken) + 1
    BY <1>1, <1>2, <1>3, <2>1, <2>2
  <2>3. CASE j # Len(taken) + 1
    <3>1. j \in 1..Len(taken) /\ now[j] = taken[j]
      BY <1>2, <2>3
    <3> QED BY <2>1, <3>1 DEF SlotOK
  <2> QED BY <2>2, <2>3
<1>6. SlotOK(now, bn)
  BY <1>2, <1>4, <1>5 DEF SlotOK
<1> QED BY <1>6 DEF now

LEMMA SwapSlotOK ==
    ASSUME WorkerInv, NEW n \in Nodes, NEW r \in Runs, SwapSlot(n, r)
    PROVE  WorkerInv'
<1> DEFINE me == run[n][r]
<1>1. /\ RunOK(me) /\ me.pc = "acquire" /\ UNCHANGED feedVars
      /\ SlotOK(slots[n], last_send[n])
  BY DEF SwapSlot, WorkerInv, RunsOK, SlotsOK
<1>2. CASE last_send[n] = me.seen /\ Acquire(n, r)
  <2>1. /\ last_send' = [last_send EXCEPT ![n] = me.bn]
        /\ slots' = [slots EXCEPT ![n] = Append(@, me.bn)]
        /\ Becomes(n, r, Fetching(n, me, TypeOf(me.bn)))
    BY <1>2 DEF Acquire
  <2>2. SlotOK(Append(slots[n], me.bn), me.bn)
    BY <1>1, <1>2, TakenOK DEF RunOK
  <2>3. \A m \in Nodes : /\ slots'[m] = IF m = n THEN Append(slots[n], me.bn) ELSE slots[m]
                         /\ last_send'[m] = IF m = n THEN me.bn ELSE last_send[m]
    BY <2>1 DEF WorkerInv, Shapes
  <2>4. SlotsOK'
    BY <2>2, <2>3 DEF WorkerInv, SlotsOK, SlotOK
  <2>5. RunOK(Fetching(n, me, TypeOf(me.bn)))
    BY <1>1, FetchingOK DEF RunOK
  <2> QED BY <1>1, <2>1, <2>4, <2>5, BecomesOK DEF WorkerInv, Shapes, feedVars
<1>3. CASE Becomes(n, r, Idle) /\ UNCHANGED <<last_send, slots>>
  BY <1>1, <1>3, IdleOK, LocalStepOK
<1> QED BY <1>2, <1>3 DEF SwapSlot

-----------------------------------------------------------------------------
(* Fetching and sending                                                    *)

LEMMA FetchedOK ==
    ASSUME WorkerInv, NEW n \in Nodes, NEW r \in Runs, Fetched(n, r)
    PROVE  WorkerInv'
<1> DEFINE me == run[n][r]
           next(number) == [pc |-> "send", bn |-> me.bn, price |-> parse_data(number),
                            left |-> Sendings(n, me.type)]
<1>1. PICK number \in Numbers :
         Becomes(n, r, IF Sendings(n, me.type) = 0 THEN Idle ELSE next(number))
  BY DEF Fetched
<1>2. RunOK(me) /\ me.pc = "fetch" /\ UNCHANGED <<feedVars, last_send, slots>>
  BY DEF Fetched, WorkerInv, RunsOK
<1>3. CASE Sendings(n, me.type) = 0
  BY <1>1, <1>2, <1>3, IdleOK, LocalStepOK
<1>4. CASE Sendings(n, me.type) # 0
  <2>1. parse_data(number) \in Prices
    BY PriceWorkerAssumption DEF parse_data
  <2>2. RunOK(next(number))
    BY <1>2, <2>1 DEF RunOK
  <2> HIDE DEF next
  <2> QED BY <1>1, <1>2, <1>4, <2>2, LocalStepOK
<1> QED BY <1>3, <1>4

LEMMA FetchFailsOK ==
    ASSUME WorkerInv, NEW n \in Nodes, NEW r \in Runs, FetchFails(n, r)
    PROVE  WorkerInv'
  BY IdleOK, LocalStepOK DEF FetchFails

LEMMA AfterSendingOK ==
    ASSUME NEW me, RunOK(me), me.pc = "send"
    PROVE  RunOK(AfterSending(me))
  BY IdleOK DEF RunOK, AfterSending

LEMMA SendUnsignedOK ==
    ASSUME WorkerInv, NEW n \in Nodes, NEW r \in Runs, SendUnsigned(n, r)
    PROVE  WorkerInv' /\ (Offer(n, run[n][r].bn, run[n][r].price) \/ UNCHANGED feedVars)
<1> DEFINE me == run[n][r]
<1>1. /\ RunOK(me) /\ me.pc = "send"
      /\ Offer(n, me.bn, me.price) \/ UNCHANGED feedVars
      /\ Becomes(n, r, AfterSending(me)) /\ UNCHANGED <<last_send, slots>>
  BY DEF SendUnsigned, WorkerInv, RunsOK
<1>2. /\ RunsOK'
      /\ run' = [m \in Nodes |-> run'[m]] /\ \A m \in Nodes : run'[m] = [s \in Runs |-> run'[m][s]]
  BY <1>1, AfterSendingOK, BecomesOK
<1>3. block' = block /\ pool' = [m \in Nodes |-> pool'[m]]
  BY <1>1 DEF Offer, feedVars, WorkerInv, Shapes
<1> QED BY <1>1, <1>2, <1>3 DEF WorkerInv, Shapes, SlotsOK

LEMMA RunStepOK ==
    ASSUME WorkerInv, NEW n \in Nodes, NEW r \in Runs, RunStep(n, r)
    PROVE  WorkerInv'
  BY StartOK, ReadSlotOK, SwapSlotOK, FetchFailsOK, FetchedOK, SendUnsignedOK DEF RunStep

-----------------------------------------------------------------------------
(* Steps of the node and of its environment                                *)

LEMMA RestartNodeOK ==
    ASSUME WorkerInv, NEW n \in Nodes, RestartNode(n)
    PROVE  WorkerInv'
<1>1. /\ pool' = [pool EXCEPT ![n] = {}] /\ run' = [run EXCEPT ![n] = [r \in Runs |-> Idle]]
      /\ UNCHANGED <<block, last_send, slots>>
  BY DEF RestartNode
<1>2. \A m \in Nodes : \A r \in Runs : run'[m][r] = IF m = n THEN Idle ELSE run[m][r]
  BY <1>1 DEF WorkerInv, Shapes
<1>3. RunsOK'
  BY <1>2, IdleOK DEF WorkerInv, RunsOK, RunOK, RECENTLY_SENT
<1>4. Shapes'
  BY <1>1 DEF WorkerInv, Shapes
<1> QED BY <1>1, <1>3, <1>4 DEF WorkerInv, SlotsOK

LEMMA FeedStepOK ==
    ASSUME WorkerInv, FeedStep, UNCHANGED <<last_send, run, slots>>
    PROVE  WorkerInv'
<1>1. block' \in 1..MaxBlock /\ pool' = [n \in Nodes |-> pool'[n]]
  <2>1. CASE SealBlock
    BY <2>1, PriceFeedAssumption DEF SealBlock, WorkerInv, Shapes
  <2>2. ASSUME NEW price \in Prices, submit_price(price)
        PROVE  block' = block /\ pool' = pool
    BY <2>2 DEF submit_price
  <2>3. ASSUME NEW n \in Nodes, NEW tx \in pool[n], IncludeUnsigned(n, tx)
        PROVE  block' = block /\ pool' = pool
    BY <2>3 DEF IncludeUnsigned
  <2>4. ASSUME NEW n \in Nodes, NEW bn \in 0..MaxBlock, NEW price \in Prices, Offer(n, bn, price)
        PROVE  block' = block /\ pool' = [m \in Nodes |-> pool'[m]]
    BY <2>4 DEF Offer, WorkerInv, Shapes
  <2> QED BY <2>1, <2>2, <2>3, <2>4 DEF FeedStep, WorkerInv, Shapes
<1>2. RunsOK' /\ SlotsOK'
  BY DEF WorkerInv, RunsOK, RunOK, RECENTLY_SENT, SlotsOK
<1> QED BY <1>1, <1>2 DEF WorkerInv, Shapes

LEMMA WorkerStepInv == WorkerInv /\ [WorkerNext]_vars => WorkerInv'
<1> SUFFICES ASSUME WorkerInv, [WorkerNext]_vars PROVE WorkerInv'
  OBVIOUS
<1>1. CASE UNCHANGED vars
  <2>1. UNCHANGED <<block, pool, last_send, run, slots>>
    BY <1>1 DEF vars, feedVars
  <2> QED BY <2>1 DEF WorkerInv, Shapes, RunsOK, RunOK, RECENTLY_SENT, SlotsOK
<1> QED BY <1>1, RunStepOK, RestartNodeOK, FeedStepOK DEF WorkerNext

LEMMA WorkerInvariant == WorkerSpec => []WorkerInv
  BY WorkerInitInv, WorkerStepInv, PTL DEF WorkerSpec

(* However runs overlap, come late or are cut off by restarts, the slot is *)
(* taken with block numbers GracePeriod apart (lines 486-545).             *)
THEOREM SlotIsTakenOncePerGracePeriod == WorkerSpec => []SlotsAreSpaced
<1>1. WorkerInv => SlotsAreSpaced
  BY DEF WorkerInv, SlotsOK, SlotOK, SlotsAreSpaced
<1> QED BY <1>1, WorkerInvariant, PTL

LEMMA WorkerStepsAreFeedSteps == WorkerInv /\ [WorkerNext]_vars => [Next]_feedVars
<1> SUFFICES ASSUME WorkerInv, [WorkerNext]_vars PROVE [Next]_feedVars
  OBVIOUS
<1>1. ASSUME NEW n \in Nodes, NEW r \in Runs, SendUnsigned(n, r) PROVE [Next]_feedVars
  <2>1. run[n][r].bn \in 0..MaxBlock /\ run[n][r].price \in Prices
    BY <1>1 DEF SendUnsigned, WorkerInv, RunsOK, RunOK
  <2> QED BY <1>1, <2>1, SendUnsignedOK DEF Next, FeedStep
<1>2. ASSUME NEW n \in Nodes, NEW r \in Runs, RunStep(n, r) PROVE [Next]_feedVars
  BY <1>1, <1>2 DEF RunStep, Start, ReadSlot, SwapSlot, FetchFails, Fetched
<1>3. ASSUME NEW n \in Nodes, RestartNode(n) PROVE [Next]_feedVars
  <2>1. CASE pool[n] = {}
    <3>1. pool' = pool
      BY <1>3, <2>1 DEF RestartNode, WorkerInv, Shapes
    <3> QED BY <1>3, <3>1 DEF RestartNode, feedVars
  <2>2. CASE pool[n] # {}
    BY <1>3, <2>2 DEF RestartNode, Restart, Next
  <2> QED BY <2>1, <2>2
<1>4. CASE FeedStep
  BY <1>4 DEF Next
<1>5. CASE UNCHANGED vars
  BY <1>5 DEF vars
<1> QED BY <1>2, <1>3, <1>4, <1>5 DEF WorkerNext

(* Whatever stale state a run started from, it only does to the feed what  *)
(* anybody may do (lines 568-680), or nothing: the worker implements the   *)
(* feed, so that the properties of the feed hold.                          *)
THEOREM WorkerImplementsFeed == WorkerSpec => FeedSpec
<1>1. WorkerInit => FeedInit
  BY DEF WorkerInit
<1> QED BY <1>1, WorkerInvariant, WorkerStepsAreFeedSteps, PTL DEF WorkerSpec, FeedSpec

-----------------------------------------------------------------------------
(* Types                                                                   *)

(* A run that sends has something left to send, or it would have ended.    *)
RunTyped(me) == me \in RunStates /\ (me.pc = "send" => me.left # 0)

WorkerTypes ==
    /\ last_send \in [Nodes -> 0..MaxBlock]
    /\ run \in [Nodes -> [Runs -> RunStates]]
    /\ \A n \in Nodes : \A r \in Runs : RunTyped(run[n][r])
    /\ \A n \in Nodes : slots[n] \in Seq(1..MaxBlock)

LEMMA IdleTyped == RunTyped(Idle)
  BY DEF RunTyped, RunStates, Idle

LEMMA WhatARunHolds ==
    ASSUME NEW me, RunTyped(me)
    PROVE  /\ me.pc = "choose" => me.bn \in 1..MaxBlock /\ me.next \in 0..(MaxBlock + UnsignedInterval)
           /\ me.pc = "acquire" => me.bn \in 1..MaxBlock
           /\ me.pc = "fetch" => me.bn \in 1..MaxBlock /\ me.type \in TransactionType
           /\ me.pc = "send" => /\ me.bn \in 1..MaxBlock /\ me.price \in Prices
                                /\ me.left \in Nat \ {0}
  BY DEF RunTyped, RunStates, Idle

LEMMA FetchingTyped ==
    ASSUME NEW n, NEW me, NEW type \in TransactionType, me.bn \in 1..MaxBlock
    PROVE  RunTyped(Fetching(n, me, type))
<1> DEFINE next == [pc |-> "fetch", bn |-> me.bn, type |-> type]
<1>1. RunTyped(next)
  BY DEF RunTyped, RunStates
<1> HIDE DEF next
<1> QED BY <1>1, IdleTyped DEF Fetching, next

LEMMA BecomesTyped ==
    ASSUME WorkerTypes, NEW n \in Nodes, NEW r \in Runs, NEW me, RunTyped(me), Becomes(n, r, me)
    PROVE  /\ run' \in [Nodes -> [Runs -> RunStates]]
           /\ \A m \in Nodes : \A s \in Runs : RunTyped(run'[m][s])
<1>1. me \in RunStates
  BY DEF RunTyped
<1>2. run' \in [Nodes -> [Runs -> RunStates]]
  BY <1>1 DEF Becomes, WorkerTypes
<1>3. \A m \in Nodes : \A s \in Runs : run'[m][s] = IF m = n /\ s = r THEN me ELSE run[m][s]
  BY DEF Becomes, WorkerTypes
<1>4. \A m \in Nodes : \A s \in Runs : RunTyped(run'[m][s])
  BY <1>3 DEF WorkerTypes
<1> QED BY <1>2, <1>4

LEMMA LocalStepTyped ==
    ASSUME WorkerTypes, NEW n \in Nodes, NEW r \in Runs, NEW me, RunTyped(me), Becomes(n, r, me),
           UNCHANGED <<last_send, slots>>
    PROVE  WorkerTypes'
<1>1. /\ run' \in [Nodes -> [Runs -> RunStates]]
      /\ \A m \in Nodes : \A s \in Runs : RunTyped(run'[m][s])
  BY BecomesTyped
<1>2. \A m \in Nodes : \A s \in Runs : RunTyped(run[m][s])'
  BY <1>1 DEF RunTyped, RunStates, Idle
<1> QED BY <1>1, <1>2 DEF WorkerTypes

LEMMA StartTyped ==
    ASSUME WorkerTypes, FeedTypeOK, NEW n \in Nodes, NEW r \in Runs, Start(n, r)
    PROVE  WorkerTypes'
<1> DEFINE me == [pc |-> "choose", bn |-> block - 1, next |-> head.next]
<1>1. me.bn \in 1..MaxBlock /\ me.next \in 0..(MaxBlock + UnsignedInterval)
  BY PriceFeedAssumption DEF Start, FeedTypeOK
<1>2. RunTyped(me)
  BY <1>1 DEF RunTyped, RunStates
<1>3. Becomes(n, r, me) \/ Becomes(n, r, Fetching(n, me, "Raw"))
  BY DEF Start
<1> HIDE DEF me
<1>4. RunTyped(Fetching(n, me, "Raw"))
  BY <1>1, FetchingTyped DEF TransactionType
<1>5. UNCHANGED <<last_send, slots>>
  BY DEF Start
<1>6. CASE Becomes(n, r, me)
  BY <1>2, <1>5, <1>6, LocalStepTyped
<1>7. CASE Becomes(n, r, Fetching(n, me, "Raw"))
  BY <1>4, <1>5, <1>7, LocalStepTyped
<1> QED BY <1>3, <1>6, <1>7

LEMMA ReadSlotTyped ==
    ASSUME WorkerTypes, NEW n \in Nodes, NEW r \in Runs, ReadSlot(n, r)
    PROVE  WorkerTypes'
<1> DEFINE me == run[n][r]
           next == [pc |-> "acquire", bn |-> me.bn, next |-> me.next, seen |-> last_send[n]]
<1>1. /\ RunTyped(me) /\ me.pc = "choose" /\ last_send[n] \in 0..MaxBlock
      /\ Becomes(n, r, IF RECENTLY_SENT(me.bn, last_send[n]) THEN Idle ELSE next)
      /\ UNCHANGED <<last_send, slots>>
  BY DEF ReadSlot, WorkerTypes
<1>2. me.bn \in 1..MaxBlock /\ me.next \in 0..(MaxBlock + UnsignedInterval)
  BY <1>1, WhatARunHolds
<1>3. RunTyped(next)
  BY <1>1, <1>2 DEF RunTyped, RunStates
<1> HIDE DEF next
<1>4. CASE RECENTLY_SENT(me.bn, last_send[n])
  BY <1>1, <1>4, IdleTyped, LocalStepTyped
<1>5. CASE ~RECENTLY_SENT(me.bn, last_send[n])
  BY <1>1, <1>3, <1>5, LocalStepTyped
<1> QED BY <1>4, <1>5

LEMMA KnownTypes == ASSUME NEW bn \in Nat PROVE TypeOf(bn) \in TransactionType
<1>1. bn % 3 \in 0..2
  OBVIOUS
<1>2. bn % 3 = 0 \/ bn % 3 = 1 \/ bn % 3 = 2
  BY <1>1
<1> QED BY <1>2 DEF TypeOf, TransactionType

LEMMA SwapSlotTyped ==
    ASSUME WorkerInv, WorkerTypes, NEW n \in Nodes, NEW r \in Runs, SwapSlot(n, r)
    PROVE  WorkerTypes'
<1> DEFINE me == run[n][r]
<1>1. RunTyped(me) /\ me.pc = "acquire"
  BY DEF SwapSlot, WorkerTypes
<1>2. me.bn \in 1..MaxBlock
  BY <1>1, WhatARunHolds
<1>3. CASE Acquire(n, r)
  <2>1. /\ last_send' = [last_send EXCEPT ![n] = me.bn]
        /\ slots' = [slots EXCEPT ![n] = Append(@, me.bn)]
        /\ Becomes(n, r, Fetching(n, me, TypeOf(me.bn)))
    BY <1>3 DEF Acquire
  <2>2. TypeOf(me.bn) \in TransactionType
    BY <1>2, KnownTypes
  <2>3. RunTyped(Fetching(n, me, TypeOf(me.bn)))
    BY <1>2, <2>2, FetchingTyped
  <2>4. last_send' \in [Nodes -> 0..MaxBlock]
    BY <1>2, <2>1 DEF WorkerTypes
  <2>5. \A m \in Nodes : slots'[m] = IF m = n THEN Append(slots[n], me.bn) ELSE slots[m]
    BY <2>1 DEF WorkerInv, Shapes
  <2>6. \A m \in Nodes : slots'[m] \in Seq(1..MaxBlock)
    <3>1. \A m \in Nodes : slots[m] \in Seq(1..MaxBlock)
      BY DEF WorkerTypes
    <3>2. Append(slots[n], me.bn) \in Seq(1..MaxBlock)
      BY <1>2, <3>1
    <3> QED BY <2>5, <3>1, <3>2
  <2>7. /\ run' \in [Nodes -> [Runs -> RunStates]]
        /\ \A m \in Nodes : \A s \in Runs : RunTyped(run'[m][s])
    BY <2>1, <2>3, BecomesTyped
  <2> QED BY <2>4, <2>6, <2>7 DEF WorkerTypes, RunTyped, RunStates, Idle
<1>4. CASE Becomes(n, r, Idle) /\ UNCHANGED <<last_send, slots>>
  BY <1>4, IdleTyped, LocalStepTyped
<1> QED BY <1>3, <1>4 DEF SwapSlot

LEMMA SendingsAreCounted == ASSUME NEW n \in Nodes, NEW type \in TransactionType PROVE Sendings(n, type) \in Nat
  BY PriceWorkerAssumption DEF Sendings, TransactionType

LEMMA FetchedTyped ==
    ASSUME WorkerTypes, NEW n \in Nodes, NEW r \in Runs, Fetched(n, r)
    PROVE  WorkerTypes'
<1> DEFINE me == run[n][r]
           left == Sendings(n, me.type)
<1>1. RunTyped(me) /\ me.pc = "fetch" /\ UNCHANGED <<last_send, slots>>
  BY DEF Fetched, WorkerTypes
<1>2. me.bn \in 1..MaxBlock /\ left \in Nat
  BY <1>1, WhatARunHolds, SendingsAreCounted
<1>3. PICK number \in Numbers :
         Becomes(n, r, IF left = 0 THEN Idle
                       ELSE [pc |-> "send", bn |-> me.bn, price |-> parse_data(number), left |-> left])
  BY DEF Fetched
<1> DEFINE next == [pc |-> "send", bn |-> me.bn, price |-> parse_data(number), left |-> left]
<1>4. parse_data(number) \in Prices
  BY PriceWorkerAssumption DEF parse_data
<1> HIDE DEF left
<1>5. left # 0 => RunTyped(next)
  BY <1>2, <1>4 DEF RunTyped, RunStates
<1>6. CASE left = 0
  BY <1>1, <1>3, <1>6, IdleTyped, LocalStepTyped
<1>7. CASE left # 0
  <2> HIDE DEF next
  <2>1. Becomes(n, r, next)
    BY <1>3, <1>7 DEF next
  <2> QED BY <1>1, <1>5, <1>7, <2>1, LocalStepTyped
<1> QED BY <1>6, <1>7

LEMMA SendUnsignedTyped ==
    ASSUME WorkerTypes, NEW n \in Nodes, NEW r \in Runs, SendUnsigned(n, r)
    PROVE  WorkerTypes'
<1> DEFINE me == run[n][r]
<1>1. /\ RunTyped(me) /\ me.pc = "send"
      /\ Becomes(n, r, AfterSending(me)) /\ UNCHANGED <<last_send, slots>>
  BY DEF SendUnsigned, WorkerTypes
<1> HIDE DEF me
<1>2. me.bn \in 1..MaxBlock /\ me.price \in Prices /\ me.left \in Nat \ {0}
  BY <1>1, WhatARunHolds
<1> DEFINE next == [pc |-> "send", bn |-> me.bn, price |-> me.price, left |-> me.left - 1]
<1>3. me.left # 1 => RunTyped(next)
  BY <1>2 DEF RunTyped, RunStates
<1> HIDE DEF next
<1>4. RunTyped(AfterSending(me))
  BY <1>3, IdleTyped DEF AfterSending, next
<1> QED BY <1>1, <1>4, LocalStepTyped

LEMMA WorkerTypesKept == WorkerInv /\ WorkerTypes /\ FeedTypeOK /\ [WorkerNext]_vars => WorkerTypes'
<1> SUFFICES ASSUME WorkerInv, WorkerTypes, FeedTypeOK, [WorkerNext]_vars PROVE WorkerTypes'
  OBVIOUS
<1>1. ASSUME NEW n \in Nodes, NEW r \in Runs, FetchFails(n, r) PROVE WorkerTypes'
  BY <1>1, IdleTyped, LocalStepTyped DEF FetchFails
<1>2. ASSUME NEW n \in Nodes, RestartNode(n) PROVE WorkerTypes'
  <2>1. run' = [run EXCEPT ![n] = [r \in Runs |-> Idle]] /\ UNCHANGED <<last_send, slots>>
    BY <1>2 DEF RestartNode
  <2>2. Idle \in RunStates
    BY IdleTyped DEF RunTyped
  <2>3. /\ run' \in [Nodes -> [Runs -> RunStates]]
        /\ \A m \in Nodes : \A s \in Runs : run'[m][s] = IF m = n THEN Idle ELSE run[m][s]
    BY <2>1, <2>2 DEF WorkerTypes
  <2>4. \A m \in Nodes : \A s \in Runs : RunTyped(run'[m][s])
    BY <2>3, IdleTyped DEF WorkerTypes
  <2> QED BY <2>1, <2>3, <2>4 DEF WorkerTypes, RunTyped, RunStates, Idle
<1>3. CASE UNCHANGED <<last_send, run, slots>>
  BY <1>3 DEF WorkerTypes, RunTyped, RunStates, Idle
<1>4. CASE UNCHANGED vars
  BY <1>3, <1>4 DEF vars
<1> QED
  BY <1>1, <1>2, <1>3, <1>4, StartTyped, ReadSlotTyped, SwapSlotTyped, FetchedTyped, SendUnsignedTyped
  DEF WorkerNext, RunStep

(* Every variable of the worker and of its feed keeps its type: a run that *)
(* goes through the keys of its node ends after the last one, and the slot *)
(* only holds numbers of blocks (lines 484-545 and 574-673).               *)
THEOREM WorkerTypeCorrect == WorkerSpec => []WorkerTypeOK
<1>1. WorkerInit => WorkerTypes
  <2> SUFFICES ASSUME WorkerInit PROVE WorkerTypes
    OBVIOUS
  <2>1. Idle \in RunStates
    BY IdleTyped DEF RunTyped
  <2> QED BY <2>1, IdleTyped, PriceFeedAssumption DEF WorkerInit, WorkerTypes
<1>2. WorkerTypes /\ FeedTypeOK => WorkerTypeOK
  BY DEF WorkerTypes, WorkerTypeOK
<1>3. WorkerSpec => []FeedTypeOK
  BY WorkerImplementsFeed, FeedTypeCorrect, PTL
<1> QED BY <1>1, <1>2, <1>3, WorkerTypesKept, WorkerInvariant, PTL DEF WorkerSpec

(* What holds of the feed alone holds of it while workers run.             *)
THEOREM FeedPropertiesWithWorkers ==
    WorkerSpec => /\ []UsableMeansCurrent /\ []OneUsablePerPool /\ []AverageInRange
                  /\ UnsignedPricesAreSpaced /\ UnsignedNumbersGrow
  BY WorkerImplementsFeed, UsableTransactionsAreCurrent, PoolsOfferOnePrice, AverageStaysInRange,
     UnsignedPricesKeepDistance, UnsignedPricesAreNotReplayed, PTL
=============================================================================
