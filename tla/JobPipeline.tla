----------------------------- MODULE JobPipeline -----------------------------
(***************************************************************************)
(* The whole life of a job, on chain and off: the wasmstore pallet         *)
(* (WasmStore), its off-chain worker hook, run by every node for every     *)
(* block (pallets/wasmstore-pallet/src/lib.rs:186-275), and the node's     *)
(* script executor (node/src/scripts_exec_manager.rs): a monitor that      *)
(* polls a list of job keys, blocking tasks that run the scripts, and a    *)
(* listener that files their results.  The hook and the executor talk only *)
(* through the node's persistent off-chain storage, with get, set and      *)
(* compare_and_set, each of which is one step here.                        *)
(*                                                                         *)
(*   chain --view--> hook --pool--> chain                                  *)
(*                   hook --keyList, slot--> monitor --> tasks             *)
(*                   hook <--resultList, slot-- listener <--channel-- tasks *)
(*                                                                         *)
(* Abstracted.  The storage slot of a job holds nothing, its request (code *)
(* and ABI: fixed by the job) or a response, told apart by the output it   *)
(* carries: the rest of a response is the node's own processor key.  The   *)
(* byte lists "init" ++ 32-byte chunks are sequences of jobs, "init" is    *)
(* the empty one.  No fork is modelled: a block is final when sealed.      *)
(***************************************************************************)
EXTENDS WasmStore, Sequences

CONSTANTS
    Nodes,          \* nodes that run the hook and the executor
    Workers,        \* bound: hooks running at the same time on one node
    KeyOf,          \* node -> processor key; a node without one has the default
    Rank,           \* job -> Nat, the order in which JobQueue::iter yields it
    ChannelCap,     \* capacity of the result channel, 20 in the code
    Longevity,      \* blocks a transaction stays in a pool, 5 in the code
    PoolMayReject,  \* may a pool refuse a transaction it does not hold?
    MaxCrashes,     \* bound: number of crashes explored
    AliasedAbis,    \* ABIs for which a request also decodes as a response
    MisreadOutput,  \* the output such a response carries: the code's bytes
    MisreadKey,     \* the key such a response carries: bytes of the ABI
    Request         \* a slot that holds a request

ASSUME JobPipelineAssumption ==
    /\ KeyOf \in [Nodes -> Processors]
    /\ Rank \in [Jobs -> Nat]
    /\ \A i, j \in Jobs : Rank[i] = Rank[j] => i = j
    /\ ChannelCap \in Nat \ {0}
    /\ Longevity \in Nat
    /\ PoolMayReject \in BOOLEAN
    /\ MaxCrashes \in Nat
    /\ AliasedAbis \subseteq Abis
    /\ MisreadOutput \in Outputs
    /\ MisreadKey \in Processors
    /\ Request \notin Outputs \cup {None}
    /\ None \notin Jobs \cup Workers

VARIABLES
    pool,       \* the unsigned transactions each node's pool holds
    included,   \* the transactions applied in the block being executed
    phase,      \* fresh (lists never written), starting, running
    keyList,    \* "wasmstore_jobs_executor"
    resultList, \* "wasmstore_jobs_result"
    slot,       \* off-chain storage under a job's id
    hook,       \* the local variables of each running off-chain worker
    monitor,    \* the OffChainMonitor task
    tasks,      \* how many tasks run each job
    channel,    \* results sent and not yet received
    listener,   \* the JobPoolMonitor task
    computed,   \* history: <<key, job, output>> of every task that ended well
    crashes     \* history: bounds Crash

poolVars == <<pool, included>>
storeVars == <<keyList, resultList, slot>>
executorVars == <<monitor, tasks, channel, listener, computed>>
vars == <<chainVars, poolVars, phase, storeVars, hook, executorVars, crashes>>

StateTx == [kind : {"state"}, bn : Nat, job : Jobs]
ResultTx == [kind : {"result"}, bn : Nat, job : Jobs, out : Outputs, key : Processors]
Tx == StateTx \cup ResultTx
SlotValues == Outputs \cup {None, Request}

NoView == [j \in Jobs |-> "absent"]

IdleHook == [pc |-> "idle", at |-> 0, view |-> NoView, keys |-> <<>>,
             list |-> <<>>, job |-> None, sent |-> FALSE]
IdleMonitor == [pc |-> "read", keys |-> <<>>, seen |-> <<>>]
IdleListener == [pc |-> "recv", job |-> None, out |-> None, seen |-> None]

Hooks == [pc : {"idle", "start", "results", "scan", "claim", "put", "submit", "trap"},
          at : Nat, view : [Jobs -> JobStates], keys : Seq(Jobs),
          list : Seq(Jobs), job : Jobs \cup {None}, sent : BOOLEAN]
Monitors == [pc : {"read", "clear", "cas", "spawn"},
             keys : Seq(Jobs), seen : Seq(Jobs)]
Listeners == [pc : {"recv", "write", "list"}, job : Jobs \cup {None},
              out : Outputs \cup {None}, seen : SlotValues]

OffchainTypeOK ==
    /\ pool \in [Nodes -> SUBSET Tx]
    /\ included \subseteq Tx
    /\ phase \in [Nodes -> {"fresh", "starting", "running"}]
    /\ keyList \in [Nodes -> Seq(Jobs)]
    /\ resultList \in [Nodes -> Seq(Jobs)]
    /\ slot \in [Nodes -> [Jobs -> SlotValues]]
    /\ hook \in [Nodes -> [Workers -> Hooks]]
    /\ monitor \in [Nodes -> Monitors]
    /\ tasks \in [Nodes -> [Jobs -> Nat]]
    /\ channel \in [Nodes -> Seq([job : Jobs, out : Outputs])]
    /\ listener \in [Nodes -> Listeners]
    /\ computed \subseteq Processors \X Jobs \X Outputs
    /\ crashes \in 0..MaxCrashes

PipelineTypeOK == TypeOK /\ OffchainTypeOK

Init ==
    /\ ChainInit
    /\ pool = [n \in Nodes |-> {}]
    /\ included = {}
    /\ phase = [n \in Nodes |-> "fresh"]
    /\ keyList = [n \in Nodes |-> <<>>]
    /\ resultList = [n \in Nodes |-> <<>>]
    /\ slot = [n \in Nodes |-> [j \in Jobs |-> None]]
    /\ hook = [n \in Nodes |-> [w \in Workers |-> IdleHook]]
    /\ monitor = [n \in Nodes |-> IdleMonitor]
    /\ tasks = [n \in Nodes |-> [j \in Jobs |-> 0]]
    /\ channel = [n \in Nodes |-> <<>>]
    /\ listener = [n \in Nodes |-> IdleListener]
    /\ computed = {}
    /\ crashes = 0

-----------------------------------------------------------------------------
(* The chain and the transaction pools                                     *)

Call ==
    /\ SignedCall
    /\ UNCHANGED <<poolVars, phase, storeVars, hook, executorVars, crashes>>

(* A block author applies a transaction of its pool, at most once in a     *)
(* block.  The transactions provide no tag.  A pool that refuses those is  *)
(* PoolMayReject; one that takes them cannot recognise in an imported      *)
(* block what has been applied, keeps it, and it is applied again in later *)
(* blocks.  A result that the chain refuses has no effect and is not shown.*)
Apply(tx) ==
    IF tx.kind = "state" THEN change_job_state(tx.job)
                         ELSE submit_result_unsiged(tx.job, tx.out, tx.key)

IncludeTx(n, tx) ==
    /\ tx \in pool[n] \ included
    /\ validate_unsigned(tx.bn)
    /\ Apply(tx)
    /\ included' = included \cup {tx}
    /\ UNCHANGED <<pool, phase, storeVars, hook, executorVars, crashes>>

(* The block is sealed and imported: every node may start a hook on the    *)
(* state it leaves behind (not while it is syncing, nor beyond Workers),   *)
(* and the pools drop what has outlived its longevity.                     *)
SealBlock ==
    /\ NewBlock
    /\ \E starts \in [Nodes -> Workers \cup {None}] :
          /\ \A n \in Nodes : starts[n] # None => hook[n][starts[n]].pc = "idle"
          /\ hook' = [n \in Nodes |-> [w \in Workers |->
                        IF starts[n] = w
                        THEN [IdleHook EXCEPT !.pc = "start", !.at = block, !.view = jobs]
                        ELSE hook[n][w]]]
    /\ pool' = [n \in Nodes |-> {tx \in pool[n] : block <= tx.bn + Longevity}]
    /\ included' = {}
    /\ UNCHANGED <<phase, storeVars, executorVars, crashes>>

-----------------------------------------------------------------------------
(* The off-chain worker hook                                               *)

unchangedByHook == <<chainVars, included, phase, resultList, executorVars, crashes>>

Becomes(n, w, h) == hook' = [hook EXCEPT ![n][w] = h]

(* The first get; without the lists the expect of line 190 traps.          *)
HookReadKeys(n, w) ==
    LET h == hook[n][w] IN
    /\ h.pc = "start"
    /\ Becomes(n, w, IF phase[n] = "fresh" THEN IdleHook
                     ELSE [h EXCEPT !.pc = "results", !.keys = keyList[n]])
    /\ UNCHANGED <<unchangedByHook, pool, keyList, slot>>

HookReadResults(n, w) ==
    LET h == hook[n][w] IN
    /\ h.pc = "results"
    /\ Becomes(n, w, [h EXCEPT !.pc = "scan", !.list = resultList[n]])
    /\ UNCHANGED <<unchangedByHook, pool, keyList, slot>>

(* JobQueue::iter: jobs being processed are passed over, the first other   *)
(* job decides what the hook does.                                         *)
\* Mutant: finished jobs are passed over as well.
LivePending(view) == {j \in Jobs : view[j] = "Pending"}

Live(view) == {j \in Jobs : view[j] \in {"Pending", "Finish"}}
IsFirst(view, j) ==
    /\ j \in Live(view)
    /\ \A i \in Live(view) : Rank[j] <= Rank[i]

(* A pool refuses what it already holds, and may refuse more.              *)
Accepted(n, tx) == tx \notin pool[n] /\ pool' = [pool EXCEPT ![n] = @ \cup {tx}]
Rejected(n, tx) == (tx \in pool[n] \/ PoolMayReject) /\ UNCHANGED pool

(* Command::None returns from the hook: no result is submitted either.     *)
HookFindsNothing(n, w) ==
    LET h == hook[n][w] IN
    /\ h.pc = "scan"
    /\ Live(h.view) = {}
    /\ Becomes(n, w, IdleHook)
    /\ UNCHANGED <<unchangedByHook, pool, keyList, slot>>

(* Command::ResultData does nothing: its body is commented out.            *)
HookFindsFinished(n, w) ==
    LET h == hook[n][w] IN
    /\ h.pc = "scan"
    /\ \E j \in Jobs : IsFirst(h.view, j) /\ h.view[j] = "Finish"
    /\ Becomes(n, w, [IdleHook EXCEPT !.pc = "submit", !.at = h.at, !.list = h.list])
    /\ UNCHANGED <<unchangedByHook, pool, keyList, slot>>

(* The transaction is sent first.  If the pool refuses it the job is still *)
(* listed, with a default payload, whose job id is empty.                  *)
HookFindsPending(n, w) ==
    LET h == hook[n][w] IN
    /\ h.pc = "scan"
    /\ \E j \in Jobs, sent \in BOOLEAN :
          LET tx == [kind |-> "state", bn |-> h.at, job |-> j] IN
          /\ IsFirst(h.view, j) /\ h.view[j] = "Pending"
          /\ IF sent THEN Accepted(n, tx) ELSE Rejected(n, tx)
          /\ Becomes(n, w, [h EXCEPT !.pc = "claim", !.view = NoView,
                                     !.job = j, !.sent = sent])
    /\ UNCHANGED <<unchangedByHook, keyList, slot>>

\* Mutant: the list is set, not compared first.
HookClaimBySet(n, w) ==
    LET h == hook[n][w] IN
    /\ h.pc = "claim"
    /\ keyList' = [keyList EXCEPT ![n] = Append(h.keys, h.job)]
    /\ Becomes(n, w, [h EXCEPT !.pc = "put", !.keys = <<>>])
    /\ UNCHANGED <<unchangedByHook, pool, slot>>

(* The answer of compare_and_set is ignored.                               *)
HookClaim(n, w) ==
    LET h == hook[n][w] IN
    /\ h.pc = "claim"
    /\ keyList' = IF keyList[n] = h.keys
                  THEN [keyList EXCEPT ![n] = Append(h.keys, h.job)] ELSE keyList
    /\ Becomes(n, w, [h EXCEPT !.pc = "put", !.keys = <<>>])
    /\ UNCHANGED <<unchangedByHook, pool, slot>>

(* A default payload goes under the empty key, which nobody reads.         *)
HookPut(n, w) ==
    LET h == hook[n][w] IN
    /\ h.pc = "put"
    /\ slot' = IF h.sent THEN [slot EXCEPT ![n][h.job] = Request] ELSE slot
    /\ Becomes(n, w, [h EXCEPT !.pc = "submit", !.job = None, !.sent = FALSE])
    /\ UNCHANGED <<unchangedByHook, pool, keyList>>

\* Mutant: whatever the slot holds is taken for a response of this node.
ResponseOfAnything(n, at, j) ==
    {[kind |-> "result", bn |-> at, job |-> j, key |-> KeyOf[n],
      out |-> IF slot[n][j] \in Outputs THEN slot[n][j] ELSE MisreadOutput]}

(* The slot of a listed result, decoded as a response.                     *)
Response(n, at, j) ==
    LET tx(out, key) == [kind |-> "result", bn |-> at, job |-> j, out |-> out, key |-> key]
    IN  IF slot[n][j] \in Outputs THEN {tx(slot[n][j], KeyOf[n])}
        ELSE IF slot[n][j] = Request /\ j.abi \in AliasedAbis
             THEN {tx(MisreadOutput, MisreadKey)} ELSE {}

(* One element of the result list.  The expect of line 262 traps when the  *)
(* pool refuses, and the rest of the list is left for another block.       *)
HookSubmit(n, w) ==
    LET h == hook[n][w] IN
    /\ h.pc = "submit" /\ h.list # <<>>
    /\ LET response == Response(n, h.at, Head(h.list))
           next == [h EXCEPT !.list = Tail(h.list)]
       IN  \/ response = {} /\ UNCHANGED pool /\ Becomes(n, w, next)
           \/ \E tx \in response : Accepted(n, tx) /\ Becomes(n, w, next)
           \/ \E tx \in response :
                 Rejected(n, tx) /\ Becomes(n, w, [IdleHook EXCEPT !.pc = "trap"])
    /\ UNCHANGED <<unchangedByHook, keyList, slot>>

HookEnds(n, w) ==
    LET h == hook[n][w] IN
    /\ h.pc = "trap" \/ (h.pc = "submit" /\ h.list = <<>>)
    /\ Becomes(n, w, IdleHook)
    /\ UNCHANGED <<unchangedByHook, pool, keyList, slot>>

Hook(n, w) ==
    \/ HookReadKeys(n, w)      \/ HookReadResults(n, w)  \/ HookFindsNothing(n, w)
    \/ HookFindsFinished(n, w) \/ HookFindsPending(n, w) \/ HookClaim(n, w)
    \/ HookPut(n, w)           \/ HookSubmit(n, w)       \/ HookEnds(n, w)

-----------------------------------------------------------------------------
(* The script executor of a node                                           *)

unchangedByExecutor == <<chainVars, poolVars, hook, crashes>>

(* run_executor: both lists are set to "init", then the tasks are spawned. *)
StartExecutor(n) ==
    /\ phase[n] # "running"
    /\ phase' = [phase EXCEPT ![n] = "running"]
    /\ keyList' = [keyList EXCEPT ![n] = <<>>]
    /\ resultList' = [resultList EXCEPT ![n] = <<>>]
    /\ UNCHANGED <<unchangedByExecutor, slot, executorVars>>

(* One turn of the monitor: read the list, ...                             *)
MonitorRead(n) ==
    /\ phase[n] = "running" /\ monitor[n].pc = "read"
    /\ monitor' = [monitor EXCEPT ![n] = [IdleMonitor EXCEPT !.pc = "clear",
                                                             !.keys = keyList[n]]]
    /\ UNCHANGED <<unchangedByExecutor, phase, storeVars, tasks, channel, listener, computed>>

(* ... read it again in write_to_offchain_db, ...                          *)
MonitorClear(n) ==
    /\ monitor[n].pc = "clear"
    /\ monitor' = [monitor EXCEPT ![n].pc = "cas", ![n].seen = keyList[n]]
    /\ UNCHANGED <<unchangedByExecutor, phase, storeVars, tasks, channel, listener, computed>>

(* ... swap it for "init" if it is still what the second get returned      *)
(* (the error is ignored), ...                                             *)
MonitorCas(n) ==
    LET m == monitor[n] IN
    /\ m.pc = "cas"
    /\ keyList' = IF keyList[n] = m.seen THEN [keyList EXCEPT ![n] = <<>>] ELSE keyList
    /\ monitor' = [monitor EXCEPT ![n] =
                     IF m.keys = <<>> THEN IdleMonitor
                     ELSE [IdleMonitor EXCEPT !.pc = "spawn", !.keys = m.keys]]
    /\ UNCHANGED <<unchangedByExecutor, phase, resultList, slot, tasks, channel, listener, computed>>

(* ... and spawn a task per key of the first read.  A slot that does not   *)
(* hold a request ends its task at once: a response never decodes as one.  *)
MonitorSpawn(n) ==
    LET m == monitor[n] IN
    /\ m.pc = "spawn"
    /\ tasks' = IF slot[n][Head(m.keys)] = Request
                THEN [tasks EXCEPT ![n][Head(m.keys)] = @ + 1] ELSE tasks
    /\ monitor' = [monitor EXCEPT ![n] = IF Len(m.keys) = 1 THEN IdleMonitor
                                         ELSE [m EXCEPT !.keys = Tail(m.keys)]]
    /\ UNCHANGED <<unchangedByExecutor, phase, storeVars, channel, listener, computed>>

(* A task runs its script, with any output, and sends it, waiting for room *)
(* in the channel.                                                         *)
RunTask(n, j, out) ==
    /\ tasks[n][j] > 0
    /\ Len(channel[n]) < ChannelCap
    /\ tasks' = [tasks EXCEPT ![n][j] = @ - 1]
    /\ channel' = [channel EXCEPT ![n] = Append(@, [job |-> j, out |-> out])]
    /\ computed' = computed \cup {<<KeyOf[n], j, out>>}
    /\ UNCHANGED <<unchangedByExecutor, phase, storeVars, monitor, listener>>

\* Mutant: a panicking task is counted as ended twice.
FailTaskTwice(n, j) ==
    /\ tasks[n][j] > 0
    /\ tasks' = [tasks EXCEPT ![n][j] = @ - 2]
    /\ UNCHANGED <<unchangedByExecutor, phase, storeVars, monitor, channel, listener, computed>>

(* A script that does not run, or an ABI that is not UTF-8, panics the     *)
(* task: nothing reports it.                                               *)
FailTask(n, j) ==
    /\ tasks[n][j] > 0
    /\ tasks' = [tasks EXCEPT ![n][j] = @ - 1]
    /\ UNCHANGED <<unchangedByExecutor, phase, storeVars, monitor, channel, listener, computed>>

\* Mutant: results are received in pairs.
ListenerRecvPairs(n) ==
    /\ listener[n].pc = "recv" /\ Len(channel[n]) > 1
    /\ LET result == Head(channel[n]) IN
       listener' = [listener EXCEPT ![n] =
           [pc |-> "write", job |-> result.job, out |-> result.out,
            seen |-> slot[n][result.job]]]
    /\ channel' = [channel EXCEPT ![n] = Tail(@)]
    /\ UNCHANGED <<unchangedByExecutor, phase, storeVars, monitor, tasks, computed>>

(* The listener receives a result and reads the slot, ...                  *)
ListenerRecv(n) ==
    /\ listener[n].pc = "recv" /\ channel[n] # <<>>
    /\ LET result == Head(channel[n]) IN
       listener' = [listener EXCEPT ![n] =
           [pc |-> "write", job |-> result.job, out |-> result.out,
            seen |-> slot[n][result.job]]]
    /\ channel' = [channel EXCEPT ![n] = Tail(@)]
    /\ UNCHANGED <<unchangedByExecutor, phase, storeVars, monitor, tasks, computed>>

\* Mutant: the listener gives up on a slot that is not empty.
ListenerWriteOrGiveUp(n) ==
    LET l == listener[n] IN
    /\ l.pc = "write"
    /\ slot' = IF l.seen = None THEN [slot EXCEPT ![n][l.job] = l.out] ELSE slot
    /\ listener' = [listener EXCEPT ![n] =
                      IF l.seen = None THEN [IdleListener EXCEPT !.pc = "list", !.job = l.job]
                                       ELSE IdleListener]
    /\ UNCHANGED <<unchangedByExecutor, phase, keyList, resultList, monitor, tasks, channel, computed>>

\* Mutant: a lost race empties the slot.
ListenerWriteOrEmpty(n) ==
    LET l == listener[n] IN
    /\ l.pc = "write"
    /\ slot' = [slot EXCEPT ![n][l.job] = IF l.seen \in {None, @} THEN l.out ELSE None]
    /\ listener' = [listener EXCEPT ![n] = [IdleListener EXCEPT !.pc = "list", !.job = l.job]]
    /\ UNCHANGED <<unchangedByExecutor, phase, keyList, resultList, monitor, tasks, channel, computed>>

(* ... sets it, or swaps it if it is unchanged; a failure is only printed, *)
ListenerWrite(n) ==
    LET l == listener[n] IN
    /\ l.pc = "write"
    /\ slot' = IF l.seen \in {None, slot[n][l.job]}
               THEN [slot EXCEPT ![n][l.job] = l.out] ELSE slot
    /\ listener' = [listener EXCEPT ![n] = [IdleListener EXCEPT !.pc = "list", !.job = l.job]]
    /\ UNCHANGED <<unchangedByExecutor, phase, keyList, resultList, monitor, tasks, channel, computed>>

(* ... and the job is appended to the result list in any case.  Nobody     *)
(* else writes that list while the listener runs, so its get and its swap  *)
(* are one step.                                                           *)
ListenerList(n) ==
    /\ listener[n].pc = "list"
    /\ resultList' = [resultList EXCEPT ![n] = Append(@, listener[n].job)]
    /\ listener' = [listener EXCEPT ![n] = IdleListener]
    /\ UNCHANGED <<unchangedByExecutor, phase, keyList, slot, monitor, tasks, channel, computed>>

Monitor(n) == MonitorRead(n) \/ MonitorClear(n) \/ MonitorCas(n) \/ MonitorSpawn(n)
Task(n, j) == FailTask(n, j) \/ \E out \in Outputs : RunTask(n, j, out)
Listener(n) == ListenerRecv(n) \/ ListenerWrite(n) \/ ListenerList(n)

(* The node stops and starts again: the off-chain storage is all it keeps. *)
Crash(n) ==
    /\ crashes < MaxCrashes /\ phase[n] = "running"
    /\ crashes' = crashes + 1
    /\ phase' = [phase EXCEPT ![n] = "starting"]
    /\ pool' = [pool EXCEPT ![n] = {}]
    /\ hook' = [hook EXCEPT ![n] = [w \in Workers |-> IdleHook]]
    /\ monitor' = [monitor EXCEPT ![n] = IdleMonitor]
    /\ tasks' = [tasks EXCEPT ![n] = [j \in Jobs |-> 0]]
    /\ channel' = [channel EXCEPT ![n] = <<>>]
    /\ listener' = [listener EXCEPT ![n] = IdleListener]
    /\ UNCHANGED <<chainVars, included, storeVars, computed>>

Node(n) ==
    \/ \E tx \in pool[n] : IncludeTx(n, tx)
    \/ \E w \in Workers : Hook(n, w)
    \/ StartExecutor(n)
    \/ Monitor(n)
    \/ \E j \in Jobs : Task(n, j)
    \/ Listener(n)
    \/ Crash(n)

Next == Call \/ SealBlock \/ \E n \in Nodes : Node(n)

Spec == Init /\ [][Next]_vars

-----------------------------------------------------------------------------
(* Properties                                                              *)

(* Jobs whose request may be submitted as if it were their response: a     *)
(* late hook puts the request over the response, the next one decodes it.  *)
Misread == {<<MisreadKey, j, MisreadOutput>> : j \in {i \in Jobs : i.abi \in AliasedAbis}}

(* What the chain publishes under a processor's key was computed by a task *)
(* of a node with that key, whatever was overwritten, resubmitted, applied *)
(* twice or survived a crash on the way (lines 246-274 and 402-438, and    *)
(* result_listener); only a misread request escapes.                       *)
PublishedWasComputed ==
    \A j \in Jobs, p \in Processors :
        results[j][p] # None => <<p, j, results[j][p]>> \in computed \cup Misread

(* The get of a listed result never finds the slot empty (lines 250-251):  *)
(* the listener may lose the race for the slot, but only to a hook that    *)
(* put a request there, and a restart forgets the list, not the slots.     *)
Listed(n) == {resultList[n][i] : i \in 1..Len(resultList[n])}

ListedSlotsAreFull ==
    \A n \in Nodes : \A j \in Listed(n) : slot[n][j] # None

(* A result that was sent stays in the channel or in the listener's hand   *)
(* until its job is listed: the listener goes on when the slot cannot be   *)
(* written, and only a crash loses what is on its way                      *)
(* (scripts_exec_manager.rs:73-104).                                       *)
OnItsWay(n, j) ==
    \/ \E i \in 1..Len(channel[n]) : channel[n][i].job = j
    \/ listener[n].pc \in {"write", "list"} /\ listener[n].job = j

ResultsAreNotDropped ==
    [][\A n \in Nodes, j \in Jobs :
          OnItsWay(n, j) => OnItsWay(n, j)' \/ j \in Listed(n)' \/ crashes' # crashes]_vars

(* Hooks and monitor share the key list through compare_and_set alone      *)
(* (line 210, and write_to_offchain_db): no update is made from a stale    *)
(* copy, so a step of the list is one more key or a clear.                 *)
KeyListStepsAreFresh ==
    [][\A n \in Nodes :
          \/ keyList'[n] \in {keyList[n], <<>>}
          \/ \E j \in Jobs : keyList'[n] = Append(keyList[n], j)]_vars

StatePooled(j) == \E n \in Nodes : \E tx \in pool[n] : tx.kind = "state" /\ tx.job = j

\* This hook will send change_job_state for j.
AboutToSend(n, w, j) ==
    LET h == hook[n][w] IN
    /\ h.pc \in {"start", "results", "scan"}
    /\ IsFirst(h.view, j) /\ h.view[j] = "Pending"

NobodyMoves(j) == ~StatePooled(j) /\ ~\E n \in Nodes, w \in Workers : AboutToSend(n, w, j)

(* A job that is being processed finishes only if a transaction sent while *)
(* it was still pending is applied a second time.  Once the pools hold no  *)
(* such transaction the job is processing for ever, though its result may  *)
(* be computed and submitted in every block (lines 621-657, 389-397, 413). *)
Abandoned(j) == jobs[j] = "Processing" /\ NobodyMoves(j)
AbandonedForever == [][\A j \in Jobs : Abandoned(j) => Abandoned(j)']_vars

(* Jobs stay in the queue when they finish, and the scan returns at the    *)
(* first job that is not being processed: a pending job that iterates      *)
(* after a finished one is never claimed (lines 619-659).                  *)
Shadowed(j) ==
    /\ jobs[j] = "Pending" /\ NobodyMoves(j)
    /\ \E i \in Jobs : jobs[i] = "Finish" /\ Rank[i] < Rank[j]
ShadowedForever == [][\A j \in Jobs : Shadowed(j) => Shadowed(j)']_vars

\* Some part of node n has j, or will have it, as work to be done.
AtWork(n, j) ==
    \/ \E w \in Workers : AboutToSend(n, w, j) \/ (hook[n][w].pc = "claim" /\ hook[n][w].job = j)
    \/ \E i \in 1..Len(keyList[n]) : keyList[n][i] = j
    \/ \E i \in 1..Len(monitor[n].keys) : monitor[n].keys[i] = j
    \/ tasks[n][j] > 0

(* Once a job has been claimed, a node that has let go of it never starts  *)
(* it again, however the work was lost: to a panicking script, to a key    *)
(* that the monitor cleared unread or found without a request, to a crash  *)
(* (scripts_exec_manager.rs:143-183, and lines 205-211).  The same keeps a *)
(* key that was taken from the list from coming back.                      *)
Dropped(n, j) == jobs[j] \in {"Processing", "Finish"} /\ ~AtWork(n, j)
DroppedForever == [][\A n \in Nodes, j \in Jobs : Dropped(n, j) => Dropped(n, j)']_vars

(* The pipeline keeps the promise of the abstract service.                 *)
Service == INSTANCE OracleService WITH status <- jobs, published <- results
ImplementsService == Service!Spec

-----------------------------------------------------------------------------
(* Liveness: the runtime polls the listener, which waits for nothing but   *)
(* results.  Scripts may run for ever, so nothing is assumed of tasks.     *)

FairSpec == Spec /\ \A n \in Nodes : WF_vars(Listener(n))

(* A result that was sent is eventually listed for submission, even when   *)
(* its slot could not be written (lines 88-101).                           *)
SentResultIsListed ==
    \A n \in Nodes, j \in Jobs :
        (\E i \in 1..Len(channel[n]) : channel[n][i].job = j) ~> (j \in Listed(n))

(* A task that has its result waits for room in the channel (lines 135 and *)
(* 169 of scripts_exec_manager.rs): a full channel always has room again,  *)
(* whatever becomes of the results that are taken out of it.               *)
RoomReturns ==
    \A n \in Nodes : Len(channel[n]) = ChannelCap ~> Len(channel[n]) < ChannelCap

-----------------------------------------------------------------------------
(* Claims of the source that its code does not keep                        *)

(* ocw_do_submit_result(...).expect("Result Submitted") (lines 257-262):   *)
(* the call is expected to succeed.                                        *)
ResultAlwaysSubmitted == \A n \in Nodes, w \in Workers : hook[n][w].pc # "trap"

(* "clear the key_list in K-V", "Iter over key_list to assigned job to     *)
(* spawned task" (scripts_exec_manager.rs:151,153): what the monitor       *)
(* clears from the list is what it goes on to assign.                      *)
ClearedKeysAreAssigned ==
    [][\A n \in Nodes : (phase[n] = "running" /\ keyList'[n] = <<>>) =>
          \A i \in 1..Len(keyList[n]) :
             \E k \in 1..Len(monitor'[n].keys) : monitor'[n].keys[k] = keyList[n][i]]_vars
=============================================================================
