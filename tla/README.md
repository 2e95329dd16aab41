# A TLA+ model of the oracle parachain

The repository is a Polkadot-SDK parachain whose users store WebAssembly
scripts on chain and ask for them to be run off chain. This directory holds TLA+
modules of that machinery, the TLC configurations that check them and TLAPS
proofs of their main invariants.

## 1. Inventory

| part | source | state it keeps | operations |
|---|---|---|---|
| wasmstore pallet | `pallets/wasmstore-pallet/src/lib.rs:58-475` | `ScriptStorage`, `JobQueue`, `ScriptResult` | `upload_wasm`, `request_script_execution`, `change_job_state`, `submit_result_unsiged`, `validate_unsigned`, `get_collators_lts` (an event only) |
| its off-chain worker hook | same file, `186-275`, `506-531`, `616-673` | none of its own; the node's off-chain storage | read lists, scan jobs, claim one, submit results |
| script executor | `node/src/scripts_exec_manager.rs` | `wasmstore_jobs_executor` (keys to run), `wasmstore_jobs_result` (results to submit), one slot per job, a channel of 20 | monitor loop, blocking tasks, result listener |
| script runner | `script-executor/src/runtime.rs`, `https.rs`, `process_wasm` of the executor | a wasmtime instance per run | register the ABI, link, instantiate, fetch, call, decode memory |
| price feed (ocw-pallet) | `pallets/ocw-pallet/src/lib.rs:342-440, 734-787` | `Prices`, `NextUnsignedAt` | submit prices (3 ways), average, validate the window |
| price worker (ocw-pallet) | same file, `470-732`, `787-797` | the `last_send` slot of local storage, `HashStore` | choose a transaction type, fetch, send; its hook (217-248) is commented out |
| API URL registry (ocw-pallet) | same file, `382-407` | `ApiURLStore` | `submit_api_url`; nothing reads it |
| processor stake (ocw-pallet) | same file, `254-329` | stakes and reserved balances | `stake`, `un_stake`, `slash` |
| offchain-worker pallet, utilities | `pallets/offchain-worker`, `offchain-utils` | an API key in local storage | fetch, store key |
| chain extension | `chain-extensions/src/lib.rs` | none | read a script from a contract |
| template pallet | `pallets/template` | `Something`, a map | not in the runtime |
| node: command line and chain spec | `node/src/command.rs`, `cli.rs`, `chain_spec.rs`, `runtime/src/genesis_config_presets.rs` | the chosen command and specification | run a node, import, check, export, revert, purge, build a spec |
| node: service | `node/src/service.rs` | the tasks of the node | `new_partial`, `start_parachain_node` and its steps, `start_consensus` |
| runtime, RPC | `runtime/`, `node/src/rpc.rs` | stock pallets and modules | none of the oracle's own |

How they interact: users call the pallet with signed transactions. For every
imported block the client runs the hook in its own thread, on the state of that
block. The hook talks to the chain by submitting unsigned transactions to its
node's pool, and to the executor through the node's persistent off-chain
storage, which the executor reads and writes from three kinds of tasks. Nothing
else connects them: no lock, no reply. A blocking task of the executor runs one
script in the script runner, which fetches the URL the script exports. The service
starts all of this in a fixed order, on a database that outlives it. The price feed and the stakes are calls of
a second pallet; they share no state with the scripts. The price feed meets the
transaction pools of all nodes, because its unsigned transactions are
propagated, and the stakes meet every other pallet that reserves balance.

What is hard:
- two hooks, the monitor and the listener interleave at each get, set and
  compare-and-set of the off-chain storage; the answers of the swaps are ignored;
- the hook decides on a snapshot of the chain that is old when its transaction is
  applied; unsigned transactions carry no `provides` tag and can be applied in
  several blocks;
- a slot holds first a request and later a response for the same job;
- a restart empties lists, tasks, channel and pool but keeps the slots and,
  of course, the chain;
- jobs are never removed, and the order of iteration is the order of hashes;
- unsigned prices come from anybody, at any time, to any pool, and a pool
  validates them against a state that may be old when a block applies them;
- reserves have no name: a stake and another pallet's deposit are one number;
- runs of the price hook overlap, come late, and send what they decided on a state
  that is gone; their slot survives a restart and everything else does not;
- a script's memory is read with offsets that only the ABI vouches for;
- the node's tasks are started one by one while blocks arrive already, any step of
  the start may fail, and only some tasks are essential.

What makes each part correct:
- pallet: results only for finished jobs, jobs only forward, nothing oversized;
- hook and executor: a published result was computed under the key it is filed
  under; lists are only updated from fresh copies; sent results are listed;
- whole: the chain shows what the abstract service `OracleService` allows;
- price feed: unsigned prices are an interval apart, pools never keep two that
  are usable, the average is that of the list;
- price worker: the slot is taken a grace period apart, and a run does nothing to
  the feed that a user could not do;
- script runner: a field is decoded from where the object has it, a result has the
  values of the fields in order, a list loses its null elements and nothing else, a run
  ends unless a server or the script hangs;
- node: a job list of an earlier run is never executed, a start loses no job of a
  block from the network, an essential task takes the node with it;
- stakes: funds are conserved, and an account's stake and other deposits stay
  reserved until somebody takes them.

`PROJECT.json` lists the hazards, each with its line and the properties that cover it.

## 2. Modules

| module | what it is |
|---|---|
| `OracleService` | abstract specification: request, progress, compute, publish |
| `WasmStore` | the pallet; every call is an action; `ChainSpec` is the chain alone, with unsigned calls from anywhere |
| `JobPipeline` | `WasmStore` composed with pools, hooks, executor, crashes; refines `OracleService` |
| `PriceFeed` | the list of prices, its average, and unsigned prices from pools to blocks |
| `PriceWorker` | `PriceFeed` composed with the off-chain runs that feed it; refines `FeedSpec` |
| `ScriptRunner` | one run of a script, from the ABI to its result |
| `NodeService` | command line, chain specification, start, tasks and end of the node |
| `ProcessorStake` | `stake`, `un_stake` and `slash` over free and reserved balances |
| `WasmStore_proofs`, `JobPipeline_proofs`, `PriceFeed_proofs`, `PriceWorker_proofs`, `ScriptRunner_proofs`, `NodeService_proofs`, `ProcessorStake_proofs` | theorems |
| `FoldTheorems` | lemmas about sums and folds that the price and stake proofs rest on |
| `MCWasmStore`, `MCJobPipeline`, `MCPriceWorker`, `MCScriptRunner`, `MCNodeService`, `MCProcessorStake` | values of the constants for TLC |

`JobPipeline` extends `WasmStore` and names the call of the pallet inside its own
actions; `OracleService` is instantiated in `JobPipeline` with a refinement mapping.
`PriceWorker` extends `PriceFeed` in the same way. The others stand alone:
`JobPipeline` sees a run of `ScriptRunner` as "any output, or a panic" (`RunTask`,
`FailTask`), and `NodeService` sees the pipeline as a list that hooks extend and a
monitor empties.

### WasmStore

`scripts`, `jobs` and `results` are the three storage maps. A job is its
caller, script, code and ABI: the job id in the code is the hash of exactly these
fields (and of the constant initial state), and hashes are taken as collision
free. `Oversized` is the set of values that do not fit their `BoundedVec`. One
action per call has the call's name. A call that returns an error changes
nothing and is not a step.

### JobPipeline

| state | in the code |
|---|---|
| `pool[n]` | unsigned transactions in the node's pool (external) |
| `included` | transactions applied in the block being executed: an author uses each once per block (external) |
| `keyList[n]`, `resultList[n]` | the two lists; `<<>>` is `init` |
| `slot[n][j]` | the value under the job's id: nothing, `Request`, or the output of a response |
| `hook[n][w]` | locals of a running hook: program counter, block, view of the queue, key list and results as read |
| `monitor[n]`, `tasks[n][j]`, `channel[n]`, `listener[n]` | the tasks `run_executor` spawns |
| `phase[n]` | before the first `run_executor` / restarted and before it / after it |

One hook goes through `HookReadKeys` (line 190), `HookReadResults` (191), one of
`HookFindsNothing` / `HookFindsFinished` / `HookFindsPending` (616-661; the last
one submits), `HookClaim` (210), `HookPut` (211), a `HookSubmit` per listed result
(246-270) and `HookEnds`. One turn of the monitor is `MonitorRead` (145),
`MonitorClear` and `MonitorCas` (the get and the swap of `write_to_offchain_db`)
and a `MonitorSpawn` per key. `RunTask` and `FailTask` end a task;
`ListenerRecv`, `ListenerWrite`, `ListenerList` are one turn of the listener.
`SealBlock` starts hooks on the sealed state. `Crash` models a stop and restart.

External behaviour and why it is modelled so. The hook submits locally, with no
`provides` tag (`validate_unsiged_transaction` has no `and_provides`). What a pool does with
such a transaction lies outside the repository, and the model admits both answers.
A pool may refuse it, as Substrate's stock pool does with transactions that
provide nothing (`PoolMayReject`; then only the `Rejected` branches occur, and no job
leaves the pending state). Or it takes it, which the `expect` of line 262 counts on; then the
pool cannot learn from an imported block that the transaction has been applied, and offers
it again until its longevity ends (`IncludeTx`, `SealBlock`). A pool always refuses a
transaction it already holds. The safety theorems hold for both kinds of pool, and any
mixture. Peers are not modelled as sources: every node submits its own.

`RequestPayload` and `ResponePayload` share a slot and are told apart only by
decoding. A response never decodes as a request (its state byte 3 announces a
four-byte length that the input cannot have); a request decodes as a response
exactly when the compact length of its ABI starts with a byte below 4 and enough
bytes follow, that is when the ABI's length is a positive multiple of 64.
`AliasedAbis` are those ABIs, `MisreadOutput` and `MisreadKey` what the response read from
them says.

### PriceFeed

`prices` and `next_unsigned_at` are the two storage values. `submit_price` is the
signed call. An unsigned price is a record in the pools of `pool[n]`: the block number
and price of the call, the tag it `provides`, what its distance from the average
adds to its priority, and the block until which it lives. `Offer` is the validation a
pool makes: the runtime answers it on the state of the head, `head`, as if in the next
block, which is `block`. `IncludeUnsigned` is the validation the runtime repeats when it
applies the transaction, followed by the call. Pools replace a transaction by one of
higher priority with the same tag, and drop on import what provides a tag that the
block provided; a transaction that a block refuses stays in the pool of the model.
The two unsigned calls differ in a signature, which any key may give, and are one
action. Values of `price` that distinguish the arithmetic are kept: `MaxU32` is the
width of the sum. `lastUnsigned` and `lastNumber` are history: in which block the last
unsigned price was applied, and for which block number it had been sent.

### PriceWorker

`last_send[n]` is the value `ocw-pallet::last_send` of the node's local storage, and
`run[n][r]` the locals of a run: `Start` gives it the number of a block and
`NextUnsignedAt` in that block's state; `ReadSlot` and `SwapSlot` are the two halves of
`mutate` (491-500); `FetchFails` and `Fetched` end the fetch, and `SendUnsigned` submits
for one account after the other, each to whatever the pool then accepts. `Raw` runs
send without asking for the slot. `slots[n]` is history: the block numbers the slot was
taken with. `RestartNode` ends the runs and empties the pool.

The hook is commented out at this commit (216-248); the model starts runs as its
comment shows, so it speaks of the code as it stands there and not of what the
runtime does today. Some things the model makes visible: the slot decides by
`block_number % 3`, and with a `GracePeriod` of 3 prompt runs choose the same kind of
transaction every time; the slot is taken before `NextUnsignedAt` is looked at, so
a run may take it and send nothing; and the signed kind sends nothing at all in a default
build, because `create_transaction` (`runtime/src/configs/mod.rs`) asks for a metadata
hash that only a build feature provides, and returns `None` without it (`Sendings`).

### ScriptRunner

`pc` is the stage: `abi`, `link`, `instance`, `exports`, `fetch`, `write`, `call`,
`decode`, `element`, then `done` or `panic`. Any error ends in an `expect` (97-99 of
`runtime.rs`, 228-230 of `scripts_exec_manager.rs`), so there is one way to fail.
`field`, `offset`, `array` and `items` are the locals of the decoder (267-382): the
field it is at, `offset_val`, the elements read so far, and what `bytes_result` holds.
A value is known by the address it was read from. What the memory contains is up to
the script: any address of `Pointers` may be read. `end` is history: where the fields passed so far
end in the object, as the script's compiler places them (external: each aligned to its
size), which the decoder does not know. `OtherKinds` are the types without an arm of their
own, by size (`bool`, `u8`; `i16`; `u32`, references; `u64`): the last arm of the match (366-372)
takes four bytes for each. The answer is written at address 0, over whatever the module keeps
there; the model has no contents of memory to lose and says nothing about that. The
execution time reported beside the result is left out: `process_wasm` cuts it to the
milliseconds below a second (`subsec_millis`, `scripts_exec_manager.rs:236`) in one line, and
nothing else depends on it.

### NodeService

`stage` is how far the program has come, through the steps of `start_parachain_node` in
their order; `Abort` is an error or panic of any step. `tasks` are the tasks that run and
`failed` says that an essential one has ended, which `run_node_until_exit` (external)
notices once the start is over; the other commands do not look at it. `hooks` and `list`
are the pipeline in outline: `ImportBlock` runs the hook of a block that came from
the collator, the recovery of withheld blocks, the network or a file, and `HookEnds` may
list a job. `list` is in the database and survives the program, unless `PurgeChain`
deletes it. `wiped` and `taken` are history: from which blocks a run listed jobs that
it then reset itself, and which run took a job that which run listed.

`Genesis` keeps the ids apart that the code gives to one parachain: the specifications say
`para_id: 1000`, the presets of the runtime they name say `parachain_id` 2000, below a
comment that the id must be set to the correct network. The node takes the first,
the runtime the second. No property is about that: what comes of it is decided on
the relay chain.

### ProcessorStake

`free` and `reserved` are the two balances of `pallet_balances` (external) that the pallet's
calls move; `staked` is `StakedProcessors` with its `total_stake` (`credit_score` and
`nominators` are written once and never read). `bonds` is what another pallet, here
`pallet_elections_phragmen` with its candidacy bond, believes it has reserved.
`disturbed` is a history variable: the accounts that were slashed or
un-staked while bonded.

### Names

Definitions under a comment that begins with "Mutant" (`HookClaimBySet`,
`submit_result_early`, ...) are faulty variants, used to confirm that each property notices a plausible bug.

## 3. What is checked

| run | instance | shows |
|---|---|---|
| `chain` | 2 callers, 1 script, 3 codes (one too big), 2 outputs (one too big) | types, `ResultOnlyWhenFinished`, `StoredValuesFit`, `JobsOnlyMoveForward` |
| `restart` | 1 job, with an ABI that aliases or one that does not, 2 keys, 2 outputs, 2 hooks at a time, 3 blocks, 2 crashes, a pool that may refuse | `PublishedWasComputed`, `ListedSlotsAreFull`, `ResultsAreNotDropped`, `KeyListStepsAreFresh`, `ImplementsService` |
| `two_jobs` | 2 callers, 1 hook at a time, 4 blocks | `PipelineTypeOK`, `AbandonedForever`, `ShadowedForever`, `DroppedForever` |
| `fair` | no crash, `FairSpec` | `SentResultIsListed`, `RoomReturns` |
| `price_worker` | 1 node with 2 keys and 2 runs at a time, users' prices 0 and 3 of two bits, an answer of -1, a list of 2, grace period and interval 2, 4 blocks | `WorkerTypeOK`, `UsableMeansCurrent`, `OneUsablePerPool`, `AverageInRange`, `SlotsAreSpaced`, `UnsignedPricesAreSpaced`, `UnsignedNumbersGrow` |
| `runner` | every shape of `Output` with up to 3 fields of six kinds, pairs of fields of the others, every pair of imports, a script for each way to fail before the decoder; good, bad and null addresses, arrays of up to 2 | `RunnerTypeOK`, `DecodedInPlace`, `NullsAndOnlyNulls`, `ResultNeedsItsImports`, `ResultFollowsAbi`, `RunEnds` |
| `node` | 2 runs of the program on one database, a collator's key and another, files with and without an id | `NodeTypeOK`, `OnlyOwnJobsAreTaken`, `NetworkJobsSurviveStart`, `CommandsLeaveJobsAlone`, `NeverLimpsOn` |
| `stake` | 2 accounts, the treasury, amounts 0 to 2, minimum 2, bond 1 | `StakeTypeOK`, `FundsConserved`, `DepositsAreReserved` |

Bounds. Three blocks are the fewest in which a job can be requested, claimed,
finished by a second application and published; the fourth lets a hook see
the finished job. Two hooks on one node are the fewest that race for the list. A
channel of one place blocks tasks as soon as two run; `Longevity` 1 or 2 instead of 5
still keeps a transaction over more than one block. Workers are interchangeable, hence the symmetry sets. In the price runs
four blocks hold one complete interval of two blocks and the start of the next, and the
hook of the second block may still run in the fourth; two runs are the fewest that race
for the slot, and two keys make a run send twice. The sum of two
prices of two bits saturates, and a list of two overflows within a block. Several nodes
add only pools that do not see each other, which the theorems cover for any number; the
same holds of several nodes in the pipeline. Runs are interchangeable. Three fields
are the fewest in which a field has another one before the misplaced one it comes after, and two
elements put a null before and after a value; 65532 leaves room for four
bytes and not for a string, 70000 is outside. A second run of the program is the first
that can find a list of another one.
`MinStakeAmount` is 2 in the run, because the 1 of the runtime leaves zero as the
only stake; the third amount is one the check refuses. The stake model has no
counter to bound: funds are finite.

`NetworkJobsSurviveStart` states which jobs a start can lose:
those the hooks claim between `start_consensus` and `run_executor` (`service.rs:427-445`), for
blocks of the node itself or recovered ones; the reset protects against lists of an
earlier run (`OnlyOwnJobsAreTaken`) and cannot tell the two apart.

`DecodedInPlace` speaks of `Regular` fields: those for which all fields up to and including
them are of four bytes, or of eight after an even number of those. Any other field, a `bool`,
an `i16`, a `u64`, an unknown array or a badly placed `f64`, may put what follows out of place,
and the property says nothing of that. `ResultFollowsAbi` is about the sequence of values
alone: a value that could not be read still takes its place. That the price worker does nothing
to the feed that a user could not do holds by the way `SendUnsigned` is written, so it is
no property of a run; the theorem `WorkerImplementsFeed` uses it.

`PublishedWasComputed` assumes that unsigned calls come from the hooks of nodes.
`validate_unsigned` ignores where a call comes from, and anybody who can reach a pool may
submit a result under any key; `WasmStore` alone (`ChainSpec`, run `chain`) admits any sender.

`AverageInRange` admits that the average falls below every price once the sum
saturates. `DepositsAreReserved` says nothing of an account after it was slashed or
un-staked while bonded: from then on `reserved` may be less than its stake and
its bonds, and giving back a bond may release a stake.

`AbandonedForever`, `ShadowedForever` and `DroppedForever` state what the code does, not what
one would wish: a job whose claim was applied once, and a pending job behind a finished
one, make no further progress, and a node that has lost a claimed job, to a panic, a
cleared key, a missing request or a crash, does not take it up again. They say when an operator has to intervene.

Fairness. `FairSpec` asks only that the listener goes on: it is a task of the node's
runtime that waits for nothing but results, and its `write` and `list` for nothing at all.
Nothing is assumed of tasks, for a script may run for ever (the fetch has no timeout,
`https.rs:31-33`, and wasmtime gets no fuel, `runtime.rs:219,264`), nor of hooks, blocks, pools or
the monitor. So no property says that a task ends: `RoomReturns` says that a task which
has its result finds room for it. `FairRunnerSpec` asks that a task goes on with what is
its own work: all stages of the runner except the fetch, which waits for a server, and
the two that run the script's code, its start function and `process`. `RunEnds` names exactly these
three as the places where a run may stay for ever. `FairNodeSpec` asks that each call of the start returns or
fails, and that a node whose essential task has ended stops, which
`run_node_until_exit` waits for; that a task ends, or that a start succeeds, is assumed
nowhere. The price feed, its workers and the stakes promise nothing that must happen.

A runner and a node may stop for good (`done`, `panic`; `down` after the last run the
bound allows), so deadlock is not checked in these two runs.

### Claims the code does not keep

- `reupload`: the comment at lines 355-356 of the pallet says a caller cannot call a
  script again while it is being processed; the job id also hashes code and
  ABI, so after a new upload it can.
- `submit_twice`: `.expect("Result Submitted")` (262) fails when a job is listed twice,
  because the second transaction equals the first; the hook panics.
- `key_lost`: the monitor swaps the list it re-reads for `init`, not the one it
  parsed; a key appended in between is never assigned to a task
  (`scripts_exec_manager.rs:145-153`).
- `stake_minimum`: `ensure!(stake_amount < MinStakeAmount, InsufficientFund)` (257) refuses the
  sufficient stakes and accepts the others.

## 4. What is proved

`PROJECT.json` "theorems" lists the theorems; each holds for every value of the
constants that satisfies the module's assumption (`WasmStoreAssumption`,
`JobPipelineAssumption`, `PriceFeedAssumption`, `PriceWorkerAssumption`, `ScriptRunnerAssumption`,
`NodeAssumption`, `ProcessorStakeAssumption`, which only
say what kind of values the constants are, and of the accounts that they are finitely many), so for any number of nodes, hooks, jobs,
blocks, pools, accounts and crashes. The argument is an inductive invariant in each
module, with one lemma per action.

- `WasmStore_proofs`: `ChainInv` = types, `ResultOnlyWhenFinished`, `StoredScriptsFit`,
  `StoredValuesFit`. The third is the strengthening: a queued job fits because
  the script it copies fits. `JobsOnlyMoveForward` follows step by step.
- `JobPipeline_proofs`:
  - `TInv` is the type invariant with three facts about program counters, without
    which a step that reads a hook's, the monitor's or the listener's copy is not typed;
  - every step of the pipeline is a step of the chain or leaves it alone
    (`PipelineRunsTheChain`), which carries the theorems of `WasmStore` over
    (`ChainPropertiesInPipeline`);
  - `Provenance`: each output in a channel, in the listener's hand, in a slot or in a
    pooled submission was computed by a task of a node with that key, or is the
    misreading of a request. `PublishedWasComputed` alone is not inductive, since it
    speaks of the last of these stations only;
  - `SlotsFull`: listed results, and the result the listener has just tried to write,
    have something in their slot, because slots are overwritten and never emptied;
  - `FreshKeys`: a swap writes the key list only if the copy it compares with is
    current, so the list written extends, or clears, the current one;
  - `ResultsReachTheList` (`ResultsAreNotDropped`) goes by who touches the channel: a task appends to it,
    the listener takes its head into its hand and keeps the job there until it is
    listed, whatever becomes of the slot, and the only other writer is a crash;
  - `AbandonedForever` and `ShadowedForever` are proved as steps that lead from the
    bad situation to itself: nobody holds a transaction for the job, or the scan
    returns before it;
  - `DroppedForever` likewise, part by part of a node: a hook claims only what it was about to
    send, the key list grows only by what a hook claims, the monitor holds only what it
    read from the list, and a task is spawned only for what the monitor holds;
  - `QueuedWork`: what is queued anywhere for a job was requested, which makes each
    step map to one of `OracleService` (`PipelineImplementsService`).
- `PriceFeed_proofs`: `WindowInv` says that `NextUnsignedAt` is an interval after the last
  unsigned price, and that the head agrees with it or the block has not reached
  it; `PoolInv` that a pooled transaction is for a block not after this one and carries
  the current tag, or is too early. With both, no block applies a second price of
  an interval, and every usable transaction has the current tag.
  `UnsignedNumbersGrow` needs in addition that the last number is not after its block.
  `OneUsablePerPool` rests on `OnePerTag`, that a pool holds one transaction per tag, which
  is inductive by itself because an offer replaces what has its tag: two usable
  transactions would both have the current tag. `AverageInRange` holds of any list of
  numbers (`AverageBounds`): by induction over the prefixes, the sum that saturates is never
  above the length times the largest price, and the exact sum never below the length
  times the smallest, and the two sums agree if the exact one fits. The same bounds
  make `FeedTypeOK` inductive: the deviation from the average is a number of the width of the sum.
- `PriceWorker_proofs`: every step of the workers is a step of the feed or leaves it alone,
  since `SendUnsigned` offers to the pool as anybody does; that carries the theorems of
  the feed over. For `SlotsAreSpaced` the invariant adds that the last entry of `slots[n]` is
  what the node's storage holds, and that a run about to swap has seen a value
  a grace period before its own block: a successful swap has compared with that very value.
  `WorkerTypeOK` needs that a sending run still has an account to send for.
- `ScriptRunner_proofs`: types, field by field of the decoder; `InStep`, that after regular
  fields `offset` is where they end, a multiple of 4, and one of 8 if the number of fields of four
  bytes so far is even (`DecodedInPlace` alone does not say where the next field is read);
  `AbiInv`, that the values so far are those of the understood fields before `field`, which at the
  end is `ResultFollowsAbi`; and that a run past `instance` had an extern for each import, which a
  counting argument on the imports turns into `ResultNeedsItsImports`. `NullsAndOnlyNulls` says that
  some order-preserving map takes the elements seen that are not null onto the decoded list;
  the proof extends that map by one place for each element read, or leaves it alone at a null.
- `NodeService_proofs`: a list held while the monitor runs was written by the current run,
  because `run_executor` empties it before it spawns the monitor and every end of the program
  takes the monitor along (`StageInv`, `ListInv`); hooks for network blocks run only when the start is over.
- `ProcessorStake_proofs`: `StakeInv` = types and `DepositsAreReserved`, which are
  inductive together: amounts given up never exceed what is reserved. `FundsConserved`
  follows because each call changes one entry of a balance, or one of each, by amounts
  that cancel in the sums.
- `FoldTheorems`: the induction theorems of the library take an operator, which the provers
  cannot instantiate, so the induction is done here on sets: a set of numbers
  that misses one misses a least one (`LeastNatural`). From it follow induction and recursion over
  finite subsets, and with them that the sum of a function over a finite set exists, does not depend
  on the order, and changes with one entry by the difference (`TotalAfterChange`); and that
  a fold over a sequence is the last entry of the table of its prefixes
  (`FoldTablePrefixes`), through which the sums of `average_price` are reasoned about.

Only model-checked: liveness (`SentResultIsListed`, `RoomReturns`, `RunEnds`, `NeverLimpsOn`), which
needs fairness. Every other property of a passing run is the subject of a theorem. What the four
violation runs show is a counterexample, and needs no proof.

## 5. Not modelled, and the plan

Not modelled:
- forks and reorganisations, gossip, weights and fees, events, wording of logs, telemetry;
- the wiring of the runtime (`runtime/src/lib.rs`, `configs/`, `apis.rs`): stock pallets and their
  constants, which appear as constants of the modules; RPC: two stock modules;
- the chain extension: `call` reads `ScriptStorage` and writes an answer to the
  contract, so no step of it changes what any property speaks of;
- the offchain-worker pallet with `offchain-utils`, and the template pallet: no part of
  the runtime uses the former, and no other part reads what the latter stores;
- `submit_api_url`: one insert into a map that nothing reads;
- benchmark commands other than `Block`, and the options passed on to the relay chain's node;
- the bytes of a script's memory and of the encodings: `JobPipeline` states what
  decoding does with a payload, and `ScriptRunner` follows addresses;
- code nothing calls (`simulate_heavy_computation`, `add_wasm_script_to_storage`,
  `add_to_key_list`, `cal_output_size`, `check_header_hash`, `build_result`,
  `fetch_data_and_store_hash`), calls that only emit an event (`get_collators_lts`, `test_acc`).

Noticed on the way, and outside what the models state: the list of prices, documented as
the recently submitted ones (`ocw-pallet/src/lib.rs:137`), loses the entry at
`price % MaxPrices` and not the oldest once it is full (738); the body of an answer to the price
hook is read without the deadline its headers have (796).

Next, in this order:

1. `PayloadCodec`: the encodings of `RequestPayload`, `ResponePayload` and the key list over
   small bytes, to check what `JobPipeline` states of them (a request decodes as a response
   exactly when its ABI's length is a positive multiple of 64).
2. `ApiKeyWorker`: the offchain-worker pallet with `offchain-utils` (key in local storage,
   fetcher), once a runtime includes it.
3. An abstract price oracle (at most one anonymous price per interval) that `PriceFeed`
   implements.
