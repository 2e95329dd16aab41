----------------------------- MODULE NodeService -----------------------------
(***************************************************************************)
(* The node around the pipeline of jobs: node/src/command.rs turns the     *)
(* command line into a command, node/src/service.rs starts the tasks of a  *)
(* full node one after the other, and any step of it may fail.  Blocks     *)
(* that are imported meanwhile run the off-chain worker hook, which lists  *)
(* jobs in the local storage; run_executor resets that list, which earlier *)
(* runs of the node have left, before it spawns its monitor.               *)
(*                                                                         *)
(* Libraries are external: their calls fail or return, the tasks they      *)
(* spawn end at any time.  Telemetry and hardware benchmarks only report   *)
(* and are left out, except that they may fail to start.                   *)
(***************************************************************************)
EXTENDS Naturals, FiniteSets

CONSTANTS
    Keys,               \* Aura keys that nodes have
    alice, bob,         \* the keys of the collators of the genesis presets
    FileSpecs,          \* what chain specifications from files say
    NoParaId,           \* a file without the extension
    MaxRuns             \* bound: how often the program is run on one database

ASSUME NodeAssumption ==
    /\ \A file \in FileSpecs : file.para_id \in Nat \cup {NoParaId}
    /\ MaxRuns \in Nat

VARIABLES
    stage,              \* how far the program has come
    options,            \* its command line
    spec,               \* its chain specification
    tasks,              \* the tasks that run
    failed,             \* an essential task has ended
    hooks,              \* sources of the blocks whose hooks are running
    list,               \* the job list: which run listed a job, for a block from where
    runs,               \* history: number of runs
    wiped,              \* history: the sources of jobs a run listed and then reset
    taken               \* history: which run listed, and which run took a job

nodeVars == <<stage, options, spec, tasks, failed, hooks, list, runs, wiped, taken>>

(* Commands that open the database: those that import blocks, and those    *)
(* that only look at it or revert blocks.                                  *)
PartialCommands == {"ImportBlocks", "CheckBlock", "ExportBlocks", "ExportState", "Revert",
                    "ExportGenesisHead", "BenchmarkBlock"}
SyncCommands == {"BuildSpec", "ExportGenesisWasm", "PurgeChain"}

Starting == {"configured", "partial", "relay chain", "network", "offchain workers", "spawned",
             "relay chain tasks", "consensus", "executor"}

(* Without a command the program is a node.                                *)
NoOptions == [command |-> "BuildSpec"]
Options ==
    [command : PartialCommands \cup SyncCommands]
    \cup [command : {"None"}, validator : BOOLEAN, offchain_worker : BOOLEAN, key : Keys]

(* The genesis that the presets of the runtime give to the two built-in    *)
(* specifications: who collates, and the id the runtime believes it has,   *)
(* which is not the one of the specification.                              *)
Genesis == [parachain_id |-> 2000, collators |-> {alice, bob}]

development_config == [para_id |-> 1000, genesis |-> Genesis]
local_testnet_config == [para_id |-> 1000, genesis |-> Genesis]

load_spec(id) ==
    CASE id = "dev" -> {development_config}
      [] id \in {"", "local", "template-rococo"} -> {local_testnet_config}
      [] id = "path" -> FileSpecs

Sources == {"aura", "recovery", "network", "file"}

\* Mutant: the collator is spawned like any other task.
EssentialButAura == {"transaction pool", "import queue", "cumulus-consensus", "cumulus-pov-recovery"}

(* Tasks spawned with spawn_essential_handle; the last two by cumulus.     *)
Essential == {"transaction pool", "import queue", "aura", "cumulus-consensus", "cumulus-pov-recovery"}

NodeTypeOK ==
    /\ stage \in Starting \cup {"down", "up", "command"}
    /\ options \in Options
    /\ runs \in 0..MaxRuns
    /\ hooks \subseteq Sources
    /\ list \subseteq [run : 1..MaxRuns, source : Sources]
    /\ wiped \subseteq Sources
    /\ taken \subseteq [by : 1..MaxRuns, listed : 1..MaxRuns]
    /\ stage = "down" => tasks = {} /\ hooks = {}
    /\ stage \in {"consensus", "executor", "up"} => options.command = "None"

NodeInit ==
    /\ stage = "down" /\ tasks = {} /\ failed = FALSE /\ hooks = {}
    /\ options = NoOptions /\ spec = local_testnet_config
    /\ list = {} /\ runs = 0 /\ wiped = {} /\ taken = {}

-----------------------------------------------------------------------------
(* The command line                                                        *)

unchangedByStart == <<options, spec, hooks, runs, taken>>

Run(id, given) ==
    /\ stage = "down" /\ runs < MaxRuns
    /\ spec' \in load_spec(id)
    /\ runs' = runs + 1
    /\ options' = given
    /\ stage' = "configured"
    /\ UNCHANGED <<tasks, failed, hooks, list, wiped, taken>>

(* The program ends: the task manager is dropped and its tasks with it.    *)
Exit ==
    /\ stage' = "down" /\ tasks' = {} /\ hooks' = {} /\ failed' = FALSE
    /\ options' = NoOptions /\ spec' = local_testnet_config
    /\ UNCHANGED <<list, runs, wiped, taken>>

\* Mutant: the tasks outlive an error.
AbortLeavingTasks ==
    /\ stage \in Starting
    /\ stage' = "down" /\ hooks' = {}
    /\ UNCHANGED <<options, spec, tasks, failed, list, runs, wiped, taken>>

(* A step of the start returns an error, or panics.                        *)
Abort == stage \in Starting /\ Exit

(* The program is killed, or a signal ends a node that is up.              *)
Killed == stage # "down" /\ Exit

(* Commands that need no part of the node.  PurgeChain deletes the         *)
(* database, local storage included.                                       *)
RunSync ==
    /\ stage = "configured"
    /\ options.command \in SyncCommands
    /\ list' = IF options.command = "PurgeChain" THEN {} ELSE list
    /\ stage' = "down" /\ options' = NoOptions /\ spec' = local_testnet_config
    /\ UNCHANGED <<tasks, failed, hooks, runs, wiped, taken>>

-----------------------------------------------------------------------------
(* Starting a node                                                         *)

Advance(from, to, spawned) ==
    /\ stage = from /\ stage' = to
    /\ tasks' = tasks \cup spawned
    /\ UNCHANGED <<unchangedByStart, failed>>

\* Mutant: off-chain workers run wherever there is a client.
NewPartialWithWorkers ==
    /\ options.command \in PartialCommands \cup {"None"}
    /\ Advance("configured", IF options.command = "None" THEN "partial" ELSE "command",
               {"transaction pool", "import queue", "offchain workers"})
    /\ UNCHANGED <<list, wiped>>

(* new_partial serves the node and the commands that open the database.    *)
(* A node asks its specification for the id of the parachain first.        *)
new_partial ==
    /\ options.command \in PartialCommands \cup {"None"}
    /\ options.command = "None" => spec.para_id # NoParaId
    /\ Advance("configured", IF options.command = "None" THEN "partial" ELSE "command",
               {"transaction pool", "import queue"})
    /\ UNCHANGED <<list, wiped>>

build_relay_chain_interface ==
    /\ Advance("partial", "relay chain", {})
    /\ UNCHANGED <<list, wiped>>

(* The network is built, and waits for start_network.                      *)
build_network ==
    /\ Advance("relay chain", "network", {})
    /\ UNCHANGED <<list, wiped>>

OffchainWorkersRunner ==
    /\ Advance("network", "offchain workers",
               IF options.offchain_worker THEN {"offchain workers"} ELSE {})
    /\ UNCHANGED <<list, wiped>>

spawn_tasks ==
    /\ Advance("offchain workers", "spawned", {})
    /\ UNCHANGED <<list, wiped>>

start_relay_chain_tasks ==
    /\ Advance("spawned", "relay chain tasks", {"cumulus-consensus", "cumulus-pov-recovery"})
    /\ UNCHANGED <<list, wiped>>

start_consensus ==
    /\ Advance("relay chain tasks", "consensus", IF options.validator THEN {"aura"} ELSE {})
    /\ UNCHANGED <<list, wiped>>

\* Mutant: the lists of the last run are kept.
ExecutorKeepsList ==
    /\ Advance("consensus", "executor", {"OffChainMonitor"})
    /\ UNCHANGED <<list, wiped>>

(* The list is set to "init", then the monitor is spawned; the listener    *)
(* spawned with it does not touch the list.                                *)
run_executor ==
    /\ Advance("consensus", "executor", {"OffChainMonitor"})
    /\ list' = {}
    /\ wiped' = wiped \cup {job.source : job \in {j \in list : j.run = runs}}

start_network ==
    /\ Advance("executor", "up", {})
    /\ UNCHANGED <<list, wiped>>

(* One step of start_parachain_node.                                       *)
StartStep ==
    \/ new_partial \/ build_relay_chain_interface \/ build_network \/ OffchainWorkersRunner
    \/ spawn_tasks \/ start_relay_chain_tasks \/ start_consensus \/ run_executor \/ start_network

-----------------------------------------------------------------------------
(* A program with tasks                                                    *)

TaskEnds(t) ==
    /\ t \in tasks
    /\ tasks' = tasks \ {t}
    /\ failed' = (failed \/ t \in Essential)
    /\ UNCHANGED <<stage, unchangedByStart, list, wiped>>

(* run_node_until_exit looks at the essential tasks once the start is      *)
(* over; commands do not look at them.                                     *)
StopOnFailure == stage = "up" /\ failed /\ Exit

CommandDone == stage = "command" /\ Exit

\* Mutant: the network is started where it is built.
BlockFromEarly(source) ==
    CASE source = "aura" -> "aura" \in tasks /\ options.key \in spec.genesis.collators
      [] source = "recovery" -> {"cumulus-pov-recovery", "import queue"} \subseteq tasks
      [] source = "network" ->
            /\ stage \notin {"down", "configured", "partial", "relay chain", "command"}
            /\ "import queue" \in tasks
      [] source = "file" ->
            /\ stage = "command" /\ options.command \in {"ImportBlocks", "CheckBlock"}
            /\ "import queue" \in tasks

(* Who imports blocks: the collator of a validator that holds the key of   *)
(* one, the recovery of blocks whose collator withholds them, the network  *)
(* once it is started, and commands.                                       *)
BlockFrom(source) ==
    CASE source = "aura" -> "aura" \in tasks /\ options.key \in spec.genesis.collators
      [] source = "recovery" -> {"cumulus-pov-recovery", "import queue"} \subseteq tasks
      [] source = "network" -> stage = "up" /\ "import queue" \in tasks
      [] source = "file" ->
            /\ stage = "command" /\ options.command \in {"ImportBlocks", "CheckBlock"}
            /\ "import queue" \in tasks

(* A block is imported; the runner spawns its hook.                        *)
ImportBlock(source) ==
    /\ BlockFrom(source)
    /\ "offchain workers" \in tasks
    /\ hooks' = hooks \cup {source}
    /\ UNCHANGED <<stage, options, spec, tasks, failed, list, runs, wiped, taken>>

(* The hook ends; it may have listed a job.                                *)
HookEnds(source) ==
    /\ source \in hooks
    /\ hooks' = hooks \ {source}
    /\ \/ list' = list \cup {[run |-> runs, source |-> source]}
       \/ list' = list
    /\ UNCHANGED <<stage, options, spec, tasks, failed, runs, wiped, taken>>

(* The monitor takes the jobs on the list.                                 *)
MonitorTakes ==
    /\ "OffChainMonitor" \in tasks /\ list # {}
    /\ taken' = taken \cup {[by |-> runs, listed |-> job.run] : job \in list}
    /\ list' = {}
    /\ UNCHANGED <<stage, options, spec, tasks, failed, hooks, runs, wiped>>

NodeNext ==
    \/ \E id \in {"dev", "", "path"}, given \in Options : Run(id, given)
    \/ RunSync \/ StartStep \/ Abort \/ Killed \/ StopOnFailure \/ CommandDone
    \/ \E t \in tasks : TaskEnds(t)
    \/ \E source \in Sources : ImportBlock(source) \/ HookEnds(source)
    \/ MonitorTakes

NodeSpec == NodeInit /\ [][NodeNext]_nodeVars

(* Every call of the start returns sooner or later, and the program waits  *)
(* for its essential tasks.                                                *)
FairNodeSpec == NodeSpec /\ WF_nodeVars(StartStep) /\ WF_nodeVars(StopOnFailure)

-----------------------------------------------------------------------------
(* Properties                                                              *)

(* The monitor only runs jobs that the same run of the node has listed: a  *)
(* list left by an earlier run, whose payloads may be gone or overwritten, *)
(* is reset first (run_executor, lines 121-123 and 143).                   *)
OnlyOwnJobsAreTaken == \A job \in taken : job.listed = job.by

(* A job that a run lists and then resets itself is lost, and its claim is *)
(* on its way to the chain.  That happens between start_consensus and      *)
(* run_executor; the network is started after it (service.rs, lines        *)
(* 427-447), so only the node's own blocks and recovered ones are exposed. *)
NetworkJobsSurviveStart == wiped \subseteq {"aura", "recovery"}

(* No command touches the list of jobs except running the node and purging *)
(* the chain: importing blocks from a file runs no hooks (command.rs,      *)
(* lines 99-173).                                                          *)
CommandsLeaveJobsAlone ==
    [][list' # list => options.command \in {"None", "PurgeChain"}]_nodeVars

(* A node does not go on without its collator, its pool or its import      *)
(* queue: it stops when one of them ends, even during the start            *)
(* (service.rs, lines 122, 169 and 232).                                   *)
Limps ==
    /\ stage = "up"
    /\ \/ ~({"transaction pool", "import queue"} \subseteq tasks)
       \/ options.validator /\ "aura" \notin tasks

NeverLimpsOn == Limps ~> stage = "down"
=============================================================================
