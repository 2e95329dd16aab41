------------------------- MODULE NodeService_proofs -------------------------
(* Starting a node, for any number of runs on one database: which jobs its *)
(* monitor takes, which jobs the start loses, and which commands touch the *)
(* list of jobs.                                                           *)
EXTENDS NodeService, TLAPS

(* What runs in which stage: hooks and the monitor are of a node that has  *)
(* come far enough.                                                        *)
Early == {"down", "configured"}

StageInv ==
    /\ stage \in Early => tasks = {} /\ hooks = {}
    /\ "offchain workers" \in tasks \/ "OffChainMonitor" \in tasks \/ hooks # {}
          => options.command = "None" /\ stage # "command"
    /\ stage \notin Early \cup {"command"} => options.command = "None"
    /\ stage = "command" => hooks = {}
    /\ hooks \subseteq {"aura", "recovery", "network"}
    /\ "network" \in hooks => stage = "up"

(* Who is on the list.                                                     *)
ListInv ==
    /\ runs \in Nat
    /\ \A job \in list : job.run \in Nat /\ job.run <= runs
    /\ \A job \in list : job.run = runs /\ stage \notin {"up", "down"}
                            => job.source \in {"aura", "recovery"}
    /\ "OffChainMonitor" \in tasks => \A job \in list : job.run = runs

NodeInv == StageInv /\ ListInv /\ OnlyOwnJobsAreTaken /\ NetworkJobsSurviveStart

TouchOK == list' # list => options.command \in {"None", "PurgeChain"}

NodeStepOK == NodeInv' /\ TouchOK

LEMMA NodeInitInv == NodeInit => NodeInv
  BY DEF NodeInit, NodeInv, StageInv, ListInv, OnlyOwnJobsAreTaken, NetworkJobsSurviveStart, Early

LEMMA RunOK ==
    ASSUME NodeInv, NEW id, NEW given \in Options, Run(id, given)
    PROVE  NodeStepOK
<1>1. /\ stage = "down" /\ stage' = "configured" /\ runs' = runs + 1
      /\ tasks = {} /\ hooks = {} /\ UNCHANGED <<tasks, failed, hooks, list, wiped, taken>>
  BY DEF Run, NodeInv, StageInv, Early
<1>2. StageInv'
  BY <1>1 DEF StageInv, Early
<1>3. ListInv'
  BY <1>1 DEF NodeInv, ListInv
<1> QED BY <1>1, <1>2, <1>3
        DEF NodeInv, NodeStepOK, TouchOK, OnlyOwnJobsAreTaken, NetworkJobsSurviveStart

LEMMA ExitOK == ASSUME NodeInv, Exit PROVE NodeStepOK
<1>1. /\ stage' = "down" /\ tasks' = {} /\ hooks' = {} /\ UNCHANGED <<list, runs, wiped, taken>>
  BY DEF Exit
<1> QED BY <1>1 DEF NodeInv, StageInv, ListInv, Early, NodeStepOK, TouchOK,
                    OnlyOwnJobsAreTaken, NetworkJobsSurviveStart

LEMMA RunSyncOK == ASSUME NodeInv, RunSync PROVE NodeStepOK
<1>1. /\ stage = "configured" /\ stage' = "down" /\ UNCHANGED <<tasks, hooks, runs, wiped, taken>>
      /\ list' = IF options.command = "PurgeChain" THEN {} ELSE list
  BY DEF RunSync
<1>2. StageInv'
  BY <1>1 DEF NodeInv, StageInv, Early
<1>3. ListInv'
  BY <1>1 DEF NodeInv, ListInv
<1> QED BY <1>1, <1>2, <1>3
        DEF NodeInv, NodeStepOK, TouchOK, OnlyOwnJobsAreTaken, NetworkJobsSurviveStart

-----------------------------------------------------------------------------
(* Steps of the start                                                      *)

LEMMA NewPartialOK == ASSUME NodeInv, new_partial PROVE NodeStepOK
<1>1. /\ stage = "configured"
      /\ stage' = IF options.command = "None" THEN "partial" ELSE "command"
      /\ tasks' = tasks \cup {"transaction pool", "import queue"}
      /\ UNCHANGED <<options, hooks, runs, list, wiped, taken>>
  BY DEF new_partial, Advance, unchangedByStart
<1>2. tasks = {} /\ hooks = {}
  BY <1>1 DEF NodeInv, StageInv, Early
<1>3. StageInv'
  BY <1>1, <1>2 DEF StageInv, Early
<1>4. ListInv'
  BY <1>1, <1>2 DEF NodeInv, ListInv
<1> QED BY <1>1, <1>3, <1>4
        DEF NodeInv, NodeStepOK, TouchOK, OnlyOwnJobsAreTaken, NetworkJobsSurviveStart

(* Every later step starts from a stage of a node and ends in one.         *)
NodeStages == {"partial", "relay chain", "network", "offchain workers", "spawned",
               "relay chain tasks", "consensus", "executor", "up"}

LEMMA AdvanceOK ==
    ASSUME NodeInv, NEW from \in NodeStages \ {"up"}, NEW to \in NodeStages, NEW spawned,
           "OffChainMonitor" \notin spawned, Advance(from, to, spawned), UNCHANGED <<list, wiped>>
    PROVE  NodeStepOK
<1>1. /\ stage = from /\ stage' = to /\ tasks' = tasks \cup spawned
      /\ UNCHANGED <<options, hooks, runs, list, wiped, taken>>
  BY DEF Advance, unchangedByStart
<1>2. options.command = "None" /\ "network" \notin hooks /\ to \notin Early \cup {"command"}
  BY <1>1 DEF NodeInv, StageInv, NodeStages, Early
<1>3. StageInv'
  BY <1>1, <1>2 DEF NodeInv, StageInv, Early
<1>4. ListInv'
  BY <1>1 DEF NodeInv, ListInv, NodeStages
<1> QED BY <1>1, <1>3, <1>4
        DEF NodeInv, NodeStepOK, TouchOK, OnlyOwnJobsAreTaken, NetworkJobsSurviveStart

LEMMA RunExecutorOK == ASSUME NodeInv, run_executor PROVE NodeStepOK
<1>1. /\ stage = "consensus" /\ stage' = "executor"
      /\ tasks' = tasks \cup {"OffChainMonitor"} /\ list' = {}
      /\ wiped' = wiped \cup {job.source : job \in {j \in list : j.run = runs}}
      /\ UNCHANGED <<options, hooks, runs, taken>>
  BY DEF run_executor, Advance, unchangedByStart
<1>2. options.command = "None" /\ "network" \notin hooks
  BY <1>1 DEF NodeInv, StageInv, Early
<1>3. StageInv'
  BY <1>1, <1>2 DEF NodeInv, StageInv, Early
<1>4. ListInv'
  BY <1>1 DEF NodeInv, ListInv
<1>5. NetworkJobsSurviveStart'
  BY <1>1 DEF NodeInv, ListInv, NetworkJobsSurviveStart
<1> QED BY <1>1, <1>2, <1>3, <1>4, <1>5 DEF NodeInv, NodeStepOK, TouchOK, OnlyOwnJobsAreTaken

LEMMA StartStepOK == ASSUME NodeInv, StartStep PROVE NodeStepOK
<1>1. CASE build_relay_chain_interface
  BY <1>1, AdvanceOK DEF build_relay_chain_interface, NodeStages
<1>2. CASE build_network
  BY <1>2, AdvanceOK DEF build_network, NodeStages
<1>3. CASE OffchainWorkersRunner
  <2> DEFINE spawned == IF options.offchain_worker THEN {"offchain workers"} ELSE {}
  <2>1. "OffChainMonitor" \notin spawned
    OBVIOUS
  <2> HIDE DEF spawned
  <2> QED BY <1>3, <2>1, AdvanceOK DEF OffchainWorkersRunner, NodeStages, spawned
<1>4. CASE spawn_tasks
  BY <1>4, AdvanceOK DEF spawn_tasks, NodeStages
<1>5. CASE start_relay_chain_tasks
  BY <1>5, AdvanceOK DEF start_relay_chain_tasks, NodeStages
<1>6. CASE start_consensus
  BY <1>6, AdvanceOK DEF start_consensus, NodeStages
<1>7. CASE start_network
  BY <1>7, AdvanceOK DEF start_network, NodeStages
<1> QED BY <1>1, <1>2, <1>3, <1>4, <1>5, <1>6, <1>7, NewPartialOK, RunExecutorOK DEF StartStep

-----------------------------------------------------------------------------
(* Tasks                                                                   *)

LEMMA TaskEndsOK == ASSUME NodeInv, NEW t \in tasks, TaskEnds(t) PROVE NodeStepOK
<1>1. /\ tasks' = tasks \ {t}
      /\ UNCHANGED <<stage, options, hooks, runs, list, wiped, taken>>
  BY DEF TaskEnds, unchangedByStart
<1>2. StageInv' /\ ListInv'
  BY <1>1 DEF NodeInv, StageInv, ListInv, Early
<1> QED BY <1>1, <1>2 DEF NodeInv, NodeStepOK, TouchOK, OnlyOwnJobsAreTaken, NetworkJobsSurviveStart

LEMMA ImportBlockOK ==
    ASSUME NodeInv, NEW source \in Sources, ImportBlock(source)
    PROVE  NodeStepOK
<1>1. /\ BlockFrom(source) /\ "offchain workers" \in tasks /\ hooks' = hooks \cup {source}
      /\ UNCHANGED <<stage, options, tasks, list, runs, wiped, taken>>
  BY DEF ImportBlock
<1>2. /\ options.command = "None" /\ stage # "command" /\ stage \notin Early
  BY <1>1 DEF NodeInv, StageInv
<1>3. source \in {"aura", "recovery", "network"} /\ (source = "network" => stage = "up")
  BY <1>1, <1>2 DEF BlockFrom, Sources
<1>4. StageInv'
  BY <1>1, <1>2, <1>3 DEF NodeInv, StageInv
<1> QED BY <1>1, <1>4 DEF NodeInv, ListInv, NodeStepOK, TouchOK, OnlyOwnJobsAreTaken,
                          NetworkJobsSurviveStart

LEMMA HookEndsOK ==
    ASSUME NodeInv, NEW source \in Sources, HookEnds(source)
    PROVE  NodeStepOK
<1> DEFINE new == [run |-> runs, source |-> source]
<1>1. /\ source \in hooks /\ hooks' = hooks \ {source}
      /\ list' = list \cup {new} \/ list' = list
      /\ UNCHANGED <<stage, options, tasks, runs, wiped, taken>>
  BY DEF HookEnds
<1>2. options.command = "None" /\ (stage \notin {"up", "down"} => source \in {"aura", "recovery"})
  BY <1>1 DEF NodeInv, StageInv
<1>3. StageInv'
  BY <1>1 DEF NodeInv, StageInv
<1>4. new.run = runs /\ new.source = source
  OBVIOUS
<1> HIDE DEF new
<1>5. ListInv'
  BY <1>1, <1>2, <1>4 DEF NodeInv, ListInv
<1> QED BY <1>1, <1>2, <1>3, <1>5
        DEF NodeInv, NodeStepOK, TouchOK, OnlyOwnJobsAreTaken, NetworkJobsSurviveStart

LEMMA MonitorTakesOK == ASSUME NodeInv, MonitorTakes PROVE NodeStepOK
<1>1. /\ "OffChainMonitor" \in tasks /\ list' = {}
      /\ taken' = taken \cup {[by |-> runs, listed |-> job.run] : job \in list}
      /\ UNCHANGED <<stage, options, tasks, hooks, runs, wiped>>
  BY DEF MonitorTakes
<1>2. options.command = "None" /\ \A job \in list : job.run = runs
  BY <1>1 DEF NodeInv, StageInv, ListInv
<1>3. OnlyOwnJobsAreTaken'
  BY <1>1, <1>2 DEF NodeInv, OnlyOwnJobsAreTaken
<1> QED BY <1>1, <1>2, <1>3
        DEF NodeInv, StageInv, ListInv, NodeStepOK, TouchOK, NetworkJobsSurviveStart

LEMMA NodeStepInv == NodeInv /\ [NodeNext]_nodeVars => NodeStepOK
<1> SUFFICES ASSUME NodeInv, [NodeNext]_nodeVars PROVE NodeStepOK
  OBVIOUS
<1>1. CASE UNCHANGED nodeVars
  BY <1>1 DEF nodeVars, NodeInv, StageInv, ListInv, NodeStepOK, TouchOK, OnlyOwnJobsAreTaken,
              NetworkJobsSurviveStart
<1>2. CASE Abort \/ Killed \/ StopOnFailure \/ CommandDone
  BY <1>2, ExitOK DEF Abort, Killed, StopOnFailure, CommandDone
<1> QED BY <1>1, <1>2, RunOK, RunSyncOK, StartStepOK, TaskEndsOK, ImportBlockOK, HookEndsOK,
           MonitorTakesOK DEF NodeNext

LEMMA NodeInvariant == NodeSpec => []NodeInv
<1>1. NodeInv /\ [NodeNext]_nodeVars => NodeInv'
  BY NodeStepInv DEF NodeStepOK
<1> QED BY <1>1, NodeInitInv, PTL DEF NodeSpec

-----------------------------------------------------------------------------

(* Types: only a program that runs lists jobs, so runs is positive then.   *)

NodeTypes == NodeTypeOK /\ (stage # "down" => runs \in 1..MaxRuns)

LEMMA NoOptionsAreOptions == NoOptions \in Options
  BY DEF NoOptions, Options, SyncCommands

LEMMA RunsAreBounded == NodeTypes => runs \in 0..MaxRuns /\ runs \in Nat /\ MaxRuns \in Nat
  BY NodeAssumption DEF NodeTypes, NodeTypeOK

LEMMA StartTypes ==
    ASSUME NodeInv, NodeTypes, NEW from, NEW to \in Starting \cup {"up", "command"}, NEW spawned,
           from # "down", to \in {"consensus", "executor", "up"} => options.command = "None",
           Advance(from, to, spawned), list' = list \/ list' = {}, wiped' \subseteq Sources
    PROVE  NodeTypes'
  BY DEF Advance, unchangedByStart, NodeTypes, NodeTypeOK, Starting

LEMMA StartStepTypes == ASSUME NodeInv, NodeTypes, StartStep PROVE NodeTypes'
<1> USE DEF Starting
<1>1. wiped \subseteq Sources /\ \A job \in list : job.source \in Sources
  BY DEF NodeTypes, NodeTypeOK
<1>2. stage \notin Early \cup {"command"} => options.command = "None"
  BY DEF NodeInv, StageInv
<1>3. CASE new_partial
  BY <1>1, <1>3, StartTypes DEF new_partial
<1>4. CASE build_relay_chain_interface \/ build_network \/ spawn_tasks
  BY <1>1, <1>4, StartTypes DEF build_relay_chain_interface, build_network, spawn_tasks
<1>5. CASE OffchainWorkersRunner \/ start_relay_chain_tasks
  BY <1>1, <1>5, StartTypes DEF OffchainWorkersRunner, start_relay_chain_tasks
<1>6. CASE start_consensus
  <2>1. options.command = "None"
    BY <1>2, <1>6 DEF start_consensus, Advance, Early
  <2> QED BY <1>1, <1>6, <2>1, StartTypes DEF start_consensus
<1>7. CASE run_executor
  <2>1. options.command = "None"
    BY <1>2, <1>7 DEF run_executor, Advance, Early
  <2>2. wiped' \subseteq Sources
    BY <1>1, <1>7 DEF run_executor
  <2> QED BY <1>7, <2>1, <2>2, StartTypes DEF run_executor
<1>8. CASE start_network
  <2>1. options.command = "None"
    BY <1>2, <1>8 DEF start_network, Advance, Early
  <2> QED BY <1>1, <1>8, <2>1, StartTypes DEF start_network
<1> QED BY <1>3, <1>4, <1>5, <1>6, <1>7, <1>8 DEF StartStep

LEMMA NodeTypesKept == NodeInv /\ NodeTypes /\ [NodeNext]_nodeVars => NodeTypes'
<1> SUFFICES ASSUME NodeInv, NodeTypes, [NodeNext]_nodeVars PROVE NodeTypes'
  OBVIOUS
<1>1. ASSUME NEW id, NEW given \in Options, Run(id, given) PROVE NodeTypes'
  BY <1>1, RunsAreBounded DEF Run, NodeTypes, NodeTypeOK, Starting
<1>2. CASE Exit
  BY <1>2, NoOptionsAreOptions DEF Exit, NodeTypes, NodeTypeOK
<1>3. CASE RunSync
  <2>1. tasks = {} /\ hooks = {}
    BY <1>3 DEF RunSync, NodeInv, StageInv, Early
  <2> QED BY <1>3, <2>1, NoOptionsAreOptions DEF RunSync, NodeTypes, NodeTypeOK
<1>4. ASSUME NEW t \in tasks, TaskEnds(t) PROVE NodeTypes'
  BY <1>4 DEF TaskEnds, unchangedByStart, NodeTypes, NodeTypeOK
<1>5. ASSUME NEW source \in Sources, ImportBlock(source) PROVE NodeTypes'
  <2>1. stage # "down"
    BY <1>5 DEF ImportBlock, NodeTypes, NodeTypeOK
  <2> QED BY <1>5, <2>1 DEF ImportBlock, NodeTypes, NodeTypeOK
<1>6. ASSUME NEW source \in Sources, HookEnds(source) PROVE NodeTypes'
  <2>1. runs \in 1..MaxRuns
    BY <1>6 DEF HookEnds, NodeTypes, NodeTypeOK
  <2>2. [run |-> runs, source |-> source] \in [run : 1..MaxRuns, source : Sources]
    BY <2>1
  <2> QED BY <1>6, <2>2 DEF HookEnds, NodeTypes, NodeTypeOK
<1>7. CASE MonitorTakes
  <2>1. runs \in 1..MaxRuns
    BY <1>7 DEF MonitorTakes, NodeTypes, NodeTypeOK
  <2>2. \A job \in list : [by |-> runs, listed |-> job.run] \in [by : 1..MaxRuns, listed : 1..MaxRuns]
    BY <2>1 DEF NodeTypes, NodeTypeOK
  <2> QED BY <1>7, <2>2 DEF MonitorTakes, NodeTypes, NodeTypeOK
<1>8. CASE UNCHANGED nodeVars
  BY <1>8 DEF nodeVars, NodeTypes, NodeTypeOK
<1> QED BY <1>1, <1>2, <1>3, <1>4, <1>5, <1>6, <1>7, <1>8, StartStepTypes
        DEF NodeNext, Abort, Killed, StopOnFailure, CommandDone

(* The node keeps its types: tasks and hooks end with the program, and     *)
(* nothing is listed before the first run (command.rs, lines 111-258).     *)
THEOREM NodeTypeCorrect == NodeSpec => []NodeTypeOK
<1>1. NodeInit => NodeTypes
  BY NoOptionsAreOptions, NodeAssumption DEF NodeInit, NodeTypes, NodeTypeOK
<1>2. NodeTypes => NodeTypeOK
  BY DEF NodeTypes
<1> QED BY <1>1, <1>2, NodeTypesKept, NodeInvariant, PTL DEF NodeSpec

-----------------------------------------------------------------------------

(* A list left by an earlier run is never run: run_executor resets it      *)
(* before it spawns the monitor (lines 121-143).                           *)
THEOREM StaleListsAreNeverRun == NodeSpec => []OnlyOwnJobsAreTaken
<1>1. NodeInv => OnlyOwnJobsAreTaken
  BY DEF NodeInv
<1> QED BY <1>1, NodeInvariant, PTL

(* The start loses no job that was listed for a block from the network     *)
(* (service.rs, lines 427-447).                                            *)
THEOREM StartKeepsNetworkJobs == NodeSpec => []NetworkJobsSurviveStart
<1>1. NodeInv => NetworkJobsSurviveStart
  BY DEF NodeInv
<1> QED BY <1>1, NodeInvariant, PTL

(* Only a node and a purge change the list (command.rs, lines 99-173).     *)
THEOREM CommandsDoNotTouchJobs == NodeSpec => CommandsLeaveJobsAlone
<1>1. NodeInv /\ [NodeNext]_nodeVars => [TouchOK]_nodeVars
  BY NodeStepInv DEF NodeStepOK
<1> QED BY <1>1, NodeInvariant, PTL DEF NodeSpec, CommandsLeaveJobsAlone, TouchOK
=============================================================================
