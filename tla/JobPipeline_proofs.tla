------------------------- MODULE JobPipeline_proofs -------------------------
(* What holds of the pipeline for any number of nodes, hooks, jobs, blocks *)
(* and crashes.                                                            *)
EXTENDS JobPipeline, WasmStore_proofs

-----------------------------------------------------------------------------
(* Types.  Three facts about the program counters make them inductive.     *)

PcInv ==
    /\ \A n \in Nodes, w \in Workers :
          hook[n][w].pc \in {"claim", "put"} => hook[n][w].job \in Jobs
    /\ \A n \in Nodes : monitor[n].pc = "spawn" => monitor[n].keys # <<>>
    /\ \A n \in Nodes :
          /\ listener[n].pc # "recv" => listener[n].job \in Jobs
          /\ listener[n].pc = "write" => listener[n].out \in Outputs

LEMMA IdleTypes ==
    IdleHook \in Hooks /\ IdleMonitor \in Monitors /\ IdleListener \in Listeners
  BY DEF IdleHook, IdleMonitor, IdleListener, Hooks, Monitors, Listeners, NoView,
         JobStates, SlotValues

LEMMA TInvInit == Init => OffchainTypeOK /\ PcInv
  BY IdleTypes, JobPipelineAssumption
  DEF Init, OffchainTypeOK, PcInv, SlotValues, IdleHook, IdleMonitor, IdleListener

HookPc(h) == h.pc \in {"claim", "put"} => h.job \in Jobs

LEMMA BecomesTypes ==
    ASSUME OffchainTypeOK, PcInv, NEW n \in Nodes, NEW w \in Workers,
           NEW h \in Hooks, HookPc(h), Becomes(n, w, h)
    PROVE  /\ hook' \in [Nodes -> [Workers -> Hooks]]
           /\ \A m \in Nodes, v \in Workers : HookPc(hook'[m][v])
<1>1. hook \in [Nodes -> [Workers -> Hooks]]
  BY DEF OffchainTypeOK
<1>2. hook' \in [Nodes -> [Workers -> Hooks]]
  BY <1>1 DEF Becomes
<1>3. \A m \in Nodes, v \in Workers : hook'[m][v] = h \/ hook'[m][v] = hook[m][v]
  BY <1>1 DEF Becomes
<1>4. ASSUME NEW m \in Nodes, NEW v \in Workers PROVE HookPc(hook'[m][v])
  <2>1. CASE hook'[m][v] = h
    BY <2>1
  <2>2. CASE hook'[m][v] = hook[m][v]
    BY <2>2 DEF HookPc, PcInv
  <2> QED BY <1>3, <2>1, <2>2
<1> QED BY <1>2, <1>4 DEF HookPc

LEMMA PoolTypes ==
    ASSUME OffchainTypeOK, NEW n \in Nodes, NEW tx \in Tx, Accepted(n, tx) \/ Rejected(n, tx)
    PROVE  pool' \in [Nodes -> SUBSET Tx]
<1>1. pool \in [Nodes -> SUBSET Tx]
  BY DEF OffchainTypeOK
<1>2. CASE Accepted(n, tx)
  BY <1>1, <1>2 DEF Accepted
<1>3. CASE Rejected(n, tx)
  <2>1. UNCHANGED pool
    BY <1>3 DEF Rejected
  <2> QED BY <1>1, <2>1
<1> QED BY <1>2, <1>3

LEMMA ResponseTypes ==
    ASSUME NEW n \in Nodes, NEW at \in Nat, NEW j \in Jobs
    PROVE  Response(n, at, j) \subseteq ResultTx
  BY JobPipelineAssumption DEF Response, ResultTx

(* A step of a hook that becomes h keeps the types, if the pool, the key   *)
(* list and the slots keep theirs.                                         *)
LEMMA HookStepTypes ==
    ASSUME OffchainTypeOK, PcInv, NEW n \in Nodes, NEW w \in Workers,
           NEW h \in Hooks, HookPc(h), Becomes(n, w, h), UNCHANGED unchangedByHook,
           pool' \in [Nodes -> SUBSET Tx], keyList' \in [Nodes -> Seq(Jobs)],
           slot' \in [Nodes -> [Jobs -> SlotValues]]
    PROVE  OffchainTypeOK' /\ PcInv'
<1>1. /\ hook' \in [Nodes -> [Workers -> Hooks]]
      /\ \A m \in Nodes, v \in Workers : HookPc(hook'[m][v])
  BY BecomesTypes
<1>2. OffchainTypeOK'
  BY <1>1 DEF unchangedByHook, executorVars, OffchainTypeOK
<1>3. PcInv'
  BY <1>1 DEF unchangedByHook, executorVars, PcInv, HookPc
<1> QED BY <1>2, <1>3

LEMMA HookTypes ==
    ASSUME OffchainTypeOK, PcInv, NEW n \in Nodes, NEW w \in Workers, Hook(n, w)
    PROVE  OffchainTypeOK' /\ PcInv'
<1> DEFINE h == hook[n][w]
<1>h. /\ h \in Hooks
      /\ h.pc \in {"idle", "start", "results", "scan", "claim", "put", "submit", "trap"}
      /\ h.at \in Nat /\ h.keys \in Seq(Jobs) /\ h.list \in Seq(Jobs)
      /\ h.job \in Jobs \cup {None}
  BY DEF OffchainTypeOK, Hooks
<1>i. IdleHook \in Hooks /\ IdleHook.pc = "idle"
  BY IdleTypes DEF IdleHook
<1>s. /\ pool \in [Nodes -> SUBSET Tx]
      /\ keyList \in [Nodes -> Seq(Jobs)] /\ resultList \in [Nodes -> Seq(Jobs)]
      /\ slot \in [Nodes -> [Jobs -> SlotValues]]
  BY DEF OffchainTypeOK
<1>1. CASE HookReadKeys(n, w)
  <2> DEFINE g == IF phase[n] = "fresh" THEN IdleHook
                  ELSE [h EXCEPT !.pc = "results", !.keys = keyList[n]]
  <2>1. g \in Hooks /\ HookPc(g)
    BY <1>h, <1>i, <1>s DEF Hooks, HookPc
  <2> QED BY <1>1, <1>s, <2>1, HookStepTypes DEF HookReadKeys
<1>2. CASE HookReadResults(n, w)
  <2> DEFINE g == [h EXCEPT !.pc = "scan", !.list = resultList[n]]
  <2>1. g \in Hooks /\ HookPc(g)
    BY <1>h, <1>s DEF Hooks, HookPc
  <2> QED BY <1>2, <1>s, <2>1, HookStepTypes DEF HookReadResults
<1>3. CASE HookFindsNothing(n, w)
  BY <1>3, <1>i, <1>s, HookStepTypes DEF HookFindsNothing, HookPc
<1>4. CASE HookFindsFinished(n, w)
  <2> DEFINE g == [IdleHook EXCEPT !.pc = "submit", !.at = h.at, !.list = h.list]
  <2>1. g \in Hooks /\ HookPc(g)
    BY <1>h, <1>i DEF Hooks, HookPc
  <2> QED BY <1>4, <1>s, <2>1, HookStepTypes DEF HookFindsFinished
<1>5. CASE HookFindsPending(n, w)
  <2>1. PICK j \in Jobs, sent \in BOOLEAN :
          LET tx == [kind |-> "state", bn |-> h.at, job |-> j] IN
          /\ IF sent THEN Accepted(n, tx) ELSE Rejected(n, tx)
          /\ Becomes(n, w, [h EXCEPT !.pc = "claim", !.view = NoView, !.job = j, !.sent = sent])
    BY <1>5 DEF HookFindsPending
  <2> DEFINE g == [h EXCEPT !.pc = "claim", !.view = NoView, !.job = j, !.sent = sent]
             tx == [kind |-> "state", bn |-> h.at, job |-> j]
  <2>2. g \in Hooks /\ HookPc(g)
    BY <1>h DEF Hooks, HookPc, NoView, JobStates
  <2>3. tx \in Tx
    BY <1>h DEF Tx, StateTx
  <2>4. Accepted(n, tx) \/ Rejected(n, tx)
    BY <2>1
  <2>5. pool' \in [Nodes -> SUBSET Tx]
    <3> HIDE DEF tx
    <3> QED BY <2>3, <2>4, PoolTypes
  <2>6. Becomes(n, w, g)
    BY <2>1
  <2>7. UNCHANGED <<unchangedByHook, keyList, slot>>
    BY <1>5 DEF HookFindsPending
  <2> HIDE DEF g
  <2> QED BY <1>s, <2>2, <2>5, <2>6, <2>7, HookStepTypes
<1>6. CASE HookClaim(n, w)
  <2> DEFINE g == [h EXCEPT !.pc = "put", !.keys = <<>>]
  <2>1. h.pc = "claim" /\ h.job \in Jobs
    BY <1>6 DEF HookClaim, PcInv
  <2>2. g \in Hooks /\ HookPc(g)
    <3>1. <<>> \in Seq(Jobs)
      OBVIOUS
    <3>2. g \in Hooks
      BY <1>h, <3>1 DEF Hooks
    <3>3. g.job = h.job
      BY <1>h DEF Hooks
    <3> QED BY <2>1, <3>2, <3>3 DEF HookPc
  <2>3. Append(h.keys, h.job) \in Seq(Jobs)
    BY <1>h, <2>1
  <2>4. keyList' \in [Nodes -> Seq(Jobs)]
    BY <1>6, <1>s, <2>3 DEF HookClaim
  <2> QED BY <1>6, <1>s, <2>2, <2>4, HookStepTypes DEF HookClaim
<1>7. CASE HookPut(n, w)
  <2> DEFINE g == [h EXCEPT !.pc = "submit", !.job = None, !.sent = FALSE]
  <2>1. g \in Hooks /\ HookPc(g)
    BY <1>h DEF Hooks, HookPc
  <2>2. h.job \in Jobs
    BY <1>7 DEF HookPut, PcInv
  <2>3. slot' \in [Nodes -> [Jobs -> SlotValues]]
    BY <1>7, <1>s, <2>2 DEF HookPut, SlotValues
  <2> QED BY <1>7, <1>s, <2>1, <2>3, HookStepTypes DEF HookPut
<1>8. CASE HookSubmit(n, w)
  <2> DEFINE next == [h EXCEPT !.list = Tail(h.list)]
             trap == [IdleHook EXCEPT !.pc = "trap"]
             response == Response(n, h.at, Head(h.list))
  <2>1. h.pc = "submit" /\ h.list # <<>>
    BY <1>8 DEF HookSubmit
  <2>2. Head(h.list) \in Jobs /\ Tail(h.list) \in Seq(Jobs)
    BY <1>h, <2>1
  <2>3. next \in Hooks /\ HookPc(next)
    BY <1>h, <2>1, <2>2 DEF Hooks, HookPc
  <2>4. trap \in Hooks /\ HookPc(trap)
    BY <1>i DEF Hooks, HookPc
  <2>5. response \subseteq Tx
    BY <1>h, <2>2, ResponseTypes DEF Tx
  <2>6. \/ UNCHANGED pool /\ Becomes(n, w, next)
        \/ \E tx \in response : Accepted(n, tx) /\ Becomes(n, w, next)
        \/ \E tx \in response : Rejected(n, tx) /\ Becomes(n, w, trap)
    BY <1>8 DEF HookSubmit
  <2>7. UNCHANGED <<unchangedByHook, keyList, slot>>
    BY <1>8 DEF HookSubmit
  <2> HIDE DEF next, trap, response
  <2>8. pool' \in [Nodes -> SUBSET Tx]
    BY <1>s, <2>5, <2>6, PoolTypes
  <2> QED BY <1>s, <2>3, <2>4, <2>6, <2>7, <2>8, HookStepTypes
<1>9. CASE HookEnds(n, w)
  BY <1>9, <1>i, <1>s, HookStepTypes DEF HookEnds, HookPc
<1> QED BY <1>1, <1>2, <1>3, <1>4, <1>5, <1>6, <1>7, <1>8, <1>9 DEF Hook

LEMMA MonitorStepTypes ==
    ASSUME OffchainTypeOK, PcInv, NEW n \in Nodes,
           NEW m \in Monitors, m.pc = "spawn" => m.keys # <<>>,
           monitor' = [monitor EXCEPT ![n] = m],
           UNCHANGED <<unchangedByExecutor, phase, resultList, slot, channel, listener, computed>>,
           keyList' \in [Nodes -> Seq(Jobs)], tasks' \in [Nodes -> [Jobs -> Nat]]
    PROVE  OffchainTypeOK' /\ PcInv'
<1>1. /\ monitor' \in [Nodes -> Monitors]
      /\ \A k \in Nodes : monitor'[k].pc = "spawn" => monitor'[k].keys # <<>>
  BY DEF OffchainTypeOK, PcInv
<1>2. OffchainTypeOK'
  BY <1>1 DEF OffchainTypeOK, unchangedByExecutor, poolVars
<1>3. PcInv'
  BY <1>1 DEF PcInv, unchangedByExecutor
<1> QED BY <1>2, <1>3

ListenerPc(l) ==
    /\ l.pc # "recv" => l.job \in Jobs
    /\ l.pc = "write" => l.out \in Outputs

LEMMA ListenerStepTypes ==
    ASSUME OffchainTypeOK, PcInv, NEW n \in Nodes, NEW l \in Listeners, ListenerPc(l),
           listener' = [listener EXCEPT ![n] = l],
           UNCHANGED <<unchangedByExecutor, phase, keyList, monitor, tasks, computed>>,
           resultList' \in [Nodes -> Seq(Jobs)], slot' \in [Nodes -> [Jobs -> SlotValues]],
           channel' \in [Nodes -> Seq([job : Jobs, out : Outputs])]
    PROVE  OffchainTypeOK' /\ PcInv'
<1>1. /\ listener' \in [Nodes -> Listeners]
      /\ \A k \in Nodes : listener'[k] = l \/ listener'[k] = listener[k]
  BY DEF OffchainTypeOK
<1>2. ASSUME NEW k \in Nodes PROVE ListenerPc(listener'[k])
  <2>1. CASE listener'[k] = l
    BY <2>1
  <2>2. CASE listener'[k] = listener[k]
    BY <2>2 DEF PcInv, ListenerPc
  <2> QED BY <1>1, <2>1, <2>2
<1>3. OffchainTypeOK'
  BY <1>1 DEF OffchainTypeOK, unchangedByExecutor, poolVars
<1>4. PcInv'
  BY <1>2 DEF PcInv, ListenerPc, unchangedByExecutor
<1> QED BY <1>3, <1>4

LEMMA ExecutorTypes ==
    ASSUME OffchainTypeOK, PcInv, NEW n \in Nodes,
           StartExecutor(n) \/ Monitor(n) \/ (\E j \in Jobs : Task(n, j)) \/ Listener(n)
    PROVE  OffchainTypeOK' /\ PcInv'
<1> DEFINE Result == [job : Jobs, out : Outputs]
<1>s. /\ keyList \in [Nodes -> Seq(Jobs)] /\ resultList \in [Nodes -> Seq(Jobs)]
      /\ slot \in [Nodes -> [Jobs -> SlotValues]]
      /\ monitor \in [Nodes -> Monitors] /\ tasks \in [Nodes -> [Jobs -> Nat]]
      /\ channel \in [Nodes -> Seq(Result)] /\ listener \in [Nodes -> Listeners]
      /\ computed \subseteq Processors \X Jobs \X Outputs
  BY DEF OffchainTypeOK
<1>m. /\ monitor[n] \in Monitors
      /\ monitor[n].keys \in Seq(Jobs) /\ monitor[n].seen \in Seq(Jobs)
      /\ monitor[n].pc = "spawn" => monitor[n].keys # <<>>
  BY <1>s DEF Monitors, PcInv
<1>l. /\ listener[n] \in Listeners
      /\ listener[n].pc \in {"recv", "write", "list"}
      /\ listener[n].pc # "recv" => listener[n].job \in Jobs
      /\ listener[n].pc = "write" => listener[n].out \in Outputs
  BY <1>s DEF Listeners, PcInv
<1>i. /\ IdleMonitor \in Monitors /\ IdleMonitor.pc = "read"
      /\ IdleListener \in Listeners /\ IdleListener.pc = "recv"
  BY IdleTypes DEF IdleMonitor, IdleListener
<1>1. CASE StartExecutor(n)
  <2>1. <<>> \in Seq(Jobs)
    OBVIOUS
  <2>2. keyList' \in [Nodes -> Seq(Jobs)] /\ resultList' \in [Nodes -> Seq(Jobs)]
    BY <1>1, <1>s, <2>1 DEF StartExecutor
  <2>3. phase' \in [Nodes -> {"fresh", "starting", "running"}]
    BY <1>1 DEF StartExecutor, OffchainTypeOK
  <2>4. UNCHANGED <<poolVars, hook, crashes, slot, executorVars>>
    BY <1>1 DEF StartExecutor, unchangedByExecutor
  <2>5. OffchainTypeOK'
    BY <2>2, <2>3, <2>4 DEF poolVars, executorVars, OffchainTypeOK
  <2>6. PcInv'
    BY <2>4 DEF executorVars, PcInv
  <2> QED BY <2>5, <2>6
<1>2. CASE MonitorRead(n)
  <2> DEFINE m == [IdleMonitor EXCEPT !.pc = "clear", !.keys = keyList[n]]
  <2>1. m \in Monitors /\ m.pc = "clear"
    BY <1>s, <1>i DEF Monitors
  <2>2. monitor' = [monitor EXCEPT ![n] = m]
    BY <1>2 DEF MonitorRead
  <2>3. UNCHANGED <<unchangedByExecutor, phase, storeVars, tasks, channel, listener, computed>>
    BY <1>2 DEF MonitorRead
  <2> HIDE DEF m
  <2> QED BY <1>s, <2>1, <2>2, <2>3, MonitorStepTypes DEF storeVars
<1>3. CASE MonitorClear(n)
  <2>1. monitor' = [monitor EXCEPT ![n] = [monitor[n] EXCEPT !.pc = "cas", !.seen = keyList[n]]]
    BY <1>3, <1>s, <1>m DEF MonitorClear, Monitors
  <2> DEFINE m == [monitor[n] EXCEPT !.pc = "cas", !.seen = keyList[n]]
  <2>2. m \in Monitors /\ m.pc = "cas"
    BY <1>s, <1>m DEF Monitors
  <2>3. UNCHANGED <<unchangedByExecutor, phase, storeVars, tasks, channel, listener, computed>>
    BY <1>3 DEF MonitorClear
  <2>4. monitor' = [monitor EXCEPT ![n] = m]
    BY <2>1
  <2> HIDE DEF m
  <2> QED BY <1>s, <2>2, <2>3, <2>4, MonitorStepTypes DEF storeVars
<1>4. CASE MonitorCas(n)
  <2> DEFINE m == IF monitor[n].keys = <<>> THEN IdleMonitor
                  ELSE [IdleMonitor EXCEPT !.pc = "spawn", !.keys = monitor[n].keys]
  <2>1. m \in Monitors /\ (m.pc = "spawn" => m.keys # <<>>)
    BY <1>s, <1>i, <1>m DEF Monitors
  <2>2. monitor' = [monitor EXCEPT ![n] = m]
    BY <1>4 DEF MonitorCas
  <2>3. keyList' \in [Nodes -> Seq(Jobs)]
    BY <1>4, <1>s DEF MonitorCas
  <2>4. UNCHANGED <<unchangedByExecutor, phase, resultList, slot, tasks, channel, listener, computed>>
    BY <1>4 DEF MonitorCas
  <2> HIDE DEF m
  <2> QED BY <1>s, <2>1, <2>2, <2>3, <2>4, MonitorStepTypes
<1>5. CASE MonitorSpawn(n)
  <2> DEFINE m == IF Len(monitor[n].keys) = 1 THEN IdleMonitor
                  ELSE [monitor[n] EXCEPT !.keys = Tail(monitor[n].keys)]
  <2>1. monitor[n].pc = "spawn" /\ monitor[n].keys # <<>>
    BY <1>5, <1>m DEF MonitorSpawn
  <2>2. Head(monitor[n].keys) \in Jobs /\ Tail(monitor[n].keys) \in Seq(Jobs)
    BY <1>m, <2>1
  <2>3. Len(monitor[n].keys) # 1 => Tail(monitor[n].keys) # <<>>
    <3> DEFINE keys == monitor[n].keys
    <3>1. keys \in Seq(Jobs) /\ Len(keys) # 0
      BY <1>m, <2>1
    <3> HIDE DEF keys
    <3>2. ASSUME Len(keys) # 1 PROVE Len(Tail(keys)) # 0
      BY <3>1, <3>2
    <3> QED BY <3>2 DEF keys
  <2>4. m \in Monitors /\ (m.pc = "spawn" => m.keys # <<>>)
    BY <1>i, <1>m, <2>2, <2>3 DEF Monitors
  <2>5. monitor' = [monitor EXCEPT ![n] = m]
    BY <1>5 DEF MonitorSpawn
  <2>6. tasks' \in [Nodes -> [Jobs -> Nat]]
    BY <1>5, <1>s, <2>2 DEF MonitorSpawn
  <2>7. UNCHANGED <<unchangedByExecutor, phase, storeVars, channel, listener, computed>>
    BY <1>5 DEF MonitorSpawn
  <2> HIDE DEF m
  <2> QED BY <1>s, <2>4, <2>5, <2>6, <2>7, MonitorStepTypes DEF storeVars
<1>6. ASSUME NEW j \in Jobs, NEW out \in Outputs, RunTask(n, j, out)
      PROVE  OffchainTypeOK' /\ PcInv'
  <2>1. tasks' \in [Nodes -> [Jobs -> Nat]]
    BY <1>6, <1>s DEF RunTask
  <2>2. channel' \in [Nodes -> Seq(Result)]
    <3> DEFINE r == [job |-> j, out |-> out]
    <3>1. r \in Result
      OBVIOUS
    <3>2. channel' = [channel EXCEPT ![n] = Append(channel[n], r)]
      BY <1>6 DEF RunTask
    <3> HIDE DEF r, Result
    <3> QED BY <1>s, <3>1, <3>2
  <2>3. computed' \subseteq Processors \X Jobs \X Outputs
    BY <1>6, <1>s, JobPipelineAssumption DEF RunTask
  <2> QED
    BY <1>6, <2>1, <2>2, <2>3
    DEF RunTask, unchangedByExecutor, poolVars, storeVars, OffchainTypeOK, PcInv
<1>7. ASSUME NEW j \in Jobs, FailTask(n, j)
      PROVE  OffchainTypeOK' /\ PcInv'
  <2>1. tasks' \in [Nodes -> [Jobs -> Nat]]
    BY <1>7, <1>s DEF FailTask
  <2> QED BY <1>7, <2>1 DEF FailTask, unchangedByExecutor, poolVars, storeVars, OffchainTypeOK, PcInv
<1>8. CASE ListenerRecv(n)
  <2> DEFINE r == Head(channel[n])
             l == [pc |-> "write", job |-> r.job, out |-> r.out, seen |-> slot[n][r.job]]
  <2>1. r \in Result /\ Tail(channel[n]) \in Seq(Result)
    <3>1. channel[n] # <<>>
      BY <1>8 DEF ListenerRecv
    <3> HIDE DEF Result
    <3> QED BY <1>s, <3>1
  <2>2. r.job \in Jobs /\ r.out \in Outputs
    BY <2>1
  <2>3. l \in Listeners /\ l.job \in Jobs /\ l.out \in Outputs
    BY <1>s, <2>2 DEF Listeners
  <2>4. listener' = [listener EXCEPT ![n] = l]
    BY <1>8 DEF ListenerRecv
  <2>5. channel' \in [Nodes -> Seq(Result)]
    BY <1>8, <1>s, <2>1 DEF ListenerRecv
  <2>6. UNCHANGED <<unchangedByExecutor, phase, storeVars, monitor, tasks, computed>>
    BY <1>8 DEF ListenerRecv
  <2>7. ListenerPc(l)
    BY <2>2 DEF ListenerPc
  <2> HIDE DEF l, r
  <2> QED BY <1>s, <2>3, <2>4, <2>5, <2>6, <2>7, ListenerStepTypes DEF storeVars
<1>9. CASE ListenerWrite(n)
  <2> DEFINE l == [IdleListener EXCEPT !.pc = "list", !.job = listener[n].job]
  <2>1. listener[n].job \in Jobs /\ listener[n].out \in Outputs
    BY <1>9, <1>l DEF ListenerWrite
  <2>2. l \in Listeners /\ l.pc = "list" /\ l.job \in Jobs
    BY <1>i, <2>1 DEF Listeners
  <2>3. listener' = [listener EXCEPT ![n] = l]
    BY <1>9 DEF ListenerWrite
  <2>4. slot' \in [Nodes -> [Jobs -> SlotValues]]
    BY <1>9, <1>s, <2>1 DEF ListenerWrite, SlotValues
  <2>5. UNCHANGED <<unchangedByExecutor, phase, keyList, resultList, monitor, tasks, channel, computed>>
    BY <1>9 DEF ListenerWrite
  <2>6. ListenerPc(l)
    BY <2>2 DEF ListenerPc
  <2> HIDE DEF l
  <2> QED BY <1>s, <2>2, <2>3, <2>4, <2>5, <2>6, ListenerStepTypes
<1>10. CASE ListenerList(n)
  <2>1. listener[n].job \in Jobs
    BY <1>10, <1>l DEF ListenerList
  <2>2. resultList' \in [Nodes -> Seq(Jobs)]
    BY <1>10, <1>s, <2>1 DEF ListenerList
  <2>3. ListenerPc(IdleListener)
    BY <1>i DEF ListenerPc
  <2>4. listener' = [listener EXCEPT ![n] = IdleListener]
    BY <1>10 DEF ListenerList
  <2>5. UNCHANGED <<unchangedByExecutor, phase, keyList, slot, monitor, tasks, channel, computed>>
    BY <1>10 DEF ListenerList
  <2> QED BY <1>s, <1>i, <2>2, <2>3, <2>4, <2>5, ListenerStepTypes
<1> QED
  BY <1>1, <1>2, <1>3, <1>4, <1>5, <1>6, <1>7, <1>8, <1>9, <1>10
  DEF Monitor, Task, Listener

LEMMA SealTypes ==
    ASSUME TypeOK, OffchainTypeOK, PcInv, SealBlock
    PROVE  OffchainTypeOK' /\ PcInv'
<1> DEFINE start == [IdleHook EXCEPT !.pc = "start", !.at = block, !.view = jobs]
<1>1. PICK starts \in [Nodes -> Workers \cup {None}] :
        hook' = [n \in Nodes |-> [w \in Workers |->
                    IF starts[n] = w THEN start ELSE hook[n][w]]]
  BY DEF SealBlock
<1>2. start \in Hooks /\ start.pc = "start"
  <2>1. block \in Nat /\ jobs \in [Jobs -> JobStates]
    BY WasmStoreAssumption DEF TypeOK
  <2> QED BY <2>1, IdleTypes DEF Hooks
<1> HIDE DEF start
<1>3. \A n \in Nodes, w \in Workers : hook'[n][w] = start \/ hook'[n][w] = hook[n][w]
  BY <1>1
<1>4. hook' \in [Nodes -> [Workers -> Hooks]]
  BY <1>1, <1>2 DEF OffchainTypeOK
<1>5. ASSUME NEW n \in Nodes, NEW w \in Workers PROVE HookPc(hook'[n][w])
  <2>1. CASE hook'[n][w] = start
    BY <1>2, <2>1 DEF HookPc
  <2>2. CASE hook'[n][w] = hook[n][w]
    BY <2>2 DEF HookPc, PcInv
  <2> QED BY <1>3, <2>1, <2>2
<1>6. pool' \in [Nodes -> SUBSET Tx]
  BY DEF SealBlock, OffchainTypeOK
<1>7. UNCHANGED <<phase, storeVars, executorVars, crashes>> /\ included' = {}
  BY DEF SealBlock
<1>8. OffchainTypeOK'
  BY <1>4, <1>6, <1>7 DEF storeVars, executorVars, OffchainTypeOK
<1>9. PcInv'
  BY <1>5, <1>7 DEF HookPc, executorVars, PcInv
<1> QED BY <1>8, <1>9

LEMMA CrashTypes ==
    ASSUME OffchainTypeOK, PcInv, NEW n \in Nodes, Crash(n)
    PROVE  OffchainTypeOK' /\ PcInv'
<1> DEFINE Result == [job : Jobs, out : Outputs]
<1>1. /\ pool' = [pool EXCEPT ![n] = {}]
      /\ phase' = [phase EXCEPT ![n] = "starting"]
      /\ hook' = [hook EXCEPT ![n] = [w \in Workers |-> IdleHook]]
      /\ monitor' = [monitor EXCEPT ![n] = IdleMonitor]
      /\ tasks' = [tasks EXCEPT ![n] = [j \in Jobs |-> 0]]
      /\ channel' = [channel EXCEPT ![n] = <<>>]
      /\ listener' = [listener EXCEPT ![n] = IdleListener]
      /\ UNCHANGED <<included, storeVars, computed>>
  BY DEF Crash
<1>2. crashes' \in 0..MaxCrashes
  BY JobPipelineAssumption DEF Crash, OffchainTypeOK
<1>3. pool' \in [Nodes -> SUBSET Tx] /\ phase' \in [Nodes -> {"fresh", "starting", "running"}]
  BY <1>1 DEF OffchainTypeOK
<1>4. hook' \in [Nodes -> [Workers -> Hooks]]
  BY <1>1, IdleTypes DEF OffchainTypeOK
<1>5. monitor' \in [Nodes -> Monitors] /\ listener' \in [Nodes -> Listeners]
  BY <1>1, IdleTypes DEF OffchainTypeOK
<1>6. tasks' \in [Nodes -> [Jobs -> Nat]]
  BY <1>1 DEF OffchainTypeOK
<1>7. channel' \in [Nodes -> Seq(Result)]
  <2>1. channel \in [Nodes -> Seq(Result)]
    BY DEF OffchainTypeOK
  <2> HIDE DEF Result
  <2>2. <<>> \in Seq(Result)
    OBVIOUS
  <2> QED BY <1>1, <2>1, <2>2
<1>8. OffchainTypeOK'
  BY <1>1, <1>2, <1>3, <1>4, <1>5, <1>6, <1>7 DEF storeVars, OffchainTypeOK
<1>9. \A m \in Nodes, w \in Workers : HookPc(hook'[m][w])
  <2> SUFFICES ASSUME NEW m \in Nodes, NEW w \in Workers PROVE HookPc(hook'[m][w])
    OBVIOUS
  <2>1. hook'[m][w] = IdleHook \/ hook'[m][w] = hook[m][w]
    BY <1>1 DEF OffchainTypeOK
  <2>2. HookPc(IdleHook) /\ HookPc(hook[m][w])
    BY DEF HookPc, IdleHook, PcInv
  <2> QED BY <2>1, <2>2
<1>10. PcInv'
  BY <1>1, <1>9 DEF HookPc, PcInv, IdleMonitor, IdleListener, OffchainTypeOK
<1> QED BY <1>8, <1>10

LEMMA ChainStepTypes ==
    ASSUME OffchainTypeOK, PcInv, Call \/ (\E n \in Nodes : \E tx \in pool[n] : IncludeTx(n, tx))
    PROVE  OffchainTypeOK' /\ PcInv'
<1>1. UNCHANGED <<pool, phase, storeVars, hook, executorVars, crashes>>
  BY DEF Call, poolVars, IncludeTx
<1>2. included' \subseteq Tx
  BY DEF Call, poolVars, IncludeTx, OffchainTypeOK
<1>3. OffchainTypeOK'
  BY <1>1, <1>2 DEF storeVars, executorVars, OffchainTypeOK
<1>4. PcInv'
  BY <1>1 DEF executorVars, PcInv
<1> QED BY <1>3, <1>4

(* Every step of the pipeline is a step of the chain or leaves it alone.   *)
LEMMA StepOnChain ==
    ASSUME TypeOK, OffchainTypeOK, [Next]_vars
    PROVE  [ChainNext]_chainVars
<1>1. CASE Call
  BY <1>1 DEF Call, ChainNext
<1>2. CASE SealBlock
  BY <1>2 DEF SealBlock, ChainNext
<1>3. ASSUME NEW n \in Nodes, NEW tx \in pool[n], IncludeTx(n, tx)
      PROVE  ChainNext
  <2>1. tx \in Tx
    BY DEF OffchainTypeOK
  <2>2. block \in 1..MaxBlock /\ validate_unsigned(block)
    BY WasmStoreAssumption DEF TypeOK, validate_unsigned
  <2>3. CASE tx.kind = "state"
    <3>1. tx.job \in Jobs
      BY <2>1 DEF Tx, StateTx, ResultTx
    <3>2. change_job_state(tx.job)
      BY <1>3, <2>3 DEF IncludeTx, Apply
    <3> QED BY <2>2, <3>1, <3>2 DEF ChainNext, UnsignedCall
  <2>4. CASE tx.kind # "state"
    <3>1. tx.job \in Jobs /\ tx.out \in Outputs /\ tx.key \in Processors
      BY <2>1, <2>4 DEF Tx, StateTx, ResultTx
    <3>2. submit_result_unsiged(tx.job, tx.out, tx.key)
      BY <1>3, <2>4 DEF IncludeTx, Apply
    <3> QED BY <2>2, <3>1, <3>2 DEF ChainNext, UnsignedCall
  <2> QED BY <2>3, <2>4
<1>4. ASSUME NEW n \in Nodes, NEW w \in Workers, Hook(n, w)
      PROVE  UNCHANGED chainVars
  BY <1>4 DEF Hook, HookReadKeys, HookReadResults, HookFindsNothing, HookFindsFinished,
       HookFindsPending, HookClaim, HookPut, HookSubmit, HookEnds, unchangedByHook
<1>5. ASSUME NEW n \in Nodes,
             StartExecutor(n) \/ Monitor(n) \/ (\E j \in Jobs : Task(n, j)) \/ Listener(n)
      PROVE  UNCHANGED chainVars
  BY <1>5 DEF StartExecutor, Monitor, MonitorRead, MonitorClear, MonitorCas, MonitorSpawn, Task,
       RunTask, FailTask, Listener, ListenerRecv, ListenerWrite, ListenerList, unchangedByExecutor
<1>6. ASSUME NEW n \in Nodes, Crash(n)
      PROVE  UNCHANGED chainVars
  BY <1>6 DEF Crash
<1>7. CASE UNCHANGED vars
  BY <1>7 DEF vars
<1> QED BY <1>1, <1>2, <1>3, <1>4, <1>5, <1>6, <1>7 DEF Next, Node

LEMMA TypesStep ==
    ASSUME TypeOK, OffchainTypeOK, PcInv, [Next]_vars
    PROVE  OffchainTypeOK' /\ PcInv'
<1>1. CASE UNCHANGED vars
  BY <1>1 DEF vars, poolVars, storeVars, executorVars, OffchainTypeOK, PcInv
<1> QED
  BY <1>1, ChainStepTypes, SealTypes, HookTypes, ExecutorTypes, CrashTypes DEF Next, Node

(* The chain inside the pipeline is the chain of WasmStore, and all its    *)
(* theorems hold of it.                                                    *)
TInv == ChainInv /\ OffchainTypeOK /\ PcInv

LEMMA TInvStep == TInv /\ [Next]_vars => TInv'
  BY ChainStepInv, StepOnChain, TypesStep DEF TInv, ChainInv

LEMMA TInvariant == Spec => []TInv
<1>1. Init => TInv
  BY ChainInitInv, TInvInit DEF Init, TInv
<1> QED BY <1>1, TInvStep, PTL DEF Spec

(* Every variable of the pipeline keeps its type: counts of tasks never go *)
(* below zero, and the lists, slots and transactions only name jobs.       *)
THEOREM PipelineTypeCorrect == Spec => []PipelineTypeOK
<1>1. TInv => PipelineTypeOK
  BY DEF TInv, ChainInv, PipelineTypeOK
<1> QED BY <1>1, TInvariant, PTL

(* Composed with hooks, pools and executors, the pallet still does what it *)
(* does alone: results are only stored for finished jobs, and so on.       *)
THEOREM PipelineRunsTheChain == Spec => ChainSpec
<1>1. Init => ChainInit
  BY DEF Init
<1>2. TInv /\ [Next]_vars => [ChainNext]_chainVars
  BY StepOnChain DEF TInv, ChainInv
<1> QED BY <1>1, <1>2, TInvariant, PTL DEF Spec, ChainSpec

(* So whatever the pallet alone promises holds of the whole pipeline: an   *)
(* output is stored for finished jobs only, what is stored fits its        *)
(* bounds, and no step takes a job back (lines 402-438).                   *)
THEOREM ChainPropertiesInPipeline ==
    Spec => []ResultOnlyWhenFinished /\ []StoredValuesFit /\ JobsOnlyMoveForward
  BY PipelineRunsTheChain, ResultsFollowFinish, StorageIsBounded, JobsMoveForward, PTL

-----------------------------------------------------------------------------
(* Provenance.  An output travels from its task through the channel, the   *)
(* listener, the slot and a transaction to the chain; at each place it is  *)
(* known to have been computed under the key it will be filed under.       *)

Covered == computed \cup Misread

ChannelComputed ==
    \A n \in Nodes : \A i \in 1..Len(channel[n]) :
        <<KeyOf[n], channel[n][i].job, channel[n][i].out>> \in computed
ListenerComputed ==
    \A n \in Nodes : listener[n].pc = "write" =>
        <<KeyOf[n], listener[n].job, listener[n].out>> \in computed
SlotComputed ==
    \A n \in Nodes, j \in Jobs :
        slot[n][j] \in Outputs => <<KeyOf[n], j, slot[n][j]>> \in computed
PoolCovered ==
    \A n \in Nodes : \A tx \in pool[n] :
        tx.kind = "result" => <<tx.key, tx.job, tx.out>> \in Covered

Provenance == /\ ChannelComputed /\ ListenerComputed /\ SlotComputed
              /\ PoolCovered /\ PublishedWasComputed

ProvenanceVars == <<channel, listener, slot, pool, results, computed>>

LEMMA ProvenanceInit == Init => Provenance
  BY JobPipelineAssumption, WasmStoreAssumption
  DEF Init, ChainInit, Provenance, ChannelComputed, ListenerComputed, SlotComputed, PoolCovered,
      PublishedWasComputed, IdleListener

LEMMA ProvenanceUnchanged == ASSUME Provenance, UNCHANGED ProvenanceVars PROVE Provenance'
  BY DEF Provenance, ProvenanceVars, ChannelComputed, ListenerComputed, SlotComputed, PoolCovered,
         PublishedWasComputed, Covered

LEMMA HookProvenance ==
    ASSUME OffchainTypeOK, PcInv, Provenance, NEW n \in Nodes, NEW w \in Workers, Hook(n, w)
    PROVE  Provenance'
<1>1. UNCHANGED <<channel, listener, results, computed>>
  BY DEF Hook, HookReadKeys, HookReadResults, HookFindsNothing, HookFindsFinished,
       HookFindsPending, HookClaim, HookPut, HookSubmit, HookEnds, unchangedByHook, chainVars,
       executorVars
<1>2. ChannelComputed' /\ ListenerComputed' /\ PublishedWasComputed'
  BY <1>1 DEF Provenance, ChannelComputed, ListenerComputed, PublishedWasComputed
<1>3. SlotComputed'
  <2>1. CASE HookPut(n, w)
    <3>1. hook[n][w].job \in Jobs
      BY <2>1 DEF HookPut, PcInv
    <3>2. \A m \in Nodes, j \in Jobs : slot'[m][j] = slot[m][j] \/ slot'[m][j] = Request
      BY <2>1, <3>1 DEF HookPut, OffchainTypeOK
    <3> QED BY <1>1, <3>2, JobPipelineAssumption DEF Provenance, SlotComputed
  <2>2. CASE ~HookPut(n, w)
    <3>1. UNCHANGED slot
      BY <2>2 DEF Hook, HookReadKeys, HookReadResults, HookFindsNothing, HookFindsFinished,
           HookFindsPending, HookClaim, HookSubmit, HookEnds
    <3> QED BY <1>1, <3>1 DEF Provenance, SlotComputed
  <2> QED BY <2>1, <2>2
<1>4. ASSUME NEW tx, tx.kind = "result" => <<tx.key, tx.job, tx.out>> \in Covered,
             Accepted(n, tx) \/ Rejected(n, tx)
      PROVE  PoolCovered'
  <2>1. \A m \in Nodes : pool'[m] \subseteq pool[m] \cup {tx}
    BY <1>4 DEF Accepted, Rejected, OffchainTypeOK
  <2> QED BY <1>1, <1>4, <2>1 DEF Provenance, PoolCovered, Covered
<1>5. PoolCovered'
  <2>1. CASE HookFindsPending(n, w)
    <3>1. PICK j \in Jobs, sent \in BOOLEAN :
            LET tx == [kind |-> "state", bn |-> hook[n][w].at, job |-> j] IN
            IF sent THEN Accepted(n, tx) ELSE Rejected(n, tx)
      BY <2>1 DEF HookFindsPending
    <3> DEFINE tx == [kind |-> "state", bn |-> hook[n][w].at, job |-> j]
    <3>2. tx.kind # "result" /\ (Accepted(n, tx) \/ Rejected(n, tx))
      BY <3>1
    <3> HIDE DEF tx
    <3> QED BY <1>4, <3>2
  <2>2. CASE HookSubmit(n, w)
    <3> DEFINE j == Head(hook[n][w].list)
               response == Response(n, hook[n][w].at, j)
    <3>1. UNCHANGED pool \/ \E tx \in response : Accepted(n, tx) \/ Rejected(n, tx)
      BY <2>2 DEF HookSubmit
    <3>2. hook[n][w].list \in Seq(Jobs) /\ hook[n][w].list # <<>>
      BY <2>2 DEF HookSubmit, OffchainTypeOK, Hooks
    <3>3. j \in Jobs
      BY <3>2
    <3>4. \A tx \in response : <<tx.key, tx.job, tx.out>> \in Covered
      BY <3>3 DEF Response, Covered, Misread, Provenance, SlotComputed
    <3>5. CASE UNCHANGED pool
      BY <1>1, <3>5 DEF Provenance, PoolCovered, Covered
    <3> HIDE DEF response
    <3> QED BY <1>4, <3>1, <3>4, <3>5
  <2>3. CASE ~HookFindsPending(n, w) /\ ~HookSubmit(n, w)
    <3>1. UNCHANGED pool
      BY <2>3 DEF Hook, HookReadKeys, HookReadResults, HookFindsNothing, HookFindsFinished,
           HookClaim, HookPut, HookEnds
    <3> QED BY <1>1, <3>1 DEF Provenance, PoolCovered, Covered
  <2> QED BY <2>1, <2>2, <2>3
<1> QED BY <1>2, <1>3, <1>5 DEF Provenance

LEMMA ExecutorProvenance ==
    ASSUME OffchainTypeOK, PcInv, Provenance, NEW n \in Nodes,
           StartExecutor(n) \/ Monitor(n) \/ (\E j \in Jobs : Task(n, j)) \/ Listener(n)
    PROVE  Provenance'
<1>1. UNCHANGED <<pool, results>>
  BY DEF StartExecutor, Monitor, MonitorRead, MonitorClear, MonitorCas, MonitorSpawn, Task,
         RunTask, FailTask, Listener, ListenerRecv, ListenerWrite, ListenerList,
         unchangedByExecutor, chainVars, poolVars
<1>2. ASSUME computed \subseteq computed' PROVE PoolCovered' /\ PublishedWasComputed'
  BY <1>1, <1>2 DEF Provenance, PoolCovered, PublishedWasComputed, Covered
<1>3. CASE StartExecutor(n) \/ Monitor(n) \/ (\E j \in Jobs : FailTask(n, j)) \/ ListenerList(n)
  <2>1. UNCHANGED <<slot, channel, computed>>
    BY <1>3 DEF StartExecutor, Monitor, MonitorRead, MonitorClear, MonitorCas, MonitorSpawn,
         FailTask, ListenerList, storeVars, executorVars
  <2>2. UNCHANGED listener \/ listener' = [listener EXCEPT ![n] = IdleListener]
    BY <1>3 DEF StartExecutor, Monitor, MonitorRead, MonitorClear, MonitorCas, MonitorSpawn,
         FailTask, ListenerList, storeVars, executorVars
  <2>3. ListenerComputed'
    <3>1. \A m \in Nodes : listener'[m] = listener[m] \/ listener'[m] = IdleListener
      BY <2>2 DEF OffchainTypeOK
    <3>2. IdleListener.pc # "write"
      BY DEF IdleListener
    <3> QED BY <2>1, <3>1, <3>2 DEF Provenance, ListenerComputed
  <2>4. ChannelComputed' /\ SlotComputed'
    BY <2>1 DEF Provenance, ChannelComputed, SlotComputed
  <2> QED BY <1>2, <2>1, <2>3, <2>4 DEF Provenance
<1>4. ASSUME NEW j \in Jobs, NEW out \in Outputs, RunTask(n, j, out)
      PROVE  Provenance'
  <2> DEFINE r == [job |-> j, out |-> out]
  <2>1. /\ computed' = computed \cup {<<KeyOf[n], j, out>>}
        /\ channel' = [channel EXCEPT ![n] = Append(channel[n], r)]
        /\ UNCHANGED <<slot, listener>>
    BY <1>4 DEF RunTask, storeVars
  <2>2. <<KeyOf[n], r.job, r.out>> \in computed'
    BY <2>1
  <2>3. channel \in [Nodes -> Seq([job : Jobs, out : Outputs])]
    BY DEF OffchainTypeOK
  <2> HIDE DEF r
  <2>4. ASSUME NEW m \in Nodes, NEW i \in 1..Len(channel'[m])
        PROVE  <<KeyOf[m], channel'[m][i].job, channel'[m][i].out>> \in computed'
    <3>1. CASE m = n
      <4>1. channel[n] \in Seq([job : Jobs, out : Outputs])
        BY <2>3
      <4>2. channel'[n] = Append(channel[n], r)
        BY <2>1, <2>3
      <4>3. channel'[n][i] = r \/ (i \in 1..Len(channel[n]) /\ channel'[n][i] = channel[n][i])
        BY <3>1, <4>1, <4>2
      <4> QED BY <2>1, <2>2, <3>1, <4>3 DEF Provenance, ChannelComputed
    <3>2. CASE m # n
      BY <2>1, <3>2 DEF Provenance, ChannelComputed, OffchainTypeOK
    <3> QED BY <3>1, <3>2
  <2>5. ChannelComputed'
    BY <2>4 DEF ChannelComputed
  <2>6. ListenerComputed' /\ SlotComputed'
    BY <2>1 DEF Provenance, ListenerComputed, SlotComputed
  <2> QED BY <1>2, <2>1, <2>5, <2>6 DEF Provenance
<1>5. CASE ListenerRecv(n)
  <2> DEFINE r == Head(channel[n])
             l == [pc |-> "write", job |-> r.job, out |-> r.out, seen |-> slot[n][r.job]]
             Result == [job : Jobs, out : Outputs]
  <2>1. /\ channel[n] # <<>>
        /\ channel' = [channel EXCEPT ![n] = Tail(channel[n])]
        /\ listener' = [listener EXCEPT ![n] = l]
        /\ UNCHANGED <<slot, computed>>
    BY <1>5 DEF ListenerRecv, storeVars
  <2>2. channel \in [Nodes -> Seq(Result)] /\ listener \in [Nodes -> Listeners]
    BY DEF OffchainTypeOK
  <2>3. channel[n] \in Seq(Result)
    BY <2>2
  <2>4. r = channel[n][1] /\ 1 \in 1..Len(channel[n])
    <3> HIDE DEF Result
    <3> QED BY <2>1, <2>3
  <2>5. <<KeyOf[n], l.job, l.out>> \in computed
    BY <2>4 DEF Provenance, ChannelComputed
  <2> HIDE DEF l, Result
  <2>6. ListenerComputed'
    BY <2>1, <2>2, <2>5 DEF Provenance, ListenerComputed
  <2>7. ASSUME NEW m \in Nodes, NEW i \in 1..Len(channel'[m])
        PROVE  <<KeyOf[m], channel'[m][i].job, channel'[m][i].out>> \in computed'
    <3>1. CASE m = n
      <4>1. channel'[n] = Tail(channel[n])
        BY <2>1, <2>2
      <4>2. i + 1 \in 1..Len(channel[n]) /\ channel'[n][i] = channel[n][i + 1]
        <5> DEFINE c == channel[n]
        <5>1. c \in Seq(Result) /\ c # <<>> /\ i \in 1..Len(Tail(c)) /\ channel'[n] = Tail(c)
          BY <2>1, <2>3, <3>1, <4>1
        <5> HIDE DEF c
        <5>2. Len(Tail(c)) = Len(c) - 1 /\ Len(c) \in Nat
          BY <5>1
        <5>3. i + 1 \in 1..Len(c) /\ Tail(c)[i] = c[i + 1]
          BY <5>1, <5>2
        <5> QED BY <5>1, <5>3 DEF c
      <4> QED BY <2>1, <3>1, <4>2 DEF Provenance, ChannelComputed
    <3>2. CASE m # n
      BY <2>1, <2>2, <3>2 DEF Provenance, ChannelComputed
    <3> QED BY <3>1, <3>2
  <2>8. ChannelComputed'
    BY <2>7 DEF ChannelComputed
  <2>9. SlotComputed'
    BY <2>1 DEF Provenance, SlotComputed
  <2> QED BY <1>2, <2>1, <2>6, <2>8, <2>9 DEF Provenance
<1>6. CASE ListenerWrite(n)
  <2> DEFINE l == [IdleListener EXCEPT !.pc = "list", !.job = listener[n].job]
  <2>1. /\ listener[n].pc = "write"
        /\ \/ UNCHANGED slot
           \/ slot' = [slot EXCEPT ![n][listener[n].job] = listener[n].out]
        /\ listener' = [listener EXCEPT ![n] = l]
        /\ UNCHANGED <<channel, computed>>
    BY <1>6 DEF ListenerWrite
  <2>2. l.pc # "write"
    BY IdleTypes DEF IdleListener
  <2>3. listener[n].job \in Jobs /\ <<KeyOf[n], listener[n].job, listener[n].out>> \in computed
    BY <2>1 DEF PcInv, Provenance, ListenerComputed
  <2>4. SlotComputed'
    <3>1. slot \in [Nodes -> [Jobs -> SlotValues]]
      BY DEF OffchainTypeOK
    <3>2. \A m \in Nodes, j \in Jobs :
             \/ slot'[m][j] = slot[m][j]
             \/ m = n /\ j = listener[n].job /\ slot'[m][j] = listener[n].out
      BY <2>1, <2>3, <3>1
    <3> QED BY <2>1, <2>3, <3>2 DEF Provenance, SlotComputed
  <2> HIDE DEF l
  <2>5. ListenerComputed'
    BY <2>1, <2>2 DEF Provenance, ListenerComputed, OffchainTypeOK
  <2>6. ChannelComputed'
    BY <2>1 DEF Provenance, ChannelComputed
  <2> QED BY <1>2, <2>1, <2>4, <2>5, <2>6 DEF Provenance
<1> QED BY <1>3, <1>4, <1>5, <1>6 DEF Task, Listener

LEMMA CrashProvenance ==
    ASSUME OffchainTypeOK, Provenance, NEW n \in Nodes, Crash(n)
    PROVE  Provenance'
<1>1. /\ pool' = [pool EXCEPT ![n] = {}]
      /\ channel' = [channel EXCEPT ![n] = <<>>]
      /\ listener' = [listener EXCEPT ![n] = IdleListener]
      /\ UNCHANGED <<slot, results, computed>>
  BY DEF Crash, chainVars, storeVars
<1>2. ChannelComputed'
  BY <1>1 DEF Provenance, ChannelComputed, OffchainTypeOK
<1>3. ListenerComputed'
  BY <1>1 DEF Provenance, ListenerComputed, OffchainTypeOK, IdleListener
<1>4. PoolCovered'
  BY <1>1 DEF Provenance, PoolCovered, Covered, OffchainTypeOK
<1>5. SlotComputed' /\ PublishedWasComputed'
  BY <1>1 DEF Provenance, SlotComputed, PublishedWasComputed
<1> QED BY <1>2, <1>3, <1>4, <1>5 DEF Provenance

LEMMA SealProvenance == ASSUME OffchainTypeOK, Provenance, SealBlock PROVE Provenance'
<1>1. UNCHANGED <<channel, listener, slot, results, computed>>
  BY DEF SealBlock, NewBlock, storeVars, executorVars
<1>2. \A n \in Nodes : pool'[n] \subseteq pool[n]
  BY DEF SealBlock
<1>3. PoolCovered'
  BY <1>1, <1>2 DEF Provenance, PoolCovered, Covered
<1> QED BY <1>1, <1>3 DEF Provenance, ChannelComputed, ListenerComputed, SlotComputed,
          PublishedWasComputed

LEMMA IncludeProvenance ==
    ASSUME TypeOK, OffchainTypeOK, Provenance, NEW n \in Nodes, NEW tx \in pool[n], IncludeTx(n, tx)
    PROVE  Provenance'
<1>1. UNCHANGED <<channel, listener, slot, pool, computed>>
  BY DEF IncludeTx, storeVars, executorVars
<1>2. CASE tx.kind = "state"
  <2>1. UNCHANGED results
    BY <1>2 DEF IncludeTx, Apply, change_job_state
  <2> QED BY <1>1, <2>1, ProvenanceUnchanged DEF ProvenanceVars
<1>3. CASE tx.kind # "state"
  <2>1. tx \in ResultTx
    BY <1>3 DEF OffchainTypeOK, Tx, StateTx
  <2>2. <<tx.key, tx.job, tx.out>> \in Covered
    BY <2>1 DEF ResultTx, Provenance, PoolCovered
  <2>3. results' = [results EXCEPT ![tx.job][tx.key] = tx.out]
    BY <1>3 DEF IncludeTx, Apply, submit_result_unsiged
  <2>4. ASSUME NEW j \in Jobs, NEW p \in Processors, results'[j][p] # None
        PROVE  <<p, j, results'[j][p]>> \in Covered
    <3>1. CASE j = tx.job /\ p = tx.key
      BY <2>2, <2>3, <3>1 DEF TypeOK
    <3>2. CASE ~(j = tx.job /\ p = tx.key)
      <4>1. results'[j][p] = results[j][p]
        BY <2>3, <3>2 DEF TypeOK
      <4> QED BY <2>4, <4>1 DEF Provenance, PublishedWasComputed, Covered
    <3> QED BY <3>1, <3>2
  <2>5. PublishedWasComputed'
    BY <1>1, <2>4 DEF PublishedWasComputed, Covered
  <2> QED
    BY <1>1, <2>5
    DEF Provenance, ChannelComputed, ListenerComputed, SlotComputed, PoolCovered, Covered
<1> QED BY <1>2, <1>3

LEMMA CallProvenance == ASSUME Provenance, Call PROVE Provenance'
  BY ProvenanceUnchanged
  DEF Call, SignedCall, upload_wasm, request_script_execution, poolVars, storeVars, executorVars,
      ProvenanceVars

LEMMA ProvenanceStep == TInv /\ Provenance /\ [Next]_vars => Provenance'
<1> SUFFICES ASSUME TInv, Provenance, [Next]_vars PROVE Provenance'
  OBVIOUS
<1>1. TypeOK /\ OffchainTypeOK /\ PcInv
  BY DEF TInv, ChainInv
<1>2. CASE UNCHANGED vars
  BY <1>2, ProvenanceUnchanged
  DEF vars, chainVars, poolVars, storeVars, executorVars, ProvenanceVars
<1> QED
  BY <1>1, <1>2, CallProvenance, SealProvenance, IncludeProvenance, HookProvenance,
     ExecutorProvenance, CrashProvenance
  DEF Next, Node

LEMMA ProvenanceInvariant == Spec => []Provenance
  BY ProvenanceInit, TInvariant, ProvenanceStep, PTL DEF Spec

(* Whatever the nodes, hooks and pools do, in whatever order, a published  *)
(* result was computed by a task of a node with the key it is published    *)
(* under, or is a misread request (lines 246-274, 402-438; result_listener *)
(* of the executor).                                                       *)
THEOREM PublishedResultsWereComputed == Spec => []PublishedWasComputed
<1>1. Provenance => PublishedWasComputed
  BY DEF Provenance
<1> QED BY <1>1, ProvenanceInvariant, PTL

-----------------------------------------------------------------------------
(* Slots.  A slot that was written is never empty again, so a listener     *)
(* that loses the race for one leaves it full.                             *)

SlotsFull ==
    /\ ListedSlotsAreFull
    /\ \A n \in Nodes :
          \/ listener[n].pc = "recv"
          \/ listener[n].pc = "write" /\ listener[n].seen = None
          \/ slot[n][listener[n].job] # None

LEMMA SlotWriters ==
    ASSUME [Next]_vars
    PROVE  \/ UNCHANGED slot
           \/ \E n \in Nodes : ListenerWrite(n) \/ \E w \in Workers : HookPut(n, w)
<1>1. ASSUME NEW n \in Nodes, NEW w \in Workers, Hook(n, w), ~HookPut(n, w)
      PROVE  UNCHANGED slot
  BY <1>1 DEF Hook, HookReadKeys, HookReadResults, HookFindsNothing, HookFindsFinished,
       HookFindsPending, HookClaim, HookSubmit, HookEnds
<1>2. ASSUME NEW n \in Nodes, Node(n), ~\E w \in Workers : Hook(n, w), ~ListenerWrite(n)
      PROVE  UNCHANGED slot
  <2>1. (\E tx \in pool[n] : IncludeTx(n, tx)) \/ Crash(n) \/ StartExecutor(n) => UNCHANGED slot
    BY DEF IncludeTx, Crash, StartExecutor, storeVars
  <2>2. Monitor(n) \/ (\E j \in Jobs : Task(n, j)) => UNCHANGED slot
    BY DEF Monitor, MonitorRead, MonitorClear, MonitorCas, MonitorSpawn, Task, FailTask, RunTask,
         storeVars
  <2>3. Listener(n) => UNCHANGED slot
    BY <1>2 DEF Listener, ListenerRecv, ListenerList, storeVars
  <2> QED BY <1>2, <2>1, <2>2, <2>3 DEF Node
<1>3. UNCHANGED vars \/ Call \/ SealBlock => UNCHANGED slot
  BY DEF vars, Call, SealBlock, storeVars
<1> QED BY <1>1, <1>2, <1>3 DEF Next, Node

LEMMA SlotsStayFull ==
    ASSUME OffchainTypeOK, PcInv, [Next]_vars
    PROVE  \A n \in Nodes, j \in Jobs : slot[n][j] # None => slot'[n][j] # None
<1>1. ASSUME NEW n \in Nodes, NEW w \in Workers, HookPut(n, w)
      PROVE  \A m \in Nodes, j \in Jobs : slot[m][j] # None => slot'[m][j] # None
  <2>1. hook[n][w].job \in Jobs
    BY <1>1 DEF HookPut, PcInv
  <2> QED BY <1>1, <2>1, JobPipelineAssumption DEF HookPut, OffchainTypeOK
<1>2. ASSUME NEW n \in Nodes, ListenerWrite(n)
      PROVE  \A m \in Nodes, j \in Jobs : slot[m][j] # None => slot'[m][j] # None
  <2>1. listener[n].out # None /\ listener[n].job \in Jobs
    BY <1>2, WasmStoreAssumption DEF ListenerWrite, PcInv
  <2>2. UNCHANGED slot \/ slot' = [slot EXCEPT ![n][listener[n].job] = listener[n].out]
    BY <1>2 DEF ListenerWrite
  <2>3. slot \in [Nodes -> [Jobs -> SlotValues]]
    BY DEF OffchainTypeOK
  <2>4. \A m \in Nodes, j \in Jobs :
           slot'[m][j] = slot[m][j] \/ slot'[m][j] = listener[n].out
    BY <2>1, <2>2, <2>3
  <2> QED BY <2>1, <2>4
<1>3. CASE UNCHANGED slot
  BY <1>3
<1> QED BY <1>1, <1>2, <1>3, SlotWriters

LEMMA ListenersElsewhere ==
    ASSUME OffchainTypeOK, [Next]_vars, NEW n \in Nodes,
           ~ListenerRecv(n), ~ListenerWrite(n), ~ListenerList(n)
    PROVE  /\ listener'[n] = listener[n] \/ listener'[n] = IdleListener
           /\ resultList'[n] = resultList[n] \/ resultList'[n] = <<>>
<1>1. ASSUME NEW m \in Nodes, ListenerRecv(m) \/ ListenerWrite(m) \/ ListenerList(m)
      PROVE  listener'[n] = listener[n] /\ resultList'[n] = resultList[n]
  <2>1. m # n
    BY <1>1
  <2> QED BY <1>1, <2>1 DEF ListenerRecv, ListenerWrite, ListenerList, storeVars, OffchainTypeOK
<1>2. ASSUME NEW m \in Nodes, Crash(m) \/ StartExecutor(m)
      PROVE  /\ listener'[n] = listener[n] \/ listener'[n] = IdleListener
             /\ resultList'[n] = resultList[n] \/ resultList'[n] = <<>>
  BY <1>2 DEF Crash, StartExecutor, storeVars, executorVars, OffchainTypeOK
<1>3. ASSUME NEW m \in Nodes, Node(m), ~Listener(m), ~Crash(m), ~StartExecutor(m)
      PROVE  UNCHANGED <<listener, resultList>>
  <2>1. \A tx \in pool[m] : IncludeTx(m, tx) => UNCHANGED <<listener, resultList>>
    BY DEF IncludeTx, storeVars, executorVars
  <2>2. \A w \in Workers : Hook(m, w) => UNCHANGED <<listener, resultList>>
    BY DEF Hook, HookReadKeys, HookReadResults, HookFindsNothing, HookFindsFinished,
         HookFindsPending, HookClaim, HookPut, HookSubmit, HookEnds, unchangedByHook, executorVars
  <2>3. Monitor(m) \/ (\E j \in Jobs : Task(m, j)) => UNCHANGED <<listener, resultList>>
    BY DEF Monitor, MonitorRead, MonitorClear, MonitorCas, MonitorSpawn, Task, FailTask, RunTask,
         storeVars
  <2> QED BY <1>3, <2>1, <2>2, <2>3 DEF Node
<1>4. UNCHANGED vars \/ Call \/ SealBlock => UNCHANGED <<listener, resultList>>
  BY DEF vars, Call, SealBlock, storeVars, executorVars
<1> QED BY <1>1, <1>2, <1>3, <1>4 DEF Next, Listener

LEMMA SlotsFullStep == TInv /\ SlotsFull /\ [Next]_vars => SlotsFull'
<1> SUFFICES ASSUME TInv, SlotsFull, [Next]_vars, NEW n \in Nodes
             PROVE  /\ \A j \in Listed(n)' : slot'[n][j] # None
                    /\ \/ listener'[n].pc = "recv"
                       \/ listener'[n].pc = "write" /\ listener'[n].seen = None
                       \/ slot'[n][listener'[n].job] # None
  BY DEF SlotsFull, ListedSlotsAreFull
<1>1. OffchainTypeOK /\ PcInv
  BY DEF TInv
<1>2. /\ resultList \in [Nodes -> Seq(Jobs)] /\ listener \in [Nodes -> Listeners]
      /\ slot \in [Nodes -> [Jobs -> SlotValues]]
      /\ channel \in [Nodes -> Seq([job : Jobs, out : Outputs])]
  BY <1>1 DEF OffchainTypeOK
<1>3. \A j \in Jobs : slot[n][j] # None => slot'[n][j] # None
  BY <1>1, SlotsStayFull
<1>4. ASSUME NEW j \in Listed(n) PROVE j \in Jobs /\ slot'[n][j] # None
  BY <1>2, <1>3, <1>4 DEF Listed, SlotsFull, ListedSlotsAreFull
<1>5. CASE ListenerRecv(n)
  <2> DEFINE r == Head(channel[n])
             l == [pc |-> "write", job |-> r.job, out |-> r.out, seen |-> slot[n][r.job]]
             Result == [job : Jobs, out : Outputs]
  <2>1. /\ channel[n] # <<>> /\ listener' = [listener EXCEPT ![n] = l] /\ UNCHANGED <<slot, resultList>>
    BY <1>5 DEF ListenerRecv, storeVars
  <2>2. listener'[n] = l /\ l.pc = "write"
    BY <1>2, <2>1
  <2>3. l.seen = None \/ slot'[n][l.job] # None
    BY <2>1
  <2>4. Listed(n)' = Listed(n)
    BY <2>1 DEF Listed
  <2> HIDE DEF l
  <2> QED BY <1>4, <2>2, <2>3, <2>4
<1>6. CASE ListenerWrite(n)
  <2> DEFINE l == [IdleListener EXCEPT !.pc = "list", !.job = listener[n].job]
  <2>1. /\ listener[n].pc = "write" /\ listener' = [listener EXCEPT ![n] = l]
        /\ UNCHANGED resultList
        /\ slot' = IF listener[n].seen \in {None, slot[n][listener[n].job]}
                   THEN [slot EXCEPT ![n][listener[n].job] = listener[n].out] ELSE slot
    BY <1>6 DEF ListenerWrite
  <2>2. listener[n].job \in Jobs /\ listener[n].out # None
    BY <1>1, <2>1, WasmStoreAssumption DEF PcInv
  <2>3. l.job = listener[n].job
    BY IdleTypes DEF Listeners
  <2>4. listener'[n] = l
    BY <1>2, <2>1
  <2>5. slot'[n][listener[n].job] # None
    <3>1. CASE listener[n].seen \in {None, slot[n][listener[n].job]}
      BY <1>2, <2>1, <2>2, <3>1
    <3>2. CASE listener[n].seen \notin {None, slot[n][listener[n].job]}
      BY <2>1, <3>2 DEF SlotsFull
    <3> QED BY <3>1, <3>2
  <2>6. Listed(n)' = Listed(n)
    BY <2>1 DEF Listed
  <2> HIDE DEF l
  <2> QED BY <1>4, <2>3, <2>4, <2>5, <2>6
<1>7. CASE ListenerList(n)
  <2> DEFINE list == resultList[n]
             job == listener[n].job
  <2>1. /\ listener[n].pc = "list" /\ listener' = [listener EXCEPT ![n] = IdleListener]
        /\ resultList' = [resultList EXCEPT ![n] = Append(list, job)] /\ UNCHANGED slot
    BY <1>7 DEF ListenerList
  <2>2. job \in Jobs /\ slot'[n][job] # None
    BY <1>1, <2>1 DEF PcInv, SlotsFull
  <2>3. listener'[n].pc = "recv"
    BY <1>2, <2>1 DEF IdleListener
  <2>4. list \in Seq(Jobs) /\ resultList'[n] = Append(list, job)
    BY <1>2, <2>1
  <2>5. Listed(n) = {list[i] : i \in 1..Len(list)}
    BY DEF Listed
  <2>6. Listed(n)' = {Append(list, job)[i] : i \in 1..Len(Append(list, job))}
    BY <2>4 DEF Listed
  <2> HIDE DEF list, job
  <2>7. ASSUME NEW j \in Listed(n)' PROVE j \in Listed(n) \/ j = job
    BY <2>4, <2>5, <2>6
  <2> QED BY <1>4, <2>2, <2>3, <2>7
<1>8. CASE ~ListenerRecv(n) /\ ~ListenerWrite(n) /\ ~ListenerList(n)
  <2>1. /\ listener'[n] = listener[n] \/ listener'[n] = IdleListener
        /\ resultList'[n] = resultList[n] \/ resultList'[n] = <<>>
    BY <1>1, <1>8, ListenersElsewhere
  <2>2. Listed(n)' \subseteq Listed(n)
    BY <2>1 DEF Listed
  <2>3. IdleListener.pc = "recv"
    BY DEF IdleListener
  <2>4. listener[n].pc # "recv" => listener[n].job \in Jobs
    BY <1>1 DEF PcInv
  <2> QED BY <1>3, <1>4, <2>1, <2>2, <2>3, <2>4 DEF SlotsFull
<1> QED BY <1>5, <1>6, <1>7, <1>8

(* The hook always finds something in the slot of a listed result (lines   *)
(* 250-251), also after lost races and restarts.                           *)
THEOREM ListedResultsHaveSlots == Spec => []ListedSlotsAreFull
<1>1. Init => SlotsFull
  BY DEF Init, SlotsFull, ListedSlotsAreFull, Listed, IdleListener
<1>2. SlotsFull => ListedSlotsAreFull
  BY DEF SlotsFull
<1> QED BY <1>1, <1>2, TInvariant, SlotsFullStep, PTL DEF Spec

-----------------------------------------------------------------------------
(* The key list.                                                           *)

FreshKeys(n) ==
    \/ keyList'[n] \in {keyList[n], <<>>}
    \/ \E j \in Jobs : keyList'[n] = Append(keyList[n], j)

KeysStayFresh ==
    \A n \in Nodes :
       \/ keyList'[n] \in {keyList[n], <<>>}
       \/ \E j \in Jobs : keyList'[n] = Append(keyList[n], j)

LEMMA KeyListStep == OffchainTypeOK /\ PcInv /\ [Next]_vars => \A n \in Nodes : FreshKeys(n)
<1> SUFFICES ASSUME OffchainTypeOK, PcInv, [Next]_vars PROVE \A n \in Nodes : FreshKeys(n)
  OBVIOUS
<1>1. keyList \in [Nodes -> Seq(Jobs)]
  BY DEF OffchainTypeOK
<1>2. ASSUME NEW m \in Nodes, NEW l,
             UNCHANGED keyList \/ keyList' = [keyList EXCEPT ![m] = l],
             l = <<>> \/ \E j \in Jobs : l = Append(keyList[m], j)
      PROVE  \A n \in Nodes : FreshKeys(n)
  <2>1. \A n \in Nodes : keyList'[n] = keyList[n] \/ (n = m /\ keyList'[n] = l)
    BY <1>1, <1>2
  <2> QED BY <1>2, <2>1 DEF FreshKeys
<1>3. UNCHANGED keyList => \A n \in Nodes : FreshKeys(n)
  BY DEF FreshKeys
<1>4. ASSUME NEW m \in Nodes, NEW w \in Workers, Hook(m, w) PROVE \A n \in Nodes : FreshKeys(n)
  <2>1. CASE HookClaim(m, w)
    <3>1. hook[m][w].job \in Jobs
      BY <2>1 DEF HookClaim, PcInv
    <3>2. CASE keyList[m] = hook[m][w].keys
      <4>1. keyList' = [keyList EXCEPT ![m] = Append(keyList[m], hook[m][w].job)]
        BY <2>1, <3>2 DEF HookClaim
      <4> QED BY <1>2, <3>1, <4>1
    <3>3. CASE keyList[m] # hook[m][w].keys
      BY <1>3, <2>1, <3>3 DEF HookClaim
    <3> QED BY <3>2, <3>3
  <2>2. CASE ~HookClaim(m, w)
    BY <1>3, <1>4, <2>2
    DEF Hook, HookReadKeys, HookReadResults, HookFindsNothing, HookFindsFinished,
        HookFindsPending, HookPut, HookSubmit, HookEnds
  <2> QED BY <2>1, <2>2
<1>5. ASSUME NEW m \in Nodes, Node(m), ~\E w \in Workers : Hook(m, w)
      PROVE  \A n \in Nodes : FreshKeys(n)
  <2>1. CASE StartExecutor(m)
    <3>1. keyList' = [keyList EXCEPT ![m] = <<>>]
      BY <2>1 DEF StartExecutor
    <3> QED BY <1>2, <3>1
  <2>2. CASE MonitorCas(m)
    <3>1. UNCHANGED keyList \/ keyList' = [keyList EXCEPT ![m] = <<>>]
      BY <2>2 DEF MonitorCas
    <3> QED BY <1>2, <3>1
  <2>3. (\E tx \in pool[m] : IncludeTx(m, tx)) \/ Crash(m) => UNCHANGED keyList
    BY DEF IncludeTx, Crash, storeVars
  <2>4. MonitorRead(m) \/ MonitorClear(m) \/ MonitorSpawn(m) => UNCHANGED keyList
    BY DEF MonitorRead, MonitorClear, MonitorSpawn, storeVars
  <2>5. (\E j \in Jobs : Task(m, j)) \/ Listener(m) => UNCHANGED keyList
    BY DEF Task, FailTask, RunTask, Listener, ListenerRecv, ListenerWrite, ListenerList, storeVars
  <2> QED BY <1>3, <1>5, <2>1, <2>2, <2>3, <2>4, <2>5 DEF Node, Monitor
<1>6. UNCHANGED vars \/ Call \/ SealBlock => UNCHANGED keyList
  BY DEF vars, Call, SealBlock, storeVars
<1> QED BY <1>3, <1>4, <1>5, <1>6 DEF Next

(* No hook and no monitor writes the key list from a copy that another of  *)
(* them has overtaken (line 210, and write_to_offchain_db of the executor).*)
THEOREM KeyListIsUpdatedFresh == Spec => KeyListStepsAreFresh
<1>1. TInv /\ [Next]_vars => [KeysStayFresh]_vars
  BY KeyListStep DEF TInv, FreshKeys, KeysStayFresh
<1> QED BY <1>1, TInvariant, PTL DEF Spec, KeyListStepsAreFresh, KeysStayFresh

-----------------------------------------------------------------------------
(* Results on their way to the list.                                       *)

\* Wherever n's results were, they still are, or have been listed.
NoneDropped(n) == \A j \in Jobs : OnItsWay(n, j) => OnItsWay(n, j)' \/ j \in Listed(n)'

DropStep ==
    \A n \in Nodes, j \in Jobs :
       OnItsWay(n, j) => OnItsWay(n, j)' \/ j \in Listed(n)' \/ crashes' # crashes

\* What comes out of a channel is its head; the others move up.
LEMMA HeadOrTail ==
    ASSUME NEW S, NEW s \in Seq(S), s # <<>>, NEW i \in 1..Len(s)
    PROVE  s[i] = Head(s) \/ \E k \in 1..Len(Tail(s)) : Tail(s)[k] = s[i]
<1>1. CASE i = 1
  BY <1>1
<1>2. CASE i # 1
  <2>1. i - 1 \in 1..Len(Tail(s)) /\ Tail(s)[i - 1] = s[i]
    BY <1>2
  <2> QED BY <2>1
<1> QED BY <1>1, <1>2

LEMMA ListenerDropsNone ==
    ASSUME OffchainTypeOK, NEW n \in Nodes, Listener(n)
    PROVE  NoneDropped(n)
<1> DEFINE Result == [job : Jobs, out : Outputs]
           l == listener[n]
<1>1. /\ channel \in [Nodes -> Seq(Result)] /\ listener \in [Nodes -> Listeners]
      /\ resultList \in [Nodes -> Seq(Jobs)]
  BY DEF OffchainTypeOK
<1> SUFFICES ASSUME NEW j \in Jobs, OnItsWay(n, j) PROVE OnItsWay(n, j)' \/ j \in Listed(n)'
  BY DEF NoneDropped
<1>2. CASE ListenerRecv(n)
  <2>1. l.pc = "recv" /\ channel[n] # <<>> /\ channel[n] \in Seq(Result)
    BY <1>1, <1>2 DEF ListenerRecv
  <2>2. PICK i \in 1..Len(channel[n]) : channel[n][i].job = j
    BY <2>1 DEF OnItsWay
  <2>3. channel'[n] = Tail(channel[n])
    BY <1>1, <1>2 DEF ListenerRecv
  <2>4. listener'[n].pc = "write" /\ listener'[n].job = Head(channel[n]).job
    BY <1>1, <1>2 DEF ListenerRecv
  <2>5. \/ channel[n][i] = Head(channel[n])
        \/ \E k \in 1..Len(Tail(channel[n])) : Tail(channel[n])[k] = channel[n][i]
    BY <2>1, HeadOrTail
  <2> QED BY <2>2, <2>3, <2>4, <2>5 DEF OnItsWay
<1>3. CASE ListenerWrite(n)
  <2>1. UNCHANGED channel
    BY <1>3 DEF ListenerWrite
  <2>2. l \in Listeners /\ l.pc = "write"
    BY <1>1, <1>3 DEF ListenerWrite
  <2>3. listener'[n] = [IdleListener EXCEPT !.pc = "list", !.job = l.job]
    BY <1>1, <1>3 DEF ListenerWrite
  <2>4. listener'[n].pc = "list" /\ listener'[n].job = l.job
    BY <2>3 DEF IdleListener
  <2> QED BY <2>1, <2>2, <2>4 DEF OnItsWay
<1>4. CASE ListenerList(n)
  <2>1. UNCHANGED channel
    BY <1>4 DEF ListenerList
  <2>2. l.pc = "list" /\ resultList'[n] = Append(resultList[n], l.job)
    BY <1>1, <1>4 DEF ListenerList
  <2>3. CASE l.job = j
    <3> DEFINE list == resultList[n]
    <3>1. list \in Seq(Jobs) /\ resultList'[n] = Append(list, j)
      BY <1>1, <2>2, <2>3
    <3> HIDE DEF list
    <3>2. Len(list) + 1 \in 1..Len(resultList'[n]) /\ resultList'[n][Len(list) + 1] = j
      BY <3>1
    <3> QED BY <3>2 DEF Listed
  <2>4. CASE l.job # j
    BY <2>1, <2>4 DEF OnItsWay
  <2> QED BY <2>3, <2>4
<1> QED BY <1>2, <1>3, <1>4 DEF Listener

LEMMA TaskDropsNone ==
    ASSUME OffchainTypeOK, NEW n \in Nodes, NEW m \in Nodes, NEW i \in Jobs, Task(m, i)
    PROVE  NoneDropped(n)
<1> DEFINE Result == [job : Jobs, out : Outputs]
<1>1. channel \in [Nodes -> Seq(Result)] /\ UNCHANGED listener
  BY DEF OffchainTypeOK, Task, FailTask, RunTask
<1>2. channel'[n] = channel[n] \/ \E r \in Result : channel'[n] = Append(channel[n], r)
  <2>1. CASE FailTask(m, i)
    BY <2>1 DEF FailTask
  <2>2. ASSUME NEW out \in Outputs, RunTask(m, i, out)
        PROVE  channel'[n] = channel[n] \/ \E r \in Result : channel'[n] = Append(channel[n], r)
    <3>1. [job |-> i, out |-> out] \in Result
      OBVIOUS
    <3>2. channel' = [channel EXCEPT ![m] = Append(channel[m], [job |-> i, out |-> out])]
      BY <2>2 DEF RunTask
    <3>3. channel'[n] = channel[n] \/ channel'[n] = Append(channel[n], [job |-> i, out |-> out])
      BY <1>1, <3>2
    <3> QED BY <3>1, <3>3
  <2> QED BY <2>1, <2>2 DEF Task
<1>3. \A k \in 1..Len(channel[n]) :
         k \in 1..Len(channel'[n]) /\ channel'[n][k] = channel[n][k]
  <2>1. channel[n] \in Seq(Result)
    BY <1>1
  <2> QED BY <1>2, <2>1
<1> QED BY <1>1, <1>3 DEF NoneDropped, OnItsWay

LEMMA DropStepHolds == OffchainTypeOK /\ [Next]_vars => DropStep
<1> SUFFICES ASSUME OffchainTypeOK, [Next]_vars, NEW n \in Nodes
             PROVE  NoneDropped(n) \/ crashes' # crashes
  BY DEF DropStep, NoneDropped
<1>1. channel'[n] = channel[n] /\ listener'[n] = listener[n] => NoneDropped(n)
  BY DEF NoneDropped, OnItsWay
<1>2. ASSUME NEW m \in Nodes, Listener(m) PROVE NoneDropped(n)
  <2>1. CASE m = n
    BY <1>2, <2>1, ListenerDropsNone
  <2>2. CASE m # n
    <3>1. channel'[n] = channel[n] /\ listener'[n] = listener[n]
      BY <1>2, <2>2 DEF Listener, ListenerRecv, ListenerWrite, ListenerList, OffchainTypeOK
    <3> QED BY <1>1, <3>1
  <2> QED BY <2>1, <2>2
<1>3. ASSUME NEW m \in Nodes, Crash(m) PROVE crashes' # crashes
  <2>1. crashes \in Nat /\ crashes' = crashes + 1
    BY <1>3, JobPipelineAssumption DEF Crash, OffchainTypeOK
  <2> QED BY <2>1
<1>4. ASSUME NEW m \in Nodes, Node(m), ~Listener(m), ~Crash(m), ~\E i \in Jobs : Task(m, i)
      PROVE  UNCHANGED <<channel, listener>>
  <2>1. \A tx \in pool[m] : IncludeTx(m, tx) => UNCHANGED <<channel, listener>>
    BY DEF IncludeTx, executorVars
  <2>2. \A w \in Workers : Hook(m, w) => UNCHANGED <<channel, listener>>
    BY DEF Hook, HookReadKeys, HookReadResults, HookFindsNothing, HookFindsFinished,
         HookFindsPending, HookClaim, HookPut, HookSubmit, HookEnds, unchangedByHook, executorVars
  <2>3. Monitor(m) \/ StartExecutor(m) => UNCHANGED <<channel, listener>>
    BY DEF Monitor, MonitorRead, MonitorClear, MonitorCas, MonitorSpawn, StartExecutor,
         executorVars
  <2> QED BY <1>4, <2>1, <2>2, <2>3 DEF Node
<1>5. UNCHANGED vars \/ Call \/ SealBlock => UNCHANGED <<channel, listener>>
  BY DEF vars, Call, SealBlock, executorVars
<1> QED BY <1>1, <1>2, <1>3, <1>4, <1>5, TaskDropsNone DEF Next

(* A result that a task sent is only ever lost to a crash: it is in the    *)
(* channel or in the listener's hand until its job is listed, also when    *)
(* the listener loses the race for the slot (scripts_exec_manager.rs:      *)
(* 73-104).                                                                *)
THEOREM ResultsReachTheList == Spec => ResultsAreNotDropped
<1>1. TInv /\ [Next]_vars => [DropStep]_vars
  BY DropStepHolds DEF TInv
<1> QED BY <1>1, TInvariant, PTL DEF Spec, ResultsAreNotDropped, DropStep

-----------------------------------------------------------------------------
(* Jobs that nobody moves.                                                 *)

Scanning == {"start", "results", "scan"}

\* h follows g without a new view to scan.
NoNewView(g, h) == h.pc \in Scanning => g.pc \in Scanning /\ h.view = g.view

LEMMA HookViews ==
    ASSUME OffchainTypeOK, NEW n \in Nodes, NEW w \in Workers, Hook(n, w)
    PROVE  \A m \in Nodes, v \in Workers : NoNewView(hook[m][v], hook'[m][v])
<1> DEFINE h == hook[n][w]
<1>1. h \in Hooks /\ hook \in [Nodes -> [Workers -> Hooks]]
  BY DEF OffchainTypeOK
<1>2. ASSUME NEW g, Becomes(n, w, g), NoNewView(h, g)
      PROVE  \A m \in Nodes, v \in Workers : NoNewView(hook[m][v], hook'[m][v])
  <2>1. \A m \in Nodes, v \in Workers :
           hook'[m][v] = hook[m][v] \/ (hook[m][v] = h /\ hook'[m][v] = g)
    BY <1>1, <1>2 DEF Becomes
  <2> HIDE DEF h
  <2> QED BY <1>2, <2>1 DEF NoNewView
<1>3. NoNewView(h, IdleHook)
  BY DEF NoNewView, IdleHook, Scanning
<1>4. CASE HookReadKeys(n, w)
  <2> DEFINE g == [h EXCEPT !.pc = "results", !.keys = keyList[n]]
  <2>1. h.pc = "start" /\ (Becomes(n, w, g) \/ Becomes(n, w, IdleHook))
    BY <1>4 DEF HookReadKeys
  <2>2. NoNewView(h, g)
    BY <1>1, <2>1 DEF NoNewView, Scanning, Hooks
  <2> QED BY <1>2, <1>3, <2>1, <2>2
<1>5. CASE HookReadResults(n, w)
  <2> DEFINE g == [h EXCEPT !.pc = "scan", !.list = resultList[n]]
  <2>1. h.pc = "results" /\ Becomes(n, w, g)
    BY <1>5 DEF HookReadResults
  <2>2. NoNewView(h, g)
    BY <1>1, <2>1 DEF NoNewView, Scanning, Hooks
  <2> QED BY <1>2, <2>1, <2>2
<1>6. CASE HookFindsNothing(n, w) \/ HookEnds(n, w)
  BY <1>2, <1>3, <1>6 DEF HookFindsNothing, HookEnds
<1>7. CASE HookFindsFinished(n, w)
  <2> DEFINE g == [IdleHook EXCEPT !.pc = "submit", !.at = h.at, !.list = h.list]
  <2>1. Becomes(n, w, g)
    BY <1>7 DEF HookFindsFinished
  <2>2. NoNewView(h, g)
    BY IdleTypes DEF NoNewView, Scanning, Hooks
  <2> QED BY <1>2, <2>1, <2>2
<1>8. CASE HookFindsPending(n, w)
  <2>1. PICK j \in Jobs, sent \in BOOLEAN :
          Becomes(n, w, [h EXCEPT !.pc = "claim", !.view = NoView, !.job = j, !.sent = sent])
    BY <1>8 DEF HookFindsPending
  <2> DEFINE g == [h EXCEPT !.pc = "claim", !.view = NoView, !.job = j, !.sent = sent]
  <2>2. NoNewView(h, g)
    BY <1>1 DEF NoNewView, Scanning, Hooks
  <2> QED BY <1>2, <2>1, <2>2
<1>9. CASE HookClaim(n, w)
  <2> DEFINE g == [h EXCEPT !.pc = "put", !.keys = <<>>]
  <2>1. Becomes(n, w, g)
    BY <1>9 DEF HookClaim
  <2>2. NoNewView(h, g)
    BY <1>1 DEF NoNewView, Scanning, Hooks
  <2> QED BY <1>2, <2>1, <2>2
<1>10. CASE HookPut(n, w)
  <2> DEFINE g == [h EXCEPT !.pc = "submit", !.job = None, !.sent = FALSE]
  <2>1. Becomes(n, w, g)
    BY <1>10 DEF HookPut
  <2>2. NoNewView(h, g)
    BY <1>1 DEF NoNewView, Scanning, Hooks
  <2> QED BY <1>2, <2>1, <2>2
<1>11. CASE HookSubmit(n, w)
  <2> DEFINE g == [h EXCEPT !.list = Tail(h.list)]
             t == [IdleHook EXCEPT !.pc = "trap"]
  <2>1. h.pc = "submit" /\ (Becomes(n, w, g) \/ Becomes(n, w, t))
    BY <1>11 DEF HookSubmit
  <2>2. NoNewView(h, g)
    BY <1>1, <2>1 DEF NoNewView, Scanning, Hooks
  <2>3. NoNewView(h, t)
    BY IdleTypes DEF NoNewView, Scanning, Hooks
  <2> QED BY <1>2, <2>1, <2>2, <2>3
<1> QED BY <1>4, <1>5, <1>6, <1>7, <1>8, <1>9, <1>10, <1>11 DEF Hook

\* A hook only sends change_job_state for a job it was about to send it for.
LEMMA HookSends ==
    ASSUME OffchainTypeOK, NEW n \in Nodes, NEW w \in Workers, Hook(n, w), NEW j \in Jobs,
           StatePooled(j)'
    PROVE  StatePooled(j) \/ AboutToSend(n, w, j)
<1>1. pool \in [Nodes -> SUBSET Tx]
  BY DEF OffchainTypeOK
<1>2. ASSUME NEW tx, Accepted(n, tx) \/ Rejected(n, tx)
      PROVE  StatePooled(j) \/ (tx.kind = "state" /\ tx.job = j)
  <2>1. \A m \in Nodes : pool'[m] \subseteq pool[m] \cup {tx}
    BY <1>1, <1>2 DEF Accepted, Rejected
  <2> QED BY <2>1 DEF StatePooled
<1>3. CASE HookFindsPending(n, w)
  <2>1. PICK k \in Jobs, sent \in BOOLEAN :
          /\ IsFirst(hook[n][w].view, k) /\ hook[n][w].view[k] = "Pending"
          /\ LET tx == [kind |-> "state", bn |-> hook[n][w].at, job |-> k] IN
             IF sent THEN Accepted(n, tx) ELSE Rejected(n, tx)
    BY <1>3 DEF HookFindsPending
  <2> DEFINE tx == [kind |-> "state", bn |-> hook[n][w].at, job |-> k]
  <2>2. tx.job = k /\ (Accepted(n, tx) \/ Rejected(n, tx))
    BY <2>1
  <2>3. hook[n][w].pc = "scan"
    BY <1>3 DEF HookFindsPending
  <2> HIDE DEF tx
  <2>4. StatePooled(j) \/ k = j
    BY <1>2, <2>2
  <2> QED BY <2>1, <2>3, <2>4 DEF AboutToSend
<1>4. CASE HookSubmit(n, w)
  <2> DEFINE response == Response(n, hook[n][w].at, Head(hook[n][w].list))
  <2>1. UNCHANGED pool \/ \E tx \in response : Accepted(n, tx) \/ Rejected(n, tx)
    BY <1>4 DEF HookSubmit
  <2>2. \A tx \in response : tx.kind = "result"
    BY DEF Response
  <2>3. CASE UNCHANGED pool
    BY <2>3 DEF StatePooled
  <2> HIDE DEF response
  <2> QED BY <1>2, <2>1, <2>2, <2>3
<1>5. CASE ~HookFindsPending(n, w) /\ ~HookSubmit(n, w)
  <2>1. UNCHANGED pool
    BY <1>5 DEF Hook, HookReadKeys, HookReadResults, HookFindsNothing, HookFindsFinished,
         HookClaim, HookPut, HookEnds
  <2> QED BY <2>1 DEF StatePooled
<1> QED BY <1>3, <1>4, <1>5

NotNext(j) == jobs[j] # "absent" /\ ~(jobs[j] = "Pending" /\ IsFirst(jobs, j))

LEMMA NobodyMovesStep ==
    ASSUME TInv, [Next]_vars, NEW j \in Jobs, NobodyMoves(j), NotNext(j)
    PROVE  NobodyMoves(j)' /\ jobs'[j] = jobs[j]
<1>1. TypeOK /\ OffchainTypeOK /\ PcInv
  BY DEF TInv, ChainInv
<1>2. CASE Call
  <2>1. UNCHANGED <<pool, hook>>
    BY <1>2 DEF Call, poolVars
  <2>2. jobs'[j] = jobs[j]
    BY <1>1, <1>2 DEF Call, SignedCall, request_script_execution, upload_wasm, NotNext, TypeOK
  <2> QED BY <2>1, <2>2 DEF NobodyMoves, StatePooled, AboutToSend
<1>3. CASE SealBlock
  <2>1. jobs' = jobs /\ \A n \in Nodes : pool'[n] \subseteq pool[n]
    BY <1>3 DEF SealBlock, NewBlock
  <2>2. ASSUME NEW n \in Nodes, NEW w \in Workers PROVE ~AboutToSend(n, w, j)'
    <3> DEFINE g == [IdleHook EXCEPT !.pc = "start", !.at = block, !.view = jobs]
    <3>1. hook'[n][w] = g \/ hook'[n][w] = hook[n][w]
      BY <1>3 DEF SealBlock
    <3>2. g.view = jobs
      BY IdleTypes DEF Hooks
    <3> HIDE DEF g
    <3> QED BY <3>1, <3>2 DEF AboutToSend, NobodyMoves, NotNext
  <2> QED BY <2>1, <2>2 DEF NobodyMoves, StatePooled
<1>4. ASSUME NEW n \in Nodes, NEW tx \in pool[n], IncludeTx(n, tx)
      PROVE  NobodyMoves(j)' /\ jobs'[j] = jobs[j]
  <2>1. UNCHANGED <<pool, hook>>
    BY <1>4 DEF IncludeTx
  <2>2. CASE tx.kind = "state"
    <3>1. tx.job # j
      BY <2>2 DEF NobodyMoves, StatePooled
    <3>2. jobs' = [jobs EXCEPT ![tx.job] = Advance(@)]
      BY <1>4, <2>2 DEF IncludeTx, Apply, change_job_state
    <3> QED BY <1>1, <2>1, <3>1, <3>2 DEF TypeOK, NobodyMoves, StatePooled, AboutToSend
  <2>3. CASE tx.kind # "state"
    <3>1. UNCHANGED jobs
      BY <1>4, <2>3 DEF IncludeTx, Apply, submit_result_unsiged
    <3> QED BY <2>1, <3>1 DEF NobodyMoves, StatePooled, AboutToSend
  <2> QED BY <2>2, <2>3
<1>5. ASSUME NEW n \in Nodes, NEW w \in Workers, Hook(n, w)
      PROVE  NobodyMoves(j)' /\ jobs'[j] = jobs[j]
  <2>1. UNCHANGED jobs
    BY <1>5 DEF Hook, HookReadKeys, HookReadResults, HookFindsNothing, HookFindsFinished,
         HookFindsPending, HookClaim, HookPut, HookSubmit, HookEnds, unchangedByHook, chainVars
  <2>2. ~StatePooled(j)'
    BY <1>1, <1>5, HookSends DEF NobodyMoves
  <2>3. \A m \in Nodes, v \in Workers : NoNewView(hook[m][v], hook'[m][v])
    BY <1>1, <1>5, HookViews
  <2>4. \A m \in Nodes, v \in Workers : ~AboutToSend(m, v, j)'
    BY <2>3 DEF NoNewView, NobodyMoves, AboutToSend, Scanning
  <2> QED BY <2>1, <2>2, <2>4 DEF NobodyMoves
<1>6. ASSUME NEW n \in Nodes, Crash(n)
      PROVE  NobodyMoves(j)' /\ jobs'[j] = jobs[j]
  <2>1. /\ jobs' = jobs /\ \A m \in Nodes : pool'[m] \subseteq pool[m]
        /\ \A m \in Nodes, w \in Workers : hook'[m][w] = hook[m][w] \/ hook'[m][w] = IdleHook
    BY <1>1, <1>6 DEF Crash, chainVars, OffchainTypeOK
  <2>2. IdleHook.pc \notin Scanning
    BY DEF IdleHook, Scanning
  <2>3. ~StatePooled(j)'
    BY <2>1 DEF StatePooled, NobodyMoves
  <2>4. \A m \in Nodes, w \in Workers : ~AboutToSend(m, w, j)'
    BY <2>1, <2>2 DEF AboutToSend, NobodyMoves, Scanning
  <2> QED BY <2>1, <2>3, <2>4 DEF NobodyMoves
<1>7. ASSUME NEW n \in Nodes,
             StartExecutor(n) \/ Monitor(n) \/ (\E k \in Jobs : Task(n, k)) \/ Listener(n)
      PROVE  UNCHANGED <<jobs, pool, hook>>
  BY <1>7 DEF StartExecutor, Monitor, MonitorRead, MonitorClear, MonitorCas, MonitorSpawn, Task,
       RunTask, FailTask, Listener, ListenerRecv, ListenerWrite, ListenerList,
       unchangedByExecutor, chainVars, poolVars
<1>8. UNCHANGED vars => UNCHANGED <<jobs, pool, hook>>
  BY DEF vars, chainVars, poolVars
<1>9. CASE UNCHANGED <<jobs, pool, hook>>
  BY <1>9 DEF NobodyMoves, StatePooled, AboutToSend
<1> QED BY <1>2, <1>3, <1>4, <1>5, <1>6, <1>7, <1>8, <1>9 DEF Next, Node

AbandonedStay == \A j \in Jobs : Abandoned(j) => Abandoned(j)'

(* Once no pool and no hook holds a change_job_state of a job that is      *)
(* being processed, the job never finishes, and no result of it is ever    *)
(* accepted (lines 621-657, 389-397, 413).                                 *)
THEOREM AbandonedJobsStay == Spec => AbandonedForever
<1>1. TInv /\ [Next]_vars => [AbandonedStay]_vars
  BY NobodyMovesStep DEF AbandonedStay, Abandoned, NotNext
<1> QED BY <1>1, TInvariant, PTL DEF Spec, AbandonedForever, AbandonedStay

ShadowedStay == \A j \in Jobs : Shadowed(j) => Shadowed(j)'

(* A pending job behind a finished one in the iteration order is never     *)
(* claimed (lines 619-659).                                                *)
THEOREM ShadowedJobsStay == Spec => ShadowedForever
<1>1. TInv /\ [Next]_vars => ShadowedStay
  <2> SUFFICES ASSUME TInv, [Next]_vars, NEW j \in Jobs, Shadowed(j) PROVE Shadowed(j)'
    BY DEF ShadowedStay
  <2>1. PICK i \in Jobs : jobs[i] = "Finish" /\ Rank[i] < Rank[j]
    BY DEF Shadowed
  <2>2. ~IsFirst(jobs, j)
    BY <2>1, JobPipelineAssumption DEF IsFirst, Live
  <2>3. NobodyMoves(j)' /\ jobs'[j] = "Pending"
    BY <2>2, NobodyMovesStep DEF Shadowed, NotNext
  <2>4. TypeOK /\ OffchainTypeOK
    BY DEF TInv, ChainInv
  <2>5. jobs'[i] = "Finish"
    BY <2>1, <2>4, StepOnChain, ChainStepForward DEF StepMovesForward, Forward, chainVars
  <2> QED BY <2>1, <2>3, <2>5 DEF Shadowed
<1>2. TInv /\ [Next]_vars => [ShadowedStay]_vars
  BY <1>1
<1> QED BY <1>2, TInvariant, PTL DEF Spec, ShadowedForever, ShadowedStay

-----------------------------------------------------------------------------
(* Work that a node has let go of.                                         *)

\* A hook only claims a job it was about to send.
LEMMA HookClaims ==
    ASSUME OffchainTypeOK, NEW n \in Nodes, NEW w \in Workers, Hook(n, w), NEW j \in Jobs,
           NEW m \in Nodes, NEW v \in Workers, hook'[m][v].pc = "claim", hook'[m][v].job = j
    PROVE  AboutToSend(m, v, j) \/ (hook[m][v].pc = "claim" /\ hook[m][v].job = j)
<1> DEFINE h == hook[n][w]
<1>1. h \in Hooks /\ hook \in [Nodes -> [Workers -> Hooks]]
  BY DEF OffchainTypeOK
<1>2. ASSUME NEW g, Becomes(n, w, g)
      PROVE  hook'[m][v] = hook[m][v] \/ (m = n /\ v = w /\ hook'[m][v] = g)
  BY <1>1, <1>2 DEF Becomes
<1>3. CASE HookFindsPending(n, w)
  <2>1. PICK k \in Jobs, sent \in BOOLEAN :
          /\ IsFirst(h.view, k) /\ h.view[k] = "Pending"
          /\ Becomes(n, w, [h EXCEPT !.pc = "claim", !.view = NoView, !.job = k, !.sent = sent])
    BY <1>3 DEF HookFindsPending
  <2> DEFINE g == [h EXCEPT !.pc = "claim", !.view = NoView, !.job = k, !.sent = sent]
  <2>2. g.job = k
    BY <1>1 DEF Hooks
  <2>3. Becomes(n, w, g) /\ h.pc = "scan"
    BY <1>3, <2>1 DEF HookFindsPending
  <2> HIDE DEF g
  <2>4. CASE hook'[m][v] = hook[m][v]
    BY <2>4
  <2>5. CASE m = n /\ v = w /\ hook'[m][v] = g
    BY <2>1, <2>2, <2>3, <2>5 DEF AboutToSend
  <2> QED BY <1>2, <2>3, <2>4, <2>5
<1>4. CASE ~HookFindsPending(n, w)
  <2>1. \E g : Becomes(n, w, g) /\ g.pc # "claim"
    <3>1. IdleHook.pc # "claim"
      BY DEF IdleHook
    <3>2. CASE HookReadKeys(n, w)
      <4> DEFINE g == [h EXCEPT !.pc = "results", !.keys = keyList[n]]
      <4>1. g.pc # "claim"
        BY <1>1 DEF Hooks
      <4> QED BY <3>1, <3>2, <4>1 DEF HookReadKeys
    <3>3. CASE HookReadResults(n, w)
      <4> DEFINE g == [h EXCEPT !.pc = "scan", !.list = resultList[n]]
      <4>1. g.pc # "claim"
        BY <1>1 DEF Hooks
      <4> QED BY <3>3, <4>1 DEF HookReadResults
    <3>4. CASE HookFindsNothing(n, w) \/ HookEnds(n, w)
      BY <3>1, <3>4 DEF HookFindsNothing, HookEnds
    <3>5. CASE HookFindsFinished(n, w)
      <4> DEFINE g == [IdleHook EXCEPT !.pc = "submit", !.at = h.at, !.list = h.list]
      <4>1. g.pc # "claim"
        BY IdleTypes DEF Hooks
      <4> QED BY <3>5, <4>1 DEF HookFindsFinished
    <3>6. CASE HookClaim(n, w)
      <4> DEFINE g == [h EXCEPT !.pc = "put", !.keys = <<>>]
      <4>1. g.pc # "claim"
        BY <1>1 DEF Hooks
      <4> QED BY <3>6, <4>1 DEF HookClaim
    <3>7. CASE HookPut(n, w)
      <4> DEFINE g == [h EXCEPT !.pc = "submit", !.job = None, !.sent = FALSE]
      <4>1. g.pc # "claim"
        BY <1>1 DEF Hooks
      <4> QED BY <3>7, <4>1 DEF HookPut
    <3>8. CASE HookSubmit(n, w)
      <4> DEFINE g == [h EXCEPT !.list = Tail(h.list)]
                 t == [IdleHook EXCEPT !.pc = "trap"]
      <4>1. h.pc = "submit" /\ (Becomes(n, w, g) \/ Becomes(n, w, t))
        BY <3>8 DEF HookSubmit
      <4>2. g.pc # "claim" /\ t.pc # "claim"
        BY <1>1, <4>1, IdleTypes DEF Hooks
      <4> QED BY <4>1, <4>2
    <3> QED BY <1>4, <3>2, <3>3, <3>4, <3>5, <3>6, <3>7, <3>8 DEF Hook
  <2>2. PICK g : Becomes(n, w, g) /\ g.pc # "claim"
    BY <2>1
  <2> QED BY <1>2, <2>2
<1> QED BY <1>3, <1>4

\* The parts of a node that may have j to do.
HooksAtWork(n, j) ==
    \E w \in Workers : AboutToSend(n, w, j) \/ (hook[n][w].pc = "claim" /\ hook[n][w].job = j)
KeysAtWork(n, j) == \E i \in 1..Len(keyList[n]) : keyList[n][i] = j
MonitorAtWork(n, j) == \E i \in 1..Len(monitor[n].keys) : monitor[n].keys[i] = j

LEMMA HooksStayFree ==
    ASSUME TInv, [Next]_vars, NEW n \in Nodes, NEW j \in Jobs, Dropped(n, j)
    PROVE  ~HooksAtWork(n, j)'
<1>1. OffchainTypeOK /\ jobs[j] # "Pending"
  BY DEF TInv, Dropped
<1>2. ~HooksAtWork(n, j)
  BY DEF Dropped, AtWork, HooksAtWork
<1>3. CASE UNCHANGED hook
  BY <1>2, <1>3 DEF HooksAtWork, AboutToSend
<1>4. CASE SealBlock
  <2> SUFFICES ASSUME NEW w \in Workers
               PROVE  ~(AboutToSend(n, w, j) \/ (hook[n][w].pc = "claim" /\ hook[n][w].job = j))'
    BY DEF HooksAtWork
  <2> DEFINE g == [IdleHook EXCEPT !.pc = "start", !.at = block, !.view = jobs]
  <2>1. hook'[n][w] = g \/ hook'[n][w] = hook[n][w]
    BY <1>4 DEF SealBlock
  <2>2. g.view = jobs /\ g.pc = "start"
    BY IdleTypes DEF Hooks
  <2> HIDE DEF g
  <2> QED BY <1>1, <1>2, <2>1, <2>2 DEF AboutToSend, HooksAtWork
<1>5. ASSUME NEW m \in Nodes, NEW w \in Workers, Hook(m, w) PROVE ~HooksAtWork(n, j)'
  <2> SUFFICES ASSUME NEW v \in Workers
               PROVE  ~(AboutToSend(n, v, j) \/ (hook[n][v].pc = "claim" /\ hook[n][v].job = j))'
    BY DEF HooksAtWork
  <2>1. NoNewView(hook[n][v], hook'[n][v])
    BY <1>1, <1>5, HookViews
  <2>2. ~AboutToSend(n, v, j)'
    BY <1>2, <2>1 DEF NoNewView, AboutToSend, Scanning, HooksAtWork
  <2>3. ~(hook'[n][v].pc = "claim" /\ hook'[n][v].job = j)
    BY <1>1, <1>2, <1>5, HookClaims DEF HooksAtWork
  <2> QED BY <2>2, <2>3
<1>6. ASSUME NEW m \in Nodes, Crash(m) PROVE ~HooksAtWork(n, j)'
  <2>1. \A w \in Workers : hook'[n][w] = hook[n][w] \/ hook'[n][w] = IdleHook
    BY <1>1, <1>6 DEF Crash, OffchainTypeOK
  <2>2. IdleHook.pc \notin Scanning \cup {"claim"}
    BY DEF IdleHook, Scanning
  <2> QED BY <1>2, <2>1, <2>2 DEF AboutToSend, HooksAtWork, Scanning
<1>7. ASSUME NEW m \in Nodes,
             \/ StartExecutor(m) \/ Monitor(m) \/ (\E k \in Jobs : Task(m, k)) \/ Listener(m)
             \/ \E tx \in pool[m] : IncludeTx(m, tx)
      PROVE  UNCHANGED hook
  BY <1>7 DEF StartExecutor, Monitor, MonitorRead, MonitorClear, MonitorCas, MonitorSpawn, Task,
       RunTask, FailTask, Listener, ListenerRecv, ListenerWrite, ListenerList, IncludeTx,
       unchangedByExecutor
<1>8. UNCHANGED vars \/ Call => UNCHANGED hook
  BY DEF vars, Call
<1> QED BY <1>3, <1>4, <1>5, <1>6, <1>7, <1>8 DEF Next, Node

LEMMA KeysStayFree ==
    ASSUME TInv, [Next]_vars, NEW n \in Nodes, NEW j \in Jobs, Dropped(n, j)
    PROVE  ~KeysAtWork(n, j)'
<1>1. keyList \in [Nodes -> Seq(Jobs)] /\ OffchainTypeOK /\ PcInv
  BY DEF TInv, OffchainTypeOK
<1>2. ~KeysAtWork(n, j) /\ ~HooksAtWork(n, j)
  BY DEF Dropped, AtWork, KeysAtWork, HooksAtWork
<1>3. keyList'[n] \in {keyList[n], <<>>} => ~KeysAtWork(n, j)'
  <2>1. 1..Len(<<>>) = {}
    OBVIOUS
  <2> QED BY <1>2, <2>1 DEF KeysAtWork
<1>4. ASSUME NEW m \in Nodes, NEW w \in Workers, HookClaim(m, w) PROVE ~KeysAtWork(n, j)'
  <2> DEFINE k == hook[m][w].job
  <2>1. k \in Jobs
    BY <1>1, <1>4 DEF HookClaim, PcInv
  <2>2. keyList'[n] = keyList[n] \/ (m = n /\ keyList'[n] = Append(keyList[n], k))
    BY <1>1, <1>4 DEF HookClaim
  <2>3. m = n => k # j
    BY <1>2, <1>4 DEF HookClaim, HooksAtWork
  <2> HIDE DEF k
  <2>4. CASE k # j /\ keyList'[n] = Append(keyList[n], k)
    <3>1. /\ keyList[n] \in Seq(Jobs) /\ Len(keyList'[n]) = Len(keyList[n]) + 1
          /\ Len(keyList[n]) \in Nat /\ keyList'[n][Len(keyList[n]) + 1] = k
          /\ \A i \in 1..Len(keyList[n]) : keyList'[n][i] = keyList[n][i]
      BY <1>1, <2>1, <2>4
    <3>2. \A i \in 1..Len(keyList'[n]) : i = Len(keyList[n]) + 1 \/ i \in 1..Len(keyList[n])
      BY <3>1
    <3> QED BY <1>2, <2>4, <3>1, <3>2 DEF KeysAtWork
  <2> QED BY <1>3, <2>2, <2>3, <2>4
<1>5. ASSUME NEW m \in Nodes, NEW w \in Workers, Hook(m, w), ~HookClaim(m, w)
      PROVE  UNCHANGED keyList
  BY <1>5 DEF Hook, HookReadKeys, HookReadResults, HookFindsNothing, HookFindsFinished,
       HookFindsPending, HookPut, HookSubmit, HookEnds
<1>6. ASSUME NEW m \in Nodes, StartExecutor(m) \/ MonitorCas(m) PROVE ~KeysAtWork(n, j)'
  <2>1. UNCHANGED keyList \/ keyList' = [keyList EXCEPT ![m] = <<>>]
    BY <1>6 DEF StartExecutor, MonitorCas
  <2>2. keyList'[n] \in {keyList[n], <<>>}
    BY <1>1, <2>1
  <2> QED BY <1>3, <2>2
<1>7. ASSUME NEW m \in Nodes, Node(m), ~\E w \in Workers : Hook(m, w),
             ~StartExecutor(m), ~MonitorCas(m)
      PROVE  UNCHANGED keyList
  BY <1>7 DEF Node, Monitor, MonitorRead, MonitorClear, MonitorSpawn, Task, RunTask, FailTask,
       Listener, ListenerRecv, ListenerWrite, ListenerList, IncludeTx, Crash, storeVars
<1>8. UNCHANGED vars \/ Call \/ SealBlock => UNCHANGED keyList
  BY DEF vars, Call, SealBlock, storeVars
<1>9. UNCHANGED keyList => ~KeysAtWork(n, j)'
  BY <1>3
<1> QED BY <1>4, <1>5, <1>6, <1>7, <1>8, <1>9 DEF Next

LEMMA MonitorStaysFree ==
    ASSUME TInv, [Next]_vars, NEW n \in Nodes, NEW j \in Jobs, Dropped(n, j)
    PROVE  ~MonitorAtWork(n, j)' /\ ~(tasks'[n][j] > 0)
<1>1. /\ monitor \in [Nodes -> Monitors] /\ tasks \in [Nodes -> [Jobs -> Nat]]
      /\ \A m \in Nodes : monitor[m].pc = "spawn" => monitor[m].keys # <<>>
  BY DEF TInv, OffchainTypeOK, PcInv
<1>2. /\ monitor[n] \in Monitors /\ monitor[n].keys \in Seq(Jobs)
      /\ tasks[n][j] = 0 /\ ~MonitorAtWork(n, j) /\ ~KeysAtWork(n, j)
  BY <1>1 DEF Dropped, AtWork, MonitorAtWork, KeysAtWork, Monitors
<1>3. CASE UNCHANGED <<monitor, tasks>>
  BY <1>2, <1>3 DEF MonitorAtWork
<1>4. ~(\E i \in 1..Len(<<>>) : <<>>[i] = j)
  OBVIOUS
<1>5. IdleMonitor.keys = <<>>
  BY DEF IdleMonitor
<1>6. ASSUME NEW m \in Nodes, NEW g, monitor' = [monitor EXCEPT ![m] = g], UNCHANGED tasks,
             m = n => \A i \in 1..Len(g.keys) : g.keys[i] # j
      PROVE  ~MonitorAtWork(n, j)' /\ ~(tasks'[n][j] > 0)
  <2>1. monitor'[n] = monitor[n] \/ (m = n /\ monitor'[n] = g)
    BY <1>1, <1>6
  <2> QED BY <1>2, <1>6, <2>1 DEF MonitorAtWork
<1>7. ASSUME NEW m \in Nodes, MonitorRead(m) PROVE ~MonitorAtWork(n, j)' /\ ~(tasks'[n][j] > 0)
  <2> DEFINE g == [IdleMonitor EXCEPT !.pc = "clear", !.keys = keyList[m]]
  <2>1. g.keys = keyList[m]
    BY IdleTypes DEF Monitors
  <2>2. monitor' = [monitor EXCEPT ![m] = g] /\ UNCHANGED tasks
    BY <1>7 DEF MonitorRead
  <2> HIDE DEF g
  <2> QED BY <1>2, <1>6, <2>1, <2>2 DEF KeysAtWork
<1>8. ASSUME NEW m \in Nodes, MonitorClear(m) PROVE ~MonitorAtWork(n, j)' /\ ~(tasks'[n][j] > 0)
  <2>1. monitor'[n].keys = monitor[n].keys /\ UNCHANGED tasks
    BY <1>1, <1>8 DEF MonitorClear, Monitors
  <2> QED BY <1>2, <2>1 DEF MonitorAtWork
<1>9. ASSUME NEW m \in Nodes, MonitorCas(m) PROVE ~MonitorAtWork(n, j)' /\ ~(tasks'[n][j] > 0)
  <2> DEFINE g == [IdleMonitor EXCEPT !.pc = "spawn", !.keys = monitor[m].keys]
  <2>1. g.keys = monitor[m].keys
    BY IdleTypes DEF Monitors
  <2>2. /\ monitor' = [monitor EXCEPT ![m] = g] \/ monitor' = [monitor EXCEPT ![m] = IdleMonitor]
        /\ UNCHANGED tasks
    BY <1>9 DEF MonitorCas
  <2> HIDE DEF g
  <2>3. m = n => \A i \in 1..Len(g.keys) : g.keys[i] # j
    BY <1>2, <2>1 DEF MonitorAtWork
  <2>4. \A i \in 1..Len(IdleMonitor.keys) : IdleMonitor.keys[i] # j
    BY <1>4, <1>5
  <2> QED BY <1>6, <2>2, <2>3, <2>4
<1>10. ASSUME NEW m \in Nodes, MonitorSpawn(m) PROVE ~MonitorAtWork(n, j)' /\ ~(tasks'[n][j] > 0)
  <2> DEFINE keys == monitor[m].keys
             g == [monitor[m] EXCEPT !.keys = Tail(keys)]
  <2>1. keys \in Seq(Jobs) /\ keys # <<>> /\ monitor[m] \in Monitors
    BY <1>1, <1>10 DEF MonitorSpawn, Monitors
  <2>2. g.keys = Tail(keys)
    BY <2>1 DEF Monitors
  <2>3. /\ monitor' = [monitor EXCEPT ![m] = g] \/ monitor' = [monitor EXCEPT ![m] = IdleMonitor]
        /\ UNCHANGED tasks \/ tasks' = [tasks EXCEPT ![m][Head(keys)] = @ + 1]
    BY <1>10 DEF MonitorSpawn
  <2> HIDE DEF g
  <2>4. m = n => \A i \in 1..Len(keys) : keys[i] # j
    BY <1>2 DEF MonitorAtWork
  <2> HIDE DEF keys
  <2>5. Head(keys) \in Jobs /\ (m = n => Head(keys) # j)
    <3>1. 1 \in 1..Len(keys) /\ Head(keys) = keys[1] /\ keys[1] \in Jobs
      BY <2>1
    <3> QED BY <2>4, <3>1
  <2>6. m = n => \A i \in 1..Len(Tail(keys)) : Tail(keys)[i] # j
    <3>1. \A i \in 1..Len(Tail(keys)) : i + 1 \in 1..Len(keys) /\ Tail(keys)[i] = keys[i + 1]
      BY <2>1
    <3> QED BY <2>4, <3>1
  <2>7. tasks'[n][j] = 0
    <3>1. CASE UNCHANGED tasks
      BY <1>2, <3>1
    <3>2. CASE tasks' = [tasks EXCEPT ![m][Head(keys)] = @ + 1]
      BY <1>1, <1>2, <2>5, <3>2
    <3> QED BY <2>3, <3>1, <3>2
  <2>8. monitor'[n] = monitor[n] \/ monitor'[n] = IdleMonitor \/ (m = n /\ monitor'[n] = g)
    BY <1>1, <2>3
  <2>9. ~MonitorAtWork(n, j)'
    BY <1>2, <1>4, <1>5, <2>2, <2>6, <2>8 DEF MonitorAtWork
  <2> QED BY <2>7, <2>9
<1>11. ASSUME NEW m \in Nodes, NEW k \in Jobs, Task(m, k)
       PROVE  ~MonitorAtWork(n, j)' /\ ~(tasks'[n][j] > 0)
  <2>1. /\ tasks[m][k] > 0 /\ tasks' = [tasks EXCEPT ![m][k] = @ - 1] /\ UNCHANGED monitor
    BY <1>11 DEF Task, RunTask, FailTask
  <2>2. tasks'[n][j] = 0
    BY <1>1, <1>2, <2>1
  <2> QED BY <1>2, <2>1, <2>2 DEF MonitorAtWork
<1>12. ASSUME NEW m \in Nodes, Crash(m) PROVE ~MonitorAtWork(n, j)' /\ ~(tasks'[n][j] > 0)
  <2>1. /\ monitor'[n] = monitor[n] \/ monitor'[n] = IdleMonitor
        /\ tasks'[n][j] = 0
    BY <1>1, <1>2, <1>12 DEF Crash
  <2> QED BY <1>2, <1>4, <1>5, <2>1 DEF MonitorAtWork
<1>13. ASSUME NEW m \in Nodes,
              \/ StartExecutor(m) \/ Listener(m)
              \/ \E w \in Workers : Hook(m, w)
              \/ \E tx \in pool[m] : IncludeTx(m, tx)
       PROVE  UNCHANGED <<monitor, tasks>>
  BY <1>13 DEF StartExecutor, Listener, ListenerRecv, ListenerWrite, ListenerList, IncludeTx,
       Hook, HookReadKeys, HookReadResults, HookFindsNothing, HookFindsFinished, HookFindsPending,
       HookClaim, HookPut, HookSubmit, HookEnds, unchangedByHook, executorVars
<1>14. UNCHANGED vars \/ Call \/ SealBlock => UNCHANGED <<monitor, tasks>>
  BY DEF vars, Call, SealBlock, executorVars
<1> QED BY <1>3, <1>7, <1>8, <1>9, <1>10, <1>11, <1>12, <1>13, <1>14 DEF Next, Node, Monitor

DroppedStay == \A n \in Nodes, j \in Jobs : Dropped(n, j) => Dropped(n, j)'

(* Work on a claimed job that a node has lost, to a panic, a cleared key,  *)
(* a missing request or a crash, is never taken up again by that node      *)
(* (scripts_exec_manager.rs:143-183, and lines 205-211 and 621-657).       *)
THEOREM DroppedJobsStay == Spec => DroppedForever
<1>1. TInv /\ [Next]_vars => DroppedStay
  <2> SUFFICES ASSUME TInv, [Next]_vars, NEW n \in Nodes, NEW j \in Jobs, Dropped(n, j)
               PROVE  Dropped(n, j)'
    BY DEF DroppedStay
  <2>1. TypeOK /\ OffchainTypeOK
    BY DEF TInv, ChainInv
  <2>2. jobs'[j] \in {"Processing", "Finish"}
    BY <2>1, StepOnChain, ChainStepForward DEF StepMovesForward, Forward, chainVars, Dropped
  <2>3. ~HooksAtWork(n, j)' /\ ~KeysAtWork(n, j)' /\ ~MonitorAtWork(n, j)' /\ ~(tasks'[n][j] > 0)
    BY HooksStayFree, KeysStayFree, MonitorStaysFree
  <2> QED BY <2>2, <2>3 DEF Dropped, AtWork, HooksAtWork, KeysAtWork, MonitorAtWork
<1>2. TInv /\ [Next]_vars => [DroppedStay]_vars
  BY <1>1
<1> QED BY <1>2, TInvariant, PTL DEF Spec, DroppedForever, DroppedStay

-----------------------------------------------------------------------------
(* The promise of the service.  Whatever is on its way belongs to a job    *)
(* that was requested.                                                     *)

Queued(j) == jobs[j] # "absent"

HookQueued(h) ==
    /\ \A j \in Jobs : h.view[j] # "absent" => Queued(j)
    /\ h.pc \in {"claim", "put"} => Queued(h.job)

HooksQueued == \A n \in Nodes, w \in Workers : HookQueued(hook[n][w])
RequestsQueued == \A n \in Nodes, j \in Jobs : slot[n][j] = Request => Queued(j)
TasksQueued == \A n \in Nodes, j \in Jobs : tasks[n][j] > 0 => Queued(j)

QueuedWork == HooksQueued /\ RequestsQueued /\ TasksQueued

LEMMA StaysQueued ==
    ASSUME TypeOK, OffchainTypeOK, [Next]_vars
    PROVE  \A j \in Jobs : Queued(j) => Queued(j)'
<1>1. StepMovesForward \/ UNCHANGED chainVars
  BY StepOnChain, ChainStepForward
<1> QED BY <1>1 DEF StepMovesForward, Forward, Queued, chainVars

LEMMA IdleQueued == HookQueued(IdleHook)
  BY DEF HookQueued, IdleHook, NoView

\* A hook's step leaves only hooks whose jobs are queued.
LEMMA HookStepQueued ==
    ASSUME OffchainTypeOK, PcInv, HooksQueued, NEW n \in Nodes, NEW w \in Workers, Hook(n, w)
    PROVE  \A m \in Nodes, v \in Workers : HookQueued(hook'[m][v])
<1> DEFINE h == hook[n][w]
<1>1. h \in Hooks /\ hook \in [Nodes -> [Workers -> Hooks]]
  BY DEF OffchainTypeOK
<1>2. ASSUME NEW g, Becomes(n, w, g), HookQueued(g)
      PROVE  \A m \in Nodes, v \in Workers : HookQueued(hook'[m][v])
  <2>1. \A m \in Nodes, v \in Workers : hook'[m][v] = hook[m][v] \/ hook'[m][v] = g
    BY <1>1, <1>2 DEF Becomes
  <2> QED BY <1>2, <2>1 DEF HooksQueued
<1>3. HookQueued(h)
  BY DEF HooksQueued
<1>4. CASE HookReadKeys(n, w)
  <2> DEFINE g == [h EXCEPT !.pc = "results", !.keys = keyList[n]]
  <2>1. Becomes(n, w, g) \/ Becomes(n, w, IdleHook)
    BY <1>4 DEF HookReadKeys
  <2>2. HookQueued(g)
    BY <1>1, <1>3 DEF HookQueued, Hooks
  <2> QED BY <1>2, IdleQueued, <2>1, <2>2
<1>5. CASE HookReadResults(n, w)
  <2> DEFINE g == [h EXCEPT !.pc = "scan", !.list = resultList[n]]
  <2>1. Becomes(n, w, g)
    BY <1>5 DEF HookReadResults
  <2>2. HookQueued(g)
    BY <1>1, <1>3 DEF HookQueued, Hooks
  <2> QED BY <1>2, <2>1, <2>2
<1>6. CASE HookFindsNothing(n, w) \/ HookEnds(n, w)
  BY <1>2, <1>6, IdleQueued DEF HookFindsNothing, HookEnds
<1>7. CASE HookFindsFinished(n, w)
  <2> DEFINE g == [IdleHook EXCEPT !.pc = "submit", !.at = h.at, !.list = h.list]
  <2>1. Becomes(n, w, g)
    BY <1>7 DEF HookFindsFinished
  <2>2. HookQueued(g)
    BY IdleTypes, IdleQueued DEF HookQueued, Hooks
  <2> QED BY <1>2, <2>1, <2>2
<1>8. CASE HookFindsPending(n, w)
  <2>1. PICK j \in Jobs, sent \in BOOLEAN :
          /\ h.view[j] = "Pending"
          /\ Becomes(n, w, [h EXCEPT !.pc = "claim", !.view = NoView, !.job = j, !.sent = sent])
    BY <1>8 DEF HookFindsPending
  <2> DEFINE g == [h EXCEPT !.pc = "claim", !.view = NoView, !.job = j, !.sent = sent]
  <2>2. g.view = NoView /\ g.job = j
    BY <1>1 DEF Hooks
  <2>3. Queued(j)
    BY <1>3, <2>1 DEF HookQueued
  <2>4. HookQueued(g)
    <3> HIDE DEF g
    <3> QED BY <2>2, <2>3 DEF HookQueued, NoView
  <2> QED BY <1>2, <2>1, <2>4
<1>9. CASE HookClaim(n, w)
  <2> DEFINE g == [h EXCEPT !.pc = "put", !.keys = <<>>]
  <2>1. h.pc = "claim" /\ Becomes(n, w, g)
    BY <1>9 DEF HookClaim
  <2>2. HookQueued(g)
    BY <1>1, <1>3, <2>1 DEF HookQueued, Hooks
  <2> QED BY <1>2, <2>1, <2>2
<1>10. CASE HookPut(n, w)
  <2> DEFINE g == [h EXCEPT !.pc = "submit", !.job = None, !.sent = FALSE]
  <2>1. Becomes(n, w, g)
    BY <1>10 DEF HookPut
  <2>2. HookQueued(g)
    BY <1>1, <1>3 DEF HookQueued, Hooks
  <2> QED BY <1>2, <2>1, <2>2
<1>11. CASE HookSubmit(n, w)
  <2> DEFINE g == [h EXCEPT !.list = Tail(h.list)]
             t == [IdleHook EXCEPT !.pc = "trap"]
  <2>1. h.pc = "submit" /\ (Becomes(n, w, g) \/ Becomes(n, w, t))
    BY <1>11 DEF HookSubmit
  <2>2. HookQueued(g)
    BY <1>1, <1>3, <2>1 DEF HookQueued, Hooks
  <2>3. HookQueued(t)
    BY IdleTypes, IdleQueued DEF HookQueued, Hooks
  <2> QED BY <1>2, <2>1, <2>2, <2>3
<1> QED BY <1>4, <1>5, <1>6, <1>7, <1>8, <1>9, <1>10, <1>11 DEF Hook

LEMMA HooksQueuedStep ==
    ASSUME TInv, HooksQueued, [Next]_vars
    PROVE  HooksQueued'
<1>1. TypeOK /\ OffchainTypeOK /\ PcInv
  BY DEF TInv, ChainInv
<1>2. \A j \in Jobs : Queued(j) => Queued(j)'
  BY <1>1, StaysQueued
<1>3. ASSUME NEW h, HookQueued(h), h.pc \in {"claim", "put"} => h.job \in Jobs
      PROVE  /\ \A j \in Jobs : h.view[j] # "absent" => Queued(j)'
             /\ h.pc \in {"claim", "put"} => jobs'[h.job] # "absent"
  BY <1>2, <1>3 DEF HookQueued, Queued
<1>4. ASSUME NEW n \in Nodes, NEW w \in Workers,
             HookQueued(hook'[n][w]), hook'[n][w].pc \in {"claim", "put"} => hook'[n][w].job \in Jobs
      PROVE  HookQueued(hook[n][w])'
  BY <1>3, <1>4 DEF HookQueued, Queued
<1>5. \A n \in Nodes, w \in Workers :
         hook'[n][w].pc \in {"claim", "put"} => hook'[n][w].job \in Jobs
  BY TInvStep DEF TInv, PcInv
<1>6. ASSUME \A n \in Nodes, w \in Workers : HookQueued(hook'[n][w])
      PROVE  HooksQueued'
  BY <1>4, <1>5, <1>6 DEF HooksQueued
<1>7. ASSUME NEW n \in Nodes, NEW w \in Workers, Hook(n, w)
      PROVE  HooksQueued'
  BY <1>1, <1>6, <1>7, HookStepQueued
<1>8. CASE SealBlock
  <2>1. ASSUME NEW n \in Nodes, NEW w \in Workers PROVE HookQueued(hook'[n][w])
    <3> DEFINE g == [IdleHook EXCEPT !.pc = "start", !.at = block, !.view = jobs]
    <3>1. hook'[n][w] = g \/ hook'[n][w] = hook[n][w]
      BY <1>8 DEF SealBlock
    <3>2. HookQueued(g)
      BY IdleTypes DEF Hooks, HookQueued, Queued
    <3> QED BY <3>1, <3>2 DEF HooksQueued
  <2> QED BY <1>6, <2>1
<1>9. ASSUME NEW n \in Nodes, Crash(n) PROVE HooksQueued'
  <2>1. \A m \in Nodes, w \in Workers : hook'[m][w] = hook[m][w] \/ hook'[m][w] = IdleHook
    BY <1>1, <1>9 DEF Crash, OffchainTypeOK
  <2> QED BY <1>6, <2>1, IdleQueued DEF HooksQueued
<1>10. CASE UNCHANGED hook
  BY <1>6, <1>10 DEF HooksQueued
<1>11. ASSUME NEW n \in Nodes, Node(n), ~Crash(n), ~\E w \in Workers : Hook(n, w)
       PROVE  UNCHANGED hook
  BY <1>11 DEF Node, IncludeTx, StartExecutor, Monitor, MonitorRead, MonitorClear, MonitorCas,
       MonitorSpawn, Task, RunTask, FailTask, Listener, ListenerRecv, ListenerWrite, ListenerList,
       unchangedByExecutor
<1>12. UNCHANGED vars \/ Call => UNCHANGED hook
  BY DEF vars, Call
<1> QED BY <1>7, <1>8, <1>9, <1>10, <1>11, <1>12 DEF Next, Node

LEMMA RequestsQueuedStep ==
    ASSUME TInv, HooksQueued, RequestsQueued, [Next]_vars
    PROVE  RequestsQueued'
<1>1. TypeOK /\ OffchainTypeOK /\ PcInv
  BY DEF TInv, ChainInv
<1>2. \A j \in Jobs : Queued(j) => Queued(j)'
  BY <1>1, StaysQueued
<1>3. slot \in [Nodes -> [Jobs -> SlotValues]]
  BY <1>1 DEF OffchainTypeOK
<1>4. ASSUME \A n \in Nodes, j \in Jobs : slot'[n][j] = Request => slot[n][j] = Request \/ Queued(j)
      PROVE  RequestsQueued'
  BY <1>2, <1>4 DEF RequestsQueued
<1>5. ASSUME NEW n \in Nodes, NEW w \in Workers, HookPut(n, w) PROVE RequestsQueued'
  <2>1. hook[n][w].job \in Jobs /\ Queued(hook[n][w].job)
    BY <1>1, <1>5 DEF HookPut, PcInv, HooksQueued, HookQueued
  <2>2. \A m \in Nodes, j \in Jobs : slot'[m][j] = slot[m][j] \/ j = hook[n][w].job
    BY <1>3, <1>5, <2>1 DEF HookPut
  <2> QED BY <1>4, <2>1, <2>2
<1>6. ASSUME NEW n \in Nodes, ListenerWrite(n) PROVE RequestsQueued'
  <2>1. listener[n].job \in Jobs /\ listener[n].out # Request
    BY <1>1, <1>6, JobPipelineAssumption DEF ListenerWrite, PcInv
  <2>2. UNCHANGED slot \/ slot' = [slot EXCEPT ![n][listener[n].job] = listener[n].out]
    BY <1>6 DEF ListenerWrite
  <2>3. \A m \in Nodes, j \in Jobs :
           slot'[m][j] = slot[m][j] \/ slot'[m][j] = listener[n].out
    BY <1>3, <2>1, <2>2
  <2> QED BY <1>4, <2>1, <2>3
<1>7. CASE UNCHANGED slot
  BY <1>4, <1>7
<1> QED BY <1>5, <1>6, <1>7, SlotWriters

LEMMA TasksQueuedStep ==
    ASSUME TInv, RequestsQueued, TasksQueued, [Next]_vars
    PROVE  TasksQueued'
<1>1. TypeOK /\ OffchainTypeOK /\ PcInv
  BY DEF TInv, ChainInv
<1>2. \A j \in Jobs : Queued(j) => Queued(j)'
  BY <1>1, StaysQueued
<1>3. tasks \in [Nodes -> [Jobs -> Nat]]
  BY <1>1 DEF OffchainTypeOK
<1>4. ASSUME \A n \in Nodes, j \in Jobs : tasks'[n][j] > 0 => tasks[n][j] > 0 \/ Queued(j)
      PROVE  TasksQueued'
  BY <1>2, <1>4 DEF TasksQueued
<1>5. ASSUME NEW n \in Nodes, MonitorSpawn(n) PROVE TasksQueued'
  <2> DEFINE job == Head(monitor[n].keys)
  <2>1. monitor[n].keys \in Seq(Jobs) /\ monitor[n].keys # <<>>
    BY <1>1, <1>5 DEF MonitorSpawn, OffchainTypeOK, Monitors, PcInv
  <2>2. job \in Jobs
    BY <2>1
  <2>3. CASE slot[n][job] = Request
    <3>1. tasks' = [tasks EXCEPT ![n][job] = @ + 1]
      BY <1>5, <2>3 DEF MonitorSpawn
    <3>2. Queued(job)
      BY <2>2, <2>3 DEF RequestsQueued
    <3> HIDE DEF job
    <3>3. \A m \in Nodes, j \in Jobs : tasks'[m][j] = tasks[m][j] \/ j = job
      BY <1>3, <2>2, <3>1
    <3> QED BY <1>4, <3>2, <3>3
  <2>4. CASE slot[n][job] # Request
    <3>1. UNCHANGED tasks
      BY <1>5, <2>4 DEF MonitorSpawn
    <3> QED BY <1>4, <3>1
  <2> QED BY <2>3, <2>4
<1>6. ASSUME NEW n \in Nodes, NEW job \in Jobs, Task(n, job) PROVE TasksQueued'
  <2>1. tasks[n][job] > 0 /\ tasks' = [tasks EXCEPT ![n][job] = @ - 1]
    BY <1>6 DEF Task, FailTask, RunTask
  <2>2. \A m \in Nodes, j \in Jobs : tasks'[m][j] = tasks[m][j] \/ tasks'[m][j] = tasks[m][j] - 1
    BY <1>3, <2>1
  <2> QED BY <1>3, <1>4, <2>2
<1>7. ASSUME NEW n \in Nodes, Crash(n) PROVE TasksQueued'
  <2>1. \A m \in Nodes, j \in Jobs : tasks'[m][j] = tasks[m][j] \/ tasks'[m][j] = 0
    BY <1>3, <1>7 DEF Crash
  <2> QED BY <1>4, <2>1
<1>8. CASE UNCHANGED tasks
  BY <1>4, <1>8
<1>9. ASSUME NEW n \in Nodes, Node(n), ~MonitorSpawn(n), ~Crash(n),
             ~\E job \in Jobs : Task(n, job)
      PROVE  UNCHANGED tasks
  <2>1. \A w \in Workers : Hook(n, w) => UNCHANGED tasks
    BY DEF Hook, HookReadKeys, HookReadResults, HookFindsNothing, HookFindsFinished,
         HookFindsPending, HookClaim, HookPut, HookSubmit, HookEnds, unchangedByHook, executorVars
  <2>2. (\E tx \in pool[n] : IncludeTx(n, tx)) \/ StartExecutor(n) => UNCHANGED tasks
    BY DEF IncludeTx, StartExecutor, executorVars
  <2>3. MonitorRead(n) \/ MonitorClear(n) \/ MonitorCas(n) \/ Listener(n) => UNCHANGED tasks
    BY DEF MonitorRead, MonitorClear, MonitorCas, Listener, ListenerRecv, ListenerWrite,
         ListenerList
  <2> QED BY <1>9, <2>1, <2>2, <2>3 DEF Node, Monitor
<1>10. UNCHANGED vars \/ Call \/ SealBlock => UNCHANGED tasks
  BY DEF vars, Call, SealBlock, executorVars
<1> QED BY <1>5, <1>6, <1>7, <1>8, <1>9, <1>10 DEF Next, Node, Monitor

LEMMA QueuedWorkInvariant == Spec => []QueuedWork
<1>1. Init => QueuedWork
  BY IdleQueued, JobPipelineAssumption
  DEF Init, QueuedWork, HooksQueued, RequestsQueued, TasksQueued
<1>2. TInv /\ QueuedWork /\ [Next]_vars => QueuedWork'
  BY HooksQueuedStep, RequestsQueuedStep, TasksQueuedStep DEF QueuedWork
<1> QED BY <1>1, <1>2, TInvariant, PTL DEF Spec

(* Steps of the chain's actors are steps of the service, ...               *)

LEMMA CallServes ==
    ASSUME TypeOK, Call
    PROVE  Service!Next \/ UNCHANGED Service!serviceVars
<1>1. UNCHANGED <<computed, results>>
  BY DEF Call, executorVars, SignedCall, request_script_execution, upload_wasm
<1>2. PICK who \in Accounts, name \in Scripts :
        \/ request_script_execution(who, name)
        \/ \E code \in Codes, abi \in Abis : upload_wasm(who, name, code, abi)
  BY DEF Call, SignedCall
<1>3. CASE request_script_execution(who, name)
  <2> DEFINE job == [caller |-> who, script |-> name,
                     code |-> scripts[name].code, abi |-> scripts[name].abi]
  <2>1. scripts[name] # None /\ jobs[job] = "absent" /\ jobs' = [jobs EXCEPT ![job] = "Pending"]
    BY <1>3 DEF request_script_execution
  <2>2. job \in Jobs
    BY <2>1 DEF TypeOK, Jobs, ScriptDetail
  <2> HIDE DEF job
  <2>3. Service!Progress(job)
    BY <1>1, <2>1, <2>2 DEF Service!Progress, Service!Step
  <2> QED BY <2>2, <2>3 DEF Service!Next
<1>4. CASE \E code \in Codes, abi \in Abis : upload_wasm(who, name, code, abi)
  BY <1>1, <1>4 DEF upload_wasm, Service!serviceVars
<1> QED BY <1>2, <1>3, <1>4

LEMMA IncludeServes ==
    ASSUME TypeOK, OffchainTypeOK, Provenance, NEW n \in Nodes, NEW tx \in pool[n], IncludeTx(n, tx)
    PROVE  Service!Next \/ UNCHANGED Service!serviceVars
<1>1. UNCHANGED computed /\ tx \in Tx
  BY DEF IncludeTx, executorVars, OffchainTypeOK
<1>2. CASE tx.kind = "state"
  <2> DEFINE job == tx.job
  <2>1. job \in Jobs
    BY <1>1 DEF Tx, StateTx, ResultTx
  <2>2. UNCHANGED results /\ jobs' = [jobs EXCEPT ![job] = Advance(jobs[job])]
    BY <1>2 DEF IncludeTx, Apply, change_job_state
  <2>3. jobs[job] \in JobStates
    BY <2>1 DEF TypeOK
  <2> HIDE DEF job
  <2>4. CASE jobs[job] \in {"Pending", "Processing"}
    <3>1. Advance(jobs[job]) \in {"Pending", "Processing", "Finish"}
          /\ Service!Step(jobs[job], Advance(jobs[job]))
      BY <2>4 DEF Advance, Service!Step
    <3>2. Service!Progress(job)
      BY <1>1, <2>2, <3>1 DEF Service!Progress
    <3> QED BY <2>1, <3>2 DEF Service!Next
  <2>5. CASE jobs[job] \notin {"Pending", "Processing"}
    <3>1. Advance(jobs[job]) = jobs[job]
      BY <2>3, <2>5 DEF Advance, JobStates
    <3>2. jobs' = jobs
      BY <2>1, <2>2, <3>1 DEF TypeOK
    <3> QED BY <1>1, <2>2, <3>2 DEF Service!serviceVars
  <2> QED BY <2>4, <2>5
<1>3. CASE tx.kind # "state"
  <2>1. tx \in ResultTx
    BY <1>1, <1>3 DEF Tx, StateTx
  <2>2. /\ tx.job \in Jobs /\ tx.key \in Processors /\ tx.out \in Outputs
        /\ <<tx.key, tx.job, tx.out>> \in computed \cup Misread
    BY <2>1 DEF ResultTx, Provenance, PoolCovered, Covered
  <2>3. /\ jobs[tx.job] = "Finish" /\ UNCHANGED jobs
        /\ results' = [results EXCEPT ![tx.job][tx.key] = tx.out]
    BY <1>3 DEF IncludeTx, Apply, submit_result_unsiged
  <2>4. Service!Publish(tx.key, tx.job, tx.out)
    BY <1>1, <2>2, <2>3 DEF Service!Publish
  <2> QED BY <2>2, <2>4 DEF Service!Next
<1> QED BY <1>2, <1>3

(* ... and of what a node does, only the end of a task shows.              *)
LEMMA NodeServes ==
    ASSUME TypeOK, OffchainTypeOK, PcInv, Provenance, QueuedWork, NEW n \in Nodes, Node(n)
    PROVE  Service!Next \/ UNCHANGED Service!serviceVars
<1>1. ASSUME NEW tx \in pool[n], IncludeTx(n, tx)
      PROVE  Service!Next \/ UNCHANGED Service!serviceVars
  BY <1>1, IncludeServes
<1>2. ASSUME NEW j \in Jobs, Task(n, j)
      PROVE  Service!Next \/ UNCHANGED Service!serviceVars
  <2>1. CASE FailTask(n, j)
    BY <2>1 DEF FailTask, unchangedByExecutor, chainVars, Service!serviceVars
  <2>2. ASSUME NEW out \in Outputs, RunTask(n, j, out) PROVE Service!Next
    <3>1. /\ tasks[n][j] > 0 /\ computed' = computed \cup {<<KeyOf[n], j, out>>}
          /\ UNCHANGED <<jobs, results>>
      BY <2>2 DEF RunTask, unchangedByExecutor, chainVars
    <3>2. jobs[j] # "absent" /\ KeyOf[n] \in Processors
      BY <3>1, JobPipelineAssumption DEF QueuedWork, TasksQueued, Queued
    <3>3. Service!Compute(KeyOf[n], j, out)
      BY <3>1, <3>2 DEF Service!Compute
    <3> QED BY <3>2, <3>3 DEF Service!Next
  <2> QED BY <1>2, <2>1, <2>2 DEF Task
<1>3. ASSUME NEW w \in Workers, Hook(n, w)
      PROVE  UNCHANGED Service!serviceVars
  BY <1>3 DEF Hook, HookReadKeys, HookReadResults, HookFindsNothing, HookFindsFinished,
       HookFindsPending, HookClaim, HookPut, HookSubmit, HookEnds, unchangedByHook, chainVars,
       executorVars, Service!serviceVars
<1>4. Monitor(n) \/ StartExecutor(n) \/ Crash(n) => UNCHANGED Service!serviceVars
  BY DEF Monitor, MonitorRead, MonitorClear, MonitorCas, MonitorSpawn, StartExecutor, Crash,
       unchangedByExecutor, executorVars, chainVars, Service!serviceVars
<1>5. Listener(n) => UNCHANGED Service!serviceVars
  BY DEF Listener, ListenerRecv, ListenerWrite, ListenerList, unchangedByExecutor, chainVars,
       Service!serviceVars
<1> QED BY <1>1, <1>2, <1>3, <1>4, <1>5 DEF Node

(* The pipeline implements the abstract service: whoever watches the chain *)
(* sees a job requested, claimed and finished, and outputs published that  *)
(* a processor computed for a requested job, whatever the hooks, the pools *)
(* and the executors do meanwhile.                                         *)
THEOREM PipelineImplementsService == Spec => ImplementsService
<1>1. Init => Service!Init
  BY DEF Init, ChainInit, Service!Init
<1>2. TInv /\ Provenance /\ QueuedWork /\ [Next]_vars => [Service!Next]_Service!serviceVars
  <2> SUFFICES ASSUME TInv, Provenance, QueuedWork, [Next]_vars
               PROVE  Service!Next \/ UNCHANGED Service!serviceVars
    OBVIOUS
  <2>1. TypeOK /\ OffchainTypeOK /\ PcInv
    BY DEF TInv, ChainInv
  <2>2. SealBlock \/ UNCHANGED vars => UNCHANGED Service!serviceVars
    BY DEF SealBlock, NewBlock, executorVars, vars, chainVars, Service!serviceVars
  <2> QED BY <2>1, <2>2, CallServes, NodeServes DEF Next
<1> QED BY <1>1, <1>2, TInvariant, ProvenanceInvariant, QueuedWorkInvariant, PTL
    DEF Spec, ImplementsService, Service!Spec
=============================================================================
