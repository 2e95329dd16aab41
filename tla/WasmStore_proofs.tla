-------------------------- MODULE WasmStore_proofs --------------------------
(* What holds of the wasmstore pallet for any number of accounts, scripts, *)
(* processors and blocks, whatever unsigned transactions reach it.         *)
EXTENDS WasmStore, TLAPS

(* The inductive invariant: none of the two conjuncts about the stored     *)
(* values needs the other, but a queued job only fits because every script *)
(* that was stored did.                                                    *)
StoredScriptsFit ==
    \A s \in Scripts : scripts[s] # None =>
        {s, scripts[s].code, scripts[s].abi} \cap Oversized = {}

ChainInv == TypeOK /\ ResultOnlyWhenFinished /\ StoredScriptsFit /\ StoredValuesFit

LEMMA ChainInitInv == ChainInit => ChainInv
  BY WasmStoreAssumption
  DEF ChainInit, ChainInv, TypeOK, JobStates, ResultOnlyWhenFinished,
      StoredScriptsFit, StoredValuesFit

LEMMA UploadInv ==
    ASSUME ChainInv, NEW who \in Accounts, NEW name \in Scripts,
           NEW code \in Codes, NEW abi \in Abis, upload_wasm(who, name, code, abi)
    PROVE  ChainInv'
<1> DEFINE detail == [publisher |-> who, code |-> code, abi |-> abi]
<1> USE DEF ChainInv, upload_wasm
<1>1. detail \in ScriptDetail
  BY DEF ScriptDetail
<1>2. TypeOK'
  BY <1>1 DEF TypeOK
<1>3. ResultOnlyWhenFinished'
  BY DEF ResultOnlyWhenFinished
<1>4. StoredScriptsFit'
  BY DEF StoredScriptsFit, TypeOK
<1>5. StoredValuesFit'
  BY DEF StoredValuesFit
<1> QED BY <1>2, <1>3, <1>4, <1>5

LEMMA RequestInv ==
    ASSUME ChainInv, NEW who \in Accounts, NEW name \in Scripts,
           request_script_execution(who, name)
    PROVE  ChainInv'
<1> DEFINE job == [caller |-> who, script |-> name,
                   code |-> scripts[name].code, abi |-> scripts[name].abi]
<1> USE DEF ChainInv
<1>1. /\ scripts[name] # None
      /\ jobs[job] = "absent"
      /\ jobs' = [jobs EXCEPT ![job] = "Pending"]
      /\ UNCHANGED <<block, scripts, results>>
  BY DEF request_script_execution
<1>2. job \in Jobs
  BY <1>1 DEF TypeOK, ScriptDetail, Jobs
<1>3. TypeOK'
  BY <1>1 DEF TypeOK, JobStates
<1>4. ResultOnlyWhenFinished'
  BY <1>1, <1>2 DEF ResultOnlyWhenFinished, TypeOK
<1>5. StoredScriptsFit'
  BY <1>1 DEF StoredScriptsFit
<1>6. {job.script, job.code, job.abi} \cap Oversized = {}
  BY <1>1 DEF StoredScriptsFit
<1>7. StoredValuesFit'
  BY <1>1, <1>2, <1>6 DEF StoredValuesFit, TypeOK
<1> QED BY <1>3, <1>4, <1>5, <1>7

LEMMA ChangeStateInv ==
    ASSUME ChainInv, NEW job \in Jobs, change_job_state(job)
    PROVE  ChainInv'
<1> USE DEF ChainInv, change_job_state
<1>1. Advance(jobs[job]) \in JobStates
  BY DEF TypeOK, Advance, JobStates
<1>2. jobs[job] = "Finish" => Advance(jobs[job]) = "Finish"
  BY DEF Advance
<1>3. jobs[job] = "absent" => Advance(jobs[job]) = "absent"
  BY DEF Advance
<1>4. TypeOK'
  BY <1>1 DEF TypeOK
<1>5. ResultOnlyWhenFinished'
  BY <1>2 DEF ResultOnlyWhenFinished, TypeOK
<1>6. StoredScriptsFit'
  BY DEF StoredScriptsFit
<1>7. StoredValuesFit'
  BY <1>3 DEF StoredValuesFit, TypeOK
<1> QED BY <1>4, <1>5, <1>6, <1>7

LEMMA SubmitResultInv ==
    ASSUME ChainInv, NEW job \in Jobs, NEW value \in Outputs, NEW p \in Processors,
           submit_result_unsiged(job, value, p)
    PROVE  ChainInv'
<1> USE DEF ChainInv, submit_result_unsiged
<1>1. TypeOK'
  BY DEF TypeOK
<1>2. \A j \in Jobs, q \in Processors :
         results'[j][q] = IF j = job /\ q = p THEN value ELSE results[j][q]
  BY DEF TypeOK
<1>3. ResultOnlyWhenFinished'
  BY <1>2 DEF ResultOnlyWhenFinished
<1>4. StoredScriptsFit'
  BY DEF StoredScriptsFit
<1>5. StoredValuesFit'
  BY <1>2 DEF StoredValuesFit
<1> QED BY <1>1, <1>3, <1>4, <1>5

LEMMA NewBlockInv == ASSUME ChainInv, NewBlock PROVE ChainInv'
  BY WasmStoreAssumption
  DEF ChainInv, NewBlock, TypeOK, ResultOnlyWhenFinished, StoredScriptsFit, StoredValuesFit

LEMMA ChainStepInv == ChainInv /\ [ChainNext]_chainVars => ChainInv'
<1> SUFFICES ASSUME ChainInv, [ChainNext]_chainVars PROVE ChainInv'
  OBVIOUS
<1>1. CASE SignedCall
  BY <1>1, UploadInv, RequestInv DEF SignedCall
<1>2. CASE UnsignedCall
  BY <1>2, ChangeStateInv, SubmitResultInv DEF UnsignedCall
<1>3. CASE NewBlock
  BY <1>3, NewBlockInv
<1>4. CASE UNCHANGED chainVars
  BY <1>4 DEF chainVars, ChainInv, TypeOK, ResultOnlyWhenFinished, StoredScriptsFit,
              StoredValuesFit
<1> QED BY <1>1, <1>2, <1>3, <1>4 DEF ChainNext

LEMMA ChainInvariant == ChainSpec => []ChainInv
  BY ChainInitInv, ChainStepInv, PTL DEF ChainSpec

(* The storage of the pallet keeps its types.                              *)
THEOREM ChainTypeCorrect == ChainSpec => []TypeOK
<1>1. ChainInv => TypeOK
  BY DEF ChainInv
<1> QED BY <1>1, ChainInvariant, PTL

(* Results are only stored for finished jobs (lines 412-415), with any     *)
(* number of workers sending transactions in any order.                    *)
THEOREM ResultsFollowFinish == ChainSpec => []ResultOnlyWhenFinished
<1>1. ChainInv => ResultOnlyWhenFinished
  BY DEF ChainInv
<1> QED BY <1>1, ChainInvariant, PTL

(* Whatever a request copies into the job queue fits, because upload_wasm  *)
(* checked it (lines 291-305 and 354-363).                                 *)
THEOREM StorageIsBounded == ChainSpec => []StoredValuesFit
<1>1. ChainInv => StoredValuesFit
  BY DEF ChainInv
<1> QED BY <1>1, ChainInvariant, PTL

(* Jobs move forward one state at a time, results are never taken back     *)
(* (lines 364-372, 389-397 and 417-435).                                   *)
StepMovesForward ==
    /\ \A j \in Jobs : jobs'[j] = jobs[j] \/ Forward(jobs[j], jobs'[j])
    /\ \A j \in Jobs, p \in Processors :
          results[j][p] # None => results'[j][p] # None

LEMMA ChainStepForward == TypeOK /\ ChainNext => StepMovesForward
<1> SUFFICES ASSUME TypeOK, ChainNext PROVE StepMovesForward
  OBVIOUS
<1> USE DEF StepMovesForward
<1>1. ASSUME NEW who \in Accounts, NEW name \in Scripts, request_script_execution(who, name)
      PROVE  StepMovesForward
  BY <1>1 DEF request_script_execution, TypeOK, Forward
<1>2. ASSUME NEW who \in Accounts, NEW name \in Scripts, NEW code \in Codes, NEW abi \in Abis,
             upload_wasm(who, name, code, abi)
      PROVE  StepMovesForward
  BY <1>2 DEF upload_wasm
<1>3. ASSUME NEW job \in Jobs, change_job_state(job)
      PROVE  StepMovesForward
  <2>1. Advance(jobs[job]) = jobs[job] \/ Forward(jobs[job], Advance(jobs[job]))
    BY DEF TypeOK, JobStates, Advance, Forward
  <2> QED BY <1>3, <2>1 DEF change_job_state, TypeOK
<1>4. ASSUME NEW job \in Jobs, NEW value \in Outputs, NEW p \in Processors,
             submit_result_unsiged(job, value, p)
      PROVE  StepMovesForward
  BY <1>4, WasmStoreAssumption DEF submit_result_unsiged, TypeOK
<1>5. CASE NewBlock
  BY <1>5 DEF NewBlock
<1> QED BY <1>1, <1>2, <1>3, <1>4, <1>5 DEF ChainNext, SignedCall, UnsignedCall

THEOREM JobsMoveForward == ChainSpec => JobsOnlyMoveForward
<1>1. TypeOK /\ [ChainNext]_chainVars => [StepMovesForward]_chainVars
  BY ChainStepForward
<1> QED BY <1>1, ChainTypeCorrect, PTL DEF ChainSpec, JobsOnlyMoveForward, StepMovesForward
=============================================================================
