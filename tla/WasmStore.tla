------------------------------ MODULE WasmStore ------------------------------
(***************************************************************************)
(* The on-chain half of the oracle: the wasmstore pallet                   *)
(* (pallets/wasmstore-pallet/src/lib.rs).  Users upload scripts and        *)
(* request their execution; a request becomes a job; unsigned              *)
(* transactions sent by off-chain workers move the job along and store     *)
(* one result per processor key.                                           *)
(*                                                                         *)
(* What is abstracted.  A name is taken after its EXE/SRC prefix, so the   *)
(* name is the storage key.  A job id is the hash of the encoded OCWJob,   *)
(* whose fields at that moment are caller, script name, code, ABI and the  *)
(* constant state Pending: the job IS that tuple of fields (hashes are     *)
(* taken as collision free).  Sizes are reduced to whether a value fits    *)
(* its BoundedVec.  Events, weights and logging are left out.              *)
(***************************************************************************)
EXTENDS Naturals, FiniteSets

CONSTANTS
    Accounts,    \* signers of uploads and requests
    Scripts,     \* script names, prefix included
    Codes,       \* wasm binaries
    Abis,        \* script ABIs
    Processors,  \* sr25519 keys results are filed under
    Outputs,     \* results of running a script
    Oversized,   \* the values that do not fit their BoundedVec
    None,        \* an absent storage value
    MaxBlock     \* bound: blocks are explored up to this number

ASSUME WasmStoreAssumption ==
    /\ MaxBlock \in Nat \ {0}
    /\ None \notin Outputs \cup Oversized
    /\ None \notin [publisher : Accounts, code : Codes, abi : Abis]

VARIABLES
    block,    \* number of the block being executed
    scripts,  \* ScriptStorage
    jobs,     \* JobQueue, reduced to the state of each job
    results   \* ScriptResult

chainVars == <<block, scripts, jobs, results>>

ScriptDetail == [publisher : Accounts, code : Codes, abi : Abis]

\* OCWJob without its state; it stands for the job id.
Jobs == [caller : Accounts, script : Scripts, code : Codes, abi : Abis]

\* "absent" is a key with no entry.  JobState::Idling is never stored.
JobStates == {"absent", "Pending", "Processing", "Finish"}

TypeOK ==
    /\ block \in 1..MaxBlock
    /\ scripts \in [Scripts -> ScriptDetail \cup {None}]
    /\ jobs \in [Jobs -> JobStates]
    /\ results \in [Jobs -> [Processors -> Outputs \cup {None}]]

ChainInit ==
    /\ block = 1
    /\ scripts = [s \in Scripts |-> None]
    /\ jobs = [j \in Jobs |-> "absent"]
    /\ results = [j \in Jobs |-> [p \in Processors |-> None]]

-----------------------------------------------------------------------------

\* Mutant: no size check.
upload_wasm_any_size(who, name, code, abi) ==
    /\ scripts[name] # None => scripts[name].code # code
    /\ scripts' = [scripts EXCEPT ![name] =
                     [publisher |-> who, code |-> code, abi |-> abi]]
    /\ UNCHANGED <<block, jobs, results>>

(* A name can be taken over by anybody: only an upload of the code already *)
(* stored under it is refused.  The publisher is recorded, never checked.  *)
upload_wasm(who, name, code, abi) ==
    /\ {name, code, abi} \cap Oversized = {}
    /\ scripts[name] # None => scripts[name].code # code
    /\ scripts' = [scripts EXCEPT ![name] =
                     [publisher |-> who, code |-> code, abi |-> abi]]
    /\ UNCHANGED <<block, jobs, results>>

\* Mutant: the entry of an existing job is overwritten.
request_script_execution_again(who, name) ==
    /\ scripts[name] # None
    /\ jobs' = [jobs EXCEPT ![[caller |-> who, script |-> name,
                   code |-> scripts[name].code, abi |-> scripts[name].abi]] = "Pending"]
    /\ UNCHANGED <<block, scripts, results>>

(* The job takes the code and the ABI stored at this moment.               *)
request_script_execution(who, name) ==
    /\ scripts[name] # None
    /\ LET job == [caller |-> who,  script |-> name,
                   code |-> scripts[name].code, abi |-> scripts[name].abi]
       IN  /\ jobs[job] = "absent"
           /\ jobs' = [jobs EXCEPT ![job] = "Pending"]
    /\ UNCHANGED <<block, scripts, results>>

\* Mutant: the default arm resets the state to JobState's default.
Advance_or_idle(state) ==
    CASE state = "Pending"    -> "Processing"
      [] state = "Processing" -> "Finish"
      [] OTHER                -> "Idling"

Advance(state) ==
    CASE state = "Pending"    -> "Processing"
      [] state = "Processing" -> "Finish"
      [] OTHER                -> state

(* The transaction names no state it expects: it takes whatever it finds   *)
(* one step further.                                                       *)
change_job_state(job) ==
    /\ jobs' = [jobs EXCEPT ![job] = Advance(@)]
    /\ UNCHANGED <<block, scripts, results>>

\* Mutant: a result is accepted while the job is being processed.
submit_result_early(job, value, processor_pub) ==
    /\ jobs[job] \in {"Processing", "Finish"}
    /\ value \notin Oversized
    /\ results' = [results EXCEPT ![job][processor_pub] = value]
    /\ UNCHANGED <<block, scripts, jobs>>

(* A first result that does not fit is an error, a later one a panic of    *)
(* the call: neither changes the state.                                    *)
submit_result_unsiged(job, value, processor_pub) ==
    /\ jobs[job] = "Finish"
    /\ value \notin Oversized
    /\ results' = [results EXCEPT ![job][processor_pub] = value]
    /\ UNCHANGED <<block, scripts, jobs>>

(* Both unsigned calls carry the block their sender saw; it is checked     *)
(* when the transaction enters the pool and again when it is applied.      *)
validate_unsigned(block_number) == block_number <= block

NewBlock ==
    /\ block < MaxBlock
    /\ block' = block + 1
    /\ UNCHANGED <<scripts, jobs, results>>

-----------------------------------------------------------------------------

SignedCall ==
    \E who \in Accounts, name \in Scripts :
        \/ request_script_execution(who, name)
        \/ \E code \in Codes, abi \in Abis : upload_wasm(who, name, code, abi)

(* The chain alone: unsigned transactions come from anywhere.              *)
UnsignedCall ==
    \E block_number \in 1..MaxBlock, job \in Jobs :
        /\ validate_unsigned(block_number)
        /\ \/ change_job_state(job)
           \/ \E value \in Outputs, p \in Processors :
                 submit_result_unsiged(job, value, p)

ChainNext == SignedCall \/ UnsignedCall \/ NewBlock

ChainSpec == ChainInit /\ [][ChainNext]_chainVars

-----------------------------------------------------------------------------

(* A result is only ever stored for a job that has finished, and a         *)
(* finished job never goes back: whoever reads ScriptResult may rely on    *)
(* the state of the job.  About lines 412-415 against 389-397.             *)
ResultOnlyWhenFinished ==
    \A j \in Jobs, p \in Processors : results[j][p] # None => jobs[j] = "Finish"

(* Everything a request can reach fits the bound of the storage it is      *)
(* copied to: a job copies its script's fields without a check of its own  *)
(* (lines 357-363), so it relies on upload_wasm having made one.           *)
StoredValuesFit ==
    /\ \A j \in Jobs : jobs[j] # "absent" =>
          {j.script, j.code, j.abi} \cap Oversized = {}
    /\ \A j \in Jobs, p \in Processors : results[j][p] \notin Oversized

(* A job, once queued, is never forgotten and moves only forward, one      *)
(* state at a time, and a stored result is never taken back: no            *)
(* interleaving of stale unsigned transactions can undo a run.             *)
Forward(s, t) ==
    <<s, t>> \in {<<"absent", "Pending">>, <<"Pending", "Processing">>,
                  <<"Processing", "Finish">>}

JobsOnlyMoveForward ==
    [][ /\ \A j \in Jobs : jobs'[j] = jobs[j] \/ Forward(jobs[j], jobs'[j])
        /\ \A j \in Jobs, p \in Processors :
              results[j][p] # None => results'[j][p] # None ]_chainVars

(* The comment at lines 355-356: "A caller cannot call a script after it   *)
(* being called and is being processed."  The job id also hashes code and  *)
(* ABI, so a new upload opens a second run of the same call.               *)
Running(j) == jobs[j] \in {"Pending", "Processing"}

OneRunningJobPerCall ==
    \A i, j \in Jobs :
        (Running(i) /\ Running(j) /\ i.caller = j.caller /\ i.script = j.script)
            => i = j
=============================================================================
