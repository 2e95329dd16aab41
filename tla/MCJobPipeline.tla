--------------------------- MODULE MCJobPipeline ----------------------------
(* Small instances of the pipeline for TLC.  The configurations choose how *)
(* many callers (so: jobs), nodes and hooks there are, which of the        *)
(* processor keys each node has, and what may fail.                        *)
EXTENDS JobPipeline, TLC

CONSTANTS alice, bob, price, code, abi, abi64, key1, key2, out1, out2, n1, n2, w1, w2

OneCaller == {alice}
TwoCallers == {alice, bob}
MCScripts == {price}
MCCodes == {code}
OneAbi == {abi}
TwoAbis == {abi, abi64}
OneKey == {key1}
TwoKeys == {key1, key2}
OneOutput == {out1}
TwoOutputs == {out1, out2}
NothingOversized == {}
OneNode == {n1}
OneWorker == {w1}
TwoWorkers == {w1, w2}

\* Alice's jobs are yielded before bob's, and the first ABI's before the second's.
MCRank == [j \in Jobs |-> (IF j.caller = alice THEN 0 ELSE 2) + (IF j.abi = abi THEN 1 ELSE 2)]

\* Every node has the first key, as nodes without one of their own do.
SharedKey == [n \in Nodes |-> key1]

NoAlias == {}
Abi64Aliased == {abi64}
WorkerSymmetry == Permutations(Workers)

=============================================================================
