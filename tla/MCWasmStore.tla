---------------------------- MODULE MCWasmStore -----------------------------
(* The chain alone, for TLC: two callers, one script that is uploaded with *)
(* two different codes, and one code and one output that do not fit.       *)
EXTENDS WasmStore, TLC

CONSTANTS alice, bob, price, v1, v2, hugeCode, abi, key, out, hugeOut

MCAccounts == {alice, bob}
MCScripts == {price}
MCCodes == {v1, v2, hugeCode}
MCAbis == {abi}
MCProcessors == {key}
MCOutputs == {out, hugeOut}
MCOversized == {hugeCode, hugeOut}

Symmetry == Permutations({alice, bob}) \cup Permutations({v1, v2})
=============================================================================
