-------------------------- MODULE MCProcessorStake --------------------------
(* Small instances of the processor stakes for TLC.                        *)
EXTENDS ProcessorStake, TLC

CONSTANTS alice, bob

MCAccounts == {alice, bob}
MCAmounts == {0, 1, 2}
Symmetry == Permutations(Accounts)
=============================================================================
