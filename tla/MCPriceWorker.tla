---------------------------- MODULE MCPriceWorker ---------------------------
(* A small instance of the price worker and its feed for TLC: two-bit      *)
(* prices; the source sends one as a negative number; the node has two     *)
(* keys.                                                                   *)
EXTENDS PriceWorker

CONSTANTS n1, r1, r2

OneNode == {n1}
TwoRuns == {r1, r2}
MCPrices == {0, 3}
MCNumbers == {-1}
TwoAccounts == [n \in Nodes |-> 2]
RunSymmetry == Permutations(Runs)
=============================================================================
