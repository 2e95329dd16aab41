---------------------------- MODULE MCNodeService ----------------------------
(* A small instance of the node for TLC: a key that is not a collator's,   *)
(* and files with and without the extension.                               *)
EXTENDS NodeService

CONSTANTS eve

MCKeys == {alice, eve}
MCFiles == {[para_id |-> NoParaId, genesis |-> Genesis],
            [para_id |-> 2000, genesis |-> [parachain_id |-> 2000, collators |-> {eve}]]}
=============================================================================
