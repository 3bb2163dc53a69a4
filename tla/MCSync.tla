------------------------------- MODULE MCSync -------------------------------
(***************************************************************************)
(* Small instances of Sync for TLC: a node with and one without a          *)
(* transaction index, where any call or any call but the walk's may fail.  *)
(***************************************************************************)
EXTENDS Sync, TLC

Symmetry == Permutations(Fork)

Indexed == [initHint |-> None, txIndex |-> TRUE, faultsAt |-> Call]

Hinted == [initHint |-> 2, txIndex |-> FALSE, faultsAt |-> Call \ {"walk"}]

Both == {Indexed, Hinted}

OnlyTheWalkFails == {[Indexed EXCEPT !.faultsAt = {"walk"}]}

NothingIsIndexed == {[initHint |-> None, txIndex |-> FALSE, faultsAt |-> {}]}
=============================================================================
