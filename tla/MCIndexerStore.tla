--------------------------- MODULE MCIndexerStore ---------------------------
(***************************************************************************)
(* A small instance of IndexerStore, with its history, for TLC.            *)
(***************************************************************************)
EXTENDS StoreHistory, TLC

Symmetry == Permutations(Txid) \cup Permutations(KeyPair)
=============================================================================
