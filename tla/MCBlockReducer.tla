--------------------------- MODULE MCBlockReducer ---------------------------
(***************************************************************************)
(* A small instance of BlockReducer for TLC.                               *)
(***************************************************************************)
EXTENDS BlockReducer, TLC

Symmetry == Permutations(Txid) \cup Permutations(KeyPair)
=============================================================================
