------------------------------ MODULE MCCatalog ------------------------------
(* Instances of Catalog for TLC. *)
EXTENDS Catalog

CONSTANTS x, y

\* A block with two objects, or one, and a block with none.
MCCreates == [b \in Block |-> IF b = x THEN 2 ELSE 0]
MCCreatesFew == [b \in Block |-> IF b = x THEN 1 ELSE 0]
=============================================================================
