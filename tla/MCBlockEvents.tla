---------------------------- MODULE MCBlockEvents ----------------------------
(* An instance of BlockEvents for TLC. *)
EXTENDS BlockEvents

CONSTANTS x, y

\* A block with a page and a half of events, and one with a page.
MCEvents == [b \in Block |-> IF b = x THEN 3 ELSE 2]
=============================================================================
