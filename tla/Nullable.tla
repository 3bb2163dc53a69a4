------------------------------ MODULE Nullable ------------------------------
(* The null of the modules that MCSameRules composes. *)
CONSTANT None \* null, undefined, not there yet
=============================================================================
