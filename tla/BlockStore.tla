------------------------------ MODULE BlockStore ------------------------------
(***************************************************************************)
(* What IndexerStore.appendBlocks and IndexerStore.rollback of             *)
(* src/indexer/indexer.store.ts promise their caller and every reader: the *)
(* tables are a stack.  A batch of blocks goes on top as a whole, a        *)
(* rollback uncovers what was below, and nothing else ever changes them.   *)
(* How rows, marks and undo journals keep this promise is in IndexerStore; *)
(* the sync loop relies on it in Sync.                                     *)
(***************************************************************************)
EXTENDS Integers

CONSTANTS
  Height,     \* the heights of blocks
  Empty,      \* the contents of the tables before any block
  BatchBlocks \* the most blocks of one append

VARIABLES
  contents, \* what a reader finds in the tables
  below     \* by height of a stored block: the contents below that block

storeVars == <<contents, below>>

Stored == DOMAIN below

Init == contents = Empty /\ below = [h \in {} |-> Empty]

\* appendBlocks: the first block is the INIT's, at any height, or follows the
\* tip.
Append ==
  \E first, top \in Height :
    /\ first <= top /\ top < first + BatchBlocks
    /\ \A h \in Stored : h < first
    /\ Stored # {} => first - 1 \in Stored
    /\ DOMAIN below' = Stored \cup (first .. top)
    /\ below' = [h \in DOMAIN below' |-> IF h \in Stored THEN below[h] ELSE below'[h]]
    /\ below'[first] = contents

\* rollback: the lowest of the blocks above the ancestor is named by its height.
Rollback ==
  \E lowest \in Stored :
    /\ contents' = below[lowest]
    /\ below' = [h \in {g \in Stored : g < lowest} |-> below[h]]

Next == Append \/ Rollback

Spec == Init /\ [][Next]_storeVars
=============================================================================
