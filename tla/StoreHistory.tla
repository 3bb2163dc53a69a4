---------------------------- MODULE StoreHistory ----------------------------
(***************************************************************************)
(* IndexerStore with a history variable, to say that a rollback is the     *)
(* inverse of what it takes back.  The program does not keep this history; *)
(* the tables and their steps are those of IndexerStore.                   *)
(***************************************************************************)
EXTENDS IndexerStore

VARIABLE past  \* [Heights -> Tables]: what the tables were below each block

historyVars == <<allVars, past>>

\* The tables but for the journal of rollbacks, which only grows.
Contents(t) == [t EXCEPT !.journal = 0]

\* A block at height h is stored, or is being written or removed.
Known(h) == db.blocks[h] # None \/ txn.blocks[h] # None

HistoryInit == StoreInit /\ past = [h \in Heights |-> None]

\* A block that is written joins; one that is removed, or was never committed,
\* is forgotten.
Remember ==
  past' = [h \in Heights |-> IF ~Known(h)' THEN None
                             ELSE IF Known(h) THEN past[h]
                             ELSE Contents(txn)]

HistoryNext == StoreNext /\ Remember

HistorySpec == HistoryInit /\ [][HistoryNext]_historyVars

(***************************************************************************)
(* store.rollback: after a rollback to an ancestor the tables are, row for *)
(* row, what they were when the ancestor was the tip: objects, states with *)
(* their spent marks, chapters, undo rows, blocks and the INIT, whatever   *)
(* was written, taken back or lost since.                                  *)
(***************************************************************************)
RollbackRestores ==
  [][db'.journal # db.journal => Contents(db') = past[target + 1]]_historyVars

-----------------------------------------------------------------------------
(***************************************************************************)
(* What a reader finds in the tables and, below each stored block, what    *)
(* was there before it: the stack that appendBlocks and rollback promise.  *)
(***************************************************************************)
Promise == INSTANCE BlockStore
             WITH Height <- Heights, Empty <- EmptyTables,
                  contents <- Contents(db),
                  below <- [h \in Stored(db) |-> past[h]]

(***************************************************************************)
(* The two transactions implement the stack: an append puts a batch of     *)
(* consecutive blocks on top at once, a rollback brings back what was      *)
(* below the lowest block it removes, and no other statement, failure or   *)
(* restart changes what a reader finds.                                    *)
(***************************************************************************)
ImplementsBlockStore == Promise!Spec
=============================================================================
