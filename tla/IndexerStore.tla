---------------------------- MODULE IndexerStore ----------------------------
(***************************************************************************)
(* The tables of pipeline A and the only process that writes them: the     *)
(* append and rollback transactions of src/indexer/indexer.store.ts, fed   *)
(* by batches of blocks reduced from the cached object map as              *)
(* connectBatch of src/indexer/sync.service.ts does.                       *)
(*                                                                         *)
(* A step is one statement group inside a transaction; readers see `db`,   *)
(* which only a commit changes.  Any step may fail or the process crash:   *)
(* the transaction, the batch and the cache are lost, the tables stay.     *)
(* The transactions, events and checkpoints of a block live and die with   *)
(* its block row (ON DELETE CASCADE) and are not kept apart from it; the   *)
(* carriers table receives the same writes as the states table.            *)
(***************************************************************************)
EXTENDS BlockReducer, Sequences

CONSTANTS
  BatchBlocks,  \* sync.batchBlocks: blocks committed in one transaction
  MaxReorgs     \* bound: rollbacks in one behaviour

ASSUME StoreAssumption == BatchBlocks \in Nat \ {0} /\ MaxReorgs \in Nat

VARIABLES
  db,     \* the committed tables
  txn,    \* the tables as the open transaction sees them
  mode,   \* what syncOnce is doing
  batch,  \* reduced blocks not yet written
  target, \* ancestor height of the rollback under way
  cache   \* SyncService.objects: the object map, or None

storeVars == <<db, txn, mode, batch, target, cache>>
allVars == <<vars, storeVars>>

Heights == 1 .. MaxHeight

-----------------------------------------------------------------------------
(***************************************************************************)
(* Rows.                                                                   *)
(***************************************************************************)
\* tandem_objects has no column for the carrier's height.
RowOf(record) ==
  [createHeight |-> record.createHeight, founding |-> record.founding,
   status |-> record.status, stateSequence |-> record.stateSequence,
   currentOutpoint |-> record.currentOutpoint, keys |-> record.keys,
   terminalTxid |-> record.terminalTxid, chapterCount |-> record.chapterCount]

RowsOf(map) == [k \in Txid |-> IF map[k] = None THEN None ELSE RowOf(map[k])]

\* loadObjects: the height comes back from the joined state row.
LoadObjects(tables) ==
  LET CurrentHeight(row) ==
        IF row.currentOutpoint = None THEN None
        ELSE IF tables.states[row.currentOutpoint] = None THEN None
        ELSE tables.states[row.currentOutpoint].createdHeight
      RecordOf(row) ==
        [createHeight |-> row.createHeight, founding |-> row.founding,
         status |-> row.status, stateSequence |-> row.stateSequence,
         currentOutpoint |-> row.currentOutpoint,
         currentHeight |-> CurrentHeight(row), keys |-> row.keys,
         terminalTxid |-> row.terminalTxid,
         chapterCount |-> row.chapterCount]
  IN [k \in Txid |-> IF tables.objects[k] = None THEN None
                     ELSE RecordOf(tables.objects[k])]

\* A block row: object_state_root commits to the object map after the block;
\* coins is the state of the Bitcoin chain that the block's hash commits to.
BlockRow(b) == [objectStateRoot |-> RowsOf(b.objects), coins |-> b.coins]

EmptyTables ==
  [blocks |-> [h \in Heights |-> None], init |-> None, objects |-> NoRows,
   states |-> NoRows, chapters |-> NoRows,
   undo |-> [h \in Heights |-> [k \in Txid |-> Untouched]], journal |-> 0]

Stored(tables) == {h \in Heights : tables.blocks[h] # None}

\* canonicalTip: the highest stored block, 0 when there is none.
Tip(tables) ==
  IF Stored(tables) = {} THEN 0
  ELSE CHOOSE h \in Stored(tables) : \A g \in Stored(tables) : g <= h

-----------------------------------------------------------------------------
(***************************************************************************)
(* writeBlock.                                                             *)
(***************************************************************************)
\* Mutant: an existing row is kept (INSERT IGNORE).
Upsert_Ignore(old, record) == IF old = None THEN RowOf(record) ELSE old

\* An upsert leaves create_txid and create_height of an existing row alone.
Upsert(old, record) ==
  IF old = None THEN RowOf(record)
  ELSE [RowOf(record) EXCEPT !.createHeight = old.createHeight]

WrittenObjects(t, b) ==
  [k \in Txid |->
     IF b.undo[k] = Untouched \/ b.objects[k] = None THEN t.objects[k]
     ELSE Upsert(t.objects[k], b.objects[k])]

InsertedState(t, b, o) ==
  IF b.newStates[o] = None THEN t.states[o]
  ELSE [key |-> b.newStates[o].key, sequence |-> b.newStates[o].sequence,
        keys |-> b.newStates[o].keys, createdHeight |-> b.height,
        spentHeight |-> None]

\* Mutant: spent_height and spent_txid are swapped.
WrittenStates_Swapped(t, b) ==
  [o \in Txid |->
     IF b.spentOutpoints[o] = None \/ InsertedState(t, b, o) = None
     THEN InsertedState(t, b, o)
     ELSE [InsertedState(t, b, o) EXCEPT !.spentHeight = b.spentOutpoints[o]]]

WrittenStates(t, b) ==
  [o \in Txid |->
     IF b.spentOutpoints[o] = None \/ InsertedState(t, b, o) = None
     THEN InsertedState(t, b, o)
     ELSE [InsertedState(t, b, o) EXCEPT !.spentHeight = b.height]]

WrittenChapters(t, b) ==
  [x \in Txid |->
     IF b.chapters[x] = None THEN t.chapters[x]
     ELSE [key |-> b.chapters[x].key, sequence |-> b.chapters[x].sequence,
           blockHeight |-> b.height]]

Written(t, b) ==
  [t EXCEPT !.blocks[b.height] = BlockRow(b),
            !.init = IF b.initConfirmed THEN b.activation ELSE @,
            !.undo[b.height] = b.undo,
            !.objects = WrittenObjects(t, b),
            !.states = WrittenStates(t, b),
            !.chapters = WrittenChapters(t, b)]

-----------------------------------------------------------------------------
(***************************************************************************)
(* One height of rollback.  Deleting an object or the block row cascades.  *)
(***************************************************************************)
UndoneObjects(t, h) ==
  [k \in Txid |->
     IF t.undo[h][k] = Untouched \/ t.objects[k] = None THEN t.objects[k]
     ELSE IF t.undo[h][k] = None THEN None
     ELSE [RowOf(t.undo[h][k]) EXCEPT !.createHeight = t.objects[k].createHeight]]

DeletedObjects(t, h) == {k \in Txid : t.undo[h][k] = None}

\* Mutant: the spent marks of the removed block stay.
UndoneStates_KeepSpent(t, h) ==
  [o \in Txid |->
     IF t.states[o] = None THEN None
     ELSE IF \/ t.states[o].createdHeight = h
             \/ t.states[o].key \in DeletedObjects(t, h)
     THEN None
     ELSE t.states[o]]

UndoneStates(t, h) ==
  [o \in Txid |->
     IF t.states[o] = None THEN None
     ELSE IF \/ t.states[o].createdHeight = h
             \/ t.states[o].key \in DeletedObjects(t, h)
     THEN None
     ELSE IF t.states[o].spentHeight = h
     THEN [t.states[o] EXCEPT !.spentHeight = None]
     ELSE t.states[o]]

\* Mutant: only the chapters of deleted objects go.
UndoneChapters_CascadeOnly(t, h) ==
  [x \in Txid |->
     IF t.chapters[x] = None THEN None
     ELSE IF t.chapters[x].key \in DeletedObjects(t, h) THEN None
     ELSE t.chapters[x]]

UndoneChapters(t, h) ==
  [x \in Txid |->
     IF t.chapters[x] = None THEN None
     ELSE IF \/ t.chapters[x].blockHeight = h
             \/ t.chapters[x].key \in DeletedObjects(t, h)
     THEN None
     ELSE t.chapters[x]]

\* Mutant: tandem_init outlives its block.
Undone_KeepInit(t, h) ==
  [t EXCEPT !.blocks[h] = None,
            !.undo[h] = [k \in Txid |-> Untouched],
            !.objects = UndoneObjects(t, h),
            !.states = UndoneStates(t, h),
            !.chapters = UndoneChapters(t, h)]

Undone(t, h) ==
  [t EXCEPT !.blocks[h] = None,
            !.init = IF @ = None THEN None
                     ELSE IF @.height = h THEN None ELSE @,
            !.undo[h] = [k \in Txid |-> Untouched],
            !.objects = UndoneObjects(t, h),
            !.states = UndoneStates(t, h),
            !.chapters = UndoneChapters(t, h)]

-----------------------------------------------------------------------------
(***************************************************************************)
(* Reducing a batch.                                                       *)
(***************************************************************************)
\* The reducer's variables are locals of connectBatch.
DropLocals ==
  /\ coins' = [t \in Txid |-> Unseen]
  /\ pc' = "idle"
  /\ height' = 0
  /\ activation' = None
  /\ base' = NoRows
  /\ objects' = NoRows
  /\ active' = NoRows
  /\ undo' = [k \in Txid |-> Untouched]
  /\ newStates' = NoRows
  /\ spentOutpoints' = NoRows
  /\ chapters' = NoRows
  /\ events' = {}

\* The objects come from the cache, or from the tables into the cache.  The
\* first block follows the tip; before any, the INIT may be at any height.
StartBatch ==
  LET tip == Tip(db)
      loaded == IF cache # None THEN cache ELSE LoadObjects(db) IN
  /\ mode = "ready"
  /\ mode' = "batch"
  /\ cache' = loaded
  /\ objects' = loaded
  /\ activation' = db.init
  /\ IF tip = 0
     THEN height' \in 0 .. MaxHeight - 1 /\ coins' = [t \in Txid |-> Unseen]
     ELSE height' = tip /\ coins' = db.blocks[tip].coins
  /\ UNCHANGED <<pc, base, active, undo, newStates, spentOutpoints, chapters,
                 events, db, txn, batch, target>>

ReduceNextBlock ==
  /\ mode = "batch"
  /\ Len(batch) < BatchBlocks
  /\ BeginBlock
  /\ UNCHANGED storeVars

ReduceNextTransaction ==
  /\ ReduceTransaction
  /\ UNCHANGED storeVars

FinishBlock ==
  /\ EndBlock
  /\ batch' = Append(batch,
       [height |-> height, initConfirmed |-> activation.height = height,
        activation |-> activation, objects |-> objects, undo |-> undo,
        newStates |-> newStates, spentOutpoints |-> spentOutpoints,
        chapters |-> chapters, coins |-> coins])
  /\ UNCHANGED <<db, txn, mode, target, cache>>

\* The batch may end early, at a broken parent link or on shutdown.
EndEmptyBatch ==
  /\ mode = "batch"
  /\ pc = "idle"
  /\ batch = <<>>
  /\ mode' = "ready"
  /\ DropLocals
  /\ UNCHANGED <<db, txn, batch, target, cache>>

-----------------------------------------------------------------------------
(***************************************************************************)
(* The append transaction.                                                 *)
(***************************************************************************)
StartAppend ==
  /\ mode = "batch"
  /\ pc = "idle"
  /\ batch # <<>>
  /\ mode' = "append"
  /\ txn' = db
  /\ UNCHANGED <<vars, db, batch, target, cache>>

WriteBlock ==
  /\ mode = "append"
  /\ batch # <<>>
  /\ txn' = Written(txn, Head(batch))
  /\ batch' = Tail(batch)
  /\ UNCHANGED <<vars, db, mode, target, cache>>

\* The map of the last reduced block becomes the cache; if the answer to the
\* commit is lost, tick drops the cache instead.
CommitAppend ==
  /\ mode = "append"
  /\ batch = <<>>
  /\ db' = txn
  /\ cache' \in {objects, None}
  /\ mode' = "ready"
  /\ txn' = EmptyTables
  /\ DropLocals
  /\ UNCHANGED <<batch, target>>

-----------------------------------------------------------------------------
(***************************************************************************)
(* The rollback transaction, for a plan above ancestor (planReorgRollback).*)
(* The plan names the tip this process has just read and nobody else       *)
(* writes, so the tip and ancestor checks under the lock find what it      *)
(* read.                                                                   *)
(***************************************************************************)
StartRollback(ancestor) ==
  /\ mode = "ready"
  /\ db.init # None
  /\ ancestor >= db.init.height - 1
  /\ ancestor < Tip(db)
  /\ db.journal < MaxReorgs
  /\ mode' = "rollback"
  /\ target' = ancestor
  /\ txn' = db
  /\ UNCHANGED <<vars, db, batch, cache>>

\* Mutant: each height is committed by itself.
RollbackHeight_Autocommit ==
  /\ mode = "rollback"
  /\ Tip(txn) > target
  /\ txn' = Undone(txn, Tip(txn))
  /\ db' = txn'
  /\ UNCHANGED <<vars, mode, batch, target, cache>>

RollbackHeight ==
  /\ mode = "rollback"
  /\ Tip(txn) > target
  /\ txn' = Undone(txn, Tip(txn))
  /\ UNCHANGED <<vars, db, mode, batch, target, cache>>

\* Mutant: the cached map survives the rollback.
CommitRollback_KeepCache ==
  /\ mode = "rollback"
  /\ Tip(txn) <= target
  /\ db' = [txn EXCEPT !.journal = @ + 1]
  /\ mode' = "ready"
  /\ txn' = EmptyTables
  /\ target' = 0
  /\ UNCHANGED <<vars, batch, cache>>

CommitRollback ==
  /\ mode = "rollback"
  /\ Tip(txn) <= target
  /\ db' = [txn EXCEPT !.journal = @ + 1]
  /\ cache' = None
  /\ mode' = "ready"
  /\ txn' = EmptyTables
  /\ target' = 0
  /\ UNCHANGED <<vars, batch>>

\* A rejected call, a lost connection or a crash at any point: the open
\* transaction rolls back, tick drops the cache, a restart starts without.
Fail ==
  /\ mode # "ready" \/ cache # None
  /\ mode' = "ready"
  /\ txn' = EmptyTables
  /\ batch' = <<>>
  /\ target' = 0
  /\ cache' = None
  /\ DropLocals
  /\ UNCHANGED db

-----------------------------------------------------------------------------
StoreInit ==
  /\ Init
  /\ height = 0
  /\ db = EmptyTables
  /\ txn = EmptyTables
  /\ mode = "ready"
  /\ batch = <<>>
  /\ target = 0
  /\ cache = None

StoreNext ==
  \/ StartBatch
  \/ ReduceNextBlock
  \/ ReduceNextTransaction
  \/ FinishBlock
  \/ EndEmptyBatch
  \/ StartAppend
  \/ WriteBlock
  \/ CommitAppend
  \/ \E ancestor \in 0 .. MaxHeight : StartRollback(ancestor)
  \/ RollbackHeight
  \/ CommitRollback
  \/ Fail

StoreSpec == StoreInit /\ [][StoreNext]_allVars

-----------------------------------------------------------------------------
(***************************************************************************)
(* Types.                                                                  *)
(***************************************************************************)
\* tandem_objects, keyed by object_key.
ObjectRow ==
  [createHeight : Nat, founding : BOOLEAN, status : Status,
   stateSequence : 0 .. MaxSequence, currentOutpoint : Txid \cup {None},
   keys : KeyPair, terminalTxid : Txid \cup {None}, chapterCount : Nat]

\* tandem_blocks, keyed by height; tandem_checkpoints repeats its roots.
StoredBlock ==
  [objectStateRoot : [Txid -> ObjectRow \cup {None}], coins : [Txid -> Coin]]

\* tandem_states, keyed by outpoint.
StoredState ==
  [key : Txid, sequence : 0 .. MaxSequence, keys : KeyPair,
   createdHeight : Nat, spentHeight : Nat \cup {None}]

\* tandem_chapters, unique by txid.
StoredChapter == [key : Txid, sequence : 0 .. MaxSequence, blockHeight : Nat]

\* tandem_object_undo of a height: prior is NULL for a created object.
UndoRows == [Txid -> ObjectRecord \cup {None, Untouched}]

\* tandem_init has one row, and only the journal's length is kept.
Tables ==
  [blocks : [Heights -> StoredBlock \cup {None}],
   init : Activation \cup {None},
   objects : [Txid -> ObjectRow \cup {None}],
   states : [Txid -> StoredState \cup {None}],
   chapters : [Txid -> StoredChapter \cup {None}],
   undo : [Heights -> UndoRows],
   journal : Nat]

ReducedBlock ==
  [height : Heights, initConfirmed : BOOLEAN, activation : Activation,
   objects : [Txid -> ObjectRecord \cup {None}],
   undo : [Txid -> ObjectRecord \cup {None, Untouched}],
   newStates : [Txid -> StateRow \cup {None}],
   spentOutpoints : [Txid -> Txid \cup {None}],
   chapters : [Txid -> ChapterRow \cup {None}],
   coins : [Txid -> Coin]]

\* NULL is told apart from every row and from a loaded map.
ASSUME StoreMarkerAssumption ==
  None \notin ObjectRow \cup StoredBlock \cup StoredState \cup StoredChapter
            \cup [Txid -> ObjectRecord \cup {None}]

\* Every variable of the store has its type.
StoreTypeOK ==
  /\ TypeOK
  /\ db \in Tables
  /\ txn \in Tables
  /\ mode \in {"ready", "batch", "append", "rollback"}
  /\ batch \in Seq(ReducedBlock)
  /\ target \in 0 .. MaxHeight
  /\ cache \in [Txid -> ObjectRecord \cup {None}] \cup {None}

-----------------------------------------------------------------------------
(***************************************************************************)
(* What must hold.                                                         *)
(***************************************************************************)
IsActiveRow(row) == row # None /\ row.status = "active"

(***************************************************************************)
(* The objects table is what the tip's object_state_root commits to, in    *)
(* the committed tables and between the blocks of a transaction: a block   *)
(* connected from a stale map, or a rollback that restores one object too  *)
(* few, would publish a root that the rows contradict.                     *)
(***************************************************************************)
RootMatchesObjects ==
  \A t \in {db, txn} :
    t.objects = IF Tip(t) = 0 THEN NoRows
                ELSE t.blocks[Tip(t)].objectStateRoot

(***************************************************************************)
(* The undo journal of every stored block leads from its state root to its *)
(* parent's, so any suffix of the chain can be taken back (store.rollback).*)
(***************************************************************************)
UndoLeadsToParent ==
  \A h \in Stored(db) :
    LET before == IF h - 1 \in Stored(db) THEN db.blocks[h - 1].objectStateRoot
                  ELSE NoRows
    IN \A k \in Txid :
         IF db.undo[h][k] = Untouched
         THEN db.blocks[h].objectStateRoot[k] = before[k]
         ELSE before[k] = IF db.undo[h][k] = None THEN None
                          ELSE RowOf(db.undo[h][k])

(***************************************************************************)
(* tandem_states and tandem_chapters agree with tandem_objects: an active  *)
(* object has exactly one unspent row, that of its current outpoint, an    *)
(* ended one has none, and chapter_count counts the chapter rows.  The     *)
(* spent marks and row deletions of a rollback must undo exactly those of  *)
(* the blocks it removes.                                                  *)
(***************************************************************************)
TablesAgree ==
  \A t \in {db, txn}, k \in Txid :
    LET row == t.objects[k]
        unspent == {o \in Txid : /\ t.states[o] # None
                                 /\ t.states[o].key = k
                                 /\ t.states[o].spentHeight = None}
        chaptersOf == {x \in Txid : t.chapters[x] # None
                                    /\ t.chapters[x].key = k}
    IN IF row = None
       THEN /\ \A o \in Txid : t.states[o] # None => t.states[o].key # k
            /\ chaptersOf = {}
       ELSE /\ unspent = IF row.status = "active" THEN {row.currentOutpoint}
                         ELSE {}
            /\ \A o \in unspent : /\ t.states[o].sequence = row.stateSequence
                                  /\ t.states[o].keys = row.keys
            /\ row.chapterCount = Cardinality(chaptersOf)

(***************************************************************************)
(* The cached object map is what a fresh load of the tables would give,    *)
(* including the carrier heights the join recovers.  A cache surviving a   *)
(* rollback or a failed commit would be reduced against silently.          *)
(***************************************************************************)
CacheCoherent == cache # None => cache = LoadObjects(db)

(***************************************************************************)
(* What readers see as active is unspent on the chain of the stored tip.   *)
(***************************************************************************)
StoredCarrierIsUnspent ==
  \A k \in Txid : IsActiveRow(db.objects[k]) =>
    LET o == db.objects[k].currentOutpoint IN
    /\ db.blocks[Tip(db)].coins[o] > Spent
    /\ db.states[o].createdHeight = db.blocks[Tip(db)].coins[o]

(***************************************************************************)
(* The stored chain has no gap and starts at the confirmed INIT, and there *)
(* is an INIT row exactly when there are blocks.                           *)
(***************************************************************************)
ChainIsContiguous ==
  \A t \in {db, txn} :
    IF t.init = None THEN Stored(t) = {}
    ELSE Stored(t) = t.init.height .. Tip(t) /\ Tip(t) # 0

(***************************************************************************)
(* No INSERT of the append transaction meets a primary or unique key: left *)
(* over rows of a removed chain would make the block fail for ever.        *)
(***************************************************************************)
InsertsAreFresh ==
  mode = "append" /\ batch # <<>> =>
    LET b == Head(batch) IN
    /\ txn.blocks[b.height] = None
    /\ b.initConfirmed => txn.init = None
    /\ \A o \in Txid : b.newStates[o] # None =>
         /\ txn.states[o] = None
         /\ \A p \in Txid : txn.states[p] # None =>
              \/ txn.states[p].key # b.newStates[o].key
              \/ txn.states[p].sequence # b.newStates[o].sequence
    /\ \A x \in Txid : b.chapters[x] # None =>
         /\ txn.chapters[x] = None
         /\ \A y \in Txid : txn.chapters[y] # None =>
              \/ txn.chapters[y].key # b.chapters[x].key
              \/ txn.chapters[y].sequence # b.chapters[x].sequence

(***************************************************************************)
(* "A terminated object never becomes active again" except by a rollback   *)
(* (site/src/content/docs/understand/reorgs.mdx): a commit that is no      *)
(* rollback changes no ended object and forgets none.                      *)
(***************************************************************************)
TerminalIsFinal ==
  [][db'.journal = db.journal =>
       \A k \in Txid : db.objects[k] # None =>
         /\ db'.objects[k] # None
         /\ db.objects[k].status # "active" => db'.objects[k] = db.objects[k]]_db
=============================================================================
