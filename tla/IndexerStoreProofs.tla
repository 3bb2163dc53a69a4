------------------------- MODULE IndexerStoreProofs -------------------------
(***************************************************************************)
(* Theorems about IndexerStore, for every value of its constants: writing  *)
(* a reduced block that follows the tables keeps them sound, and so does   *)
(* undoing the tip; however batches, rollbacks and failures follow each    *)
(* other, the tables, the cached map and the blocks in between fit         *)
(* together; and undoing blocks gives back the tables they were written    *)
(* on, row for row.                                                        *)
(***************************************************************************)
EXTENDS StoreHistory, BlockReducerProofs

-----------------------------------------------------------------------------
(***************************************************************************)
(* A block follows what was before it.                                     *)
(***************************************************************************)
NoCoins == [t \in Txid |-> Unseen]

\* An object map as the reducer may start from: m on the chain with coins c,
\* under the INIT act.
SoundMap(m, c, act) ==
  /\ \A k \in Txid : m[k] # None /\ m[k].status = "active" =>
       /\ m[k].currentOutpoint # None
       /\ m[k].currentHeight # None
       /\ c[m[k].currentOutpoint] = m[k].currentHeight
       /\ m[k].currentHeight > 0
  /\ \A o, j, k \in Txid : LiveIn(m, o, j) /\ LiveIn(m, o, k) => j = k
  /\ \A k \in Txid : c[k] = Unseen => m[k] = None
  /\ (IF act = None THEN TRUE ELSE ~act.valid)
       => \A k \in Txid : m[k] # None => m[k].status # "active"
  /\ EndedHasNoCarrier(m)

UndoInverts(m, b) ==
  \A k \in Txid : IF b.undo[k] = Untouched THEN b.objects[k] = m[k]
                                           ELSE b.undo[k] = m[k]

\* Coins only appear, and rows are of coins that were not there.
CoinsFollow(c, b) ==
  \A o \in Txid : /\ c[o] # Unseen => b.coins[o] # Unseen
                  /\ b.newStates[o] # None => c[o] = Unseen
                  /\ b.chapters[o] # None => c[o] = Unseen

\* The height and the INIT of a block after p.
Placed(p, b) ==
  /\ b.initConfirmed <=> b.activation.height = b.height
  /\ IF p.activation = None THEN b.activation.height = b.height
     ELSE b.activation = p.activation /\ b.height = p.height + 1

\* The reduced block b is what reduceBlock may make of p.
Follows(p, b) ==
  /\ Placed(p, b)
  /\ UndoInverts(p.objects, b)
  /\ ObjectsFollow(p.objects, b)
  /\ RowsFollow(p.objects, b)
  /\ ChaptersFollow(p.objects, b)
  /\ CoinsFollow(p.coins, b)
  /\ SoundMap(b.objects, b.coins, b.activation)

-----------------------------------------------------------------------------
(***************************************************************************)
(* Sound tables.  Every fact is stated at every stored height, so that     *)
(* taking the tip away leaves the facts of the height below.               *)
(***************************************************************************)
Root(t, h) == t.blocks[h].objectStateRoot

RootBefore(t, h) == IF h - 1 \in Stored(t) THEN Root(t, h - 1) ELSE NoRows

\* The stored heights reach from the INIT to the tip without a gap.
HasChain(t) ==
  IF t.init = None THEN Stored(t) = {}
  ELSE \E h \in Heights : /\ t.init.height \in 1 .. h
                          /\ Stored(t) = t.init.height .. h

RootIsObjects(t) == t.objects = IF Tip(t) = 0 THEN NoRows ELSE Root(t, Tip(t))

\* The journal of a height leads to the root below, and no object is lost.
UndoLeadsDown(t, h) ==
  \A k \in Txid :
    /\ IF t.undo[h][k] = Untouched THEN Root(t, h)[k] = RootBefore(t, h)[k]
       ELSE RootBefore(t, h)[k] =
              IF t.undo[h][k] = None THEN None ELSE RowOf(t.undo[h][k])
    /\ RootBefore(t, h)[k] # None =>
         /\ Root(t, h)[k] # None
         /\ Root(t, h)[k].createHeight = RootBefore(t, h)[k].createHeight

UnspentAt(row, h) == IF row.spentHeight = None THEN TRUE ELSE row.spentHeight > h

\* A state row created up to h belongs to an object of h, and is its carrier
\* if it was unspent then.
RowAgrees(t, h, o) ==
  t.states[o] # None /\ t.states[o].createdHeight <= h =>
    LET row == Root(t, h)[t.states[o].key] IN
    /\ t.blocks[h].coins[o] # Unseen
    /\ row # None
    /\ t.states[o].sequence <= row.stateSequence
    /\ UnspentAt(t.states[o], h) =>
         row.status = "active" /\ row.currentOutpoint = o

\* The carrier of an object active at h has its row.
CarrierAgrees(t, h, k) ==
  IsActiveRow(Root(t, h)[k]) =>
    LET o == Root(t, h)[k].currentOutpoint IN
    /\ o # None
    /\ t.states[o] # None
    /\ t.states[o].key = k
    /\ t.states[o].sequence = Root(t, h)[k].stateSequence
    /\ t.states[o].keys = Root(t, h)[k].keys
    /\ t.states[o].createdHeight \in 1 .. h
    /\ t.blocks[h].coins[o] = t.states[o].createdHeight
    /\ UnspentAt(t.states[o], h)

ChaptersUpTo(t, h, k) ==
  {x \in Txid : /\ t.chapters[x] # None
                /\ t.chapters[x].key = k
                /\ t.chapters[x].blockHeight <= h}

ChapterAgrees(t, h, x) ==
  t.chapters[x] # None /\ t.chapters[x].blockHeight <= h =>
    /\ t.blocks[h].coins[x] # Unseen
    /\ Root(t, h)[t.chapters[x].key] # None
    /\ t.chapters[x].sequence <= Root(t, h)[t.chapters[x].key].stateSequence

CountAgrees(t, h, k) ==
  Root(t, h)[k] # None =>
    /\ IsFiniteSet(ChaptersUpTo(t, h, k))
    /\ Root(t, h)[k].chapterCount = Cardinality(ChaptersUpTo(t, h, k))

RootIsSound(t, h, k) ==
  /\ t.blocks[h].coins[k] = Unseen => Root(t, h)[k] = None
  /\ Root(t, h)[k] # None /\ Root(t, h)[k].status # "active" =>
       Root(t, h)[k].currentOutpoint = None
  /\ ~t.init.valid => ~IsActiveRow(Root(t, h)[k])

HeightIsSound(t, h) ==
  /\ UndoLeadsDown(t, h)
  /\ \A k \in Txid : /\ RowAgrees(t, h, k)
                     /\ CarrierAgrees(t, h, k)
                     /\ ChapterAgrees(t, h, k)
                     /\ CountAgrees(t, h, k)
                     /\ RootIsSound(t, h, k)

RowsAreOfStoredBlocks(t) ==
  \A o \in Txid :
    /\ t.states[o] # None =>
         /\ t.states[o].createdHeight \in Stored(t)
         /\ t.states[o].spentHeight \in Stored(t) \cup {None}
    /\ t.chapters[o] # None => t.chapters[o].blockHeight \in Stored(t)

GoodTables(t) ==
  /\ t \in Tables
  /\ HasChain(t)
  /\ RootIsObjects(t)
  /\ RowsAreOfStoredBlocks(t)
  /\ \A h \in Stored(t) : HeightIsSound(t, h)

\* What the tables leave to the block after the tip.
TipCoins(t) == IF Tip(t) = 0 THEN NoCoins ELSE t.blocks[Tip(t)].coins

TipState(t) == [height |-> Tip(t), activation |-> t.init,
                objects |-> LoadObjects(t), coins |-> TipCoins(t)]

\* And a block to the one after it.
StateAfter(b) == [height |-> b.height, activation |-> b.activation,
                  objects |-> b.objects, coins |-> b.coins]

-----------------------------------------------------------------------------
(***************************************************************************)
(* The tip and the loaded map.                                             *)
(***************************************************************************)
\* The tip is the end of the chain.
LEMMA TipIsEnd ==
  ASSUME NEW t \in Tables, HasChain(t)
  PROVE  IF t.init = None THEN Tip(t) = 0 /\ Stored(t) = {}
         ELSE /\ Tip(t) \in Heights
              /\ Tip(t) \in Stored(t)
              /\ t.init.height \in 1 .. Tip(t)
              /\ Stored(t) = t.init.height .. Tip(t)
<1>1. CASE t.init = None
  BY <1>1 DEF HasChain, Tip
<1>2. CASE t.init # None
  <2>1. PICK h \in Heights : /\ t.init.height \in 1 .. h
                             /\ Stored(t) = t.init.height .. h
    BY <1>2 DEF HasChain
  <2>2. h \in Stored(t) /\ \A g \in Stored(t) : g <= h
    BY <2>1 DEF Heights
  <2>3. Tip(t) \in Stored(t) /\ \A g \in Stored(t) : g <= Tip(t)
    BY <2>2 DEF Tip
  <2>4. Tip(t) = h
    BY <2>1, <2>2, <2>3 DEF Heights
  <2>5. QED
    BY <1>2, <2>1, <2>2, <2>4
<1>3. QED
  BY <1>1, <1>2

\* There are no rows at all before the first block.
LEMMA NothingBeforeChain ==
  ASSUME NEW t, GoodTables(t), Tip(t) = 0
  PROVE  /\ t.init = None
         /\ Stored(t) = {}
         /\ t.objects = NoRows
         /\ \A o \in Txid : t.states[o] = None /\ t.chapters[o] = None
<1>1. t.init = None /\ Stored(t) = {}
  BY TipIsEnd DEF GoodTables, Heights
<1>2. QED
  BY <1>1 DEF GoodTables, RootIsObjects, RowsAreOfStoredBlocks

\* After that the tip is sound, and no row is above it.
LEMMA TipIsSound ==
  ASSUME NEW t, GoodTables(t), Tip(t) # 0
  PROVE  /\ t.init # None
         /\ Tip(t) \in Heights
         /\ Tip(t) \in Stored(t)
         /\ t.init.height \in 1 .. Tip(t)
         /\ Stored(t) = t.init.height .. Tip(t)
         /\ t.objects = Root(t, Tip(t))
         /\ HeightIsSound(t, Tip(t))
         /\ \A o \in Txid :
              /\ t.states[o] # None =>
                   /\ t.states[o].createdHeight \in 1 .. Tip(t)
                   /\ UnspentAt(t.states[o], Tip(t)) <=>
                        t.states[o].spentHeight = None
              /\ t.chapters[o] # None =>
                   t.chapters[o].blockHeight \in 1 .. Tip(t)
<1>1. /\ t.init # None
      /\ Tip(t) \in Heights
      /\ Tip(t) \in Stored(t)
      /\ t.init.height \in 1 .. Tip(t)
      /\ Stored(t) = t.init.height .. Tip(t)
  BY TipIsEnd DEF GoodTables
<1>2. \A g \in Stored(t) : g \in 1 .. Tip(t)
  BY <1>1 DEF Heights
<1>3. ASSUME NEW o \in Txid, t.states[o] # None
      PROVE  /\ t.states[o].createdHeight \in 1 .. Tip(t)
             /\ UnspentAt(t.states[o], Tip(t)) <=> t.states[o].spentHeight = None
  BY <1>1, <1>2, <1>3 DEF GoodTables, RowsAreOfStoredBlocks, UnspentAt, Heights
<1>4. QED
  BY <1>1, <1>2, <1>3 DEF GoodTables, RootIsObjects, RowsAreOfStoredBlocks

\* The height a load finds for an outpoint, by the join.
HeightOf(t, o) == IF o = None THEN None
                  ELSE IF t.states[o] = None THEN None
                  ELSE t.states[o].createdHeight

\* A loaded record is its row with the height of the join.
LEMMA LoadedRecord ==
  ASSUME NEW t \in Tables, NEW k \in Txid
  PROVE  LET r == LoadObjects(t)[k]
             row == t.objects[k] IN
         IF row = None THEN r = None
         ELSE /\ row \in ObjectRow
              /\ r \in ObjectRecord
              /\ r # None
              /\ RowOf(r) = row
              /\ r.createHeight = row.createHeight
              /\ r.status = row.status
              /\ r.stateSequence = row.stateSequence
              /\ r.currentOutpoint = row.currentOutpoint
              /\ r.keys = row.keys
              /\ r.chapterCount = row.chapterCount
              /\ r.currentHeight = HeightOf(t, row.currentOutpoint)
<1> DEFINE row == t.objects[k]
           r == [createHeight |-> row.createHeight, founding |-> row.founding,
                 status |-> row.status, stateSequence |-> row.stateSequence,
                 currentOutpoint |-> row.currentOutpoint,
                 currentHeight |-> HeightOf(t, row.currentOutpoint),
                 keys |-> row.keys, terminalTxid |-> row.terminalTxid,
                 chapterCount |-> row.chapterCount]
<1>1. LoadObjects(t)[k] = IF row = None THEN None ELSE r
  BY DEF LoadObjects, HeightOf
<1>2. CASE row # None
  <2>1. row \in ObjectRow
    BY <1>2 DEF Tables
  <2>2. t.states \in [Txid -> StoredState \cup {None}]
    BY DEF Tables
  <2>3. HeightOf(t, row.currentOutpoint) \in Nat \cup {None}
    BY <2>1, <2>2 DEF HeightOf, ObjectRow, StoredState
  <2>4. r \in ObjectRecord
    BY <2>1, <2>3 DEF ObjectRow, ObjectRecord
  <2>5. r # None
    BY <2>4, MarkerAssumption
  <2>6. RowOf(r) = row
    BY <2>1 DEF RowOf, ObjectRow
  <2>7. QED
    BY <1>1, <1>2, <2>1, <2>4, <2>5, <2>6
<1>3. QED
  BY <1>1, <1>2

\* objectMap reads records of the working state, or nothing.
LEMMA LoadedType ==
  ASSUME NEW t \in Tables
  PROVE  LoadObjects(t) \in [Txid -> ObjectRecord \cup {None}]
<1>1. \A k \in Txid : LoadObjects(t)[k] \in ObjectRecord \cup {None}
  BY LoadedRecord
<1>2. LoadObjects(t) = [k \in Txid |-> LoadObjects(t)[k]]
  BY DEF LoadObjects
<1>3. QED
  BY <1>1, <1>2

\* Tables as far as readers of a row need their type.
LEMMA TablesType ==
  ASSUME NEW t \in Tables
  PROVE  /\ t.blocks \in [Heights -> StoredBlock \cup {None}]
         /\ t.init \in Activation \cup {None}
         /\ t.objects \in [Txid -> ObjectRow \cup {None}]
         /\ t.states \in [Txid -> StoredState \cup {None}]
         /\ t.chapters \in [Txid -> StoredChapter \cup {None}]
         /\ t.undo \in [Heights -> UndoRows]
         /\ t.journal \in Nat
         /\ \A h \in Stored(t) :
              /\ h \in Heights
              /\ t.blocks[h] \in StoredBlock
              /\ Root(t, h) \in [Txid -> ObjectRow \cup {None}]
              /\ t.blocks[h].coins \in [Txid -> Coin]
<1>1. ASSUME NEW h \in Stored(t)
      PROVE  h \in Heights /\ t.blocks[h] \in StoredBlock
  BY DEF Stored, Tables
<1>2. QED
  BY <1>1 DEF Tables, StoredBlock, Root

\* A loaded map is sound for the reducer, on the coins of the tip.
LEMMA LoadedMapIsSound ==
  ASSUME NEW t, GoodTables(t)
  PROVE  SoundMap(LoadObjects(t), TipCoins(t), t.init)
<1> DEFINE m == LoadObjects(t)
<1>1. t \in Tables
  BY DEF GoodTables
<1>2. CASE Tip(t) = 0
  <2>1. \A k \in Txid : m[k] = None
    BY <1>1, <1>2, NothingBeforeChain, LoadedRecord DEF NoRows
  <2>2. QED
    BY <2>1 DEF SoundMap, LiveIn, EndedHasNoCarrier
<1>3. CASE Tip(t) # 0
  <2> DEFINE T == Tip(t)
  <2>1. /\ t.init # None
        /\ t.objects = Root(t, T)
        /\ HeightIsSound(t, T)
        /\ TipCoins(t) = t.blocks[T].coins
    BY <1>3, TipIsSound DEF TipCoins
  <2>2. \A k \in Txid :
          /\ m[k] = None <=> Root(t, T)[k] = None
          /\ m[k] # None =>
               /\ m[k].status = Root(t, T)[k].status
               /\ m[k].currentOutpoint = Root(t, T)[k].currentOutpoint
               /\ m[k].currentHeight = HeightOf(t, Root(t, T)[k].currentOutpoint)
    BY <1>1, <2>1, LoadedRecord
  <2> HIDE DEF m, T
  <2>3. \A k \in Txid : CarrierAgrees(t, T, k) /\ RootIsSound(t, T, k)
    BY <2>1 DEF HeightIsSound
  <2>4. ASSUME NEW k \in Txid, m[k] # None, m[k].status = "active"
        PROVE  /\ m[k].currentOutpoint # None
               /\ m[k].currentHeight # None
               /\ TipCoins(t)[m[k].currentOutpoint] = m[k].currentHeight
               /\ m[k].currentHeight > 0
               /\ t.states[m[k].currentOutpoint].key = k
    <3>1. IsActiveRow(Root(t, T)[k])
      BY <2>2, <2>4 DEF IsActiveRow
    <3>2. None \notin Nat
      BY ReducerAssumption
    <3> DEFINE o == Root(t, T)[k].currentOutpoint
    <3>3. /\ o # None
          /\ t.states[o] # None
          /\ t.states[o].key = k
          /\ t.states[o].createdHeight \in 1 .. T
          /\ t.blocks[T].coins[o] = t.states[o].createdHeight
      BY <2>3, <3>1 DEF CarrierAgrees
    <3>4. m[k].currentOutpoint = o /\ m[k].currentHeight = t.states[o].createdHeight
      BY <2>2, <2>4, <3>3 DEF HeightOf
    <3>5. QED
      BY <2>1, <3>2, <3>3, <3>4
  <2>5. \A o, j, k \in Txid : LiveIn(m, o, j) /\ LiveIn(m, o, k) => j = k
    BY <2>4 DEF LiveIn
  <2>6. \A k \in Txid : TipCoins(t)[k] = Unseen => m[k] = None
    BY <2>1, <2>2, <2>3 DEF RootIsSound
  <2>7. (IF t.init = None THEN TRUE ELSE ~t.init.valid)
          => \A k \in Txid : m[k] # None => m[k].status # "active"
    BY <2>1, <2>2, <2>3 DEF RootIsSound, IsActiveRow
  <2>8. EndedHasNoCarrier(m)
    BY <2>2, <2>3 DEF RootIsSound, EndedHasNoCarrier, HeightOf
  <2>9. QED
    BY <2>4, <2>5, <2>6, <2>7, <2>8 DEF SoundMap, m
<1>4. QED
  BY <1>2, <1>3

-----------------------------------------------------------------------------
(***************************************************************************)
(* Undoing the tip.                                                        *)
(***************************************************************************)
\* The tables after a height is undone, table by table.
LEMMA UndoneFields ==
  ASSUME NEW t \in Tables, NEW h \in Heights
  PROVE  LET u == Undone(t, h) IN
         /\ u.blocks = [t.blocks EXCEPT ![h] = None]
         /\ u.init = IF t.init = None THEN None
                     ELSE IF t.init.height = h THEN None ELSE t.init
         /\ u.undo = [t.undo EXCEPT ![h] = [k \in Txid |-> Untouched]]
         /\ u.objects = UndoneObjects(t, h)
         /\ u.states = UndoneStates(t, h)
         /\ u.chapters = UndoneChapters(t, h)
         /\ u.journal = t.journal
BY DEF Undone, Tables

\* A record's row is a row.
LEMMA RowType ==
  ASSUME NEW r \in ObjectRecord
  PROVE  /\ RowOf(r) \in ObjectRow
         /\ RowOf(r) # None
         /\ RowOf(r).createHeight = r.createHeight
         /\ RowOf(r).status = r.status
         /\ RowOf(r).stateSequence = r.stateSequence
         /\ RowOf(r).currentOutpoint = r.currentOutpoint
         /\ RowOf(r).keys = r.keys
         /\ RowOf(r).chapterCount = r.chapterCount
<1>1. RowOf(r) \in ObjectRow
  BY DEF RowOf, ObjectRow, ObjectRecord
<1>2. QED
  BY <1>1, StoreMarkerAssumption DEF RowOf

\* Rows that differ only in a create height they share are equal.
LEMMA SameRow ==
  ASSUME NEW row \in ObjectRow, NEW old, old = row.createHeight
  PROVE  [row EXCEPT !.createHeight = old] = row
BY DEF ObjectRow

\* Undoing a height leaves tables.
LEMMA UndoneType ==
  ASSUME NEW t \in Tables, NEW h \in Heights
  PROVE  Undone(t, h) \in Tables
<1>1. /\ t.blocks \in [Heights -> StoredBlock \cup {None}]
      /\ t.init \in Activation \cup {None}
      /\ t.objects \in [Txid -> ObjectRow \cup {None}]
      /\ t.states \in [Txid -> StoredState \cup {None}]
      /\ t.chapters \in [Txid -> StoredChapter \cup {None}]
      /\ t.undo \in [Heights -> UndoRows]
      /\ t.journal \in Nat
  BY TablesType
<1>2. UndoneObjects(t, h) \in [Txid -> ObjectRow \cup {None}]
  <2>1. ASSUME NEW k \in Txid
        PROVE  (IF t.undo[h][k] = Untouched \/ t.objects[k] = None THEN t.objects[k]
                ELSE IF t.undo[h][k] = None THEN None
                ELSE [RowOf(t.undo[h][k]) EXCEPT
                        !.createHeight = t.objects[k].createHeight])
               \in ObjectRow \cup {None}
    <3>1. CASE t.undo[h][k] \notin {Untouched, None} /\ t.objects[k] # None
      <4>1. t.undo[h][k] \in ObjectRecord /\ t.objects[k] \in ObjectRow
        BY <1>1, <3>1 DEF UndoRows
      <4>2. RowOf(t.undo[h][k]) \in ObjectRow
        BY <4>1, RowType
      <4>3. [RowOf(t.undo[h][k]) EXCEPT !.createHeight = t.objects[k].createHeight]
              \in ObjectRow
        BY <4>1, <4>2 DEF ObjectRow
      <4>4. QED
        BY <3>1, <4>3
    <3>2. QED
      BY <1>1, <3>1
  <2>2. QED
    BY <2>1 DEF UndoneObjects
<1>3. UndoneStates(t, h) \in [Txid -> StoredState \cup {None}]
  <2>1. ASSUME NEW o \in Txid, t.states[o] # None
        PROVE  /\ t.states[o] \in StoredState
               /\ [t.states[o] EXCEPT !.spentHeight = None] \in StoredState
    BY <1>1, <2>1 DEF StoredState
  <2>2. QED
    BY <2>1 DEF UndoneStates
<1>4. UndoneChapters(t, h) \in [Txid -> StoredChapter \cup {None}]
  BY <1>1 DEF UndoneChapters
<1>5. /\ [t.blocks EXCEPT ![h] = None] \in [Heights -> StoredBlock \cup {None}]
      /\ [t.undo EXCEPT ![h] = [k \in Txid |-> Untouched]] \in [Heights -> UndoRows]
  BY <1>1 DEF UndoRows
<1>6. (IF t.init = None THEN None
       ELSE IF t.init.height = h THEN None ELSE t.init) \in Activation \cup {None}
  BY <1>1
<1>7. QED
  BY <1>2, <1>3, <1>4, <1>5, <1>6 DEF Undone, Tables

\* The chain without its tip.
LEMMA UndoneChain ==
  ASSUME NEW t, GoodTables(t), Tip(t) # 0
  PROVE  LET u == Undone(t, Tip(t)) IN
         /\ HasChain(u)
         /\ Stored(u) = Stored(t) \ {Tip(t)}
         /\ \A h \in Stored(u) : /\ h \in Stored(t)
                                 /\ h < Tip(t)
                                 /\ u.blocks[h] = t.blocks[h]
                                 /\ u.undo[h] = t.undo[h]
                                 /\ RootBefore(u, h) = RootBefore(t, h)
         /\ Stored(u) # {} => u.init = t.init /\ Tip(u) = Tip(t) - 1
         /\ Stored(u) = {} => Tip(u) = 0 /\ Tip(t) - 1 \notin Stored(t)
<1> DEFINE T == Tip(t)
           u == Undone(t, T)
<1>1. /\ t \in Tables
      /\ t.init # None
      /\ T \in Heights
      /\ t.init.height \in 1 .. T
      /\ Stored(t) = t.init.height .. T
  BY TipIsSound DEF GoodTables
<1>2. /\ u.blocks = [t.blocks EXCEPT ![T] = None]
      /\ u.init = IF t.init.height = T THEN None ELSE t.init
      /\ u.undo = [t.undo EXCEPT ![T] = [k \in Txid |-> Untouched]]
      /\ u \in Tables
  BY <1>1, UndoneFields, UndoneType
<1>3. t.blocks \in [Heights -> StoredBlock \cup {None}]
      /\ t.undo \in [Heights -> UndoRows]
  BY <1>1, TablesType
<1> HIDE DEF T, u
<1>4. Stored(u) = Stored(t) \ {T}
  BY <1>2, <1>3 DEF Stored
<1>5. T \in Nat /\ t.init.height \in Nat
  BY <1>1 DEF Heights
<1>6. HasChain(u)
  <2>1. CASE t.init.height = T
    BY <1>1, <1>2, <1>4, <1>5, <2>1 DEF HasChain
  <2>2. CASE t.init.height # T
    <3>1. Stored(u) = t.init.height .. T - 1
      BY <1>1, <1>4, <1>5
    <3>2. T - 1 \in Heights /\ t.init.height \in 1 .. T - 1
      BY <1>1, <1>5, <2>2, ReducerAssumption DEF Heights
    <3>3. QED
      BY <1>1, <1>2, <2>2, <3>1, <3>2 DEF HasChain
  <2>3. QED
    BY <2>1, <2>2
<1>7. ASSUME NEW h \in Stored(u)
      PROVE  /\ h \in Stored(t)
             /\ h < T
             /\ u.blocks[h] = t.blocks[h]
             /\ u.undo[h] = t.undo[h]
             /\ RootBefore(u, h) = RootBefore(t, h)
  <2>1. h \in Stored(t) /\ h # T /\ h < T /\ h \in Nat
    BY <1>1, <1>4, <1>5, <1>7
  <2>2. h - 1 # T /\ (h - 1 \in Stored(u) <=> h - 1 \in Stored(t))
    BY <1>4, <1>5, <2>1
  <2>3. \A g \in Stored(u) : u.blocks[g] = t.blocks[g] /\ u.undo[g] = t.undo[g]
    BY <1>2, <1>3, <1>4 DEF Stored
  <2>4. QED
    BY <1>7, <2>1, <2>2, <2>3 DEF RootBefore, Root
<1>8. Stored(u) # {} => u.init = t.init /\ Tip(u) = T - 1
  <2> SUFFICES ASSUME Stored(u) # {} PROVE u.init = t.init /\ Tip(u) = T - 1
    OBVIOUS
  <2>1. u.init # None
    BY <1>6 DEF HasChain
  <2>2. u.init = t.init
    BY <1>2, <2>1
  <2>3. Tip(u) \in Stored(u) /\ Stored(u) = t.init.height .. Tip(u)
    BY <1>2, <1>6, <2>1, <2>2, TipIsEnd
  <2>4. Tip(u) \in Nat /\ Tip(u) <= T - 1 /\ t.init.height <= Tip(u)
    BY <1>1, <1>4, <1>5, <2>3
  <2>5. T - 1 \in Stored(u)
    BY <1>1, <1>4, <1>5, <2>4
  <2>6. QED
    BY <1>5, <2>2, <2>3, <2>4, <2>5
<1>9. Stored(u) = {} => Tip(u) = 0 /\ T - 1 \notin Stored(t)
  BY <1>4, <1>5 DEF Tip
<1>10. QED
  BY <1>4, <1>6, <1>7, <1>8, <1>9 DEF T, u

\* The objects without the tip are those of the root below it.
LEMMA UndoneRoot ==
  ASSUME NEW t, GoodTables(t), Tip(t) # 0
  PROVE  Undone(t, Tip(t)).objects = RootBefore(t, Tip(t))
<1> DEFINE T == Tip(t)
           before == RootBefore(t, T)
<1>1. /\ t \in Tables
      /\ T \in Heights
      /\ T \in Stored(t)
      /\ t.objects = Root(t, T)
      /\ UndoLeadsDown(t, T)
  BY TipIsSound DEF GoodTables, HeightIsSound
<1>2. before \in [Txid -> ObjectRow \cup {None}]
  <2>1. CASE T - 1 \in Stored(t)
    BY <1>1, <2>1, TablesType DEF RootBefore
  <2>2. CASE T - 1 \notin Stored(t)
    BY <2>2 DEF RootBefore, NoRows
  <2>3. QED
    BY <2>1, <2>2
<1>3. t.undo[T] \in UndoRows
  BY <1>1, TablesType
<1>4. ASSUME NEW k \in Txid
      PROVE  (IF t.undo[T][k] = Untouched \/ t.objects[k] = None THEN t.objects[k]
              ELSE IF t.undo[T][k] = None THEN None
              ELSE [RowOf(t.undo[T][k]) EXCEPT
                      !.createHeight = t.objects[k].createHeight]) = before[k]
  <2> HIDE DEF T, before
  <2>1. /\ IF t.undo[T][k] = Untouched THEN Root(t, T)[k] = before[k]
           ELSE before[k] = IF t.undo[T][k] = None THEN None
                            ELSE RowOf(t.undo[T][k])
        /\ before[k] # None =>
             /\ Root(t, T)[k] # None
             /\ Root(t, T)[k].createHeight = before[k].createHeight
    BY <1>1 DEF UndoLeadsDown, before
  <2>2. CASE t.undo[T][k] \in {Untouched, None} \/ t.objects[k] = None
    BY <1>1, <2>1, <2>2
  <2>3. CASE t.undo[T][k] \notin {Untouched, None} /\ t.objects[k] # None
    <3>1. t.undo[T][k] \in ObjectRecord
      BY <1>3, <2>3 DEF UndoRows
    <3>2. before[k] = RowOf(t.undo[T][k]) /\ before[k] \in ObjectRow
          /\ before[k] # None
      BY <2>1, <2>3, <3>1, RowType
    <3>3. t.objects[k].createHeight = before[k].createHeight
      BY <1>1, <2>1, <3>2
    <3>4. [before[k] EXCEPT !.createHeight = t.objects[k].createHeight] = before[k]
      BY <3>2, <3>3, SameRow
    <3>5. QED
      BY <2>3, <3>2, <3>4
  <2>4. QED
    BY <2>2, <2>3
<1>5. UndoneObjects(t, T) = before
  BY <1>2, <1>4 DEF UndoneObjects
<1>6. QED
  BY <1>1, <1>5, UndoneFields

\* The state rows that stay, below the tip, and what they were.
LEMMA UndoneRows ==
  ASSUME NEW t, GoodTables(t), Tip(t) # 0, NEW o \in Txid,
         NEW h \in Stored(t), h < Tip(t)
  PROVE  LET u == Undone(t, Tip(t)) IN
         /\ u.states[o] # None =>
              /\ t.states[o] # None
              /\ u.states[o].key = t.states[o].key
              /\ u.states[o].sequence = t.states[o].sequence
              /\ u.states[o].keys = t.states[o].keys
              /\ u.states[o].createdHeight = t.states[o].createdHeight
              /\ u.states[o].createdHeight \in Stored(t) \ {Tip(t)}
              /\ u.states[o].spentHeight \in (Stored(t) \ {Tip(t)}) \cup {None}
              /\ UnspentAt(u.states[o], h) <=> UnspentAt(t.states[o], h)
         /\ t.states[o] # None /\ t.states[o].createdHeight <= h =>
              u.states[o] # None
         /\ u.chapters[o] # None =>
              /\ u.chapters[o] = t.chapters[o]
              /\ u.chapters[o].blockHeight \in Stored(t) \ {Tip(t)}
         /\ t.chapters[o] # None /\ t.chapters[o].blockHeight <= h =>
              u.chapters[o] # None
<1> DEFINE T == Tip(t)
           u == Undone(t, T)
<1>1. /\ t \in Tables
      /\ T \in Heights
      /\ T \in Stored(t)
      /\ t.init.height \in 1 .. T
      /\ Stored(t) = t.init.height .. T
      /\ UndoLeadsDown(t, T)
  BY TipIsSound DEF GoodTables, HeightIsSound
<1>2. /\ u.states = UndoneStates(t, T)
      /\ u.chapters = UndoneChapters(t, T)
  BY <1>1, UndoneFields
<1>3. T \in Nat /\ h \in Nat /\ h <= T - 1 /\ T - 1 \in Stored(t)
  BY <1>1 DEF Heights
<1>4. HeightIsSound(t, T - 1) /\ RootBefore(t, T) = Root(t, T - 1)
  BY <1>3 DEF GoodTables, RootBefore
<1>5. /\ t.states \in [Txid -> StoredState \cup {None}]
      /\ t.chapters \in [Txid -> StoredChapter \cup {None}]
  BY <1>1, TablesType
<1> HIDE DEF T, u
<1>6. \A k \in Txid : Root(t, T - 1)[k] # None => k \notin DeletedObjects(t, T)
  BY <1>1, <1>4, MarkerAssumption DEF UndoLeadsDown, DeletedObjects
<1>7. t.states[o] # None =>
        /\ t.states[o] \in StoredState
        /\ t.states[o].createdHeight \in Stored(t)
        /\ t.states[o].createdHeight \in Nat
        /\ t.states[o].spentHeight \in Stored(t) \cup {None}
        /\ t.states[o].key \in Txid
  BY <1>5 DEF GoodTables, RowsAreOfStoredBlocks, StoredState
<1>8. t.chapters[o] # None =>
        /\ t.chapters[o].blockHeight \in Stored(t)
        /\ t.chapters[o].blockHeight \in Nat
        /\ t.chapters[o].key \in Txid
  BY <1>5 DEF GoodTables, RowsAreOfStoredBlocks, StoredChapter
<1>9. ASSUME t.states[o] # None, t.states[o].createdHeight <= h
      PROVE  u.states[o] # None
  <2>1. RowAgrees(t, T - 1, o)
    BY <1>4 DEF HeightIsSound
  <2>2. t.states[o].createdHeight <= T - 1
    BY <1>3, <1>7, <1>9
  <2>3. t.states[o].key \notin DeletedObjects(t, T)
    BY <1>6, <1>7, <1>9, <2>1, <2>2 DEF RowAgrees
  <2>4. t.states[o].createdHeight # T
    BY <1>3, <1>7, <1>9, <2>2
  <2>5. [t.states[o] EXCEPT !.spentHeight = None] \in StoredState
    BY <1>7, <1>9 DEF StoredState
  <2>6. QED
    BY <1>2, <1>9, <2>3, <2>4, <2>5, StoreMarkerAssumption DEF UndoneStates
<1>10. ASSUME u.states[o] # None
       PROVE  /\ t.states[o] # None
              /\ u.states[o].key = t.states[o].key
              /\ u.states[o].sequence = t.states[o].sequence
              /\ u.states[o].keys = t.states[o].keys
              /\ u.states[o].createdHeight = t.states[o].createdHeight
              /\ u.states[o].createdHeight \in Stored(t) \ {T}
              /\ u.states[o].spentHeight \in (Stored(t) \ {T}) \cup {None}
              /\ UnspentAt(u.states[o], h) <=> UnspentAt(t.states[o], h)
  <2>1. /\ t.states[o] # None
        /\ t.states[o].createdHeight # T
        /\ u.states[o] = IF t.states[o].spentHeight = T
                         THEN [t.states[o] EXCEPT !.spentHeight = None]
                         ELSE t.states[o]
    BY <1>2, <1>10 DEF UndoneStates
  <2>2. CASE t.states[o].spentHeight = T
    <3>1. /\ u.states[o].spentHeight = None
          /\ u.states[o].key = t.states[o].key
          /\ u.states[o].sequence = t.states[o].sequence
          /\ u.states[o].keys = t.states[o].keys
          /\ u.states[o].createdHeight = t.states[o].createdHeight
      BY <1>7, <2>1, <2>2 DEF StoredState
    <3>2. T > h
      BY <1>3
    <3>3. QED
      BY <1>7, <2>1, <2>2, <3>1, <3>2 DEF UnspentAt
  <2>3. CASE t.states[o].spentHeight # T
    BY <1>7, <2>1, <2>3
  <2>4. QED
    BY <2>2, <2>3
<1>11. ASSUME t.chapters[o] # None, t.chapters[o].blockHeight <= h
       PROVE  u.chapters[o] # None
  <2>1. ChapterAgrees(t, T - 1, o)
    BY <1>4 DEF HeightIsSound
  <2>2. t.chapters[o].blockHeight <= T - 1
    BY <1>3, <1>8, <1>11
  <2>3. t.chapters[o].key \notin DeletedObjects(t, T)
    BY <1>6, <1>8, <1>11, <2>1, <2>2 DEF ChapterAgrees
  <2>4. t.chapters[o].blockHeight # T
    BY <1>3, <1>8, <1>11, <2>2
  <2>5. QED
    BY <1>2, <1>11, <2>3, <2>4 DEF UndoneChapters
<1>12. ASSUME u.chapters[o] # None
       PROVE  /\ u.chapters[o] = t.chapters[o]
              /\ u.chapters[o].blockHeight \in Stored(t) \ {T}
  BY <1>2, <1>8, <1>12 DEF UndoneChapters
<1>13. QED
  BY <1>9, <1>10, <1>11, <1>12 DEF T, u

\* Undoing the tip leaves sound tables.
LEMMA UndoneKeepsGood ==
  ASSUME NEW t, GoodTables(t), Tip(t) # 0
  PROVE  GoodTables(Undone(t, Tip(t)))
<1> DEFINE T == Tip(t)
           u == Undone(t, T)
<1>1. t \in Tables /\ T \in Heights /\ T \in Stored(t) /\ Stored(t) = t.init.height .. T
      /\ t.init.height \in 1 .. T
  BY TipIsSound DEF GoodTables
<1>2. u \in Tables
  BY <1>1, UndoneType
<1>3. /\ HasChain(u)
      /\ Stored(u) = Stored(t) \ {T}
      /\ \A h \in Stored(u) : /\ h \in Stored(t)
                              /\ h < T
                              /\ u.blocks[h] = t.blocks[h]
                              /\ u.undo[h] = t.undo[h]
                              /\ RootBefore(u, h) = RootBefore(t, h)
      /\ Stored(u) # {} => u.init = t.init /\ Tip(u) = T - 1
      /\ Stored(u) = {} => Tip(u) = 0 /\ T - 1 \notin Stored(t)
  BY UndoneChain
<1>4. u.objects = RootBefore(t, T)
  BY UndoneRoot
<1>5. \A h \in Stored(u), o \in Txid :
         /\ u.states[o] # None =>
              /\ t.states[o] # None
              /\ u.states[o].key = t.states[o].key
              /\ u.states[o].sequence = t.states[o].sequence
              /\ u.states[o].keys = t.states[o].keys
              /\ u.states[o].createdHeight = t.states[o].createdHeight
              /\ u.states[o].createdHeight \in Stored(u)
              /\ u.states[o].spentHeight \in Stored(u) \cup {None}
              /\ UnspentAt(u.states[o], h) <=> UnspentAt(t.states[o], h)
         /\ t.states[o] # None /\ t.states[o].createdHeight <= h =>
              u.states[o] # None
         /\ u.chapters[o] # None =>
              /\ u.chapters[o] = t.chapters[o]
              /\ u.chapters[o].blockHeight \in Stored(u)
         /\ t.chapters[o] # None /\ t.chapters[o].blockHeight <= h =>
              u.chapters[o] # None
  BY <1>3, UndoneRows
<1>6. ASSUME Stored(u) = {}, NEW o \in Txid
      PROVE  u.states[o] = None /\ u.chapters[o] = None
  <2>1. Stored(t) = {T}
    BY <1>1, <1>3, <1>6
  <2>2. u.states = UndoneStates(t, T) /\ u.chapters = UndoneChapters(t, T)
    BY <1>1, UndoneFields
  <2>3. /\ t.states[o] # None => t.states[o].createdHeight = T
        /\ t.chapters[o] # None => t.chapters[o].blockHeight = T
    BY <2>1 DEF GoodTables, RowsAreOfStoredBlocks
  <2> HIDE DEF T, u
  <2>4. QED
    BY <2>2, <2>3 DEF UndoneStates, UndoneChapters
<1> HIDE DEF T, u
<1>7. RowsAreOfStoredBlocks(u)
  <2>1. CASE Stored(u) = {}
    BY <1>6, <2>1 DEF RowsAreOfStoredBlocks
  <2>2. CASE Stored(u) # {}
    BY <1>5, <2>2 DEF RowsAreOfStoredBlocks
  <2>3. QED
    BY <2>1, <2>2
<1>8. RootIsObjects(u)
  <2>1. CASE Stored(u) = {}
    BY <1>3, <1>4, <2>1 DEF RootIsObjects, RootBefore
  <2>2. CASE Stored(u) # {}
    <3>1. Tip(u) = T - 1 /\ Tip(u) \in Stored(u)
      BY <1>2, <1>3, <2>2, TipIsEnd
    <3>2. T - 1 # 0 /\ T - 1 \in Stored(t) /\ Root(u, T - 1) = Root(t, T - 1)
      BY <1>1, <1>3, <3>1 DEF Root
    <3>3. QED
      BY <1>4, <3>1, <3>2 DEF RootIsObjects, RootBefore
  <2>3. QED
    BY <2>1, <2>2
<1>9. ASSUME NEW h \in Stored(u) PROVE HeightIsSound(u, h)
  <2>1. /\ HeightIsSound(t, h)
        /\ Root(u, h) = Root(t, h)
        /\ u.blocks[h] = t.blocks[h]
        /\ u.init = t.init
    BY <1>3, <1>9 DEF GoodTables, Root
  <2>2. UndoLeadsDown(u, h)
    BY <1>3, <1>9, <2>1 DEF HeightIsSound, UndoLeadsDown
  <2>3. ASSUME NEW k \in Txid
        PROVE  /\ RowAgrees(u, h, k)
               /\ CarrierAgrees(u, h, k)
               /\ ChapterAgrees(u, h, k)
               /\ CountAgrees(u, h, k)
               /\ RootIsSound(u, h, k)
    <3>1. /\ RowAgrees(t, h, k)
          /\ CarrierAgrees(t, h, k)
          /\ ChapterAgrees(t, h, k)
          /\ CountAgrees(t, h, k)
          /\ RootIsSound(t, h, k)
      BY <2>1 DEF HeightIsSound
    <3>2. RowAgrees(u, h, k) /\ ChapterAgrees(u, h, k)
      <4>1. RowAgrees(u, h, k)
        BY <1>5, <2>1, <3>1 DEF RowAgrees
      <4>2. ChapterAgrees(u, h, k)
        BY <1>5, <2>1, <3>1 DEF ChapterAgrees
      <4>3. QED
        BY <4>1, <4>2
    <3>3. CarrierAgrees(u, h, k)
      <4> SUFFICES ASSUME IsActiveRow(Root(u, h)[k]) PROVE CarrierAgrees(u, h, k)
        BY DEF CarrierAgrees
      <4> DEFINE o == Root(t, h)[k].currentOutpoint
      <4>1. o \in Txid \cup {None}
        BY <1>1, <1>3, <2>1, TablesType DEF IsActiveRow, ObjectRow
      <4>2. /\ o # None
            /\ t.states[o] # None
            /\ t.states[o].key = k
            /\ t.states[o].sequence = Root(t, h)[k].stateSequence
            /\ t.states[o].keys = Root(t, h)[k].keys
            /\ t.states[o].createdHeight \in 1 .. h
            /\ t.blocks[h].coins[o] = t.states[o].createdHeight
            /\ UnspentAt(t.states[o], h)
        BY <2>1, <3>1 DEF CarrierAgrees
      <4>3. Root(u, h)[k].currentOutpoint = o /\ Root(u, h)[k] = Root(t, h)[k]
        BY <2>1
      <4> HIDE DEF o
      <4>4. o \in Txid
        BY <4>1, <4>2
      <4>5. /\ u.states[o] # None =>
                  /\ u.states[o].key = t.states[o].key
                  /\ u.states[o].sequence = t.states[o].sequence
                  /\ u.states[o].keys = t.states[o].keys
                  /\ u.states[o].createdHeight = t.states[o].createdHeight
                  /\ UnspentAt(u.states[o], h) <=> UnspentAt(t.states[o], h)
            /\ t.states[o] # None /\ t.states[o].createdHeight <= h =>
                  u.states[o] # None
        BY <1>5, <1>9, <4>4
      <4>6. t.states[o].createdHeight <= h
        BY <4>2
      <4>7. QED
        BY <2>1, <4>2, <4>3, <4>5, <4>6 DEF CarrierAgrees
    <3>4. CountAgrees(u, h, k)
      <4>1. ASSUME NEW x \in Txid
            PROVE  u.chapters[x] # None /\ u.chapters[x].key = k
                     /\ u.chapters[x].blockHeight <= h
                   <=> t.chapters[x] # None /\ t.chapters[x].key = k
                         /\ t.chapters[x].blockHeight <= h
        <5>1. /\ u.chapters[x] # None => u.chapters[x] = t.chapters[x]
              /\ t.chapters[x] # None /\ t.chapters[x].blockHeight <= h =>
                   u.chapters[x] # None
          BY <1>5, <1>9
        <5>2. QED
          BY <5>1
      <4>2. ChaptersUpTo(u, h, k) = ChaptersUpTo(t, h, k)
        BY <4>1 DEF ChaptersUpTo
      <4>3. Root(u, h)[k] = Root(t, h)[k]
        BY <2>1
      <4>4. QED
        BY <3>1, <4>2, <4>3 DEF CountAgrees
    <3>5. RootIsSound(u, h, k)
      BY <2>1, <3>1 DEF RootIsSound
    <3>6. QED
      BY <3>2, <3>3, <3>4, <3>5
  <2>4. QED
    BY <2>2, <2>3 DEF HeightIsSound
<1>10. GoodTables(u)
  BY <1>2, <1>3, <1>7, <1>8, <1>9 DEF GoodTables
<1>11. QED
  BY <1>10 DEF T, u

-----------------------------------------------------------------------------
(***************************************************************************)
(* Writing a block.                                                        *)
(***************************************************************************)
\* The tables after a block is written, table by table.
LEMMA WrittenFields ==
  ASSUME NEW t \in Tables, NEW b \in ReducedBlock
  PROVE  LET w == Written(t, b) IN
         /\ w.blocks = [t.blocks EXCEPT ![b.height] = BlockRow(b)]
         /\ w.init = IF b.initConfirmed THEN b.activation ELSE t.init
         /\ w.undo = [t.undo EXCEPT ![b.height] = b.undo]
         /\ w.objects = WrittenObjects(t, b)
         /\ w.states = WrittenStates(t, b)
         /\ w.chapters = WrittenChapters(t, b)
         /\ w.journal = t.journal
BY DEF Written, Tables

\* The fields of a reduced block.
LEMMA BlockType ==
  ASSUME NEW b \in ReducedBlock
  PROVE  /\ b.height \in Heights
         /\ b.height \in Nat
         /\ b.initConfirmed \in BOOLEAN
         /\ b.activation \in Activation
         /\ b.activation # None
         /\ b.objects \in [Txid -> ObjectRecord \cup {None}]
         /\ b.undo \in UndoRows
         /\ b.newStates \in [Txid -> StateRow \cup {None}]
         /\ b.spentOutpoints \in [Txid -> Txid \cup {None}]
         /\ b.chapters \in [Txid -> ChapterRow \cup {None}]
         /\ b.coins \in [Txid -> Coin]
BY MarkerAssumption DEF ReducedBlock, Heights, UndoRows

\* The rows of a map.
LEMMA RowsOfType ==
  ASSUME NEW m \in [Txid -> ObjectRecord \cup {None}]
  PROVE  /\ RowsOf(m) \in [Txid -> ObjectRow \cup {None}]
         /\ \A k \in Txid :
              /\ RowsOf(m)[k] = None <=> m[k] = None
              /\ m[k] # None =>
                   /\ RowsOf(m)[k] = RowOf(m[k])
                   /\ m[k] \in ObjectRecord
                   /\ RowsOf(m)[k].createHeight = m[k].createHeight
                   /\ RowsOf(m)[k].status = m[k].status
                   /\ RowsOf(m)[k].stateSequence = m[k].stateSequence
                   /\ RowsOf(m)[k].currentOutpoint = m[k].currentOutpoint
                   /\ RowsOf(m)[k].keys = m[k].keys
                   /\ RowsOf(m)[k].chapterCount = m[k].chapterCount
<1>1. ASSUME NEW k \in Txid, m[k] # None
      PROVE  /\ m[k] \in ObjectRecord
             /\ RowOf(m[k]) \in ObjectRow
             /\ RowOf(m[k]) # None
             /\ RowOf(m[k]).createHeight = m[k].createHeight
             /\ RowOf(m[k]).status = m[k].status
             /\ RowOf(m[k]).stateSequence = m[k].stateSequence
             /\ RowOf(m[k]).currentOutpoint = m[k].currentOutpoint
             /\ RowOf(m[k]).keys = m[k].keys
             /\ RowOf(m[k]).chapterCount = m[k].chapterCount
  <2>1. m[k] \in ObjectRecord
    BY <1>1
  <2>2. QED
    BY <2>1, RowType
<1>2. QED
  BY <1>1 DEF RowsOf

\* The row written for a block carries its objects and its coins.
LEMMA BlockRowType ==
  ASSUME NEW b \in ReducedBlock
  PROVE  /\ BlockRow(b) \in StoredBlock
         /\ BlockRow(b) # None
         /\ BlockRow(b).objectStateRoot = RowsOf(b.objects)
         /\ BlockRow(b).coins = b.coins
<1>1. BlockRow(b) \in StoredBlock
  BY BlockType, RowsOfType DEF BlockRow, StoredBlock
<1>2. QED
  BY <1>1, StoreMarkerAssumption DEF BlockRow

\* One state row after the writes of a block.
LEMMA WrittenState ==
  ASSUME NEW t \in Tables, NEW b \in ReducedBlock, NEW o \in Txid
  PROVE  LET s == Written(t, b).states[o] IN
         /\ s = None <=> t.states[o] = None /\ b.newStates[o] = None
         /\ s # None =>
              /\ s \in StoredState
              /\ s.spentHeight =
                   IF b.spentOutpoints[o] # None THEN b.height
                   ELSE IF b.newStates[o] # None THEN None
                   ELSE t.states[o].spentHeight
              /\ IF b.newStates[o] # None
                 THEN /\ s.key = b.newStates[o].key
                      /\ s.sequence = b.newStates[o].sequence
                      /\ s.keys = b.newStates[o].keys
                      /\ s.createdHeight = b.height
                 ELSE /\ s.key = t.states[o].key
                      /\ s.sequence = t.states[o].sequence
                      /\ s.keys = t.states[o].keys
                      /\ s.createdHeight = t.states[o].createdHeight
<1> DEFINE i == InsertedState(t, b, o)
<1>1. i = None <=> t.states[o] = None /\ b.newStates[o] = None
  <2>1. [key |-> b.newStates[o].key, sequence |-> b.newStates[o].sequence,
         keys |-> b.newStates[o].keys, createdHeight |-> b.height,
         spentHeight |-> None] # None \/ b.newStates[o] = None
    <3>1. b.newStates[o] # None => b.newStates[o] \in StateRow
      BY BlockType
    <3>2. b.newStates[o] # None =>
            [key |-> b.newStates[o].key, sequence |-> b.newStates[o].sequence,
             keys |-> b.newStates[o].keys, createdHeight |-> b.height,
             spentHeight |-> None] \in StoredState
      BY <3>1, BlockType DEF StateRow, StoredState
    <3>3. QED
      BY <3>2, StoreMarkerAssumption
  <2>2. QED
    BY <2>1 DEF InsertedState
<1>2. i # None =>
        /\ i \in StoredState
        /\ i.spentHeight = IF b.newStates[o] # None THEN None
                           ELSE t.states[o].spentHeight
        /\ IF b.newStates[o] # None
           THEN /\ i.key = b.newStates[o].key
                /\ i.sequence = b.newStates[o].sequence
                /\ i.keys = b.newStates[o].keys
                /\ i.createdHeight = b.height
           ELSE /\ i.key = t.states[o].key
                /\ i.sequence = t.states[o].sequence
                /\ i.keys = t.states[o].keys
                /\ i.createdHeight = t.states[o].createdHeight
  <2>1. b.newStates[o] # None => b.newStates[o] \in StateRow
    BY BlockType
  <2>2. t.states[o] # None => t.states[o] \in StoredState
    BY TablesType
  <2>3. QED
    BY <1>1, <2>1, <2>2, BlockType DEF InsertedState, StateRow, StoredState
<1>3. Written(t, b).states[o] =
        IF b.spentOutpoints[o] = None \/ i = None THEN i
        ELSE [i EXCEPT !.spentHeight = b.height]
  <2>1. Written(t, b).states = WrittenStates(t, b)
    BY WrittenFields
  <2>2. QED
    BY <2>1 DEF WrittenStates
<1> HIDE DEF i
<1>4. CASE b.spentOutpoints[o] = None \/ i = None
  BY <1>1, <1>2, <1>3, <1>4
<1>5. CASE b.spentOutpoints[o] # None /\ i # None
  <2> DEFINE s == [i EXCEPT !.spentHeight = b.height]
  <2>1. /\ s \in StoredState
        /\ s.spentHeight = b.height
        /\ s.key = i.key
        /\ s.sequence = i.sequence
        /\ s.keys = i.keys
        /\ s.createdHeight = i.createdHeight
    BY <1>2, <1>5, BlockType DEF StoredState
  <2>2. s # None
    BY <2>1, StoreMarkerAssumption
  <2>3. Written(t, b).states[o] = s
    BY <1>3, <1>5
  <2> HIDE DEF s
  <2>4. QED
    BY <1>1, <1>2, <1>5, <2>1, <2>2, <2>3
<1>6. QED
  BY <1>4, <1>5

\* One chapter after the writes of a block.
LEMMA WrittenChapter ==
  ASSUME NEW t \in Tables, NEW b \in ReducedBlock, NEW x \in Txid
  PROVE  LET c == Written(t, b).chapters[x] IN
         IF b.chapters[x] = None THEN c = t.chapters[x]
         ELSE /\ c \in StoredChapter
              /\ c # None
              /\ c.key = b.chapters[x].key
              /\ c.sequence = b.chapters[x].sequence
              /\ c.blockHeight = b.height
<1>1. Written(t, b).chapters[x] =
        IF b.chapters[x] = None THEN t.chapters[x]
        ELSE [key |-> b.chapters[x].key, sequence |-> b.chapters[x].sequence,
              blockHeight |-> b.height]
  <2>1. Written(t, b).chapters = WrittenChapters(t, b)
    BY WrittenFields
  <2>2. QED
    BY <2>1 DEF WrittenChapters
<1>2. b.chapters[x] # None => b.chapters[x] \in ChapterRow
  BY BlockType
<1>3. b.chapters[x] # None =>
        [key |-> b.chapters[x].key, sequence |-> b.chapters[x].sequence,
         blockHeight |-> b.height] \in StoredChapter
  BY <1>2, BlockType DEF ChapterRow, StoredChapter
<1>4. QED
  BY <1>1, <1>3, StoreMarkerAssumption

\* The objects after the writes are those of the block.
LEMMA WrittenRows ==
  ASSUME NEW t, GoodTables(t), NEW b \in ReducedBlock, Follows(TipState(t), b)
  PROVE  Written(t, b).objects = RowsOf(b.objects)
<1> DEFINE m == LoadObjects(t)
<1>1. t \in Tables /\ UndoInverts(m, b) /\ ObjectsFollow(m, b)
  BY DEF GoodTables, Follows, TipState
<1>2. m \in [Txid -> ObjectRecord \cup {None}]
  BY <1>1, LoadedType
<1>3. \A k \in Txid :
        IF t.objects[k] = None THEN m[k] = None
        ELSE /\ m[k] # None
             /\ t.objects[k] \in ObjectRow
             /\ RowOf(m[k]) = t.objects[k]
             /\ m[k].createHeight = t.objects[k].createHeight
  BY <1>1, LoadedRecord
<1> HIDE DEF m
<1>4. ASSUME NEW k \in Txid
      PROVE  (IF b.undo[k] = Untouched \/ b.objects[k] = None THEN t.objects[k]
              ELSE Upsert(t.objects[k], b.objects[k])) = RowsOf(b.objects)[k]
  <2>1. /\ RowsOf(b.objects)[k] = None <=> b.objects[k] = None
        /\ b.objects[k] # None =>
             /\ RowsOf(b.objects)[k] = RowOf(b.objects[k])
             /\ b.objects[k] \in ObjectRecord
    BY BlockType, RowsOfType
  <2>2. CASE b.objects[k] = None
    BY <1>1, <1>3, <2>1, <2>2 DEF ObjectsFollow
  <2>3. CASE b.objects[k] # None /\ b.undo[k] = Untouched
    BY <1>1, <1>3, <2>1, <2>3 DEF UndoInverts
  <2>4. CASE /\ b.objects[k] # None /\ b.undo[k] # Untouched
             /\ t.objects[k] = None
    BY <2>1, <2>4 DEF Upsert
  <2>5. CASE /\ b.objects[k] # None /\ b.undo[k] # Untouched
             /\ t.objects[k] # None
    <3>1. t.objects[k].createHeight = b.objects[k].createHeight
      BY <1>1, <1>3, <2>5 DEF ObjectsFollow
    <3>2. RowOf(b.objects[k]) \in ObjectRow
          /\ RowOf(b.objects[k]).createHeight = b.objects[k].createHeight
      BY <2>1, <2>5, RowType
    <3>3. [RowOf(b.objects[k]) EXCEPT !.createHeight = t.objects[k].createHeight]
            = RowOf(b.objects[k])
      BY <3>1, <3>2, SameRow
    <3>4. QED
      BY <2>1, <2>5, <3>3 DEF Upsert
  <2>6. QED
    BY <2>2, <2>3, <2>4, <2>5
<1>5. RowsOf(b.objects) \in [Txid -> ObjectRow \cup {None}]
  BY BlockType, RowsOfType
<1>6. WrittenObjects(t, b) = RowsOf(b.objects)
  BY <1>4, <1>5 DEF WrittenObjects
<1>7. QED
  BY <1>1, <1>6, WrittenFields

\* The chain with a block on top.
LEMMA WrittenChain ==
  ASSUME NEW t, GoodTables(t), NEW b \in ReducedBlock, Follows(TipState(t), b)
  PROVE  LET w == Written(t, b)
             H == b.height IN
         /\ HasChain(w)
         /\ Tip(t) < H
         /\ H \notin Stored(t)
         /\ Stored(w) = Stored(t) \cup {H}
         /\ Tip(w) = H
         /\ w.init = b.activation
         /\ t.init # None => w.init = t.init
         /\ b.initConfirmed => t.init = None
         /\ \A h \in Stored(t) : /\ h < H
                                 /\ h <= Tip(t)
                                 /\ w.blocks[h] = t.blocks[h]
                                 /\ w.undo[h] = t.undo[h]
                                 /\ RootBefore(w, h) = RootBefore(t, h)
         /\ Root(w, H) = RowsOf(b.objects)
         /\ w.blocks[H].coins = b.coins
         /\ w.undo[H] = b.undo
         /\ RootBefore(w, H) = t.objects
<1> DEFINE w == Written(t, b)
           H == b.height
<1>1. /\ t \in Tables
      /\ H \in Heights
      /\ H \in Nat
      /\ b.initConfirmed \in BOOLEAN
      /\ b.activation \in Activation
      /\ b.activation # None
  BY BlockType DEF GoodTables
<1>2. /\ b.initConfirmed <=> b.activation.height = H
      /\ IF t.init = None THEN b.activation.height = H
         ELSE b.activation = t.init /\ H = Tip(t) + 1
  BY DEF Follows, Placed, TipState
<1>3. /\ w.blocks = [t.blocks EXCEPT ![H] = BlockRow(b)]
      /\ w.init = IF b.initConfirmed THEN b.activation ELSE t.init
      /\ w.undo = [t.undo EXCEPT ![H] = b.undo]
  BY <1>1, WrittenFields
<1>4. /\ t.blocks \in [Heights -> StoredBlock \cup {None}]
      /\ t.undo \in [Heights -> UndoRows]
  BY <1>1, TablesType
<1>5. /\ BlockRow(b) # None
      /\ BlockRow(b).objectStateRoot = RowsOf(b.objects)
      /\ BlockRow(b).coins = b.coins
  BY BlockRowType
<1>6. IF t.init = None THEN Tip(t) = 0 /\ Stored(t) = {}
      ELSE /\ Tip(t) \in Heights
           /\ Tip(t) \in Stored(t)
           /\ t.init.height \in 1 .. Tip(t)
           /\ Stored(t) = t.init.height .. Tip(t)
  BY <1>1, TipIsEnd DEF GoodTables
<1>7. t.objects = IF Tip(t) = 0 THEN NoRows ELSE Root(t, Tip(t))
  BY DEF GoodTables, RootIsObjects
<1> HIDE DEF w, H
<1>8. /\ Tip(t) \in Nat /\ Tip(t) < H
      /\ \A h \in Stored(t) : h \in Heights /\ h <= Tip(t) /\ h < H
      /\ H \notin Stored(t)
  BY <1>1, <1>2, <1>6, ReducerAssumption DEF Heights
<1>9. /\ Stored(w) = Stored(t) \cup {H}
      /\ w.blocks[H] = BlockRow(b)
      /\ w.undo[H] = b.undo
      /\ \A h \in Stored(t) : w.blocks[h] = t.blocks[h] /\ w.undo[h] = t.undo[h]
  BY <1>1, <1>3, <1>4, <1>5, <1>8 DEF Stored, H
<1>10. /\ w.init = b.activation
       /\ t.init # None => w.init = t.init
       /\ b.initConfirmed => t.init = None
  BY <1>1, <1>2, <1>3, <1>6, <1>8
<1>11. HasChain(w)
  <2>1. w.init # None /\ w.init.height \in Nat
    BY <1>1, <1>10 DEF Activation
  <2>2. CASE t.init = None
    <3>1. w.init.height = H /\ Stored(w) = H .. H /\ H \in 1 .. H
      BY <1>1, <1>2, <1>6, <1>9, <1>10, <2>2 DEF Heights
    <3>2. QED
      BY <1>1, <2>1, <3>1 DEF HasChain
  <2>3. CASE t.init # None
    <3>1. Stored(w) = w.init.height .. H /\ w.init.height \in 1 .. H
      BY <1>1, <1>2, <1>6, <1>9, <1>10, <2>1, <2>3 DEF Heights
    <3>2. QED
      BY <1>1, <2>1, <3>1 DEF HasChain
  <2>4. QED
    BY <2>2, <2>3
<1>12. Tip(w) = H
  <2>1. H \in Stored(w) /\ \A g \in Stored(w) : g \in Nat /\ g <= H
    BY <1>1, <1>8, <1>9 DEF Heights
  <2>2. Tip(w) \in Stored(w) /\ \A g \in Stored(w) : g <= Tip(w)
    BY <2>1 DEF Tip
  <2>3. QED
    BY <2>1, <2>2
<1>13. ASSUME NEW h \in Stored(t) PROVE RootBefore(w, h) = RootBefore(t, h)
  <2>1. h - 1 # H /\ (h - 1 \in Stored(w) <=> h - 1 \in Stored(t))
    BY <1>1, <1>8, <1>9 DEF Heights
  <2>2. QED
    BY <1>9, <2>1 DEF RootBefore, Root
<1>14. RootBefore(w, H) = t.objects
  <2>1. CASE t.init = None
    <3>1. Stored(w) = {H} /\ H - 1 # H
      BY <1>1, <1>6, <1>9, <2>1
    <3>2. QED
      BY <1>6, <1>7, <2>1, <3>1 DEF RootBefore
  <2>2. CASE t.init # None
    <3>1. H - 1 = Tip(t) /\ H - 1 \in Stored(t) /\ Tip(t) # 0
      BY <1>1, <1>2, <1>6, <2>2 DEF Heights
    <3>2. QED
      BY <1>7, <1>9, <3>1 DEF RootBefore, Root
  <2>3. QED
    BY <2>1, <2>2
<1>15. QED
  BY <1>5, <1>8, <1>9, <1>10, <1>11, <1>12, <1>13, <1>14 DEF w, H, Root

\* Writing a block leaves tables.
LEMMA WrittenType ==
  ASSUME NEW t, GoodTables(t), NEW b \in ReducedBlock, Follows(TipState(t), b)
  PROVE  Written(t, b) \in Tables
<1>1. t \in Tables
  BY DEF GoodTables
<1>2. /\ t.blocks \in [Heights -> StoredBlock \cup {None}]
      /\ t.init \in Activation \cup {None}
      /\ t.undo \in [Heights -> UndoRows]
      /\ t.states \in [Txid -> StoredState \cup {None}]
      /\ t.chapters \in [Txid -> StoredChapter \cup {None}]
  BY <1>1, TablesType
<1>3. WrittenObjects(t, b) \in [Txid -> ObjectRow \cup {None}]
  <2>1. WrittenObjects(t, b) = RowsOf(b.objects)
    <3>1. Written(t, b).objects = WrittenObjects(t, b)
      BY <1>1, WrittenFields
    <3>2. QED
      BY <3>1, WrittenRows
  <2>2. QED
    BY <2>1, BlockType, RowsOfType
<1>4. WrittenStates(t, b) \in [Txid -> StoredState \cup {None}]
  <2>1. ASSUME NEW o \in Txid
        PROVE  WrittenStates(t, b)[o] \in StoredState \cup {None}
    <3>1. Written(t, b).states[o] \in StoredState \cup {None}
      BY <1>1, WrittenState
    <3>2. QED
      BY <1>1, <3>1, WrittenFields
  <2>2. WrittenStates(t, b) = [o \in Txid |-> WrittenStates(t, b)[o]]
    BY DEF WrittenStates
  <2>3. QED
    BY <2>1, <2>2
<1>5. WrittenChapters(t, b) \in [Txid -> StoredChapter \cup {None}]
  <2>1. ASSUME NEW x \in Txid
        PROVE  WrittenChapters(t, b)[x] \in StoredChapter \cup {None}
    <3>1. Written(t, b).chapters[x] \in StoredChapter \cup {None}
      BY <1>1, <1>2, WrittenChapter
    <3>2. QED
      BY <1>1, <3>1, WrittenFields
  <2>2. WrittenChapters(t, b) = [x \in Txid |-> WrittenChapters(t, b)[x]]
    BY DEF WrittenChapters
  <2>3. QED
    BY <2>1, <2>2
<1>6. /\ [t.blocks EXCEPT ![b.height] = BlockRow(b)]
           \in [Heights -> StoredBlock \cup {None}]
      /\ [t.undo EXCEPT ![b.height] = b.undo] \in [Heights -> UndoRows]
      /\ (IF b.initConfirmed THEN b.activation ELSE t.init)
           \in Activation \cup {None}
  BY <1>2, BlockType, BlockRowType
<1>7. QED
  BY <1>1, <1>3, <1>4, <1>5, <1>6 DEF Written, Tables

\* The rows of an object's chapters.
ChaptersOf(t, k) == {x \in Txid : t.chapters[x] # None /\ t.chapters[x].key = k}

\* What sound tables say of the loaded map, whether there is a tip or not.
LEMMA RowsOfLoadedMap ==
  ASSUME NEW t, GoodTables(t)
  PROVE  LET m == LoadObjects(t)
             c == TipCoins(t) IN
         /\ \A o \in Txid : t.states[o] # None =>
              /\ c[o] # Unseen
              /\ m[t.states[o].key] # None
              /\ t.states[o].sequence <= m[t.states[o].key].stateSequence
              /\ t.states[o].spentHeight = None => LiveIn(m, o, t.states[o].key)
         /\ \A o, k \in Txid : LiveIn(m, o, k) =>
              /\ t.states[o] # None
              /\ t.states[o].key = k
              /\ t.states[o].sequence = m[k].stateSequence
              /\ t.states[o].keys = m[k].keys
              /\ t.states[o].createdHeight = m[k].currentHeight
              /\ t.states[o].createdHeight \in 1 .. Tip(t)
              /\ c[o] = t.states[o].createdHeight
              /\ t.states[o].spentHeight = None
         /\ \A x \in Txid : t.chapters[x] # None =>
              /\ c[x] # Unseen
              /\ m[t.chapters[x].key] # None
              /\ t.chapters[x].sequence <= m[t.chapters[x].key].stateSequence
         /\ \A k \in Txid : m[k] # None =>
              /\ IsFiniteSet(ChaptersOf(t, k))
              /\ m[k].chapterCount = Cardinality(ChaptersOf(t, k))
<1> DEFINE m == LoadObjects(t)
           c == TipCoins(t)
<1>1. t \in Tables
  BY DEF GoodTables
<1>2. \A k \in Txid :
        IF t.objects[k] = None THEN m[k] = None
        ELSE /\ m[k] # None
             /\ m[k].status = t.objects[k].status
             /\ m[k].stateSequence = t.objects[k].stateSequence
             /\ m[k].currentOutpoint = t.objects[k].currentOutpoint
             /\ m[k].keys = t.objects[k].keys
             /\ m[k].chapterCount = t.objects[k].chapterCount
             /\ m[k].currentHeight = HeightOf(t, t.objects[k].currentOutpoint)
  BY <1>1, LoadedRecord
<1>3. CASE Tip(t) = 0
  <2>1. \A k \in Txid : /\ m[k] = None
                        /\ t.states[k] = None /\ t.chapters[k] = None
    BY <1>2, <1>3, NothingBeforeChain DEF NoRows
  <2>2. QED
    BY <2>1 DEF LiveIn
<1>4. CASE Tip(t) # 0
  <2> DEFINE T == Tip(t)
  <2>1. /\ T \in Heights
        /\ t.objects = Root(t, T)
        /\ HeightIsSound(t, T)
        /\ c = t.blocks[T].coins
        /\ \A o \in Txid :
             /\ t.states[o] # None =>
                  /\ t.states[o].createdHeight \in 1 .. T
                  /\ UnspentAt(t.states[o], T) <=> t.states[o].spentHeight = None
             /\ t.chapters[o] # None => t.chapters[o].blockHeight \in 1 .. T
    BY <1>4, TipIsSound DEF TipCoins
  <2>2. /\ t.states \in [Txid -> StoredState \cup {None}]
        /\ t.chapters \in [Txid -> StoredChapter \cup {None}]
    BY <1>1, TablesType
  <2>3. /\ \A o \in Txid : t.states[o] # None => t.states[o].key \in Txid
        /\ \A o \in Txid : t.chapters[o] # None => t.chapters[o].key \in Txid
    BY <2>2 DEF StoredState, StoredChapter
  <2>4. \A k \in Txid : ChaptersUpTo(t, T, k) = ChaptersOf(t, k)
    BY <2>1 DEF ChaptersUpTo, ChaptersOf, Heights
  <2>5. \A o \in Txid : o # None
    BY ReducerAssumption
  <2> HIDE DEF T, m, c
  <2>6. ASSUME NEW o \in Txid, t.states[o] # None
        PROVE  /\ c[o] # Unseen
               /\ m[t.states[o].key] # None
               /\ t.states[o].sequence <= m[t.states[o].key].stateSequence
               /\ t.states[o].spentHeight = None => LiveIn(m, o, t.states[o].key)
    <3>1. RowAgrees(t, T, o) /\ t.states[o].createdHeight <= T
      BY <2>1, <2>6 DEF HeightIsSound
    <3>2. QED
      BY <1>2, <2>1, <2>3, <2>6, <3>1 DEF RowAgrees, LiveIn
  <2>7. ASSUME NEW o \in Txid, NEW k \in Txid, LiveIn(m, o, k)
        PROVE  /\ t.states[o] # None
               /\ t.states[o].key = k
               /\ t.states[o].sequence = m[k].stateSequence
               /\ t.states[o].keys = m[k].keys
               /\ t.states[o].createdHeight = m[k].currentHeight
               /\ t.states[o].createdHeight \in 1 .. T
               /\ c[o] = t.states[o].createdHeight
               /\ t.states[o].spentHeight = None
    <3>1. CarrierAgrees(t, T, k)
      BY <2>1 DEF HeightIsSound
    <3>2. IsActiveRow(Root(t, T)[k]) /\ Root(t, T)[k].currentOutpoint = o
      BY <1>2, <2>1, <2>7 DEF IsActiveRow, LiveIn
    <3>3. /\ t.states[o] # None
          /\ t.states[o].key = k
          /\ t.states[o].sequence = Root(t, T)[k].stateSequence
          /\ t.states[o].keys = Root(t, T)[k].keys
          /\ t.states[o].createdHeight \in 1 .. T
          /\ c[o] = t.states[o].createdHeight
          /\ UnspentAt(t.states[o], T)
      BY <2>1, <3>1, <3>2 DEF CarrierAgrees
    <3>4. m[k].currentHeight = t.states[o].createdHeight
      BY <1>2, <2>1, <2>5, <3>2, <3>3 DEF HeightOf, IsActiveRow
    <3>5. QED
      BY <1>2, <2>1, <3>2, <3>3, <3>4 DEF IsActiveRow
  <2>8. ASSUME NEW x \in Txid, t.chapters[x] # None
        PROVE  /\ c[x] # Unseen
               /\ m[t.chapters[x].key] # None
               /\ t.chapters[x].sequence <= m[t.chapters[x].key].stateSequence
    <3>1. ChapterAgrees(t, T, x) /\ t.chapters[x].blockHeight <= T
      BY <2>1, <2>8 DEF HeightIsSound
    <3>2. QED
      BY <1>2, <2>1, <2>3, <2>8, <3>1 DEF ChapterAgrees
  <2>9. ASSUME NEW k \in Txid, m[k] # None
        PROVE  /\ IsFiniteSet(ChaptersOf(t, k))
               /\ m[k].chapterCount = Cardinality(ChaptersOf(t, k))
    <3>1. CountAgrees(t, T, k)
      BY <2>1 DEF HeightIsSound
    <3>2. QED
      BY <1>2, <2>1, <2>4, <2>9, <3>1 DEF CountAgrees
  <2>10. QED
    BY <2>6, <2>7, <2>8, <2>9 DEF m, c, T
<1>5. QED
  BY <1>3, <1>4

\* What a load after the writes gives is the reducer's map.
LEMMA LoadedAfterWrite ==
  ASSUME NEW t, GoodTables(t), NEW b \in ReducedBlock, Follows(TipState(t), b)
  PROVE  LoadObjects(Written(t, b)) = b.objects
<1> DEFINE m == LoadObjects(t)
           w == Written(t, b)
<1>1. t \in Tables /\ w \in Tables
  BY WrittenType DEF GoodTables
<1>2. /\ RowsFollow(m, b)
      /\ SoundMap(b.objects, b.coins, b.activation)
  BY DEF Follows, TipState
<1>3. w.objects = RowsOf(b.objects)
  BY WrittenRows
<1>4. \A o, k \in Txid : LiveIn(m, o, k) =>
        /\ t.states[o] # None
        /\ t.states[o].createdHeight = m[k].currentHeight
  BY RowsOfLoadedMap
<1>5. \A o \in Txid :
        /\ w.states[o] = None <=> t.states[o] = None /\ b.newStates[o] = None
        /\ w.states[o] # None =>
             w.states[o].createdHeight = IF b.newStates[o] # None THEN b.height
                                         ELSE t.states[o].createdHeight
  BY <1>1, WrittenState
<1>6. LoadObjects(w) \in [Txid -> ObjectRecord \cup {None}]
  BY <1>1, LoadedType
<1>7. b.objects \in [Txid -> ObjectRecord \cup {None}]
  BY BlockType
<1> HIDE DEF m, w
<1>8. ASSUME NEW k \in Txid PROVE LoadObjects(w)[k] = b.objects[k]
  <2>1. /\ RowsOf(b.objects)[k] = None <=> b.objects[k] = None
        /\ b.objects[k] # None => RowsOf(b.objects)[k] = RowOf(b.objects[k])
    BY <1>7, RowsOfType
  <2>2. CASE b.objects[k] = None
    BY <1>1, <1>3, <2>1, <2>2, LoadedRecord
  <2>3. CASE b.objects[k] # None
    <3> DEFINE r == LoadObjects(w)[k]
               q == b.objects[k]
    <3>1. w.objects[k] = RowOf(q) /\ w.objects[k] # None
      BY <1>3, <2>1, <2>3
    <3>2. /\ r \in ObjectRecord /\ q \in ObjectRecord
          /\ RowOf(r) = RowOf(q)
          /\ r.currentHeight = HeightOf(w, w.objects[k].currentOutpoint)
      BY <1>1, <1>7, <2>3, <3>1, LoadedRecord
    <3>3. w.objects[k].currentOutpoint = q.currentOutpoint
      BY <3>1, <3>2, RowType
    <3>4. HeightOf(w, q.currentOutpoint) = q.currentHeight
      <4>1. CASE q.status # "active"
        BY <1>2, <2>3, <4>1 DEF SoundMap, EndedHasNoCarrier, HeightOf
      <4>2. CASE q.status = "active"
        <5> DEFINE o == q.currentOutpoint
        <5>1. o \in Txid /\ o # None
          BY <1>2, <2>3, <3>2, <4>2 DEF SoundMap, ObjectRecord
        <5>2. LiveIn(b.objects, o, k)
          BY <2>3, <4>2 DEF LiveIn
        <5>3. LiveCarrierFollows(m, b, o)
          BY <1>2, <5>1 DEF RowsFollow
        <5>4. CASE b.newStates[o] = None
          <6>1. b.objects[k] = m[k]
            BY <5>2, <5>3, <5>4 DEF LiveCarrierFollows
          <6>2. LiveIn(m, o, k)
            BY <5>2, <6>1 DEF LiveIn
          <6>3. QED
            BY <1>4, <1>5, <5>1, <5>4, <6>1, <6>2 DEF HeightOf
        <5>5. CASE b.newStates[o] # None
          <6>1. b.objects[k].currentHeight = b.height
            BY <5>2, <5>3, <5>5 DEF LiveCarrierFollows
          <6>2. QED
            BY <1>5, <5>1, <5>5, <6>1 DEF HeightOf
        <5>6. QED
          BY <5>4, <5>5
      <4>3. QED
        BY <4>1, <4>2
    <3>5. r.currentHeight = q.currentHeight
      BY <3>2, <3>3, <3>4
    <3> HIDE DEF r, q
    <3>6. r = q
      <4>1. /\ r.createHeight = q.createHeight /\ r.founding = q.founding
            /\ r.status = q.status /\ r.stateSequence = q.stateSequence
            /\ r.currentOutpoint = q.currentOutpoint /\ r.keys = q.keys
            /\ r.terminalTxid = q.terminalTxid
            /\ r.chapterCount = q.chapterCount
        BY <3>2 DEF RowOf
      <4>2. QED
        BY <3>2, <3>5, <4>1 DEF ObjectRecord
    <3>7. QED
      BY <3>6 DEF r, q
  <2>4. QED
    BY <2>2, <2>3
<1>9. LoadObjects(w) = b.objects
  BY <1>6, <1>7, <1>8
<1>10. QED
  BY <1>9 DEF w

\* The rows of a block meet no row of the tables.
LEMMA NewRowsAreFresh ==
  ASSUME NEW t, GoodTables(t), NEW b \in ReducedBlock, Follows(TipState(t), b)
  PROVE  \A o \in Txid :
           /\ b.newStates[o] # None => t.states[o] = None
           /\ b.chapters[o] # None => t.chapters[o] = None
<1>1. CoinsFollow(TipCoins(t), b)
  BY DEF Follows, TipState
<1>2. QED
  BY <1>1, RowsOfLoadedMap DEF CoinsFollow

\* At a height below, a written block changes nothing that mattered there.
LEMMA WrittenKeepsHeight ==
  ASSUME NEW t, GoodTables(t), NEW b \in ReducedBlock, Follows(TipState(t), b),
         NEW h \in Stored(t)
  PROVE  HeightIsSound(Written(t, b), h)
<1> DEFINE m == LoadObjects(t)
           w == Written(t, b)
           H == b.height
<1>1. t \in Tables /\ RowsFollow(m, b) /\ h \in Heights /\ H \in Nat
  BY BlockType DEF GoodTables, Follows, TipState, Stored
<1>2. /\ HeightIsSound(t, h)
      /\ h < H
      /\ w.blocks[h] = t.blocks[h]
      /\ w.undo[h] = t.undo[h]
      /\ RootBefore(w, h) = RootBefore(t, h)
      /\ w.init = t.init
  BY WrittenChain, TipIsEnd DEF GoodTables
<1>3. Root(w, h) = Root(t, h)
  BY <1>2 DEF Root
<1>4. \A o \in Txid :
        /\ b.newStates[o] # None => t.states[o] = None
        /\ b.chapters[o] # None => t.chapters[o] = None
  BY NewRowsAreFresh
<1>5. \A o \in Txid : t.states[o] # None /\ b.spentOutpoints[o] # None =>
        t.states[o].spentHeight = None
  <2>1. ASSUME NEW o \in Txid, t.states[o] # None, b.spentOutpoints[o] # None
        PROVE  t.states[o].spentHeight = None
    <3>1. PICK k \in Txid : LiveIn(m, o, k)
      BY <1>1, <1>4, <2>1 DEF RowsFollow, SpentMarkFollows
    <3>2. QED
      BY <3>1, RowsOfLoadedMap
  <2>2. QED
    BY <2>1
<1>6. \A o \in Txid :
        /\ t.states[o] # None =>
             /\ w.states[o] # None
             /\ w.states[o].key = t.states[o].key
             /\ w.states[o].sequence = t.states[o].sequence
             /\ w.states[o].keys = t.states[o].keys
             /\ w.states[o].createdHeight = t.states[o].createdHeight
             /\ UnspentAt(w.states[o], h) <=> UnspentAt(t.states[o], h)
        /\ w.states[o] # None /\ w.states[o].createdHeight <= h =>
             t.states[o] # None
  <2>1. ASSUME NEW o \in Txid, t.states[o] # None
        PROVE  /\ w.states[o] # None
               /\ w.states[o].key = t.states[o].key
               /\ w.states[o].sequence = t.states[o].sequence
               /\ w.states[o].keys = t.states[o].keys
               /\ w.states[o].createdHeight = t.states[o].createdHeight
               /\ w.states[o].spentHeight =
                    IF b.spentOutpoints[o] # None THEN H
                    ELSE t.states[o].spentHeight
    BY <1>1, <1>4, <2>1, WrittenState
  <2>2. ASSUME NEW o \in Txid, t.states[o] = None, w.states[o] # None
        PROVE  w.states[o].createdHeight = H
    BY <1>1, <2>2, WrittenState
  <2>3. ~(H <= h)
    BY <1>1, <1>2 DEF Heights
  <2> HIDE DEF w, H
  <2>4. QED
    BY <1>2, <1>5, <2>1, <2>2, <2>3 DEF UnspentAt
<1>7. \A x \in Txid :
        /\ t.chapters[x] # None => w.chapters[x] = t.chapters[x]
        /\ w.chapters[x] # None /\ w.chapters[x].blockHeight <= h =>
             t.chapters[x] # None
  <2>1. ~(H <= h)
    BY <1>1, <1>2 DEF Heights
  <2>2. \A x \in Txid : IF b.chapters[x] = None
                        THEN w.chapters[x] = t.chapters[x]
                        ELSE w.chapters[x].blockHeight = H
    BY <1>1, WrittenChapter
  <2>3. QED
    BY <1>4, <2>1, <2>2
<1> HIDE DEF m, w, H
<1>8. UndoLeadsDown(w, h)
  BY <1>2, <1>3 DEF HeightIsSound, UndoLeadsDown
<1>9. ASSUME NEW k \in Txid
      PROVE  /\ RowAgrees(w, h, k)
             /\ CarrierAgrees(w, h, k)
             /\ ChapterAgrees(w, h, k)
             /\ CountAgrees(w, h, k)
             /\ RootIsSound(w, h, k)
  <2>1. /\ RowAgrees(t, h, k)
        /\ CarrierAgrees(t, h, k)
        /\ ChapterAgrees(t, h, k)
        /\ CountAgrees(t, h, k)
        /\ RootIsSound(t, h, k)
    BY <1>2 DEF HeightIsSound
  <2>2. RowAgrees(w, h, k) /\ ChapterAgrees(w, h, k)
    BY <1>2, <1>3, <1>6, <1>7, <2>1 DEF RowAgrees, ChapterAgrees
  <2>3. CarrierAgrees(w, h, k)
    <3> SUFFICES ASSUME IsActiveRow(Root(t, h)[k]) PROVE CarrierAgrees(w, h, k)
      BY <1>3 DEF CarrierAgrees
    <3> DEFINE o == Root(t, h)[k].currentOutpoint
    <3>1. o \in Txid \cup {None}
      BY <1>1, TablesType DEF IsActiveRow, ObjectRow
    <3>2. /\ o # None
          /\ t.states[o] # None
          /\ t.states[o].key = k
          /\ t.states[o].sequence = Root(t, h)[k].stateSequence
          /\ t.states[o].keys = Root(t, h)[k].keys
          /\ t.states[o].createdHeight \in 1 .. h
          /\ t.blocks[h].coins[o] = t.states[o].createdHeight
          /\ UnspentAt(t.states[o], h)
      BY <2>1 DEF CarrierAgrees
    <3>3. QED
      BY <1>2, <1>3, <1>6, <3>1, <3>2 DEF CarrierAgrees
  <2>4. CountAgrees(w, h, k)
    <3>1. ChaptersUpTo(w, h, k) = ChaptersUpTo(t, h, k)
      BY <1>7 DEF ChaptersUpTo
    <3>2. QED
      BY <1>3, <2>1, <3>1 DEF CountAgrees
  <2>5. RootIsSound(w, h, k)
    BY <1>2, <1>3, <2>1 DEF RootIsSound
  <2>6. QED
    BY <2>2, <2>3, <2>4, <2>5
<1>10. QED
  BY <1>8, <1>9 DEF HeightIsSound, w

\* The journal written with a block leads to the root below it.
LEMMA WrittenUndoLeadsDown ==
  ASSUME NEW t, GoodTables(t), NEW b \in ReducedBlock, Follows(TipState(t), b)
  PROVE  UndoLeadsDown(Written(t, b), b.height)
<1> DEFINE m == LoadObjects(t)
           w == Written(t, b)
           H == b.height
<1>1. t \in Tables /\ UndoInverts(m, b) /\ ObjectsFollow(m, b)
  BY DEF GoodTables, Follows, TipState
<1>2. /\ Root(w, H) = RowsOf(b.objects)
      /\ w.undo[H] = b.undo
      /\ RootBefore(w, H) = t.objects
  BY WrittenChain
<1>3. \A k \in Txid :
        IF t.objects[k] = None THEN m[k] = None
        ELSE /\ m[k] # None
             /\ RowOf(m[k]) = t.objects[k]
             /\ m[k].createHeight = t.objects[k].createHeight
  BY <1>1, LoadedRecord
<1>4. \A k \in Txid :
        /\ RowsOf(b.objects)[k] = None <=> b.objects[k] = None
        /\ b.objects[k] # None =>
             /\ RowsOf(b.objects)[k] = RowOf(b.objects[k])
             /\ RowsOf(b.objects)[k].createHeight = b.objects[k].createHeight
  BY BlockType, RowsOfType
<1> HIDE DEF m, w, H
<1>5. ASSUME NEW k \in Txid
      PROVE  /\ IF b.undo[k] = Untouched
                THEN RowsOf(b.objects)[k] = t.objects[k]
                ELSE t.objects[k] =
                       IF b.undo[k] = None THEN None ELSE RowOf(b.undo[k])
             /\ t.objects[k] # None =>
                  /\ RowsOf(b.objects)[k] # None
                  /\ RowsOf(b.objects)[k].createHeight = t.objects[k].createHeight
  <2> DEFINE row == t.objects[k]
             old == m[k]
             new == b.objects[k]
             out == RowsOf(b.objects)[k]
             u == b.undo[k]
  <2>1. IF u = Untouched THEN new = old ELSE u = old
    BY <1>1 DEF UndoInverts
  <2>2. old # None => new # None /\ new.createHeight = old.createHeight
    BY <1>1 DEF ObjectsFollow
  <2>3. IF row = None THEN old = None
        ELSE old # None /\ RowOf(old) = row /\ old.createHeight = row.createHeight
    BY <1>3
  <2>4. /\ out = None <=> new = None
        /\ new # None => out = RowOf(new) /\ out.createHeight = new.createHeight
    BY <1>4
  <2> HIDE DEF row, old, new, out, u
  <2>5. IF u = Untouched THEN out = row
        ELSE row = IF u = None THEN None ELSE RowOf(u)
    <3>1. CASE u = Untouched
      BY <2>1, <2>3, <2>4, <3>1
    <3>2. CASE u # Untouched
      BY <2>1, <2>3, <3>2
    <3>3. QED
      BY <3>1, <3>2
  <2>6. row # None => out # None /\ out.createHeight = row.createHeight
    BY <2>2, <2>3, <2>4
  <2>7. QED
    BY <2>5, <2>6 DEF row, old, new, out, u
<1>6. UndoLeadsDown(w, H)
  BY <1>2, <1>5 DEF UndoLeadsDown
<1>7. QED
  BY <1>6 DEF w, H

(***************************************************************************)
(* At the height of the block, the rows agree with the block's objects.    *)
(***************************************************************************)
\* Each state row belongs to an object of the block, as its carrier if it is
\* unspent.
LEMMA WrittenRowAgrees ==
  ASSUME NEW t, GoodTables(t), NEW b \in ReducedBlock, Follows(TipState(t), b),
         NEW o \in Txid
  PROVE  RowAgrees(Written(t, b), b.height, o)
<1> DEFINE m == LoadObjects(t)
           c == TipCoins(t)
           w == Written(t, b)
           H == b.height
           s == w.states[o]
<1>1. /\ t \in Tables
      /\ ObjectsFollow(m, b)
      /\ RowsFollow(m, b)
      /\ CoinsFollow(c, b)
      /\ m \in [Txid -> ObjectRecord \cup {None}]
  BY LoadedType DEF GoodTables, Follows, TipState
<1>2. Root(w, H) = RowsOf(b.objects) /\ w.blocks[H].coins = b.coins
  BY WrittenChain
<1>3. \A k \in Txid :
        /\ RowsOf(b.objects)[k] = None <=> b.objects[k] = None
        /\ b.objects[k] # None =>
             /\ b.objects[k] \in ObjectRecord
             /\ RowsOf(b.objects)[k].status = b.objects[k].status
             /\ RowsOf(b.objects)[k].stateSequence = b.objects[k].stateSequence
             /\ RowsOf(b.objects)[k].currentOutpoint
                  = b.objects[k].currentOutpoint
  BY BlockType, RowsOfType
<1>4. b.newStates[o] # None => b.newStates[o].key \in Txid
  BY BlockType DEF StateRow
<1>5. t.states[o] # None =>
        /\ t.states[o] \in StoredState
        /\ t.states[o].key \in Txid
        /\ t.states[o].sequence \in Nat
  BY <1>1, TablesType, ReducerAssumption DEF StoredState
<1>6. H \in Nat /\ H # None /\ ~(H > H)
  BY BlockType, ReducerAssumption
<1>7. /\ s = None <=> t.states[o] = None /\ b.newStates[o] = None
      /\ s # None =>
           /\ s.spentHeight =
                IF b.spentOutpoints[o] # None THEN H
                ELSE IF b.newStates[o] # None THEN None
                ELSE t.states[o].spentHeight
           /\ IF b.newStates[o] # None
              THEN /\ s.key = b.newStates[o].key
                   /\ s.sequence = b.newStates[o].sequence
              ELSE /\ s.key = t.states[o].key
                   /\ s.sequence = t.states[o].sequence
  BY <1>1, WrittenState
<1>8. t.states[o] # None =>
        /\ c[o] # Unseen
        /\ m[t.states[o].key] # None
        /\ t.states[o].sequence <= m[t.states[o].key].stateSequence
        /\ t.states[o].spentHeight = None => LiveIn(m, o, t.states[o].key)
  BY RowsOfLoadedMap
<1>9. t.states[o] # None =>
        t.states[o].spentHeight = None \/ ~(t.states[o].spentHeight > H)
  <2>1. \A g \in Stored(t) : g \in Nat /\ ~(g > H)
    BY <1>6, WrittenChain DEF Stored, Heights
  <2>2. QED
    BY <2>1 DEF GoodTables, RowsAreOfStoredBlocks
<1> HIDE DEF m, c, w, H, s
<1>10. ASSUME s # None
       PROVE  /\ b.coins[o] # Unseen
              /\ b.objects[s.key] # None
              /\ s.key \in Txid
              /\ s.sequence <= b.objects[s.key].stateSequence
              /\ UnspentAt(s, H) => LiveIn(b.objects, o, s.key)
  <2>1. CASE b.newStates[o] # None
    <3>1. NewRowFollows(m, b, o)
      BY <1>1 DEF RowsFollow
    <3>2. /\ b.coins[o] # Unseen
          /\ b.objects[s.key] # None
          /\ s.key \in Txid
          /\ s.sequence = b.objects[s.key].stateSequence
          /\ b.spentOutpoints[o] = None => LiveIn(b.objects, o, s.key)
      BY <1>4, <1>7, <1>10, <2>1, <3>1 DEF NewRowFollows
    <3>3. s.sequence <= b.objects[s.key].stateSequence
      <4>1. b.objects[s.key].stateSequence \in Nat
        BY <1>3, <3>2, ReducerAssumption DEF ObjectRecord
      <4>2. QED
        BY <3>2, <4>1
    <3>4. UnspentAt(s, H) => b.spentOutpoints[o] = None
      BY <1>6, <1>7, <1>10 DEF UnspentAt
    <3>5. QED
      BY <3>2, <3>3, <3>4
  <2>2. CASE b.newStates[o] = None
    <3>1. /\ t.states[o] # None
          /\ s.key = t.states[o].key
          /\ s.sequence = t.states[o].sequence
          /\ s.key \in Txid
      BY <1>5, <1>7, <1>10, <2>2
    <3>2. b.coins[o] # Unseen
      BY <1>1, <1>8, <3>1 DEF CoinsFollow
    <3>3. /\ b.objects[s.key] # None
          /\ s.sequence <= b.objects[s.key].stateSequence
      <4>1. /\ m[s.key] # None
            /\ s.sequence <= m[s.key].stateSequence
            /\ s.sequence \in Nat
        BY <1>5, <1>8, <3>1
      <4>2. m[s.key].stateSequence \in Nat
        BY <1>1, <3>1, <4>1, ReducerAssumption DEF ObjectRecord
      <4>3. /\ b.objects[s.key] # None
            /\ b.objects[s.key].stateSequence \in
                 {m[s.key].stateSequence, m[s.key].stateSequence + 1}
        BY <1>1, <3>1, <4>1 DEF ObjectsFollow
      <4>4. QED
        BY <4>1, <4>2, <4>3
    <3>4. UnspentAt(s, H) => LiveIn(b.objects, o, s.key)
      <4>1. ASSUME UnspentAt(s, H)
            PROVE  b.spentOutpoints[o] = None /\ t.states[o].spentHeight = None
        BY <1>6, <1>7, <1>9, <1>10, <2>2, <3>1, <4>1 DEF UnspentAt
      <4>2. OldCarrierStays(m, b, o)
        BY <1>1 DEF RowsFollow
      <4>3. QED
        BY <1>8, <2>2, <3>1, <4>1, <4>2 DEF OldCarrierStays
    <3>5. QED
      BY <3>1, <3>2, <3>3, <3>4
  <2>3. QED
    BY <2>1, <2>2
<1>11. RowAgrees(w, H, o)
  BY <1>2, <1>3, <1>10 DEF RowAgrees, LiveIn, s
<1>12. QED
  BY <1>11 DEF w, H

\* Each carrier of the block has its row.
LEMMA WrittenCarrierAgrees ==
  ASSUME NEW t, GoodTables(t), NEW b \in ReducedBlock, Follows(TipState(t), b),
         NEW k \in Txid
  PROVE  CarrierAgrees(Written(t, b), b.height, k)
<1> DEFINE m == LoadObjects(t)
           w == Written(t, b)
           H == b.height
           q == b.objects[k]
           o == q.currentOutpoint
           s == w.states[o]
<1>1. /\ t \in Tables
      /\ RowsFollow(m, b)
      /\ SoundMap(b.objects, b.coins, b.activation)
  BY DEF GoodTables, Follows, TipState
<1>2. Root(w, H) = RowsOf(b.objects) /\ w.blocks[H].coins = b.coins
  BY WrittenChain
<1>3. /\ RowsOf(b.objects)[k] = None <=> q = None
      /\ q # None =>
           /\ q \in ObjectRecord
           /\ RowsOf(b.objects)[k].status = q.status
           /\ RowsOf(b.objects)[k].stateSequence = q.stateSequence
           /\ RowsOf(b.objects)[k].currentOutpoint = o
           /\ RowsOf(b.objects)[k].keys = q.keys
  BY BlockType, RowsOfType
<1> SUFFICES ASSUME q # None, q.status = "active"
             PROVE  CarrierAgrees(w, H, k)
  BY <1>2, <1>3 DEF CarrierAgrees, IsActiveRow
<1>4. /\ o \in Txid
      /\ o # None
      /\ b.coins[o] = q.currentHeight
      /\ LiveIn(b.objects, o, k)
  <2>1. o # None /\ b.coins[o] = q.currentHeight
    BY <1>1 DEF SoundMap
  <2>2. o \in Txid
    BY <1>3, <2>1 DEF ObjectRecord
  <2>3. QED
    BY <2>1, <2>2 DEF LiveIn
<1>5. /\ LiveCarrierFollows(m, b, o)
      /\ NewRowFollows(m, b, o)
  BY <1>1, <1>4 DEF RowsFollow
<1>6. /\ s = None <=> t.states[o] = None /\ b.newStates[o] = None
      /\ s # None =>
           /\ s.spentHeight =
                IF b.spentOutpoints[o] # None THEN H
                ELSE IF b.newStates[o] # None THEN None
                ELSE t.states[o].spentHeight
           /\ IF b.newStates[o] # None
              THEN /\ s.key = b.newStates[o].key
                   /\ s.sequence = b.newStates[o].sequence
                   /\ s.keys = b.newStates[o].keys
                   /\ s.createdHeight = H
              ELSE /\ s.key = t.states[o].key
                   /\ s.sequence = t.states[o].sequence
                   /\ s.keys = t.states[o].keys
                   /\ s.createdHeight = t.states[o].createdHeight
  BY <1>1, <1>4, WrittenState
<1>7. LiveIn(m, o, k) =>
        /\ t.states[o] # None
        /\ t.states[o].key = k
        /\ t.states[o].sequence = m[k].stateSequence
        /\ t.states[o].keys = m[k].keys
        /\ t.states[o].createdHeight = m[k].currentHeight
        /\ t.states[o].createdHeight \in 1 .. Tip(t)
        /\ t.states[o].spentHeight = None
  <2>1. \A x, y \in Txid : LiveIn(m, x, y) =>
          /\ t.states[x] # None
          /\ t.states[x].key = y
          /\ t.states[x].sequence = m[y].stateSequence
          /\ t.states[x].keys = m[y].keys
          /\ t.states[x].createdHeight = m[y].currentHeight
          /\ t.states[x].createdHeight \in 1 .. Tip(t)
          /\ t.states[x].spentHeight = None
    BY RowsOfLoadedMap
  <2> HIDE DEF m, w, H, q, o, s
  <2>2. QED
    BY <1>4, <2>1
<1>8. H \in Nat /\ H \in 1 .. H /\ \A h \in 1 .. Tip(t) : h \in 1 .. H
  <2>1. Tip(t) < H /\ H \in Heights
    BY BlockType, WrittenChain
  <2>2. Tip(t) \in Nat
    BY <1>1, TipIsEnd DEF GoodTables, Heights
  <2>3. QED
    BY <2>1, <2>2 DEF Heights
<1> HIDE DEF m, w, H, q, o, s
<1>9. /\ s # None
      /\ s.key = k
      /\ s.sequence = q.stateSequence
      /\ s.keys = q.keys
      /\ s.createdHeight \in 1 .. H
      /\ q.currentHeight = s.createdHeight
      /\ s.spentHeight = None
  <2>1. CASE b.newStates[o] = None
    <3>1. q = m[k] /\ b.spentOutpoints[o] = None
      BY <1>4, <1>5, <2>1 DEF LiveCarrierFollows, q
    <3>2. LiveIn(m, o, k)
      BY <1>4, <3>1 DEF LiveIn, q
    <3>3. /\ t.states[o] # None
          /\ t.states[o].key = k
          /\ t.states[o].sequence = q.stateSequence
          /\ t.states[o].keys = q.keys
          /\ t.states[o].createdHeight = q.currentHeight
          /\ t.states[o].createdHeight \in 1 .. H
          /\ t.states[o].spentHeight = None
      BY <1>7, <1>8, <3>1, <3>2
    <3>4. QED
      BY <1>6, <2>1, <3>1, <3>3
  <2>2. CASE b.newStates[o] # None
    <3>1. /\ b.spentOutpoints[o] = None
          /\ b.newStates[o].key = k
          /\ q.currentHeight = H
      BY <1>4, <1>5, <2>2 DEF LiveCarrierFollows, q, H
    <3>2. /\ b.newStates[o].sequence = q.stateSequence
          /\ b.newStates[o].keys = q.keys
      BY <1>5, <2>2, <3>1 DEF NewRowFollows, q
    <3>3. QED
      BY <1>6, <1>8, <2>2, <3>1, <3>2
  <2>3. QED
    BY <2>1, <2>2
<1>10. QED
  BY <1>2, <1>3, <1>4, <1>9 DEF CarrierAgrees, UnspentAt, s

\* Each chapter belongs to an object of the block.
LEMMA WrittenChapterAgrees ==
  ASSUME NEW t, GoodTables(t), NEW b \in ReducedBlock, Follows(TipState(t), b),
         NEW x \in Txid
  PROVE  ChapterAgrees(Written(t, b), b.height, x)
<1> DEFINE m == LoadObjects(t)
           c == TipCoins(t)
           w == Written(t, b)
           H == b.height
           a == w.chapters[x]
<1>1. /\ t \in Tables
      /\ ObjectsFollow(m, b)
      /\ ChaptersFollow(m, b)
      /\ CoinsFollow(c, b)
      /\ m \in [Txid -> ObjectRecord \cup {None}]
  BY LoadedType DEF GoodTables, Follows, TipState
<1>2. Root(w, H) = RowsOf(b.objects) /\ w.blocks[H].coins = b.coins
  BY WrittenChain
<1>3. \A k \in Txid :
        /\ RowsOf(b.objects)[k] = None <=> b.objects[k] = None
        /\ b.objects[k] # None =>
             /\ b.objects[k] \in ObjectRecord
             /\ RowsOf(b.objects)[k].stateSequence = b.objects[k].stateSequence
  BY BlockType, RowsOfType
<1>4. b.chapters[x] # None => b.chapters[x].key \in Txid
  BY BlockType DEF ChapterRow
<1>5. t.chapters[x] # None =>
        /\ t.chapters[x].key \in Txid
        /\ t.chapters[x].sequence \in Nat
  BY <1>1, TablesType, ReducerAssumption DEF StoredChapter
<1>6. IF b.chapters[x] = None THEN a = t.chapters[x]
      ELSE /\ a # None
           /\ a.key = b.chapters[x].key
           /\ a.sequence = b.chapters[x].sequence
  BY <1>1, WrittenChapter
<1>7. t.chapters[x] # None =>
        /\ c[x] # Unseen
        /\ m[t.chapters[x].key] # None
        /\ t.chapters[x].sequence <= m[t.chapters[x].key].stateSequence
  BY RowsOfLoadedMap
<1> HIDE DEF m, c, w, H, a
<1>8. ASSUME a # None
      PROVE  /\ b.coins[x] # Unseen
             /\ a.key \in Txid
             /\ b.objects[a.key] # None
             /\ a.sequence <= b.objects[a.key].stateSequence
  <2>1. CASE b.chapters[x] # None
    <3>1. ChapterFollows(m, b, x)
      BY <1>1 DEF ChaptersFollow
    <3>2. /\ b.coins[x] # Unseen
          /\ b.objects[a.key] # None
          /\ a.sequence = b.objects[a.key].stateSequence
          /\ a.key \in Txid
      BY <1>4, <1>6, <2>1, <3>1 DEF ChapterFollows
    <3>3. b.objects[a.key].stateSequence \in Nat
      BY <1>3, <3>2, ReducerAssumption DEF ObjectRecord
    <3>4. QED
      BY <3>2, <3>3
  <2>2. CASE b.chapters[x] = None
    <3>1. a = t.chapters[x] /\ b.coins[x] # Unseen
      BY <1>1, <1>6, <1>7, <1>8, <2>2 DEF CoinsFollow
    <3>2. /\ a.key \in Txid
          /\ m[a.key] # None
          /\ a.sequence <= m[a.key].stateSequence
          /\ a.sequence \in Nat
      BY <1>5, <1>7, <1>8, <3>1
    <3>3. m[a.key].stateSequence \in Nat
      BY <1>1, <3>2, ReducerAssumption DEF ObjectRecord
    <3>4. /\ b.objects[a.key] # None
          /\ b.objects[a.key].stateSequence \in
               {m[a.key].stateSequence, m[a.key].stateSequence + 1}
      BY <1>1, <3>2 DEF ObjectsFollow
    <3>5. \A i, j, n \in Nat : i <= j /\ n \in {j, j + 1} => i <= n
      OBVIOUS
    <3>6. b.objects[a.key].stateSequence \in Nat
      BY <3>3, <3>4
    <3>7. a.sequence <= b.objects[a.key].stateSequence
      BY <3>2, <3>3, <3>4, <3>5, <3>6
    <3>8. QED
      BY <3>1, <3>2, <3>4, <3>7
  <2>3. QED
    BY <2>1, <2>2
<1>9. ChapterAgrees(w, H, x)
  BY <1>2, <1>3, <1>8 DEF ChapterAgrees, a
<1>10. QED
  BY <1>9 DEF w, H

\* The count of an object is the number of its chapter rows.
LEMMA WrittenCountAgrees ==
  ASSUME NEW t, GoodTables(t), NEW b \in ReducedBlock, Follows(TipState(t), b),
         NEW k \in Txid
  PROVE  CountAgrees(Written(t, b), b.height, k)
<1> DEFINE m == LoadObjects(t)
           w == Written(t, b)
           H == b.height
           q == b.objects[k]
<1>1. /\ t \in Tables
      /\ ChaptersFollow(m, b)
      /\ m \in [Txid -> ObjectRecord \cup {None}]
  BY LoadedType DEF GoodTables, Follows, TipState
<1>2. Root(w, H) = RowsOf(b.objects)
  BY WrittenChain
<1>3. /\ RowsOf(b.objects)[k] = None <=> q = None
      /\ q # None => RowsOf(b.objects)[k].chapterCount = q.chapterCount
  BY BlockType, RowsOfType
<1>4. \A x \in Txid :
        /\ b.chapters[x] # None => t.chapters[x] = None
        /\ t.chapters[x] # None => t.chapters[x].blockHeight \in Stored(t)
        /\ t.chapters[x] # None => m[t.chapters[x].key] # None
  BY NewRowsAreFresh, RowsOfLoadedMap DEF GoodTables, RowsAreOfStoredBlocks
<1>5. \A x \in Txid :
        IF b.chapters[x] = None THEN w.chapters[x] = t.chapters[x]
        ELSE /\ w.chapters[x] # None
             /\ w.chapters[x].key = b.chapters[x].key
             /\ w.chapters[x].blockHeight = H
  BY <1>1, WrittenChapter
<1>6. H <= H /\ \A h \in Stored(t) : h <= H
  <2>1. H \in Nat /\ \A h \in Stored(t) : h < H /\ h \in Nat
    BY BlockType, WrittenChain DEF Stored, Heights
  <2>2. QED
    BY <2>1
<1>7. m[k] # None => /\ IsFiniteSet(ChaptersOf(t, k))
                     /\ m[k].chapterCount = Cardinality(ChaptersOf(t, k))
                     /\ m[k].chapterCount \in Nat
  BY <1>1, RowsOfLoadedMap DEF ObjectRecord
<1> HIDE DEF m, w, H, q
<1>8. ChaptersUpTo(w, H, k) =
        ChaptersOf(t, k)
        \cup {x \in Txid : b.chapters[x] # None /\ b.chapters[x].key = k}
  BY <1>4, <1>5, <1>6 DEF ChaptersUpTo, ChaptersOf
<1>9. ASSUME q # None
      PROVE  /\ IsFiniteSet(ChaptersUpTo(w, H, k))
             /\ q.chapterCount = Cardinality(ChaptersUpTo(w, H, k))
  <2>1. CASE HasChapter(b, k)
    <3>1. PICK x \in Txid : b.chapters[x] # None /\ b.chapters[x].key = k
      BY <2>1 DEF HasChapter
    <3>2. ChapterFollows(m, b, x)
      BY <1>1 DEF ChaptersFollow
    <3>3. /\ m[k] # None
          /\ q.chapterCount = m[k].chapterCount + 1
          /\ \A y \in Txid :
               b.chapters[y] # None /\ b.chapters[y].key = k => y = x
      BY <3>1, <3>2 DEF ChapterFollows, q
    <3>4. ChaptersUpTo(w, H, k) = ChaptersOf(t, k) \cup {x}
      BY <1>8, <3>1, <3>3
    <3>5. x \notin ChaptersOf(t, k)
      BY <1>4, <3>1 DEF ChaptersOf
    <3>6. QED
      BY <1>7, <3>3, <3>4, <3>5, FS_AddElement
  <2>2. CASE ~HasChapter(b, k)
    <3>1. ChaptersUpTo(w, H, k) = ChaptersOf(t, k)
      BY <1>8, <2>2 DEF HasChapter
    <3>2. q.chapterCount = IF m[k] = None THEN 0 ELSE m[k].chapterCount
      BY <1>1, <1>9, <2>2 DEF ChaptersFollow, q
    <3>3. CASE m[k] # None
      BY <1>7, <3>1, <3>2, <3>3
    <3>4. CASE m[k] = None
      <4>1. ChaptersOf(t, k) = {}
        BY <1>4, <3>4 DEF ChaptersOf
      <4>2. QED
        BY <3>1, <3>2, <3>4, <4>1, FS_EmptySet
    <3>5. QED
      BY <3>3, <3>4
  <2>3. QED
    BY <2>1, <2>2
<1>10. QED
  BY <1>2, <1>3, <1>9 DEF CountAgrees, w, H

\* So the height of the block is sound.
LEMMA WrittenTipIsSound ==
  ASSUME NEW t, GoodTables(t), NEW b \in ReducedBlock, Follows(TipState(t), b)
  PROVE  HeightIsSound(Written(t, b), b.height)
<1> DEFINE w == Written(t, b)
           H == b.height
<1>1. /\ Root(w, H) = RowsOf(b.objects)
      /\ w.blocks[H].coins = b.coins
      /\ w.init = b.activation
  BY WrittenChain
<1>2. SoundMap(b.objects, b.coins, b.activation) /\ b.activation # None
  BY BlockType DEF Follows
<1>3. \A k \in Txid :
        /\ RowsOf(b.objects)[k] = None <=> b.objects[k] = None
        /\ b.objects[k] # None =>
             /\ RowsOf(b.objects)[k].status = b.objects[k].status
             /\ RowsOf(b.objects)[k].currentOutpoint
                  = b.objects[k].currentOutpoint
  BY BlockType, RowsOfType
<1>4. \A k \in Txid : /\ RowAgrees(w, H, k)
                      /\ CarrierAgrees(w, H, k)
                      /\ ChapterAgrees(w, H, k)
                      /\ CountAgrees(w, H, k)
  BY WrittenRowAgrees, WrittenCarrierAgrees, WrittenChapterAgrees,
     WrittenCountAgrees
<1>5. UndoLeadsDown(w, H)
  BY WrittenUndoLeadsDown
<1> HIDE DEF w, H
<1>6. \A k \in Txid : RootIsSound(w, H, k)
  BY <1>1, <1>2, <1>3 DEF RootIsSound, SoundMap, EndedHasNoCarrier, IsActiveRow
<1>7. QED
  BY <1>4, <1>5, <1>6 DEF HeightIsSound, w, H

\* Writing a block that follows keeps the tables sound.
LEMMA WrittenKeepsGood ==
  ASSUME NEW t, GoodTables(t), NEW b \in ReducedBlock, Follows(TipState(t), b)
  PROVE  GoodTables(Written(t, b))
<1> DEFINE w == Written(t, b)
           H == b.height
<1>1. t \in Tables /\ w \in Tables /\ H \in Heights /\ H \in Nat /\ H # 0
  BY WrittenType, BlockType DEF GoodTables, Heights
<1>2. /\ HasChain(w)
      /\ Stored(w) = Stored(t) \cup {H}
      /\ Tip(w) = H
      /\ Root(w, H) = RowsOf(b.objects)
  BY WrittenChain
<1>3. \A h \in Stored(w) : HeightIsSound(w, h)
  BY <1>2, WrittenKeepsHeight, WrittenTipIsSound
<1>4. RootIsObjects(w)
  <2>1. w.objects = RowsOf(b.objects)
    BY WrittenRows
  <2>2. QED
    BY <1>1, <1>2, <2>1 DEF RootIsObjects
<1>5. RowsAreOfStoredBlocks(w)
  <2>1. RowsAreOfStoredBlocks(t)
    BY DEF GoodTables
  <2>2. \A o \in Txid :
          /\ w.states[o] # None =>
               /\ w.states[o].spentHeight =
                    IF b.spentOutpoints[o] # None THEN H
                    ELSE IF b.newStates[o] # None THEN None
                    ELSE t.states[o].spentHeight
               /\ w.states[o].createdHeight =
                    IF b.newStates[o] # None THEN H
                    ELSE t.states[o].createdHeight
               /\ b.newStates[o] = None => t.states[o] # None
          /\ IF b.chapters[o] = None THEN w.chapters[o] = t.chapters[o]
             ELSE w.chapters[o].blockHeight = H
    BY <1>1, WrittenState, WrittenChapter
  <2> HIDE DEF w, H
  <2>3. QED
    BY <1>2, <2>1, <2>2 DEF RowsAreOfStoredBlocks
<1>6. QED
  BY <1>1, <1>2, <1>3, <1>4, <1>5 DEF GoodTables

\* And the next block finds what the reducer goes on from.
LEMMA WrittenTipState ==
  ASSUME NEW t, GoodTables(t), NEW b \in ReducedBlock, Follows(TipState(t), b)
  PROVE  TipState(Written(t, b)) = StateAfter(b)
<1> DEFINE w == Written(t, b)
<1>1. b.height # 0
  BY BlockType DEF Heights
<1>2. /\ Tip(w) = b.height
      /\ w.init = b.activation
      /\ w.blocks[b.height].coins = b.coins
  BY WrittenChain
<1>3. LoadObjects(w) = b.objects
  BY LoadedAfterWrite
<1>4. TipCoins(w) = b.coins
  BY <1>1, <1>2 DEF TipCoins
<1>5. QED
  BY <1>2, <1>3, <1>4 DEF TipState, StateAfter

\* An upsert forgets no object and leaves the ended ones alone.
LEMMA WrittenKeepsEnded ==
  ASSUME NEW t, GoodTables(t), NEW b \in ReducedBlock, Follows(TipState(t), b),
         NEW k \in Txid, t.objects[k] # None
  PROVE  /\ Written(t, b).objects[k] # None
         /\ t.objects[k].status # "active"
              => Written(t, b).objects[k] = t.objects[k]
<1> DEFINE m == LoadObjects(t)
<1>1. t \in Tables /\ ObjectsFollow(m, b)
  BY DEF GoodTables, Follows, TipState
<1>2. Written(t, b).objects = RowsOf(b.objects)
  BY WrittenRows
<1>3. /\ m[k] # None
      /\ RowOf(m[k]) = t.objects[k]
      /\ m[k].status = t.objects[k].status
  BY <1>1, LoadedRecord
<1>4. /\ b.objects[k] # None
      /\ m[k].status # "active" => b.objects[k] = m[k]
  BY <1>1, <1>3 DEF ObjectsFollow
<1>5. RowsOf(b.objects)[k] # None /\ RowsOf(b.objects)[k] = RowOf(b.objects[k])
  BY <1>4, BlockType, RowsOfType
<1>6. QED
  BY <1>2, <1>3, <1>4, <1>5

\* No row of the block meets a primary or a unique key of the tables.
LEMMA InsertsMeetNoKey ==
  ASSUME NEW t, GoodTables(t), NEW b \in ReducedBlock, Follows(TipState(t), b)
  PROVE  /\ t.blocks[b.height] = None
         /\ b.initConfirmed => t.init = None
         /\ \A o \in Txid : b.newStates[o] # None =>
              /\ t.states[o] = None
              /\ \A p \in Txid : t.states[p] # None =>
                   \/ t.states[p].key # b.newStates[o].key
                   \/ t.states[p].sequence # b.newStates[o].sequence
         /\ \A x \in Txid : b.chapters[x] # None =>
              /\ t.chapters[x] = None
              /\ \A y \in Txid : t.chapters[y] # None =>
                   \/ t.chapters[y].key # b.chapters[x].key
                   \/ t.chapters[y].sequence # b.chapters[x].sequence
<1> DEFINE m == LoadObjects(t)
<1>1. /\ t \in Tables
      /\ RowsFollow(m, b)
      /\ ChaptersFollow(m, b)
      /\ m \in [Txid -> ObjectRecord \cup {None}]
  BY LoadedType DEF GoodTables, Follows, TipState
<1>2. t.blocks[b.height] = None /\ (b.initConfirmed => t.init = None)
  BY WrittenChain, BlockType DEF Stored
<1>3. \A o \in Txid : t.states[o] # None =>
        /\ t.states[o].key \in Txid
        /\ t.states[o].sequence \in Nat
        /\ m[t.states[o].key] # None
        /\ t.states[o].sequence <= m[t.states[o].key].stateSequence
  <2>1. \A o \in Txid : t.states[o] # None =>
          t.states[o].key \in Txid /\ t.states[o].sequence \in Nat
    BY <1>1, TablesType, ReducerAssumption DEF StoredState
  <2>2. QED
    BY <2>1, RowsOfLoadedMap
<1>4. \A x \in Txid : t.chapters[x] # None =>
        /\ t.chapters[x].key \in Txid
        /\ t.chapters[x].sequence \in Nat
        /\ t.chapters[x].sequence <= m[t.chapters[x].key].stateSequence
  <2>1. \A x \in Txid : t.chapters[x] # None =>
          t.chapters[x].key \in Txid /\ t.chapters[x].sequence \in Nat
    BY <1>1, TablesType, ReducerAssumption DEF StoredChapter
  <2>2. QED
    BY <2>1, RowsOfLoadedMap
<1>5. \A k \in Txid : m[k] # None => m[k].stateSequence \in Nat
  BY <1>1, ReducerAssumption DEF ObjectRecord
<1> HIDE DEF m
<1>6. ASSUME NEW o \in Txid, b.newStates[o] # None
      PROVE  /\ t.states[o] = None
             /\ \A p \in Txid : t.states[p] # None =>
                  \/ t.states[p].key # b.newStates[o].key
                  \/ t.states[p].sequence # b.newStates[o].sequence
  <2>1. t.states[o] = None
    BY <1>6, NewRowsAreFresh
  <2> DEFINE k == b.newStates[o].key
  <2>2. k \in Txid
    BY <1>6, BlockType DEF StateRow
  <2>3. NewRowFollows(m, b, o)
    BY <1>1 DEF RowsFollow
  <2>4. b.newStates[o].sequence = StepSequence(m, k)
    BY <1>6, <2>3 DEF NewRowFollows
  <2>5. ASSUME NEW p \in Txid, t.states[p] # None, t.states[p].key = k
        PROVE  t.states[p].sequence # b.newStates[o].sequence
    <3>1. /\ m[k] # None
          /\ t.states[p].sequence <= m[k].stateSequence
          /\ t.states[p].sequence \in Nat
          /\ m[k].stateSequence \in Nat
      BY <1>3, <1>5, <2>2, <2>5
    <3>2. b.newStates[o].sequence = m[k].stateSequence + 1
      BY <2>4, <3>1 DEF StepSequence
    <3>3. QED
      BY <3>1, <3>2
  <2>6. QED
    BY <2>1, <2>5
<1>7. ASSUME NEW x \in Txid, b.chapters[x] # None
      PROVE  /\ t.chapters[x] = None
             /\ \A y \in Txid : t.chapters[y] # None =>
                  \/ t.chapters[y].key # b.chapters[x].key
                  \/ t.chapters[y].sequence # b.chapters[x].sequence
  <2>1. t.chapters[x] = None
    BY <1>7, NewRowsAreFresh
  <2> DEFINE k == b.chapters[x].key
  <2>2. k \in Txid
    BY <1>7, BlockType DEF ChapterRow
  <2>3. ChapterFollows(m, b, x)
    BY <1>1 DEF ChaptersFollow
  <2>4. m[k] # None /\ b.chapters[x].sequence = m[k].stateSequence + 1
    BY <1>7, <2>3 DEF ChapterFollows
  <2>5. ASSUME NEW y \in Txid, t.chapters[y] # None, t.chapters[y].key = k
        PROVE  t.chapters[y].sequence # b.chapters[x].sequence
    <3>1. /\ t.chapters[y].sequence <= m[k].stateSequence
          /\ t.chapters[y].sequence \in Nat
          /\ m[k].stateSequence \in Nat
      BY <1>4, <1>5, <2>2, <2>4, <2>5
    <3>2. QED
      BY <2>4, <3>1
  <2>6. QED
    BY <2>1, <2>5
<1>8. QED
  BY <1>2, <1>6, <1>7

-----------------------------------------------------------------------------
(***************************************************************************)
(* Sound tables from the start, and what a reader makes of them.           *)
(***************************************************************************)
\* A fresh database is sound.
LEMMA EmptyIsGood == GoodTables(EmptyTables) /\ Tip(EmptyTables) = 0
<1>1. Stored(EmptyTables) = {}
  BY DEF Stored, EmptyTables
<1>2. EmptyTables \in Tables
  BY DEF EmptyTables, Tables, NoRows, UndoRows
<1>3. Tip(EmptyTables) = 0
  BY <1>1 DEF Tip
<1>4. HasChain(EmptyTables) /\ RootIsObjects(EmptyTables)
  BY <1>1, <1>3 DEF HasChain, RootIsObjects, EmptyTables
<1>5. RowsAreOfStoredBlocks(EmptyTables)
  BY DEF RowsAreOfStoredBlocks, EmptyTables, NoRows
<1>6. QED
  BY <1>1, <1>2, <1>3, <1>4, <1>5 DEF GoodTables

\* The journal of rollbacks is beside all this.
LEMMA JournalKeepsGood ==
  ASSUME NEW t, GoodTables(t), NEW j \in Nat
  PROVE  GoodTables([t EXCEPT !.journal = j])
<1> DEFINE u == [t EXCEPT !.journal = j]
<1>1. t \in Tables
  BY DEF GoodTables
<1>2. /\ u \in Tables
      /\ u.blocks = t.blocks /\ u.init = t.init /\ u.objects = t.objects
      /\ u.states = t.states /\ u.chapters = t.chapters /\ u.undo = t.undo
  BY <1>1 DEF Tables
<1> HIDE DEF u
<1>3. Stored(u) = Stored(t)
  BY <1>2 DEF Stored
<1>4. Tip(u) = Tip(t) /\ \A h \in Heights : Root(u, h) = Root(t, h)
  BY <1>2, <1>3 DEF Tip, Root
<1>5. \A h \in Stored(t) :
        /\ h \in Heights
        /\ RootBefore(u, h) = RootBefore(t, h)
  BY <1>2, <1>3 DEF RootBefore, Root, Stored
<1>6. HasChain(u) /\ RootIsObjects(u) /\ RowsAreOfStoredBlocks(u)
  BY <1>2, <1>3, <1>4
  DEF GoodTables, HasChain, RootIsObjects, RowsAreOfStoredBlocks, Root
<1>7. ASSUME NEW h \in Stored(t)
      PROVE  HeightIsSound(u, h)
  <2>1. HeightIsSound(t, h) /\ Root(u, h) = Root(t, h)
    BY <1>4, <1>5 DEF GoodTables
  <2>2. UndoLeadsDown(u, h)
    BY <1>2, <1>5, <2>1 DEF HeightIsSound, UndoLeadsDown
  <2>3. ASSUME NEW k \in Txid
        PROVE  /\ RowAgrees(u, h, k)
               /\ CarrierAgrees(u, h, k)
               /\ ChapterAgrees(u, h, k)
               /\ CountAgrees(u, h, k)
               /\ RootIsSound(u, h, k)
    <3>1. /\ RowAgrees(t, h, k)
          /\ CarrierAgrees(t, h, k)
          /\ ChapterAgrees(t, h, k)
          /\ CountAgrees(t, h, k)
          /\ RootIsSound(t, h, k)
      BY <2>1 DEF HeightIsSound
    <3>2. RowAgrees(u, h, k) /\ CarrierAgrees(u, h, k)
      BY <1>2, <2>1, <3>1 DEF RowAgrees, CarrierAgrees
    <3>3. ChapterAgrees(u, h, k) /\ CountAgrees(u, h, k)
      BY <1>2, <2>1, <3>1 DEF ChapterAgrees, CountAgrees, ChaptersUpTo
    <3>4. RootIsSound(u, h, k)
      BY <1>2, <2>1, <3>1 DEF RootIsSound
    <3>5. QED
      BY <3>2, <3>3, <3>4
  <2>4. QED
    BY <2>2, <2>3 DEF HeightIsSound
<1>8. GoodTables(u)
  BY <1>2, <1>3, <1>6, <1>7 DEF GoodTables
<1>9. QED
  BY <1>8 DEF u

\* The rows, marks and chapters of one object agree.
ObjectAgrees(t, k) ==
  LET row == t.objects[k]
      unspent == {o \in Txid : /\ t.states[o] # None
                               /\ t.states[o].key = k
                               /\ t.states[o].spentHeight = None}
      chaptersOf == {x \in Txid : t.chapters[x] # None /\ t.chapters[x].key = k}
  IN IF row = None
     THEN /\ \A o \in Txid : t.states[o] # None => t.states[o].key # k
          /\ chaptersOf = {}
     ELSE /\ unspent = IF row.status = "active" THEN {row.currentOutpoint} ELSE {}
          /\ \A o \in unspent : /\ t.states[o].sequence = row.stateSequence
                                 /\ t.states[o].keys = row.keys
          /\ row.chapterCount = Cardinality(chaptersOf)

\* In sound tables those of every object do.
LEMMA GoodTablesAgree ==
  ASSUME NEW t, GoodTables(t), NEW k \in Txid
  PROVE  ObjectAgrees(t, k)
<1> USE DEF ObjectAgrees
<1> DEFINE m == LoadObjects(t)
           row == t.objects[k]
           unspent == {o \in Txid : /\ t.states[o] # None
                                    /\ t.states[o].key = k
                                    /\ t.states[o].spentHeight = None}
<1>1. t \in Tables
  BY DEF GoodTables
<1>2. IF row = None THEN m[k] = None
      ELSE /\ row \in ObjectRow
           /\ m[k] # None
           /\ m[k].status = row.status
           /\ m[k].stateSequence = row.stateSequence
           /\ m[k].currentOutpoint = row.currentOutpoint
           /\ m[k].keys = row.keys
           /\ m[k].chapterCount = row.chapterCount
  BY <1>1, LoadedRecord
<1>3. /\ \A o \in Txid : t.states[o] # None =>
           /\ m[t.states[o].key] # None
           /\ t.states[o].spentHeight = None => LiveIn(m, o, t.states[o].key)
      /\ \A o \in Txid : LiveIn(m, o, k) =>
           /\ t.states[o] # None
           /\ t.states[o].key = k
           /\ t.states[o].sequence = m[k].stateSequence
           /\ t.states[o].keys = m[k].keys
           /\ t.states[o].spentHeight = None
      /\ \A x \in Txid : t.chapters[x] # None => m[t.chapters[x].key] # None
      /\ m[k] # None => m[k].chapterCount = Cardinality(ChaptersOf(t, k))
  BY RowsOfLoadedMap
<1>4. m[k] # None /\ m[k].status = "active" => m[k].currentOutpoint # None
  BY LoadedMapIsSound DEF SoundMap
<1> HIDE DEF m
<1>5. unspent = {o \in Txid : LiveIn(m, o, k)}
  BY <1>3
<1>6. CASE row = None
  BY <1>2, <1>3, <1>6
<1>7. CASE row # None
  <2>1. CASE row.status = "active"
    <3>1. row.currentOutpoint \in Txid
      BY <1>2, <1>4, <1>7, <2>1 DEF ObjectRow
    <3>2. unspent = {row.currentOutpoint}
      BY <1>2, <1>5, <1>7, <2>1, <3>1 DEF LiveIn
    <3>3. \A o \in unspent : LiveIn(m, o, k)
      BY <1>5
    <3>4. QED
      BY <1>2, <1>3, <1>7, <2>1, <3>2, <3>3 DEF ChaptersOf
  <2>2. CASE row.status # "active"
    <3>1. unspent = {}
      BY <1>2, <1>5, <1>7, <2>2 DEF LiveIn
    <3>2. QED
      BY <1>2, <1>3, <1>7, <2>2, <3>1 DEF ChaptersOf
  <2>3. QED
    BY <2>1, <2>2
<1>8. QED
  BY <1>6, <1>7

\* The carrier of an active row is unspent on the chain of the tip.
LEMMA GoodCarrierIsUnspent ==
  ASSUME NEW t, GoodTables(t), NEW k \in Txid, IsActiveRow(t.objects[k])
  PROVE  LET o == t.objects[k].currentOutpoint IN
         /\ t.blocks[Tip(t)].coins[o] > Spent
         /\ t.states[o].createdHeight = t.blocks[Tip(t)].coins[o]
<1>1. Tip(t) # 0
  BY NothingBeforeChain DEF IsActiveRow, NoRows
<1>2. /\ t.objects = Root(t, Tip(t))
      /\ HeightIsSound(t, Tip(t))
  BY <1>1, TipIsSound
<1>3. CarrierAgrees(t, Tip(t), k)
  BY <1>2 DEF HeightIsSound
<1> DEFINE o == t.objects[k].currentOutpoint
<1>4. /\ t.states[o].createdHeight \in 1 .. Tip(t)
      /\ t.blocks[Tip(t)].coins[o] = t.states[o].createdHeight
  BY <1>2, <1>3 DEF CarrierAgrees
<1>5. QED
  BY <1>4 DEF Spent

-----------------------------------------------------------------------------
(***************************************************************************)
(* The inductive invariant.                                                *)
(***************************************************************************)
\* The block that FinishBlock adds to the batch.
Reduced ==
  [height |-> height, initConfirmed |-> activation.height = height,
   activation |-> activation, objects |-> objects, undo |-> undo,
   newStates |-> newStates, spentOutpoints |-> spentOutpoints,
   chapters |-> chapters, coins |-> coins]

\* What the i-th block of the queue q is reduced from, if q is to be written
\* on the tables t.
Prior(t, q, i) == IF i = 1 THEN TipState(t) ELSE StateAfter(q[i - 1])

\* Every block of the queue follows from the one before it.
Queued(t, q) == \A i \in 1 .. Len(q) : Follows(Prior(t, q, i), q[i])

\* The tables the batch goes on: the open transaction once it has begun.
Base == IF mode = "append" THEN txn ELSE db

\* What the reducer's next block is reduced from.
Latest == Prior(Base, batch, Len(batch) + 1)

\* The reducer's variables hold p, or the block it makes of p.
InProgress(p) ==
  IF pc = "reducing"
  THEN /\ IInv
       /\ BlockFollows
       /\ base = p.objects
       /\ CoinsFollow(p.coins, Reduced)
       /\ Placed(p, Reduced)
  ELSE /\ objects = p.objects
       /\ coins = p.coins
       /\ activation = p.activation
       /\ activation # None => height = p.height

\* An open append transaction forgets no object and changes no ended one.
KeepsEnded(t, u) ==
  \A k \in Txid : t.objects[k] # None =>
    /\ u.objects[k] # None
    /\ t.objects[k].status # "active" => u.objects[k] = t.objects[k]

\* Sound tables, in the open transaction too; a queue that follows from them; a
\* block in progress that follows from the queue; a cache and a journal that
\* agree with the tables.
StoreIInv ==
  /\ StoreTypeOK
  /\ GoodTables(db)
  /\ GoodTables(txn)
  /\ CacheCoherent
  /\ Queued(Base, batch)
  /\ mode \in {"batch", "append"} => InProgress(Latest)
  /\ mode # "batch" => pc = "idle"
  /\ mode \in {"ready", "rollback"} => batch = <<>>
  /\ mode \in {"append", "rollback"} => txn.journal = db.journal
  /\ mode = "append" => KeepsEnded(db, txn)

-----------------------------------------------------------------------------
(***************************************************************************)
(* The queue of blocks.                                                    *)
(***************************************************************************)
\* A block added to the queue.
LEMMA PriorOfAppend ==
  ASSUME NEW t, NEW q \in Seq(ReducedBlock), NEW b \in ReducedBlock
  PROVE  /\ Append(q, b) \in Seq(ReducedBlock)
         /\ Len(Append(q, b)) = Len(q) + 1
         /\ \A i \in 1 .. Len(q) : Append(q, b)[i] = q[i]
         /\ Append(q, b)[Len(q) + 1] = b
         /\ \A i \in 1 .. Len(q) + 1 : Prior(t, Append(q, b), i) = Prior(t, q, i)
         /\ Prior(t, Append(q, b), Len(q) + 2) = StateAfter(b)
<1>1. /\ Append(q, b) \in Seq(ReducedBlock)
      /\ Len(q) \in Nat
      /\ Len(Append(q, b)) = Len(q) + 1
      /\ \A i \in 1 .. Len(q) : Append(q, b)[i] = q[i]
      /\ Append(q, b)[Len(q) + 1] = b
  OBVIOUS
<1> DEFINE a == Append(q, b)
           n == Len(q)
<1> HIDE DEF a, n
<1>2. \A i \in 1 .. n + 1 : Prior(t, a, i) = Prior(t, q, i)
  <2>1. ASSUME NEW i \in 1 .. n + 1, i # 1
        PROVE  i - 1 \in 1 .. n
    BY <1>1, <2>1 DEF n
  <2>2. QED
    BY <1>1, <2>1 DEF Prior, a, n
<1>3. Prior(t, a, n + 2) = StateAfter(b)
  <2>1. n + 2 # 1 /\ (n + 2) - 1 = n + 1
    BY <1>1 DEF n
  <2>2. QED
    BY <1>1, <2>1 DEF Prior, a, n
<1>4. QED
  BY <1>1, <1>2, <1>3 DEF a, n

\* The first block of the queue written.
LEMMA PriorOfTail ==
  ASSUME NEW t, NEW w, NEW q \in Seq(ReducedBlock), q # <<>>,
         TipState(w) = StateAfter(Head(q))
  PROVE  /\ Head(q) \in ReducedBlock
         /\ Head(q) = q[1]
         /\ Tail(q) \in Seq(ReducedBlock)
         /\ Len(q) \in Nat
         /\ Len(Tail(q)) + 1 = Len(q)
         /\ \A i \in 1 .. Len(Tail(q)) : /\ i + 1 \in 1 .. Len(q)
                                         /\ Tail(q)[i] = q[i + 1]
         /\ \A i \in 1 .. Len(q) : Prior(w, Tail(q), i) = Prior(t, q, i + 1)
<1>1. /\ Head(q) \in ReducedBlock
      /\ Head(q) = q[1]
      /\ Tail(q) \in Seq(ReducedBlock)
      /\ Len(q) \in Nat
      /\ Len(Tail(q)) \in Nat
      /\ Len(Tail(q)) + 1 = Len(q)
      /\ \A i \in 1 .. Len(Tail(q)) : Tail(q)[i] = q[i + 1]
  OBVIOUS
<1> DEFINE a == Tail(q)
           n == Len(a)
           m == Len(q)
<1> HIDE DEF a, n, m
<1>2. \A i \in 1 .. n : i + 1 \in 1 .. m
  BY <1>1 DEF n, m, a
<1>3. ASSUME NEW i \in 1 .. m PROVE Prior(w, a, i) = Prior(t, q, i + 1)
  <2>1. i \in Nat /\ i + 1 # 1 /\ (i + 1) - 1 = i
    BY <1>1 DEF m
  <2>2. CASE i = 1
    BY <1>1, <2>1, <2>2 DEF Prior
  <2>3. CASE i # 1
    <3>1. i - 1 \in 1 .. n /\ (i - 1) + 1 = i
      BY <1>1, <2>1, <2>3 DEF m, n, a
    <3>2. a[i - 1] = q[i]
      BY <1>1, <3>1 DEF a, n
    <3>3. QED
      BY <2>1, <2>3, <3>2 DEF Prior
  <2>4. QED
    BY <2>2, <2>3
<1>4. QED
  BY <1>1, <1>2, <1>3 DEF a, n, m

\* The reducer always goes on from a sound map.
LEMMA LatestIsSound ==
  ASSUME NEW t, GoodTables(t), NEW q \in Seq(ReducedBlock), Queued(t, q)
  PROVE  LET p == Prior(t, q, Len(q) + 1) IN
         SoundMap(p.objects, p.coins, p.activation)
<1>1. Len(q) \in Nat
  OBVIOUS
<1> DEFINE n == Len(q)
<1> HIDE DEF n
<1>2. CASE n = 0
  <2>1. Prior(t, q, n + 1) = TipState(t)
    BY <1>2 DEF Prior
  <2>2. SoundMap(LoadObjects(t), TipCoins(t), t.init)
    BY LoadedMapIsSound
  <2>3. QED
    BY <2>1, <2>2 DEF TipState, n
<1>3. CASE n # 0
  <2>1. n + 1 # 1 /\ (n + 1) - 1 = n /\ n \in 1 .. Len(q)
    BY <1>1, <1>3 DEF n
  <2>2. Prior(t, q, n + 1) = StateAfter(q[n])
    BY <2>1 DEF Prior
  <2>3. SoundMap(q[n].objects, q[n].coins, q[n].activation)
    BY <2>1 DEF Queued, Follows
  <2>4. QED
    BY <2>2, <2>3 DEF StateAfter, n
<1>4. QED
  BY <1>2, <1>3

-----------------------------------------------------------------------------
(***************************************************************************)
(* The reducer between two blocks of the store.                            *)
(***************************************************************************)
\* A sound map is all reduceBlock needs.
LEMMA SoundMapIsLoaded ==
  ASSUME TypeOK, SoundMap(objects, coins, activation)
  PROVE  LoadedInv /\ EndedHasNoCarrier(objects)
<1>1. ActiveCarrierIsUnspent
  BY DEF SoundMap, ActiveCarrierIsUnspent, IsActive
<1>2. CarriersAreDistinct
  <2>1. \A k \in Txid : IsActive(k) =>
          /\ objects[k].currentOutpoint \in Txid
          /\ LiveIn(objects, objects[k].currentOutpoint, k)
    BY <1>1 DEF TypeOK, ObjectRecord, ActiveCarrierIsUnspent, IsActive, LiveIn
  <2>2. QED
    BY <2>1 DEF SoundMap, CarriersAreDistinct
<1>3. UnseenTxidHasNoObject /\ NothingBeforeValidInit
  BY DEF SoundMap, UnseenTxidHasNoObject, NothingBeforeValidInit, IsActive
<1>4. QED
  BY <1>1, <1>2, <1>3 DEF LoadedInv, SoundMap

\* And what it leaves.
LEMMA InvariantIsSoundMap ==
  ASSUME IInv, EndedHasNoCarrier(objects)
  PROVE  SoundMap(objects, coins, activation)
<1>1. \A o, j, k \in Txid : LiveIn(objects, o, j) /\ LiveIn(objects, o, k) => j = k
  BY DEF IInv, CarriersAreDistinct, LiveIn, IsActive
<1>2. \A k \in Txid : objects[k] # None /\ objects[k].status = "active" =>
        /\ objects[k].currentOutpoint # None
        /\ objects[k].currentHeight # None
        /\ coins[objects[k].currentOutpoint] = objects[k].currentHeight
        /\ objects[k].currentHeight > 0
  BY DEF IInv, ActiveCarrierIsUnspent, IsActive
<1>3. /\ \A k \in Txid : coins[k] = Unseen => objects[k] = None
      /\ (IF activation = None THEN TRUE ELSE ~activation.valid)
           => \A k \in Txid : objects[k] # None => objects[k].status # "active"
  BY DEF IInv, UnseenTxidHasNoObject, NothingBeforeValidInit, IsActive
<1>4. QED
  BY <1>1, <1>2, <1>3 DEF SoundMap

\* A transaction forgets no txid, and its rows are of the txid it brings.
LEMMA TransactionKeepsCoins ==
  ASSUME IInv, ReduceTransaction, NEW c, CoinsFollow(c, Reduced)
  PROVE  /\ CoinsFollow(c, Reduced')
         /\ UNCHANGED <<pc, height, activation, base>>
<1>1. PICK tx \in Arriving :
        /\ Deliver(tx)
        /\ \A o \in Txid : o # tx.id => /\ newStates'[o] = newStates[o]
                                        /\ chapters'[o] = chapters[o]
  <2>1. ASSUME NEW tx \in Arriving, CreateObject(tx)
        PROVE  /\ Deliver(tx)
               /\ \A o \in Txid : o # tx.id => /\ newStates'[o] = newStates[o]
                                               /\ chapters'[o] = chapters[o]
    BY <2>1 DEF CreateObject, Classify, IInv, TypeOK
  <2>2. ASSUME NEW tx \in Arriving, NEW k \in Txid,
               MarkObject(tx, k) \/ RotateObject(tx, k)
        PROVE  /\ Deliver(tx)
               /\ \A o \in Txid : o # tx.id => /\ newStates'[o] = newStates[o]
                                               /\ chapters'[o] = chapters[o]
    BY <2>2 DEF MarkObject, RotateObject, Advance, Classify, IInv, TypeOK
  <2>3. ASSUME NEW tx \in Arriving, NEW k \in Txid,
               CloseObject(tx, k) \/ RefundObject(tx, k)
        PROVE  Deliver(tx) /\ UNCHANGED <<newStates, chapters>>
    BY <2>3 DEF CloseObject, RefundObject, TerminateOne, Classify
  <2>4. ASSUME NEW tx \in Arriving,
               ExitNoncanonical(tx) \/ PassOver(tx) \/ SkipAfterFailedInit(tx)
        PROVE  Deliver(tx) /\ UNCHANGED <<newStates, chapters>>
    BY <2>4 DEF ExitNoncanonical, PassOver, SkipAfterFailedInit, Classify
  <2>5. QED
    BY <2>1, <2>2, <2>3, <2>4 DEF ReduceTransaction
<1>2. /\ coins[tx.id] = Unseen
      /\ coins'[tx.id] # Unseen
      /\ \A t \in Txid : coins[t] # Unseen => coins'[t] # Unseen
  <2>1. /\ coins[tx.id] = Unseen
        /\ coins'[tx.id] \in Nat
        /\ tx.id \in Txid
        /\ \A t \in Txid : t # tx.id =>
             coins'[t] = coins[t] \/ coins'[t] = Spent
    BY <1>1, DeliverType DEF Deliver
  <2>2. QED
    BY <2>1 DEF Unseen, Spent
<1>3. UNCHANGED <<pc, height, activation, base>>
  BY <1>1 DEF Deliver
<1>4. /\ Reduced.coins = coins /\ Reduced'.coins = coins'
      /\ Reduced.newStates = newStates /\ Reduced'.newStates = newStates'
      /\ Reduced.chapters = chapters /\ Reduced'.chapters = chapters'
  BY DEF Reduced
<1>5. \A o \in Txid : /\ c[o] # Unseen => coins[o] # Unseen
                      /\ newStates[o] # None => c[o] = Unseen
                      /\ chapters[o] # None => c[o] = Unseen
  BY <1>4 DEF CoinsFollow
<1>6. \A o \in Txid : /\ c[o] # Unseen => coins'[o] # Unseen
                      /\ newStates'[o] # None => c[o] = Unseen
                      /\ chapters'[o] # None => c[o] = Unseen
  BY <1>1, <1>2, <1>5
<1>7. CoinsFollow(c, Reduced')
  BY <1>4, <1>6 DEF CoinsFollow
<1>8. QED
  BY <1>3, <1>7

\* The block reduceBlock returns follows what it was given.
LEMMA ReducedFollows ==
  ASSUME IInv, BlockFollows, pc = "reducing", NEW p, base = p.objects,
         CoinsFollow(p.coins, Reduced), Placed(p, Reduced)
  PROVE  Reduced \in ReducedBlock /\ Follows(p, Reduced)
<1> DEFINE b == Reduced
           m == base
<1>1. b \in ReducedBlock
  <2>1. height \in Heights /\ activation \in Activation
    BY ReducerAssumption DEF IInv, TypeOK, BlockIsPlaced, Heights
  <2>2. QED
    BY <2>1 DEF IInv, TypeOK, Reduced, ReducedBlock
<1>2. /\ b.height = Working.height /\ b.objects = Working.objects
      /\ b.newStates = Working.newStates /\ b.coins = Working.coins
      /\ b.spentOutpoints = Working.spentOutpoints
      /\ b.chapters = Working.chapters
      /\ b.objects = objects /\ b.undo = undo /\ b.coins = coins
      /\ b.activation = activation
  BY DEF Reduced, Working
<1> HIDE DEF b
<1>3. ObjectsFollow(m, b)
  BY <1>2 DEF BlockFollows, ObjectsFollow
<1>4. RowsFollow(m, b)
  <2>1. RowsFollow(m, Working)
    BY DEF BlockFollows
  <2>2. ASSUME NEW o \in Txid
        PROVE  /\ NewRowFollows(m, b, o)
               /\ SpentMarkFollows(m, b, o)
               /\ LiveCarrierFollows(m, b, o)
               /\ OldCarrierStays(m, b, o)
    <3>1. /\ NewRowFollows(m, Working, o)
          /\ SpentMarkFollows(m, Working, o)
          /\ LiveCarrierFollows(m, Working, o)
          /\ OldCarrierStays(m, Working, o)
      BY <2>1 DEF RowsFollow
    <3>2. QED
      BY <1>2, <3>1
      DEF NewRowFollows, SpentMarkFollows, LiveCarrierFollows, OldCarrierStays
  <2>3. QED
    BY <2>2 DEF RowsFollow
<1>5. ChaptersFollow(m, b)
  <2>1. ChaptersFollow(m, Working)
    BY DEF BlockFollows
  <2>2. /\ b.chapters = Working.chapters
        /\ b.objects = Working.objects
        /\ b.coins = Working.coins
    BY <1>2
  <2>3. ASSUME NEW x \in Txid PROVE ChapterFollows(m, b, x)
    <3>1. ChapterFollows(m, Working, x)
      BY <2>1 DEF ChaptersFollow
    <3>2. QED
      BY <2>2, <3>1 DEF ChapterFollows
  <2>4. \A k \in Txid : HasChapter(b, k) <=> HasChapter(Working, k)
    BY <2>2 DEF HasChapter
  <2>5. QED
    BY <2>1, <2>2, <2>3, <2>4 DEF ChaptersFollow
<1>6. UndoInverts(m, b)
  BY <1>2 DEF IInv, UndoExact, UndoInverts
<1>7. SoundMap(b.objects, b.coins, b.activation)
  BY <1>2, InvariantIsSoundMap DEF BlockFollows
<1>8. Placed(p, b) /\ CoinsFollow(p.coins, b)
  BY DEF b
<1>9. Follows(p, b)
  BY <1>3, <1>4, <1>5, <1>6, <1>7, <1>8 DEF Follows
<1>10. QED
  BY <1>1, <1>9 DEF b

-----------------------------------------------------------------------------
(***************************************************************************)
(* One lemma per step of the store.                                        *)
(***************************************************************************)
\* A step that leaves the reducer alone keeps its types.
LEMMA SameType ==
  ASSUME TypeOK, UNCHANGED vars
  PROVE  TypeOK' /\ pc' = pc
BY DEF TypeOK, vars, work

\* Dropping the working state leaves the reducer at rest.
LEMMA DroppedType ==
  ASSUME TypeOK, DropLocals
  PROVE  TypeOK' /\ pc' = "idle"
BY ReducerAssumption DEF DropLocals, TypeOK, NoRows, Coin, Unseen, Spent

\* A step that ends with an empty queue outside batch and append.
LEMMA RestIsSound ==
  ASSUME TypeOK', pc' = "idle", mode' \in {"ready", "rollback"}, batch' = <<>>,
         GoodTables(db'), GoodTables(txn'), target' \in 0 .. MaxHeight,
         mode' = "rollback" => txn'.journal = db'.journal,
         cache' \in [Txid -> ObjectRecord \cup {None}] \cup {None},
         CacheCoherent'
  PROVE  StoreIInv'
<1>1. StoreTypeOK'
  BY DEF StoreTypeOK, GoodTables
<1>2. Queued(Base', batch')
  <2>1. Len(batch') = 0
    OBVIOUS
  <2>2. QED
    BY <2>1 DEF Queued
<1>3. mode' \notin {"batch", "append"}
  OBVIOUS
<1>4. Queued(Base, batch)'
  BY <1>2 DEF Queued
<1>5. QED
  BY <1>1, <1>3, <1>4 DEF StoreIInv

\* The empty database and the empty cache have the invariant.
LEMMA InitIsSound == StoreInit => StoreIInv
<1> SUFFICES ASSUME StoreInit PROVE StoreIInv
  OBVIOUS
<1>1. TypeOK /\ pc = "idle"
  <2>1. IInv
    BY InitIInv DEF StoreInit
  <2>2. QED
    BY <2>1 DEF IInv, StoreInit, Init
<1>2. GoodTables(db) /\ GoodTables(txn)
  BY EmptyIsGood DEF StoreInit
<1>3. StoreTypeOK
  BY <1>1, <1>2, ReducerAssumption DEF StoreInit, StoreTypeOK, GoodTables
<1>4. Queued(Base, batch)
  BY DEF StoreInit, Queued
<1>5. QED
  BY <1>1, <1>2, <1>3, <1>4 DEF StoreInit, StoreIInv, CacheCoherent

\* The batch starts from the map of the tip, cached or loaded.
LEMMA StartBatchIsSound ==
  ASSUME StoreIInv, StartBatch
  PROVE  StoreIInv'
<1>1. /\ mode' = "batch"
      /\ cache' = LoadObjects(db)
      /\ objects' = LoadObjects(db)
      /\ activation' = db.init
      /\ UNCHANGED <<pc, base, active, undo, newStates, spentOutpoints,
                     chapters, events, db, txn, batch, target>>
  BY DEF StartBatch, StoreIInv, CacheCoherent
<1>2. /\ GoodTables(db) /\ db \in Tables /\ pc = "idle" /\ batch = <<>>
      /\ StoreTypeOK /\ TypeOK
  BY DEF StoreIInv, StartBatch, GoodTables, StoreTypeOK
<1>3. LoadObjects(db) \in [Txid -> ObjectRecord \cup {None}]
  BY <1>2, LoadedType
<1>4. /\ coins' = TipCoins(db)
      /\ coins' \in [Txid -> Coin]
      /\ height' \in 0 .. MaxHeight
      /\ db.init # None => height' = Tip(db)
  <2>1. CASE Tip(db) = 0
    <3>1. db.init = None
      BY <1>2, <2>1, NothingBeforeChain
    <3>2. height' \in 0 .. MaxHeight - 1 /\ coins' = [t \in Txid |-> Unseen]
      BY <2>1 DEF StartBatch
    <3>3. QED
      BY <2>1, <3>1, <3>2, ReducerAssumption
      DEF TipCoins, NoCoins, Coin, Unseen, Spent
  <2>2. CASE Tip(db) # 0
    <3>1. /\ Tip(db) \in Heights
          /\ db.blocks[Tip(db)].coins \in [Txid -> Coin]
      BY <1>2, <2>2, TipIsSound, TablesType
    <3>2. height' = Tip(db) /\ coins' = db.blocks[Tip(db)].coins
      BY <2>2 DEF StartBatch
    <3>3. QED
      BY <2>2, <3>1, <3>2, ReducerAssumption DEF TipCoins, Heights
  <2>3. QED
    BY <2>1, <2>2
<1>5. TypeOK'
  <2>1. db.init \in Activation \cup {None}
    BY <1>2, TablesType
  <2>2. QED
    BY <1>1, <1>2, <1>3, <1>4, <2>1 DEF TypeOK
<1>6. StoreTypeOK'
  BY <1>1, <1>2, <1>3, <1>5 DEF StoreTypeOK
<1>7. Base' = db /\ Latest' = TipState(db)
  <2>1. Base' = db
    BY <1>1 DEF Base
  <2>2. Len(batch') + 1 = 1
    BY <1>1, <1>2
  <2>3. QED
    BY <2>1, <2>2 DEF Latest, Prior
<1>8. InProgress(Latest)'
  BY <1>1, <1>2, <1>4, <1>7 DEF InProgress, TipState
<1>9. Queued(Base, batch)'
  BY <1>1, <1>2 DEF Queued
<1>10. QED
  BY <1>1, <1>2, <1>6, <1>8, <1>9 DEF StoreIInv, CacheCoherent

\* A block begins on what the last one left.
LEMMA BeginBlockIsSound ==
  ASSUME StoreIInv, ReduceNextBlock
  PROVE  StoreIInv'
<1>1. /\ UNCHANGED <<db, txn, mode, batch, target, cache>>
      /\ mode = "batch"
      /\ BeginBlock
      /\ pc = "idle" /\ pc' = "reducing"
  BY DEF ReduceNextBlock, BeginBlock, storeVars
<1>2. /\ objects = Latest.objects
      /\ coins = Latest.coins
      /\ activation = Latest.activation
      /\ activation # None => height = Latest.height
      /\ StoreTypeOK /\ TypeOK
      /\ Base = db /\ GoodTables(db) /\ Queued(db, batch)
      /\ batch \in Seq(ReducedBlock)
  BY <1>1 DEF StoreIInv, InProgress, StoreTypeOK, Base
<1>3. SoundMap(objects, coins, activation)
  BY <1>2, LatestIsSound DEF Latest
<1>4. IInv' /\ BlockFollows'
  BY <1>1, <1>2, <1>3, SoundMapIsLoaded, BeginBlockGivesIInv, BeginBlockFollows
<1>5. Base' = Base /\ Latest' = Latest
  BY <1>1 DEF Base, Latest
<1> DEFINE p == Latest
           b == Reduced'
<1>6. /\ b.height = height + 1
      /\ b.activation = IF activation # None THEN activation
                        ELSE [height |-> height + 1,
                              valid |-> InitIsValid(height + 1)]
      /\ b.initConfirmed <=> b.activation.height = b.height
      /\ b.coins = coins
      /\ b.newStates = NoRows
      /\ b.chapters = NoRows
      /\ base' = objects
  BY <1>1 DEF BeginBlock, Reduced
<1> HIDE DEF b
<1>7. CoinsFollow(p.coins, b)
  BY <1>2, <1>6 DEF CoinsFollow, NoRows
<1>8. Placed(p, b)
  BY <1>2, <1>6 DEF Placed
<1>9. InProgress(Latest)'
  BY <1>1, <1>2, <1>4, <1>5, <1>6, <1>7, <1>8 DEF InProgress, b
<1>10. StoreTypeOK'
  BY <1>1, <1>2, <1>4 DEF StoreTypeOK, IInv
<1>11. QED
  BY <1>1, <1>2, <1>5, <1>9, <1>10 DEF StoreIInv, CacheCoherent

\* So does each of its transactions go on.
LEMMA TransactionIsSound ==
  ASSUME StoreIInv, ReduceNextTransaction
  PROVE  StoreIInv'
<1>1. /\ UNCHANGED <<db, txn, mode, batch, target, cache>>
      /\ ReduceTransaction
      /\ pc = "reducing"
  <2>1. pc = "reducing"
    BY DEF ReduceNextTransaction, ReduceTransaction, CreateObject, MarkObject,
           RotateObject, CloseObject, RefundObject, ExitNoncanonical, PassOver,
           SkipAfterFailedInit, Classify, Deliver
  <2>2. QED
    BY <2>1 DEF ReduceNextTransaction, storeVars
<1>2. /\ mode = "batch"
      /\ IInv /\ BlockFollows
      /\ base = Latest.objects
      /\ CoinsFollow(Latest.coins, Reduced)
      /\ Placed(Latest, Reduced)
      /\ StoreTypeOK
  BY <1>1 DEF StoreIInv, InProgress
<1>3. IInv' /\ BlockFollows'
  BY <1>1, <1>2, TransactionKeepsIInv, TransactionKeepsFollows
<1>4. Base' = Base /\ Latest' = Latest
  BY <1>1 DEF Base, Latest
<1>5. /\ CoinsFollow(Latest.coins, Reduced')
      /\ UNCHANGED <<pc, height, activation, base>>
  BY <1>1, <1>2, TransactionKeepsCoins
<1>6. Placed(Latest, Reduced')
  <2>1. /\ Reduced'.height = Reduced.height
        /\ Reduced'.activation = Reduced.activation
        /\ Reduced'.initConfirmed = Reduced.initConfirmed
    BY <1>5 DEF Reduced
  <2>2. QED
    BY <1>2, <2>1 DEF Placed
<1>7. InProgress(Latest)'
  BY <1>1, <1>2, <1>3, <1>4, <1>5, <1>6 DEF InProgress
<1>8. StoreTypeOK'
  BY <1>1, <1>2, <1>3 DEF StoreTypeOK, IInv
<1>9. QED
  BY <1>1, <1>2, <1>4, <1>7, <1>8 DEF StoreIInv, CacheCoherent

\* The finished block joins the queue.
LEMMA FinishBlockIsSound ==
  ASSUME StoreIInv, FinishBlock
  PROVE  StoreIInv'
<1>1. /\ UNCHANGED <<db, txn, mode, target, cache>>
      /\ UNCHANGED <<coins, height, activation, work>>
      /\ batch' = Append(batch, Reduced)
      /\ pc = "reducing" /\ pc' = "idle"
  BY DEF FinishBlock, EndBlock, Reduced
<1>2. /\ mode = "batch"
      /\ IInv /\ BlockFollows
      /\ base = Latest.objects
      /\ CoinsFollow(Latest.coins, Reduced)
      /\ Placed(Latest, Reduced)
      /\ StoreTypeOK
      /\ Base = db /\ Queued(db, batch)
      /\ batch \in Seq(ReducedBlock)
  BY <1>1 DEF StoreIInv, InProgress, Base, StoreTypeOK
<1>3. Reduced \in ReducedBlock /\ Follows(Latest, Reduced)
  BY <1>1, <1>2, ReducedFollows
<1> DEFINE b == Reduced
           n == Len(batch)
<1>4. /\ batch' \in Seq(ReducedBlock)
      /\ n \in Nat
      /\ Len(batch') = n + 1
      /\ \A i \in 1 .. n : batch'[i] = batch[i]
      /\ batch'[n + 1] = b
      /\ \A i \in 1 .. n + 1 : Prior(db, batch', i) = Prior(db, batch, i)
      /\ Prior(db, batch', n + 2) = StateAfter(b)
  BY <1>1, <1>2, <1>3, PriorOfAppend
<1>5. Latest = Prior(db, batch, n + 1)
  BY <1>2 DEF Latest
<1>6. Base' = db
  BY <1>1, <1>2 DEF Base
<1> HIDE DEF b, n
<1>7. Queued(db, batch')
  <2>1. ASSUME NEW i \in 1 .. n + 1
        PROVE  Follows(Prior(db, batch', i), batch'[i])
    <3>1. CASE i = n + 1
      BY <1>3, <1>4, <1>5, <3>1 DEF b
    <3>2. CASE i # n + 1
      <4>1. i \in 1 .. n
        BY <1>4, <3>2
      <4>2. Follows(Prior(db, batch, i), batch[i])
        BY <1>2, <4>1 DEF Queued, n
      <4>3. QED
        BY <1>4, <4>1, <4>2
    <3>3. QED
      BY <3>1, <3>2
  <2>2. QED
    BY <1>4, <2>1 DEF Queued
<1>8. Latest' = StateAfter(b)
  <2>1. Len(batch') + 1 = n + 2
    BY <1>4
  <2>2. QED
    BY <1>4, <1>6, <2>1 DEF Latest
<1>9. InProgress(Latest)'
  <2>1. /\ objects' = b.objects /\ coins' = b.coins
        /\ activation' = b.activation /\ height' = b.height
    BY <1>1 DEF b, Reduced, work
  <2>2. QED
    BY <1>1, <1>8, <2>1 DEF InProgress, StateAfter
<1>10. StoreTypeOK'
  <2>1. TypeOK'
    BY <1>1, <1>2 DEF StoreTypeOK, TypeOK, work
  <2>2. QED
    BY <1>1, <1>2, <1>4, <2>1 DEF StoreTypeOK
<1>11. QED
  BY <1>1, <1>2, <1>6, <1>7, <1>9, <1>10 DEF StoreIInv, CacheCoherent

\* Nothing to write.
LEMMA EndEmptyBatchIsSound ==
  ASSUME StoreIInv, EndEmptyBatch
  PROVE  StoreIInv'
<1>1. /\ UNCHANGED <<db, txn, batch, target, cache>>
      /\ batch = <<>> /\ mode' = "ready"
      /\ DropLocals
  BY DEF EndEmptyBatch
<1>2. TypeOK' /\ pc' = "idle"
  BY <1>1, DroppedType DEF StoreIInv, StoreTypeOK
<1>3. CacheCoherent'
  BY <1>1 DEF StoreIInv, CacheCoherent
<1>4. QED
  BY <1>1, <1>2, <1>3, RestIsSound DEF StoreIInv, StoreTypeOK

\* The append transaction begins with the committed tables.
LEMMA StartAppendIsSound ==
  ASSUME StoreIInv, StartAppend
  PROVE  StoreIInv'
<1>1. /\ UNCHANGED <<vars, db, batch, target, cache>>
      /\ mode = "batch" /\ mode' = "append" /\ txn' = db
      /\ pc = "idle"
  BY DEF StartAppend
<1>2. /\ InProgress(Latest) /\ Queued(db, batch) /\ GoodTables(db)
      /\ StoreTypeOK
      /\ Base = db
  BY <1>1 DEF StoreIInv, Base
<1>3. TypeOK' /\ pc' = pc
  BY <1>1, <1>2, SameType DEF StoreTypeOK
<1>4. Base' = db /\ Latest' = Latest
  BY <1>1, <1>2 DEF Base, Latest
<1>5. InProgress(Latest)'
  <2>1. UNCHANGED <<objects, coins, activation, height>>
    BY <1>1 DEF vars, work
  <2>2. QED
    BY <1>1, <1>2, <1>3, <1>4, <2>1 DEF InProgress
<1>6. StoreTypeOK'
  BY <1>1, <1>2, <1>3 DEF StoreTypeOK
<1>7. KeepsEnded(db, txn)'
  BY <1>1 DEF KeepsEnded
<1>8. QED
  BY <1>1, <1>2, <1>3, <1>4, <1>5, <1>6, <1>7 DEF StoreIInv, CacheCoherent

\* writeBlock of the first block of the queue.
LEMMA WriteBlockIsSound ==
  ASSUME StoreIInv, WriteBlock
  PROVE  StoreIInv'
<1>1. /\ UNCHANGED <<vars, db, mode, target, cache>>
      /\ mode = "append" /\ batch # <<>>
      /\ txn' = Written(txn, Head(batch))
      /\ batch' = Tail(batch)
  BY DEF WriteBlock
<1>2. /\ InProgress(Latest) /\ Queued(txn, batch)
      /\ GoodTables(db) /\ GoodTables(txn)
      /\ StoreTypeOK
      /\ batch \in Seq(ReducedBlock)
      /\ pc = "idle"
      /\ txn.journal = db.journal
      /\ KeepsEnded(db, txn)
      /\ Base = txn
  BY <1>1 DEF StoreIInv, Base, StoreTypeOK
<1> DEFINE b == Head(batch)
           w == Written(txn, b)
<1>3. /\ b \in ReducedBlock
      /\ b = batch[1]
      /\ Len(batch) \in Nat
      /\ 1 \in 1 .. Len(batch)
  BY <1>1, <1>2
<1>4. Follows(TipState(txn), b)
  <2>1. Follows(Prior(txn, batch, 1), batch[1])
    BY <1>2, <1>3 DEF Queued
  <2>2. QED
    BY <1>3, <2>1 DEF Prior
<1>5. GoodTables(w) /\ TipState(w) = StateAfter(b)
  BY <1>2, <1>3, <1>4, WrittenKeepsGood, WrittenTipState
<1> HIDE DEF b
<1>6. /\ batch' \in Seq(ReducedBlock)
      /\ Len(batch') + 1 = Len(batch)
      /\ \A i \in 1 .. Len(batch') : /\ i + 1 \in 1 .. Len(batch)
                                     /\ batch'[i] = batch[i + 1]
      /\ \A i \in 1 .. Len(batch) : Prior(w, batch', i) = Prior(txn, batch, i + 1)
  <2>1. TipState(w) = StateAfter(Head(batch))
    BY <1>5 DEF b
  <2>2. batch \in Seq(ReducedBlock) /\ batch # <<>> /\ batch' = Tail(batch)
    BY <1>1, <1>2
  <2> HIDE DEF w
  <2>3. Tail(batch) \in Seq(ReducedBlock) /\ Len(Tail(batch)) + 1 = Len(batch)
    BY <2>1, <2>2, PriorOfTail, Zenon
  <2>4. \A i \in 1 .. Len(Tail(batch)) : /\ i + 1 \in 1 .. Len(batch)
                                          /\ Tail(batch)[i] = batch[i + 1]
    BY <2>1, <2>2, PriorOfTail, Zenon
  <2>5. ASSUME NEW i \in 1 .. Len(batch)
        PROVE  Prior(w, Tail(batch), i) = Prior(txn, batch, i + 1)
    BY <2>1, <2>2, PriorOfTail, ZenonT(60)
  <2>6. QED
    BY <2>2, <2>3, <2>4, <2>5
<1>7. txn' = w /\ Base' = w
  BY <1>1 DEF Base, b
<1>8. Queued(w, batch')
  <2>1. ASSUME NEW i \in 1 .. Len(batch')
        PROVE  Follows(Prior(w, batch', i), batch'[i])
    <3>1. /\ i + 1 \in 1 .. Len(batch)
          /\ batch'[i] = batch[i + 1]
          /\ i \in 1 .. Len(batch)
      BY <1>3, <1>6
    <3>2. Follows(Prior(txn, batch, i + 1), batch[i + 1])
      BY <1>2, <3>1 DEF Queued
    <3>3. QED
      BY <1>6, <3>1, <3>2
  <2>2. QED
    BY <2>1 DEF Queued
<1>9. Latest' = Latest
  <2>1. Len(batch) \in 1 .. Len(batch)
    BY <1>3
  <2>2. Prior(w, batch', Len(batch)) = Prior(txn, batch, Len(batch) + 1)
    BY <1>6, <2>1
  <2>3. QED
    BY <1>2, <1>6, <1>7, <2>2 DEF Latest
<1>10. TypeOK' /\ pc' = pc
  BY <1>1, <1>2, SameType DEF StoreTypeOK
<1>11. InProgress(Latest)'
  <2>1. UNCHANGED <<objects, coins, activation, height>>
    BY <1>1 DEF vars, work
  <2>2. QED
    BY <1>2, <1>9, <1>10, <2>1 DEF InProgress
<1>12. StoreTypeOK'
  BY <1>1, <1>2, <1>5, <1>6, <1>7, <1>10 DEF StoreTypeOK, GoodTables
<1>13. w.journal = db.journal
  <2>1. txn \in Tables
    BY <1>2 DEF GoodTables
  <2>2. QED
    BY <1>2, <1>3, <2>1, WrittenFields
<1>14. KeepsEnded(db, w)
  <2>1. \A k \in Txid : txn.objects[k] # None =>
          /\ w.objects[k] # None
          /\ txn.objects[k].status # "active" => w.objects[k] = txn.objects[k]
    BY <1>2, <1>3, <1>4, WrittenKeepsEnded
  <2>2. QED
    BY <1>2, <2>1 DEF KeepsEnded
<1> HIDE DEF w
<1>15. CacheCoherent'
  BY <1>1 DEF StoreIInv, CacheCoherent
<1>16. KeepsEnded(db, txn)' /\ Queued(Base, batch)'
  BY <1>1, <1>7, <1>8, <1>14 DEF KeepsEnded
<1>17. QED
  BY <1>1, <1>2, <1>5, <1>7, <1>10, <1>11, <1>12, <1>13, <1>15, <1>16
  DEF StoreIInv

\* The commit makes the last block's map the cache of what it stored.
LEMMA CommitAppendIsSound ==
  ASSUME StoreIInv, CommitAppend
  PROVE  StoreIInv'
<1>1. /\ UNCHANGED <<batch, target>>
      /\ mode = "append" /\ mode' = "ready"
      /\ batch = <<>>
      /\ db' = txn /\ txn' = EmptyTables
      /\ cache' \in {objects, None}
      /\ DropLocals
  BY DEF CommitAppend
<1>2. /\ InProgress(Latest) /\ GoodTables(txn) /\ StoreTypeOK /\ TypeOK
      /\ pc = "idle"
      /\ Base = txn
  BY <1>1 DEF StoreIInv, StoreTypeOK, Base
<1>3. Latest = TipState(txn)
  <2>1. Len(batch) + 1 = 1
    BY <1>1
  <2>2. QED
    BY <1>2, <2>1 DEF Latest, Prior
<1>4. objects = LoadObjects(txn)
  BY <1>2, <1>3 DEF InProgress, TipState
<1>5. CacheCoherent'
  BY <1>1, <1>4 DEF CacheCoherent
<1>6. TypeOK' /\ pc' = "idle"
  BY <1>1, <1>2, DroppedType
<1>7. cache' \in [Txid -> ObjectRecord \cup {None}] \cup {None}
  BY <1>1, <1>2 DEF TypeOK
<1>8. GoodTables(txn')
  BY <1>1, EmptyIsGood
<1>9. GoodTables(db')
  BY <1>1, <1>2
<1>10. target' \in 0 .. MaxHeight
  BY <1>1, <1>2 DEF StoreTypeOK
<1>11. QED
  BY <1>1, <1>5, <1>6, <1>7, <1>8, <1>9, <1>10, RestIsSound

\* The rollback transaction begins with the committed tables.
LEMMA StartRollbackIsSound ==
  ASSUME StoreIInv, NEW ancestor \in 0 .. MaxHeight, StartRollback(ancestor)
  PROVE  StoreIInv'
<1>1. /\ UNCHANGED <<vars, db, batch, cache>>
      /\ mode = "ready" /\ mode' = "rollback"
      /\ txn' = db /\ target' = ancestor
  BY DEF StartRollback
<1>2. TypeOK' /\ pc' = pc
  BY SameType, <1>1 DEF StoreIInv, StoreTypeOK
<1>3. CacheCoherent'
  BY <1>1 DEF StoreIInv, CacheCoherent
<1>4. QED
  BY <1>1, <1>2, <1>3, RestIsSound DEF StoreIInv, StoreTypeOK

\* Each height of it is undone at the tip.
LEMMA RollbackHeightIsSound ==
  ASSUME StoreIInv, RollbackHeight
  PROVE  StoreIInv'
<1>1. /\ UNCHANGED <<vars, db, mode, batch, target, cache>>
      /\ mode = "rollback"
      /\ Tip(txn) > target
      /\ txn' = Undone(txn, Tip(txn))
  BY DEF RollbackHeight
<1>2. /\ GoodTables(txn) /\ txn \in Tables /\ StoreTypeOK
      /\ txn.journal = db.journal
  BY <1>1 DEF StoreIInv, GoodTables
<1>3. Tip(txn) # 0 /\ Tip(txn) \in Heights
  <2>1. Tip(txn) # 0
    BY <1>1, <1>2, ReducerAssumption DEF StoreTypeOK
  <2>2. QED
    BY <1>2, <2>1, TipIsSound
<1>4. GoodTables(txn')
  BY <1>1, <1>2, <1>3, UndoneKeepsGood
<1>5. txn'.journal = db.journal
  <2>1. Undone(txn, Tip(txn)).journal = txn.journal
    BY <1>2, <1>3, UndoneFields
  <2>2. QED
    BY <1>1, <1>2, <2>1
<1>6. TypeOK' /\ pc' = pc
  BY SameType, <1>1, <1>2 DEF StoreTypeOK
<1>7. CacheCoherent'
  BY <1>1 DEF StoreIInv, CacheCoherent
<1>8. /\ pc = "idle" /\ batch = <<>> /\ GoodTables(db)
      /\ target \in 0 .. MaxHeight
      /\ cache \in [Txid -> ObjectRecord \cup {None}] \cup {None}
  BY <1>1, <1>2 DEF StoreIInv, StoreTypeOK
<1>9. QED
  BY <1>1, <1>4, <1>5, <1>6, <1>7, <1>8, RestIsSound

\* The commit journals the rollback and drops the cache.
LEMMA CommitRollbackIsSound ==
  ASSUME StoreIInv, CommitRollback
  PROVE  StoreIInv'
<1>1. /\ UNCHANGED <<vars, batch>>
      /\ mode = "rollback" /\ mode' = "ready"
      /\ db' = [txn EXCEPT !.journal = @ + 1]
      /\ cache' = None
      /\ txn' = EmptyTables
      /\ target' = 0
  BY DEF CommitRollback
<1>2. /\ GoodTables(txn) /\ txn.journal + 1 \in Nat /\ StoreTypeOK
      /\ pc = "idle" /\ batch = <<>>
  BY <1>1, TablesType DEF StoreIInv, GoodTables
<1>3. db' = [txn EXCEPT !.journal = txn.journal + 1]
  BY <1>1
<1>4. GoodTables(db')
  BY <1>2, <1>3, JournalKeepsGood
<1>5. TypeOK' /\ pc' = pc
  BY SameType, <1>1, <1>2 DEF StoreTypeOK
<1>6. CacheCoherent'
  BY <1>1 DEF CacheCoherent
<1>7. GoodTables(txn')
  BY <1>1, EmptyIsGood
<1>8. 0 \in 0 .. MaxHeight
  BY ReducerAssumption
<1>9. QED
  BY <1>1, <1>2, <1>4, <1>5, <1>6, <1>7, <1>8, RestIsSound

\* A failure or a crash forgets everything but the committed tables.
LEMMA FailIsSound ==
  ASSUME StoreIInv, Fail
  PROVE  StoreIInv'
<1>1. /\ mode' = "ready"
      /\ txn' = EmptyTables
      /\ batch' = <<>>
      /\ target' = 0
      /\ cache' = None
      /\ db' = db
      /\ DropLocals
  BY DEF Fail
<1>2. TypeOK' /\ pc' = "idle"
  BY <1>1, DroppedType DEF StoreIInv, StoreTypeOK
<1>3. CacheCoherent'
  BY <1>1 DEF CacheCoherent
<1>4. GoodTables(db') /\ GoodTables(txn')
  BY <1>1, EmptyIsGood DEF StoreIInv
<1>5. 0 \in 0 .. MaxHeight
  BY ReducerAssumption
<1>6. QED
  BY <1>1, <1>2, <1>3, <1>4, <1>5, RestIsSound

\* And nothing happens in between.
LEMMA StutterIsSound ==
  ASSUME StoreIInv, UNCHANGED allVars
  PROVE  StoreIInv'
<1>1. UNCHANGED vars /\ UNCHANGED <<db, txn, mode, batch, target, cache>>
  BY DEF allVars, storeVars
<1>2. UNCHANGED <<coins, pc, height, activation, base, objects, active, undo,
                  newStates, spentOutpoints, chapters, events>>
  BY <1>1 DEF vars, work
<1>3. Base' = Base /\ Latest' = Latest /\ Reduced' = Reduced /\ Working' = Working
  BY <1>1, <1>2 DEF Base, Latest, Reduced, Working
<1>4. InProgress(Latest) => InProgress(Latest)'
  <2>1. IInv => IInv'
    BY <1>1, EndBlockKeepsIInv
  <2>2. BlockFollows => BlockFollows'
    BY <1>2, <1>3 DEF BlockFollows
  <2>3. QED
    BY <1>2, <1>3, <2>1, <2>2 DEF InProgress
<1>5. TypeOK => TypeOK'
  BY <1>1, SameType
<1>6. StoreTypeOK'
  BY <1>1, <1>5 DEF StoreIInv, StoreTypeOK
<1>7. CacheCoherent'
  BY <1>1 DEF StoreIInv, CacheCoherent
<1>8. QED
  BY <1>1, <1>2, <1>3, <1>4, <1>6, <1>7 DEF StoreIInv

\* Every step of the store keeps the invariant.
LEMMA StepIsSound == StoreIInv /\ [StoreNext]_allVars => StoreIInv'
<1> SUFFICES ASSUME StoreIInv, [StoreNext]_allVars PROVE StoreIInv'
  OBVIOUS
<1>1. ASSUME NEW ancestor \in 0 .. MaxHeight, StartRollback(ancestor)
      PROVE  StoreIInv'
  BY <1>1, StartRollbackIsSound
<1>2. QED
  BY <1>1, StartBatchIsSound, BeginBlockIsSound, TransactionIsSound,
     FinishBlockIsSound, EndEmptyBatchIsSound, StartAppendIsSound,
     WriteBlockIsSound, CommitAppendIsSound, RollbackHeightIsSound,
     CommitRollbackIsSound, FailIsSound, StutterIsSound
  DEF StoreNext

-----------------------------------------------------------------------------
(***************************************************************************)
(* The theorems.                                                           *)
(***************************************************************************)
\* StoreIInv is an invariant: in every order of batches, rollbacks and
\* failures the tables are sound, the queued blocks follow each other and the
\* reducer works on what the last of them left.
THEOREM StoreInvariant == StoreSpec => []StoreIInv
BY InitIsSound, StepIsSound, PTL DEF StoreSpec

\* Type correctness of the tables, the transaction, the batch and the cache.
THEOREM StoreTypeCorrect == StoreSpec => []StoreTypeOK
BY StoreInvariant, PTL DEF StoreIInv

\* The objects table is always what the tip's object_state_root commits to,
\* inside a transaction too (writeBlock, rollback).
THEOREM RootAlwaysMatches == StoreSpec => []RootMatchesObjects
<1>1. StoreIInv => RootMatchesObjects
  BY DEF StoreIInv, GoodTables, RootIsObjects, Root, RootMatchesObjects
<1>2. QED
  BY <1>1, StoreInvariant, PTL

\* Every stored height can be taken back: its undo rows lead to its parent's
\* root (rollback).
THEOREM UndoAlwaysLeadsToParent == StoreSpec => []UndoLeadsToParent
<1>1. StoreIInv => UndoLeadsToParent
  <2> SUFFICES ASSUME StoreIInv PROVE UndoLeadsToParent
    OBVIOUS
  <2>1. \A h \in Stored(db) : UndoLeadsDown(db, h)
    BY DEF StoreIInv, GoodTables, HeightIsSound
  <2>2. QED
    BY <2>1 DEF UndoLeadsDown, UndoLeadsToParent, RootBefore, Root
<1>2. QED
  BY <1>1, StoreInvariant, PTL

\* The states and chapters tables agree with the objects table.
THEOREM TablesAlwaysAgree == StoreSpec => []TablesAgree
<1>1. StoreIInv => \A t \in {db, txn} : GoodTables(t)
  BY DEF StoreIInv
<1>2. (\A t \in {db, txn} : GoodTables(t)) => TablesAgree
  <2> SUFFICES ASSUME \A t \in {db, txn} : GoodTables(t) PROVE TablesAgree
    OBVIOUS
  <2>1. \A t \in {db, txn}, k \in Txid : ObjectAgrees(t, k)
    BY GoodTablesAgree
  <2>2. QED
    BY <2>1, Zenon DEF TablesAgree, ObjectAgrees
<1>3. QED
  BY <1>1, <1>2, StoreInvariant, PTL

\* The cached map is what a load of the committed tables would give.
THEOREM CacheAlwaysCoherent == StoreSpec => []CacheCoherent
BY StoreInvariant, PTL DEF StoreIInv

\* What a reader sees active is unspent on the chain of the stored tip.
THEOREM StoredCarrierAlwaysUnspent == StoreSpec => []StoredCarrierIsUnspent
<1>1. StoreIInv => StoredCarrierIsUnspent
  <2> SUFFICES ASSUME StoreIInv PROVE StoredCarrierIsUnspent
    OBVIOUS
  <2>1. GoodTables(db)
    BY DEF StoreIInv
  <2>2. QED
    BY <2>1, GoodCarrierIsUnspent DEF StoredCarrierIsUnspent
<1>2. QED
  BY <1>1, StoreInvariant, PTL

\* The stored chain reaches without a gap from the INIT to the tip.
THEOREM ChainAlwaysContiguous == StoreSpec => []ChainIsContiguous
<1>1. StoreIInv => ChainIsContiguous
  <2> SUFFICES ASSUME StoreIInv, NEW t \in {db, txn}
               PROVE  IF t.init = None THEN Stored(t) = {}
                      ELSE Stored(t) = t.init.height .. Tip(t) /\ Tip(t) # 0
    BY DEF ChainIsContiguous
  <2>1. t \in Tables /\ HasChain(t)
    BY DEF StoreIInv, GoodTables
  <2>2. QED
    BY <2>1, TipIsEnd DEF Heights
<1>2. QED
  BY <1>1, StoreInvariant, PTL

\* No INSERT of the append transaction meets a row that is there already.
THEOREM InsertsAlwaysFresh == StoreSpec => []InsertsAreFresh
<1>1. StoreIInv => InsertsAreFresh
  <2> SUFFICES ASSUME StoreIInv, mode = "append", batch # <<>>
               PROVE  InsertsAreFresh
    BY DEF InsertsAreFresh
  <2>1. /\ GoodTables(txn)
        /\ Queued(txn, batch)
        /\ batch \in Seq(ReducedBlock)
    BY DEF StoreIInv, StoreTypeOK, Base
  <2> DEFINE b == Head(batch)
  <2>2. b \in ReducedBlock /\ b = batch[1] /\ 1 \in 1 .. Len(batch)
    BY <2>1
  <2>3. Follows(TipState(txn), b)
    BY <2>1, <2>2 DEF Queued, Prior
  <2>4. QED
    BY <2>1, <2>2, <2>3, InsertsMeetNoKey DEF InsertsAreFresh
<1>2. QED
  BY <1>1, StoreInvariant, PTL

\* A commit that is no rollback forgets no object and changes no ended one.
THEOREM TerminalAlwaysFinal == StoreSpec => TerminalIsFinal
<1> DEFINE Keeps == db'.journal = db.journal =>
                      \A k \in Txid : db.objects[k] # None =>
                        /\ db'.objects[k] # None
                        /\ db.objects[k].status # "active"
                             => db'.objects[k] = db.objects[k]
<1>1. StoreIInv /\ [StoreNext]_allVars => [Keeps]_db
  <2> SUFFICES ASSUME StoreIInv, [StoreNext]_allVars, db' # db PROVE Keeps
    OBVIOUS
  <2>1. CASE CommitAppend
    <3>1. db' = txn /\ KeepsEnded(db, txn)
      BY <2>1 DEF CommitAppend, StoreIInv
    <3>2. QED
      BY <3>1 DEF KeepsEnded
  <2>2. CASE CommitRollback
    <3>1. /\ db' = [txn EXCEPT !.journal = @ + 1]
          /\ txn.journal = db.journal
          /\ txn \in Tables
      BY <2>2 DEF CommitRollback, StoreIInv, GoodTables
    <3>2. db'.journal = db.journal + 1 /\ db.journal \in Nat
      BY <3>1, TablesType DEF Tables
    <3>3. QED
      BY <3>2
  <2>3. CASE ~CommitAppend /\ ~CommitRollback
    <3>1. db' = db
      BY <2>3
      DEF StoreNext, StartBatch, ReduceNextBlock, ReduceNextTransaction,
          FinishBlock, EndEmptyBatch, StartAppend, WriteBlock, StartRollback,
          RollbackHeight, Fail, storeVars, allVars
    <3>2. QED
      BY <3>1
  <2>4. QED
    BY <2>1, <2>2, <2>3
<1>2. QED
  BY <1>1, StoreInvariant, PTL DEF StoreSpec, TerminalIsFinal

-----------------------------------------------------------------------------
(***************************************************************************)
(* A rollback is the inverse of what it takes back.                        *)
(***************************************************************************)
\* Only stored heights have undo rows.
UndoIsOfStored(t) == \A h \in Heights \ Stored(t), k \in Txid : t.undo[h][k] = Untouched

\* Tables with equal columns are equal.
LEMMA TablesEqual ==
  ASSUME NEW t \in Tables, NEW u \in Tables,
         u.blocks = t.blocks, u.init = t.init, u.objects = t.objects, u.states = t.states,
         u.chapters = t.chapters, u.undo = t.undo, u.journal = t.journal
  PROVE  u = t
BY DEF Tables

\* The objects of a block that has just been written are those before it again.
LEMMA ObjectsAreUndone ==
  ASSUME NEW t, GoodTables(t), NEW b \in ReducedBlock, Follows(TipState(t), b)
  PROVE  UndoneObjects(Written(t, b), b.height) = t.objects
<1> DEFINE m == LoadObjects(t)
           w == Written(t, b)
<1>1. t \in Tables /\ UndoInverts(m, b) /\ ObjectsFollow(m, b) /\ b.height \in Heights
  BY BlockType DEF GoodTables, Follows, TipState
<1>2. /\ w.undo[b.height] = b.undo /\ w.objects = RowsOf(b.objects)
  <2>1. t.undo \in [Heights -> UndoRows] /\ w.undo = [t.undo EXCEPT ![b.height] = b.undo]
    BY <1>1, WrittenFields DEF Tables
  <2> QED
    BY <1>1, <2>1, WrittenRows
<1>3. ASSUME NEW k \in Txid
      PROVE  UndoneObjects(w, b.height)[k] = t.objects[k]
  <2>1. IF t.objects[k] = None THEN m[k] = None
        ELSE /\ m[k] # None
             /\ m[k] \in ObjectRecord
             /\ RowOf(m[k]) = t.objects[k]
             /\ m[k].createHeight = t.objects[k].createHeight
    BY <1>1, LoadedRecord
  <2>2. /\ RowsOf(b.objects)[k] = None <=> b.objects[k] = None
        /\ b.objects[k] # None =>
             /\ RowsOf(b.objects)[k] = RowOf(b.objects[k])
             /\ RowsOf(b.objects)[k].createHeight = b.objects[k].createHeight
    BY BlockType, RowsOfType
  <2>3. UndoneObjects(w, b.height)[k] =
          IF b.undo[k] = Untouched \/ w.objects[k] = None THEN w.objects[k]
          ELSE IF b.undo[k] = None THEN None
          ELSE [RowOf(b.undo[k]) EXCEPT !.createHeight = w.objects[k].createHeight]
    BY <1>2 DEF UndoneObjects
  <2>4. /\ b.undo[k] = Untouched => b.objects[k] = m[k]
        /\ b.undo[k] # Untouched => b.undo[k] = m[k]
        /\ m[k] # None => /\ b.objects[k] # None
                          /\ b.objects[k].createHeight = m[k].createHeight
    BY <1>1 DEF UndoInverts, ObjectsFollow
  <2> HIDE DEF m, w
  <2>5. CASE b.undo[k] = Untouched
    <3>1. UndoneObjects(w, b.height)[k] = RowsOf(b.objects)[k] /\ b.objects[k] = m[k]
      BY <1>2, <2>3, <2>4, <2>5
    <3> QED
      BY <2>1, <2>2, <3>1
  <2>6. CASE b.undo[k] # Untouched /\ m[k] = None
    <3>1. t.objects[k] = None /\ b.undo[k] = None
      BY <2>1, <2>4, <2>6
    <3> QED
      BY <2>3, <2>6, <3>1
  <2>7. CASE b.undo[k] # Untouched /\ m[k] # None
    <3>1. /\ w.objects[k] # None
          /\ w.objects[k].createHeight = m[k].createHeight
          /\ b.undo[k] = m[k]
      BY <1>2, <2>2, <2>4, <2>7
    <3>2. UndoneObjects(w, b.height)[k] = [RowOf(m[k]) EXCEPT !.createHeight = m[k].createHeight]
      BY <2>3, <2>7, <3>1
    <3>3. [RowOf(m[k]) EXCEPT !.createHeight = m[k].createHeight] = RowOf(m[k])
      BY DEF RowOf
    <3> QED
      BY <2>1, <2>7, <3>2, <3>3
  <2> QED
    BY <2>5, <2>6, <2>7
<1>4. t.objects = [k \in Txid |-> t.objects[k]]
  BY <1>1 DEF Tables
<1> QED
  BY <1>3, <1>4 DEF UndoneObjects

\* Deleting the objects a block created takes nothing from what was there.
LEMMA DeletedHadNoRows ==
  ASSUME NEW t, GoodTables(t), NEW b \in ReducedBlock, Follows(TipState(t), b),
         NEW k \in DeletedObjects(Written(t, b), b.height)
  PROVE  \A o \in Txid : /\ t.states[o] # None => t.states[o].key # k
                         /\ t.chapters[o] # None => t.chapters[o].key # k
<1>1. k \in Txid /\ b.undo[k] = None
  BY WrittenChain DEF DeletedObjects
<1>2. LoadObjects(t)[k] = None
  BY <1>1, MarkerAssumption DEF Follows, TipState, UndoInverts
<1>3. QED
  BY <1>2, RowsOfLoadedMap

\* Equal columns make equal rows.
LEMMA SameStateRow ==
  ASSUME NEW r \in StoredState, NEW s \in StoredState,
         s.key = r.key, s.sequence = r.sequence, s.keys = r.keys,
         s.createdHeight = r.createdHeight, s.spentHeight = r.spentHeight
  PROVE  s = r
<1>1. /\ r = [key |-> r.key, sequence |-> r.sequence, keys |-> r.keys,
              createdHeight |-> r.createdHeight, spentHeight |-> r.spentHeight]
      /\ s = [key |-> s.key, sequence |-> s.sequence, keys |-> s.keys,
              createdHeight |-> s.createdHeight, spentHeight |-> s.spentHeight]
  BY DEF StoredState
<1>2. QED
  BY <1>1

\* Nor are its state rows and its spent marks left.
LEMMA StatesAreUndone ==
  ASSUME NEW t, GoodTables(t), NEW b \in ReducedBlock, Follows(TipState(t), b)
  PROVE  UndoneStates(Written(t, b), b.height) = t.states
<1> DEFINE m == LoadObjects(t)
           w == Written(t, b)
           H == b.height
<1>1. t \in Tables /\ RowsFollow(m, b) /\ H \in Nat
      /\ t.states \in [Txid -> StoredState \cup {None}]
  BY BlockType, TablesType DEF GoodTables, Follows, TipState
<1>2. H \notin Stored(t) /\ None # H
  BY <1>1, WrittenChain, ReducerAssumption
<1>3. ASSUME NEW o \in Txid
      PROVE  UndoneStates(w, H)[o] = t.states[o]
  <2>1. UndoneStates(w, H)[o] =
          IF w.states[o] = None THEN None
          ELSE IF \/ w.states[o].createdHeight = H
                  \/ w.states[o].key \in DeletedObjects(w, H)
          THEN None
          ELSE IF w.states[o].spentHeight = H
          THEN [w.states[o] EXCEPT !.spentHeight = None]
          ELSE w.states[o]
    BY DEF UndoneStates
  <2>2. CASE t.states[o] = None
    <3>1. w.states[o] = None \/ w.states[o].createdHeight = H
      BY <1>1, <2>2, WrittenState
    <3> HIDE DEF w, H
    <3>2. QED
      BY <2>1, <2>2, <3>1
  <2>3. CASE t.states[o] # None
    <3>1. b.newStates[o] = None
      BY <2>3, NewRowsAreFresh
    <3>2. /\ w.states[o] # None
          /\ w.states[o] \in StoredState
          /\ w.states[o].spentHeight = IF b.spentOutpoints[o] # None THEN H
                                       ELSE t.states[o].spentHeight
          /\ w.states[o].key = t.states[o].key
          /\ w.states[o].sequence = t.states[o].sequence
          /\ w.states[o].keys = t.states[o].keys
          /\ w.states[o].createdHeight = t.states[o].createdHeight
      BY <1>1, <2>3, <3>1, WrittenState
    <3>3. b.spentOutpoints[o] # None => t.states[o].spentHeight = None
      <4> SUFFICES ASSUME b.spentOutpoints[o] # None
                   PROVE  t.states[o].spentHeight = None
        OBVIOUS
      <4>1. PICK k \in Txid : LiveIn(m, o, k)
        BY <1>1, <3>1 DEF RowsFollow, SpentMarkFollows
      <4>2. QED
        BY <4>1, RowsOfLoadedMap
    <3>4. /\ t.states[o].createdHeight \in Stored(t)
          /\ t.states[o].spentHeight \in Stored(t) \cup {None}
      BY <2>3 DEF GoodTables, RowsAreOfStoredBlocks
    <3>5. t.states[o].key \notin DeletedObjects(w, H)
      BY <2>3, DeletedHadNoRows
    <3>6. t.states[o] \in StoredState
      BY <1>1, <2>3
    <3> HIDE DEF w, H
    <3>7. UndoneStates(w, H)[o] =
            IF w.states[o].spentHeight = H
            THEN [w.states[o] EXCEPT !.spentHeight = None] ELSE w.states[o]
      BY <1>2, <2>1, <3>2, <3>4, <3>5
    <3>8. CASE b.spentOutpoints[o] # None
      <4> DEFINE s == [w.states[o] EXCEPT !.spentHeight = None]
      <4>1. /\ s \in StoredState
            /\ s.key = t.states[o].key /\ s.sequence = t.states[o].sequence
            /\ s.keys = t.states[o].keys
            /\ s.createdHeight = t.states[o].createdHeight
            /\ s.spentHeight = t.states[o].spentHeight
        BY <3>2, <3>3, <3>8 DEF StoredState
      <4> HIDE DEF s
      <4>2. s = t.states[o]
        BY <3>6, <4>1, SameStateRow
      <4>3. QED
        BY <3>2, <3>7, <3>8, <4>2 DEF s
    <3>9. CASE b.spentOutpoints[o] = None
      <4>1. w.states[o] = t.states[o]
        BY <3>2, <3>6, <3>9, SameStateRow
      <4>2. QED
        BY <1>2, <3>2, <3>4, <3>7, <3>9, <4>1
    <3>10. QED
      BY <3>8, <3>9
  <2>4. QED
    BY <2>2, <2>3
<1>4. QED
  BY <1>1, <1>3 DEF UndoneStates

\* Nor its chapters.
LEMMA ChaptersAreUndone ==
  ASSUME NEW t, GoodTables(t), NEW b \in ReducedBlock, Follows(TipState(t), b)
  PROVE  UndoneChapters(Written(t, b), b.height) = t.chapters
<1> DEFINE w == Written(t, b)
           H == b.height
<1>1. t \in Tables /\ t.chapters \in [Txid -> StoredChapter \cup {None}]
  BY TablesType DEF GoodTables
<1>2. H \notin Stored(t)
  BY WrittenChain
<1>3. ASSUME NEW x \in Txid
      PROVE  UndoneChapters(w, H)[x] = t.chapters[x]
  <2>1. UndoneChapters(w, H)[x] =
          IF w.chapters[x] = None THEN None
          ELSE IF \/ w.chapters[x].blockHeight = H
                  \/ w.chapters[x].key \in DeletedObjects(w, H)
          THEN None
          ELSE w.chapters[x]
    BY DEF UndoneChapters
  <2>2. /\ b.chapters[x] # None => t.chapters[x] = None
        /\ IF b.chapters[x] = None THEN w.chapters[x] = t.chapters[x]
           ELSE w.chapters[x].blockHeight = H
    BY <1>1, NewRowsAreFresh, WrittenChapter
  <2>3. t.chapters[x] # None =>
          /\ t.chapters[x].blockHeight \in Stored(t)
          /\ t.chapters[x].key \notin DeletedObjects(w, H)
    BY DeletedHadNoRows DEF GoodTables, RowsAreOfStoredBlocks
  <2> HIDE DEF w, H
  <2>4. QED
    BY <1>2, <2>1, <2>2, <2>3
<1>4. QED
  BY <1>1, <1>3 DEF UndoneChapters

\* Undoing a block that has just been written gives back the tables, row for
\* row.
LEMMA WrittenIsUndone ==
  ASSUME NEW t, GoodTables(t), UndoIsOfStored(t),
         NEW b \in ReducedBlock, Follows(TipState(t), b)
  PROVE  Undone(Written(t, b), b.height) = t
<1> DEFINE w == Written(t, b)
           H == b.height
           u == Undone(w, H)
<1>1. /\ t \in Tables /\ w \in Tables /\ H \in Heights /\ u \in Tables
      /\ t.blocks \in [Heights -> StoredBlock \cup {None}]
      /\ t.undo \in [Heights -> UndoRows]
  BY WrittenKeepsGood, BlockType, UndoneType, TablesType DEF GoodTables
<1>2. H \notin Stored(t) /\ Placed(TipState(t), b)
  BY WrittenChain DEF Follows
<1>3. /\ w.blocks = [t.blocks EXCEPT ![H] = BlockRow(b)]
      /\ w.init = IF b.initConfirmed THEN b.activation ELSE t.init
      /\ w.undo = [t.undo EXCEPT ![H] = b.undo]
      /\ w.journal = t.journal
  BY <1>1, WrittenFields
<1>4. /\ u.blocks = [w.blocks EXCEPT ![H] = None]
      /\ u.init = IF w.init = None THEN None
                  ELSE IF w.init.height = H THEN None ELSE w.init
      /\ u.undo = [w.undo EXCEPT ![H] = [k \in Txid |-> Untouched]]
      /\ u.objects = UndoneObjects(w, H)
      /\ u.states = UndoneStates(w, H)
      /\ u.chapters = UndoneChapters(w, H)
      /\ u.journal = w.journal
  BY <1>1, UndoneFields
<1>5. u.objects = t.objects /\ u.states = t.states /\ u.chapters = t.chapters
  BY <1>4, ObjectsAreUndone, StatesAreUndone, ChaptersAreUndone
<1>6. u.blocks = t.blocks
  <2>1. t.blocks[H] = None
    BY <1>1, <1>2 DEF Stored
  <2> HIDE DEF w, H, u
  <2>2. QED
    BY <1>1, <1>3, <1>4, <2>1
<1>7. u.undo = t.undo
  <2>1. t.undo[H] = [k \in Txid |-> Untouched]
    <3>1. \A k \in Txid : t.undo[H][k] = Untouched
      BY <1>1, <1>2 DEF UndoIsOfStored
    <3>2. t.undo[H] \in UndoRows
      BY <1>1
    <3>3. QED
      BY <3>1, <3>2 DEF UndoRows
  <2> HIDE DEF w, H, u
  <2>2. QED
    BY <1>1, <1>3, <1>4, <2>1
<1>8. u.init = t.init
  <2>1. /\ b.initConfirmed <=> b.activation.height = b.height
        /\ IF t.init = None THEN b.activation.height = b.height
           ELSE b.activation = t.init /\ b.height = Tip(t) + 1
        /\ b.activation # None
    BY <1>2, BlockType DEF Placed, TipState
  <2>2. t.init # None => t.init.height \in 1 .. Tip(t) /\ Tip(t) \in Heights
    BY TipIsEnd DEF GoodTables
  <2>3. t.init # None => t.init.height # H
    BY <2>1, <2>2 DEF Heights
  <2> HIDE DEF u, w
  <2>4. QED
    BY <1>3, <1>4, <2>1, <2>3
<1>9. u.journal = t.journal
  BY <1>3, <1>4
<1>10. QED
  BY <1>1, <1>5, <1>6, <1>7, <1>8, <1>9, TablesEqual

-----------------------------------------------------------------------------
(***************************************************************************)
(* The history of the tables.                                              *)
(***************************************************************************)
\* p holds, below each stored block of t, the tables that undoing it leaves.
PastLeads(t, p) ==
  \A h \in Stored(t) :
    p[h] = Undone(IF h = Tip(t) THEN Contents(t) ELSE p[h + 1], h)

\* An open rollback has come down from the tip to the block at n.
RolledBackTo(n) ==
  /\ Stored(txn) = db.init.height .. n - 1
  /\ Contents(txn) = IF n = Tip(db) + 1 THEN Contents(db) ELSE past[n]

\* The history leads from the tables down to the INIT, and an open transaction
\* is on the way: above the committed tables or below them.
HistoryIInv ==
  /\ StoreIInv
  /\ UndoIsOfStored(db)
  /\ UndoIsOfStored(txn)
  /\ PastLeads(db, past)
  /\ mode = "append" => Stored(db) \subseteq Stored(txn) /\ PastLeads(txn, past)
  /\ mode = "rollback" => /\ db.init # None
                          /\ target \in db.init.height - 1 .. Tip(db) - 1
                          /\ \E n \in target + 1 .. Tip(db) + 1 : RolledBackTo(n)

\* The journal apart, tables have the same blocks and chain.
LEMMA ContentsFields ==
  ASSUME NEW t \in Tables
  PROVE  /\ Contents(t) \in Tables
         /\ Contents(t).blocks = t.blocks
         /\ Contents(t).init = t.init
         /\ Contents(t).objects = t.objects
         /\ Contents(t).states = t.states
         /\ Contents(t).chapters = t.chapters
         /\ Contents(t).undo = t.undo
         /\ Contents(t).journal = 0
         /\ Stored(Contents(t)) = Stored(t)
         /\ Tip(Contents(t)) = Tip(t)
<1>1. /\ Contents(t) \in Tables
      /\ Contents(t).blocks = t.blocks
      /\ Contents(t).init = t.init
      /\ Contents(t).objects = t.objects
      /\ Contents(t).states = t.states
      /\ Contents(t).chapters = t.chapters
      /\ Contents(t).undo = t.undo
      /\ Contents(t).journal = 0
  BY DEF Contents, Tables
<1>2. Stored(Contents(t)) = Stored(t)
  BY <1>1 DEF Stored
<1>3. Tip(Contents(t)) = Tip(t)
  BY <1>2 DEF Tip
<1>4. QED
  BY <1>1, <1>2, <1>3

\* Undoing does not look at the journal.
LEMMA UndoneContents ==
  ASSUME NEW t \in Tables, NEW h \in Heights
  PROVE  Undone(Contents(t), h) = Contents(Undone(t, h))
<1> DEFINE c == Contents(t)
           u == Undone(t, h)
           v == Undone(c, h)
<1>1. /\ c \in Tables /\ u \in Tables /\ v \in Tables /\ Contents(u) \in Tables
  BY ContentsFields, UndoneType
<1>2. /\ c.blocks = t.blocks /\ c.init = t.init /\ c.objects = t.objects
      /\ c.states = t.states /\ c.chapters = t.chapters /\ c.undo = t.undo
      /\ c.journal = 0
  BY ContentsFields
<1>3. /\ Contents(u).blocks = u.blocks /\ Contents(u).init = u.init
      /\ Contents(u).objects = u.objects /\ Contents(u).states = u.states
      /\ Contents(u).chapters = u.chapters /\ Contents(u).undo = u.undo
      /\ Contents(u).journal = 0
  BY <1>1, ContentsFields
<1>4. /\ UndoneObjects(c, h) = UndoneObjects(t, h)
      /\ UndoneStates(c, h) = UndoneStates(t, h)
      /\ UndoneChapters(c, h) = UndoneChapters(t, h)
  <2>1. DeletedObjects(c, h) = DeletedObjects(t, h)
    BY <1>2 DEF DeletedObjects
  <2> HIDE DEF c
  <2>2. QED
    BY <1>2, <2>1 DEF UndoneObjects, UndoneStates, UndoneChapters
<1>5. /\ u.blocks = [t.blocks EXCEPT ![h] = None]
      /\ u.init = IF t.init = None THEN None
                  ELSE IF t.init.height = h THEN None ELSE t.init
      /\ u.undo = [t.undo EXCEPT ![h] = [k \in Txid |-> Untouched]]
      /\ u.objects = UndoneObjects(t, h)
      /\ u.states = UndoneStates(t, h)
      /\ u.chapters = UndoneChapters(t, h)
  BY UndoneFields
<1>6. /\ v.blocks = [c.blocks EXCEPT ![h] = None]
      /\ v.init = IF c.init = None THEN None
                  ELSE IF c.init.height = h THEN None ELSE c.init
      /\ v.undo = [c.undo EXCEPT ![h] = [k \in Txid |-> Untouched]]
      /\ v.objects = UndoneObjects(c, h)
      /\ v.states = UndoneStates(c, h)
      /\ v.chapters = UndoneChapters(c, h)
      /\ v.journal = c.journal
  BY <1>1, UndoneFields
<1> HIDE DEF c, u, v
<1>7. /\ v.blocks = Contents(u).blocks /\ v.init = Contents(u).init
      /\ v.objects = Contents(u).objects /\ v.states = Contents(u).states
      /\ v.chapters = Contents(u).chapters /\ v.undo = Contents(u).undo
      /\ v.journal = Contents(u).journal
  BY <1>2, <1>3, <1>4, <1>5, <1>6
<1>8. v = Contents(u)
  BY <1>1, <1>7, TablesEqual
<1>9. QED
  BY <1>8 DEF c, u, v

\* Counting a rollback changes nothing else.
LEMMA JournalIsApart ==
  ASSUME NEW t \in Tables, NEW j \in Nat
  PROVE  LET u == [t EXCEPT !.journal = j] IN
         /\ Contents(u) = Contents(t)
         /\ u \in Tables
         /\ u.init = t.init
         /\ u.undo = t.undo
         /\ Stored(u) = Stored(t)
         /\ Tip(u) = Tip(t)
<1> DEFINE u == [t EXCEPT !.journal = j]
<1>1. /\ u \in Tables
      /\ u.blocks = t.blocks /\ u.init = t.init /\ u.objects = t.objects
      /\ u.states = t.states /\ u.chapters = t.chapters /\ u.undo = t.undo
  BY DEF Tables
<1> HIDE DEF u
<1>2. Contents(u) = Contents(t)
  <2>1. Contents(u) \in Tables /\ Contents(t) \in Tables
    BY <1>1, ContentsFields
  <2>2. /\ Contents(u).blocks = Contents(t).blocks
        /\ Contents(u).init = Contents(t).init
        /\ Contents(u).objects = Contents(t).objects
        /\ Contents(u).states = Contents(t).states
        /\ Contents(u).chapters = Contents(t).chapters
        /\ Contents(u).undo = Contents(t).undo
        /\ Contents(u).journal = Contents(t).journal
    BY <1>1, ContentsFields
  <2>3. QED
    BY <2>1, <2>2, TablesEqual
<1>3. Stored(u) = Stored(t)
  BY <1>1 DEF Stored
<1>4. Tip(u) = Tip(t)
  BY <1>3 DEF Tip
<1>5. QED
  BY <1>1, <1>2, <1>3, <1>4 DEF u

\* Undo rows come and go with their blocks.
LEMMA UndoRowsStay ==
  ASSUME NEW t, GoodTables(t), UndoIsOfStored(t)
  PROVE  /\ \A b \in ReducedBlock :
              Follows(TipState(t), b) => UndoIsOfStored(Written(t, b))
         /\ Tip(t) # 0 => UndoIsOfStored(Undone(t, Tip(t)))
         /\ \A j \in Nat : UndoIsOfStored([t EXCEPT !.journal = j])
<1>1. t \in Tables /\ t.undo \in [Heights -> UndoRows]
  BY TablesType DEF GoodTables
<1>2. ASSUME NEW b \in ReducedBlock, Follows(TipState(t), b)
      PROVE  UndoIsOfStored(Written(t, b))
  <2> DEFINE w == Written(t, b)
  <2>1. Stored(w) = Stored(t) \cup {b.height}
    BY <1>2, WrittenChain
  <2>2. w.undo = [t.undo EXCEPT ![b.height] = b.undo]
    BY <1>1, WrittenFields
  <2>3. ASSUME NEW h \in Heights \ Stored(w)
        PROVE  h \in Heights \ Stored(t) /\ w.undo[h] = t.undo[h]
    BY <1>1, <2>1, <2>2
  <2> HIDE DEF w
  <2>4. UndoIsOfStored(w)
    BY <2>3 DEF UndoIsOfStored
  <2>5. QED
    BY <2>4 DEF w
<1>3. ASSUME Tip(t) # 0
      PROVE  UndoIsOfStored(Undone(t, Tip(t)))
  <2> DEFINE u == Undone(t, Tip(t))
  <2>1. Tip(t) \in Heights
    BY <1>3, TipIsSound
  <2>2. Stored(u) = Stored(t) \ {Tip(t)}
    BY <1>3, UndoneChain
  <2>3. u.undo = [t.undo EXCEPT ![Tip(t)] = [k \in Txid |-> Untouched]]
    BY <1>1, <2>1, UndoneFields
  <2>4. ASSUME NEW h \in Heights \ Stored(u), NEW k \in Txid
        PROVE  u.undo[h][k] = Untouched
    <3>1. CASE h = Tip(t)
      BY <1>1, <2>1, <2>3, <3>1
    <3>2. CASE h # Tip(t)
      <4>1. h \in Heights \ Stored(t) /\ u.undo[h] = t.undo[h]
        BY <1>1, <2>2, <2>3, <3>2
      <4>2. QED
        BY <4>1 DEF UndoIsOfStored
    <3>3. QED
      BY <3>1, <3>2
  <2>5. QED
    BY <2>4 DEF UndoIsOfStored
<1>4. ASSUME NEW j \in Nat
      PROVE  UndoIsOfStored([t EXCEPT !.journal = j])
  BY <1>1, JournalIsApart DEF UndoIsOfStored
<1>5. QED
  BY <1>2, <1>3, <1>4

\* What is known before and after a step is remembered as it was.
LEMMA PastStays ==
  ASSUME Remember, NEW h \in Heights, Known(h), Known(h)'
  PROVE  past'[h] = past[h]
BY DEF Remember

\* A history that agrees at the stored heights serves as well.
LEMMA PastFollows ==
  ASSUME NEW t, GoodTables(t), NEW p, NEW q, PastLeads(t, p),
         \A h \in Stored(t) : q[h] = p[h]
  PROVE  PastLeads(t, q)
<1>1. ASSUME NEW h \in Stored(t), h # Tip(t)
      PROVE  h + 1 \in Stored(t)
  <2>1. Tip(t) # 0
    BY <1>1, NothingBeforeChain
  <2>2. /\ Stored(t) = t.init.height .. Tip(t)
        /\ t.init.height \in 1 .. Tip(t)
        /\ Tip(t) \in Nat
    BY <2>1, TipIsSound DEF Heights
  <2>3. QED
    BY <1>1, <2>2
<1>2. QED
  BY <1>1 DEF PastLeads

\* While the committed tables stay, so does their history.
LEMMA HistoryStays ==
  ASSUME HistoryIInv, Remember, db' = db
  PROVE  PastLeads(db', past')
<1>1. \A h \in Stored(db) : h \in Heights /\ Known(h) /\ Known(h)'
  BY DEF Stored, Known
<1>2. \A h \in Stored(db) : past'[h] = past[h]
  BY <1>1, PastStays
<1>3. PastLeads(db, past) /\ GoodTables(db)
  BY DEF HistoryIInv, StoreIInv
<1>4. QED
  BY <1>2, <1>3, PastFollows

\* Nothing is stored and nothing is known at the start.
LEMMA HistoryInitIsSound == HistoryInit => HistoryIInv
<1> SUFFICES ASSUME HistoryInit PROVE HistoryIInv
  OBVIOUS
<1>1. StoreInit /\ StoreIInv
  BY InitIsSound DEF HistoryInit
<1>2. db = EmptyTables /\ txn = EmptyTables /\ mode = "ready"
  BY <1>1 DEF StoreInit
<1>3. UndoIsOfStored(EmptyTables) /\ Stored(EmptyTables) = {}
  BY DEF EmptyTables, UndoIsOfStored, Stored
<1>4. QED
  BY <1>1, <1>2, <1>3 DEF HistoryIInv, PastLeads

\* A step outside the transactions, and one that loses everything but the
\* committed tables.
LEMMA OutsideKeepsHistory ==
  ASSUME HistoryIInv, StoreIInv', Remember, db' = db,
         txn' \in {txn, EmptyTables}, mode' \notin {"append", "rollback"}
  PROVE  HistoryIInv'
<1>1. PastLeads(db', past')
  BY HistoryStays
<1>2. UndoIsOfStored(EmptyTables)
  BY DEF EmptyTables, UndoIsOfStored
<1>3. UndoIsOfStored(db') /\ UndoIsOfStored(txn')
  BY <1>2 DEF HistoryIInv
<1>4. (PastLeads(db, past))' /\ UndoIsOfStored(db)' /\ UndoIsOfStored(txn)'
  BY <1>1, <1>3 DEF PastLeads, UndoIsOfStored
<1>5. QED
  BY <1>4 DEF HistoryIInv

LEMMA StartAppendKeepsHistory ==
  ASSUME HistoryIInv, StoreIInv', Remember, StartAppend
  PROVE  HistoryIInv'
<1>1. db' = db /\ txn' = db /\ mode' = "append"
  BY DEF StartAppend
<1>2. PastLeads(db', past')
  BY <1>1, HistoryStays
<1>3. UndoIsOfStored(db') /\ UndoIsOfStored(txn')
  BY <1>1 DEF HistoryIInv
<1>4. PastLeads(txn', past') /\ Stored(db') \subseteq Stored(txn')
  BY <1>1, <1>2
<1>5. /\ PastLeads(db, past)' /\ PastLeads(txn, past)'
      /\ UndoIsOfStored(db)' /\ UndoIsOfStored(txn)'
      /\ (Stored(db) \subseteq Stored(txn))'
  BY <1>2, <1>3, <1>4 DEF PastLeads, UndoIsOfStored, Stored
<1>6. QED
  BY <1>1, <1>5 DEF HistoryIInv

\* The block that is written joins with the tables it was written on.
LEMMA WriteBlockKeepsHistory ==
  ASSUME HistoryIInv, StoreIInv', Remember, WriteBlock
  PROVE  HistoryIInv'
<1> DEFINE b == Head(batch)
           w == Written(txn, b)
           H == b.height
<1>1. /\ db' = db /\ mode' = "append" /\ mode = "append" /\ batch # <<>>
      /\ txn' = w
  BY DEF WriteBlock
<1>2. /\ GoodTables(txn) /\ txn \in Tables /\ UndoIsOfStored(txn)
      /\ Stored(db) \subseteq Stored(txn)
      /\ PastLeads(txn, past)
      /\ UndoIsOfStored(db)
      /\ batch \in Seq(ReducedBlock)
      /\ Queued(txn, batch)
  BY <1>1 DEF HistoryIInv, StoreIInv, StoreTypeOK, Base, GoodTables
<1>3. b \in ReducedBlock /\ Follows(TipState(txn), b)
  <2>1. /\ b \in ReducedBlock
        /\ b = batch[1]
        /\ 1 \in 1 .. Len(batch)
    BY <1>1, <1>2
  <2>2. Follows(Prior(txn, batch, 1), batch[1])
    BY <1>2, <2>1 DEF Queued
  <2>3. QED
    BY <2>1, <2>2 DEF Prior
<1>4. PastLeads(db', past')
  BY <1>1, HistoryStays
<1> HIDE DEF b
<1>5. /\ GoodTables(w) /\ w \in Tables /\ UndoIsOfStored(w)
      /\ H \in Heights
  BY <1>2, <1>3, WrittenKeepsGood, UndoRowsStay, BlockType DEF GoodTables
<1>6. /\ H \notin Stored(txn)
      /\ Stored(w) = Stored(txn) \cup {H}
      /\ Tip(w) = H
      /\ \A h \in Stored(txn) : h < H /\ h <= Tip(txn)
      /\ Placed(TipState(txn), b)
  BY <1>2, <1>3, WrittenChain DEF Follows
<1>7. Undone(w, H) = txn
  BY <1>2, <1>3, WrittenIsUndone
<1> HIDE DEF w, H
<1>8. \A h \in Stored(txn) : past'[h] = past[h]
  <2>1. ASSUME NEW h \in Stored(txn)
        PROVE  h \in Heights /\ Known(h) /\ Known(h)'
    <3>1. h \in Stored(w) /\ h \in Heights
      BY <1>6 DEF Stored
    <3>2. QED
      BY <1>1, <3>1 DEF Stored, Known
  <2>2. QED
    BY <2>1, PastStays
<1>9. past'[H] = Contents(txn)
  <2>1. ASSUME NEW h \in Heights, h = H
        PROVE  past'[h] = Contents(txn)
    <3>1. h \notin Stored(txn) /\ h \notin Stored(db) /\ h \in Stored(txn')
      BY <1>1, <1>2, <1>6, <2>1
    <3>2. ~Known(h) /\ Known(h)'
      BY <2>1, <3>1 DEF Known, Stored
    <3>3. QED
      BY <2>1, <3>2 DEF Remember
  <2>2. QED
    BY <1>5, <2>1
<1>10. past'[H] = Undone(Contents(w), H)
  BY <1>5, <1>7, <1>9, UndoneContents
<1>11. ASSUME NEW h \in Stored(txn)
       PROVE  past'[h] = Undone(past'[h + 1], h)
  <2>1. Tip(txn) # 0
    BY <1>2, <1>11, NothingBeforeChain
  <2>2. /\ txn.init # None
        /\ Stored(txn) = txn.init.height .. Tip(txn)
        /\ txn.init.height \in 1 .. Tip(txn)
        /\ Tip(txn) \in Nat
    BY <1>2, <2>1, TipIsSound DEF Heights
  <2>3. H = Tip(txn) + 1
    BY <1>6, <2>2 DEF Placed, TipState, H
  <2>4. CASE h = Tip(txn)
    BY <1>2, <1>8, <1>9, <1>11, <2>3, <2>4 DEF PastLeads
  <2>5. CASE h # Tip(txn)
    <3>1. h + 1 \in Stored(txn)
      BY <1>11, <2>2, <2>5
    <3>2. QED
      BY <1>2, <1>8, <1>11, <2>5, <3>1 DEF PastLeads
  <2>6. QED
    BY <2>4, <2>5
<1>12. PastLeads(w, past')
  <2>1. ASSUME NEW h \in Stored(w)
        PROVE  past'[h] = Undone(IF h = Tip(w) THEN Contents(w) ELSE past'[h + 1], h)
    <3>1. CASE h = H
      BY <1>6, <1>10, <3>1
    <3>2. CASE h # H
      BY <1>6, <1>11, <2>1, <3>2
    <3>3. QED
      BY <3>1, <3>2
  <2>2. QED
    BY <2>1 DEF PastLeads
<1>13. /\ PastLeads(db, past)' /\ PastLeads(txn, past)'
       /\ UndoIsOfStored(db)' /\ UndoIsOfStored(txn)'
       /\ (Stored(db) \subseteq Stored(txn))'
  <2>1. Stored(db') \subseteq Stored(txn')
    BY <1>1, <1>2, <1>6
  <2>2. QED
    BY <1>1, <1>2, <1>4, <1>5, <1>12, <2>1 DEF PastLeads, UndoIsOfStored, Stored
<1>14. QED
  BY <1>1, <1>13 DEF HistoryIInv

\* What the transaction wrote is what is stored.
LEMMA CommitAppendKeepsHistory ==
  ASSUME HistoryIInv, StoreIInv', Remember, CommitAppend
  PROVE  HistoryIInv'
<1>1. db' = txn /\ txn' = EmptyTables /\ mode = "append" /\ mode' = "ready"
  BY DEF CommitAppend
<1>2. /\ GoodTables(txn) /\ UndoIsOfStored(txn) /\ PastLeads(txn, past)
  BY <1>1 DEF HistoryIInv, StoreIInv
<1>3. \A h \in Stored(txn) : past'[h] = past[h]
  <2>1. \A h \in Stored(txn) : h \in Heights /\ Known(h) /\ Known(h)'
    BY <1>1 DEF Stored, Known
  <2>2. QED
    BY <2>1, PastStays
<1>4. PastLeads(txn, past')
  BY <1>2, <1>3, PastFollows
<1>5. UndoIsOfStored(EmptyTables)
  BY DEF EmptyTables, UndoIsOfStored
<1>6. PastLeads(db, past)' /\ UndoIsOfStored(db)' /\ UndoIsOfStored(txn)'
  BY <1>1, <1>2, <1>4, <1>5 DEF PastLeads, UndoIsOfStored
<1>7. QED
  BY <1>1, <1>6 DEF HistoryIInv

\* A rollback begins at the tip.
LEMMA StartRollbackKeepsHistory ==
  ASSUME HistoryIInv, StoreIInv', Remember,
         NEW ancestor \in 0 .. MaxHeight, StartRollback(ancestor)
  PROVE  HistoryIInv'
<1>1. /\ db' = db /\ txn' = db /\ target' = ancestor /\ mode' = "rollback"
      /\ db.init # None
      /\ ancestor >= db.init.height - 1
      /\ ancestor < Tip(db)
  BY DEF StartRollback
<1>2. GoodTables(db) /\ db \in Tables
  BY DEF HistoryIInv, StoreIInv, GoodTables
<1>3. /\ Tip(db) \in Nat
      /\ Stored(db) = db.init.height .. Tip(db)
      /\ db.init.height \in Nat
  BY <1>1, <1>2, TipIsEnd DEF GoodTables, Heights
<1>4. PastLeads(db', past')
  BY <1>1, HistoryStays
<1>5. target' \in db'.init.height - 1 .. Tip(db') - 1
  BY <1>1, <1>3
<1>6. Tip(db) + 1 \in target' + 1 .. Tip(db') + 1
  BY <1>1, <1>3
<1>7. /\ Stored(txn') = db'.init.height .. (Tip(db) + 1) - 1
      /\ Contents(txn') = Contents(db')
      /\ Tip(db) + 1 = Tip(db') + 1
  BY <1>1, <1>3
<1>8. \E n \in target' + 1 .. Tip(db') + 1 :
        /\ Stored(txn') = db'.init.height .. n - 1
        /\ Contents(txn') = IF n = Tip(db') + 1 THEN Contents(db') ELSE past'[n]
  BY <1>6, <1>7
<1>9. (\E n \in target + 1 .. Tip(db) + 1 : RolledBackTo(n))'
  BY <1>8 DEF RolledBackTo, Stored, Tip, Contents
<1>10. UndoIsOfStored(db') /\ UndoIsOfStored(txn')
  BY <1>1 DEF HistoryIInv
<1>11. PastLeads(db, past)' /\ UndoIsOfStored(db)' /\ UndoIsOfStored(txn)'
  BY <1>4, <1>10 DEF PastLeads, UndoIsOfStored
<1>12. (target \in db.init.height - 1 .. Tip(db) - 1)'
  BY <1>5 DEF Tip, Stored
<1>13. QED
  BY <1>1, <1>9, <1>11, <1>12 DEF HistoryIInv

\* Where an open rollback is, by its own tip.
LEMMA RollbackIsAtTip ==
  ASSUME HistoryIInv, mode = "rollback"
  PROVE  \E n \in target + 1 .. Tip(db) + 1 :
           /\ RolledBackTo(n)
           /\ n \in Nat
           /\ IF Tip(txn) > target THEN Tip(txn) = n - 1 ELSE n = target + 1
           /\ db.init # None
           /\ db.init.height \in 1 .. Tip(db)
           /\ target \in db.init.height - 1 .. Tip(db) - 1
           /\ Stored(db) = db.init.height .. Tip(db)
           /\ Tip(db) \in Heights
           /\ Tip(db) \in Nat
<1>1. /\ GoodTables(db) /\ GoodTables(txn)
      /\ db.init # None
      /\ target \in db.init.height - 1 .. Tip(db) - 1
  BY DEF HistoryIInv, StoreIInv
<1>2. PICK n \in target + 1 .. Tip(db) + 1 : RolledBackTo(n)
  BY DEF HistoryIInv
<1>3. /\ Stored(db) = db.init.height .. Tip(db)
      /\ Tip(db) \in Heights
      /\ Tip(db) \in Nat
      /\ db.init.height \in 1 .. Tip(db)
  BY <1>1, TipIsEnd DEF GoodTables, Heights
<1>4. n \in Nat /\ target \in Nat
  BY <1>1, <1>2, <1>3
<1>5. Stored(txn) = db.init.height .. n - 1
  BY <1>2 DEF RolledBackTo
<1>6. IF Tip(txn) > target THEN Tip(txn) = n - 1 ELSE n = target + 1
  <2>1. CASE Tip(txn) = 0
    <3>1. Stored(txn) = {}
      BY <1>1, <2>1, NothingBeforeChain
    <3>2. ~(db.init.height <= n - 1)
      BY <1>3, <1>4, <1>5, <3>1
    <3>3. n = target + 1
      BY <1>1, <1>2, <1>3, <1>4, <3>2
    <3>4. QED
      BY <1>4, <2>1, <3>3
  <2>2. CASE Tip(txn) # 0
    <3>1. /\ Tip(txn) \in Nat
          /\ Tip(txn) \in Stored(txn)
          /\ Stored(txn) = txn.init.height .. Tip(txn)
          /\ txn.init.height \in 1 .. Tip(txn)
      BY <1>1, <2>2, TipIsSound DEF Heights
    <3>2. Tip(txn) \in db.init.height .. n - 1
      BY <1>5, <3>1
    <3>3. n - 1 \in txn.init.height .. Tip(txn)
      BY <1>3, <1>4, <1>5, <3>1, <3>2
    <3>4. Tip(txn) = n - 1
      BY <1>4, <3>1, <3>2, <3>3
    <3>5. QED
      BY <1>2, <1>4, <3>4
  <2>3. QED
    BY <2>1, <2>2
<1>7. QED
  BY <1>1, <1>2, <1>3, <1>4, <1>6

\* Each height taken back leads to the tables below it.
LEMMA RollbackHeightKeepsHistory ==
  ASSUME HistoryIInv, StoreIInv', Remember, RollbackHeight
  PROVE  HistoryIInv'
<1>1. /\ db' = db /\ target' = target /\ mode = "rollback" /\ mode' = "rollback"
      /\ Tip(txn) > target
      /\ txn' = Undone(txn, Tip(txn))
  BY DEF RollbackHeight
<1>2. PICK n \in target + 1 .. Tip(db) + 1 :
        /\ RolledBackTo(n)
        /\ n \in Nat
        /\ Tip(txn) = n - 1
        /\ db.init # None
        /\ db.init.height \in 1 .. Tip(db)
        /\ target \in db.init.height - 1 .. Tip(db) - 1
        /\ Stored(db) = db.init.height .. Tip(db)
        /\ Tip(db) \in Heights
        /\ Tip(db) \in Nat
  BY <1>1, RollbackIsAtTip
<1>3. /\ GoodTables(db) /\ GoodTables(txn) /\ txn \in Tables /\ db \in Tables
      /\ UndoIsOfStored(db) /\ UndoIsOfStored(txn) /\ PastLeads(db, past)
  BY DEF HistoryIInv, StoreIInv, GoodTables
<1> DEFINE g == n - 1
<1>4. /\ g \in target + 1 .. Tip(db)
      /\ g \in Nat
      /\ g + 1 = n
      /\ g \in Stored(db)
      /\ g \in Heights
      /\ Tip(txn) = g
      /\ g # 0
  <2>1. target \in Nat
    BY <1>2
  <2>2. g \in target + 1 .. Tip(db) /\ g \in Nat /\ g + 1 = n /\ g # 0
    BY <1>1, <1>2, <2>1
  <2>3. g \in Stored(db)
    BY <1>2, <2>1, <2>2
  <2>4. g \in Heights
    BY <2>3 DEF Stored
  <2>5. QED
    BY <1>2, <2>2, <2>3, <2>4
<1> HIDE DEF g
<1>5. Stored(txn') = db.init.height .. g - 1
  <2>1. Stored(txn') = Stored(txn) \ {g}
    BY <1>1, <1>3, <1>4, UndoneChain
  <2>2. Stored(txn) = db.init.height .. g
    BY <1>2 DEF RolledBackTo, g
  <2>3. QED
    BY <1>2, <1>4, <2>1, <2>2
<1>6. Contents(txn') = past[g]
  <2>1. Contents(txn') = Undone(Contents(txn), g)
    BY <1>1, <1>3, <1>4, UndoneContents
  <2>2. past[g] = Undone(IF g = Tip(db) THEN Contents(db) ELSE past[g + 1], g)
    BY <1>3, <1>4 DEF PastLeads
  <2>3. Contents(txn) = IF g = Tip(db) THEN Contents(db) ELSE past[g + 1]
    BY <1>2, <1>4 DEF RolledBackTo
  <2>4. QED
    BY <2>1, <2>2, <2>3
<1>7. past'[g] = past[g]
  <2>1. ASSUME NEW h \in Heights, h = g
        PROVE  past'[h] = past[h]
    <3>1. Known(h) /\ Known(h)'
      BY <1>1, <1>4, <2>1 DEF Known, Stored
    <3>2. QED
      BY <3>1, PastStays
  <2>2. QED
    BY <1>4, <2>1
<1>8. /\ Stored(txn') = db'.init.height .. g - 1
      /\ Contents(txn') = IF g = Tip(db') + 1 THEN Contents(db') ELSE past'[g]
      /\ g \in target' + 1 .. Tip(db') + 1
  BY <1>1, <1>2, <1>4, <1>5, <1>6, <1>7
<1>9. (\E i \in target + 1 .. Tip(db) + 1 : RolledBackTo(i))'
  BY <1>8 DEF RolledBackTo, Stored, Tip, Contents
<1>10. UndoIsOfStored(db') /\ UndoIsOfStored(txn')
  BY <1>1, <1>3, <1>4, UndoRowsStay
<1>11. PastLeads(db', past')
  BY <1>1, HistoryStays
<1>12. PastLeads(db, past)' /\ UndoIsOfStored(db)' /\ UndoIsOfStored(txn)'
  BY <1>10, <1>11 DEF PastLeads, UndoIsOfStored
<1>13. (db.init # None /\ target \in db.init.height - 1 .. Tip(db) - 1)'
  <2>1. db'.init # None /\ target' \in db'.init.height - 1 .. Tip(db') - 1
    BY <1>1, <1>2
  <2>2. QED
    BY <2>1 DEF Tip, Stored
<1>14. QED
  BY <1>1, <1>9, <1>12, <1>13 DEF HistoryIInv

\* So what is committed is what was there below the first block taken back.
LEMMA CommitRollbackRestores ==
  ASSUME HistoryIInv, CommitRollback
  PROVE  /\ Contents(db') = past[target + 1]
         /\ Stored(db') = db.init.height .. target
         /\ Stored(db') \subseteq Stored(db)
         /\ Stored(db') # {} => Tip(db') = target
<1>1. /\ mode = "rollback" /\ Tip(txn) <= target
      /\ db' = [txn EXCEPT !.journal = txn.journal + 1]
  BY DEF CommitRollback
<1>2. /\ GoodTables(txn) /\ txn \in Tables /\ txn.journal + 1 \in Nat
      /\ target \in 0 .. MaxHeight
  BY TablesType DEF HistoryIInv, StoreIInv, StoreTypeOK, GoodTables
<1>3. PICK n \in target + 1 .. Tip(db) + 1 :
        /\ RolledBackTo(n)
        /\ n \in Nat
        /\ (IF Tip(txn) > target THEN Tip(txn) = n - 1 ELSE n = target + 1)
        /\ db.init # None
        /\ db.init.height \in 1 .. Tip(db)
        /\ target \in db.init.height - 1 .. Tip(db) - 1
        /\ Stored(db) = db.init.height .. Tip(db)
        /\ Tip(db) \in Heights
        /\ Tip(db) \in Nat
  BY <1>1, RollbackIsAtTip
<1>4. Tip(txn) \in Nat
  <2>1. Tip(txn) # 0 => Tip(txn) \in Heights
    BY <1>2, TipIsSound
  <2>2. QED
    BY <2>1 DEF Heights
<1>5. n = target + 1 /\ target \in Nat
  BY <1>1, <1>2, <1>3, <1>4
<1>6. Contents(db') = Contents(txn) /\ Stored(db') = Stored(txn) /\ Tip(db') = Tip(txn)
  BY <1>1, <1>2, JournalIsApart
<1>7. Contents(txn) = past[target + 1] /\ Stored(txn) = db.init.height .. target
  BY <1>3, <1>5 DEF RolledBackTo
<1>8. Stored(db') \subseteq Stored(db)
  BY <1>3, <1>5, <1>6, <1>7
<1>9. ASSUME Stored(txn) # {}
      PROVE  Tip(txn) = target
  <2>1. Tip(txn) # 0 /\ target \in Stored(txn)
    <3>1. Tip(txn) # 0
      BY <1>2, <1>9, NothingBeforeChain
    <3>2. db.init.height \in Nat
      BY <1>3
    <3>3. QED
      BY <1>5, <1>7, <1>9, <3>1, <3>2
  <2>2. Stored(txn) = txn.init.height .. Tip(txn)
    BY <1>2, <2>1, TipIsSound
  <2>3. QED
    BY <1>1, <1>4, <1>5, <2>1, <2>2
<1>10. QED
  BY <1>6, <1>7, <1>8, <1>9

LEMMA CommitRollbackKeepsHistory ==
  ASSUME HistoryIInv, StoreIInv', Remember, CommitRollback
  PROVE  HistoryIInv'
<1>1. /\ db' = [txn EXCEPT !.journal = txn.journal + 1]
      /\ txn' = EmptyTables /\ mode = "rollback" /\ mode' = "ready"
  BY DEF CommitRollback
<1>2. /\ Contents(db') = past[target + 1]
      /\ Stored(db') = db.init.height .. target
      /\ Stored(db') \subseteq Stored(db)
      /\ Stored(db') # {} => Tip(db') = target
  BY CommitRollbackRestores
<1>3. /\ GoodTables(db) /\ GoodTables(txn) /\ txn \in Tables
      /\ txn.journal + 1 \in Nat
      /\ UndoIsOfStored(txn) /\ PastLeads(db, past)
      /\ target \in db.init.height - 1 .. Tip(db) - 1
      /\ db.init # None
  BY <1>1, TablesType DEF HistoryIInv, StoreIInv, GoodTables
<1>4. /\ Stored(db) = db.init.height .. Tip(db)
      /\ Tip(db) \in Nat
      /\ db.init.height \in Nat
  BY <1>3, TipIsEnd DEF GoodTables, Heights
<1>5. \A h \in Stored(db') : past'[h] = past[h]
  <2>1. ASSUME NEW h \in Stored(db')
        PROVE  h \in Heights /\ Known(h) /\ Known(h)'
    <3>1. h \in Stored(db) /\ h \in Stored(db')
      BY <1>2, <2>1
    <3>2. QED
      BY <3>1 DEF Stored, Known
  <2>2. QED
    BY <2>1, PastStays
<1>6. ASSUME NEW h \in Stored(db')
      PROVE  past'[h] = Undone(IF h = Tip(db') THEN Contents(db')
                               ELSE past'[h + 1], h)
  <2>1. /\ Tip(db') = target /\ h \in Stored(db) /\ past'[h] = past[h]
    BY <1>2, <1>5, <1>6
  <2>2. h \in Nat /\ h <= target /\ h # Tip(db) /\ target \in Nat
    BY <1>2, <1>3, <1>4, <1>6
  <2>3. past[h] = Undone(past[h + 1], h)
    BY <1>3, <2>1, <2>2 DEF PastLeads
  <2>4. CASE h = target
    BY <1>2, <2>1, <2>3, <2>4
  <2>5. CASE h # target
    <3>1. h + 1 \in Stored(db')
      BY <1>2, <1>4, <1>6, <2>2, <2>5
    <3>2. QED
      BY <1>5, <2>1, <2>3, <2>5, <3>1
  <2>6. QED
    BY <2>4, <2>5
<1>7. PastLeads(db', past')
  BY <1>6 DEF PastLeads
<1>8. UndoIsOfStored(db') /\ UndoIsOfStored(txn')
  <2>1. UndoIsOfStored(EmptyTables)
    BY DEF EmptyTables, UndoIsOfStored
  <2>2. QED
    BY <1>1, <1>3, <2>1, UndoRowsStay
<1>9. PastLeads(db, past)' /\ UndoIsOfStored(db)' /\ UndoIsOfStored(txn)'
  BY <1>7, <1>8 DEF PastLeads, UndoIsOfStored
<1>10. QED
  BY <1>1, <1>9 DEF HistoryIInv

\* A transaction and the end of a block belong to a block in progress.
LEMMA ReducingInProgress ==
  ASSUME ReduceNextTransaction \/ FinishBlock
  PROVE  pc = "reducing" /\ mode' = mode
<1>1. CASE ReduceNextTransaction
  <2>1. PICK tx : Deliver(tx)
    <3>1. ReduceTransaction
      BY <1>1 DEF ReduceNextTransaction
    <3>2. \/ \E tx : \/ CreateObject(tx) \/ ExitNoncanonical(tx)
                     \/ PassOver(tx) \/ SkipAfterFailedInit(tx)
          \/ \E tx, k : \/ MarkObject(tx, k) \/ RotateObject(tx, k)
                        \/ CloseObject(tx, k) \/ RefundObject(tx, k)
      BY <3>1, Zenon DEF ReduceTransaction
    <3>3. CASE \E tx : \/ CreateObject(tx) \/ ExitNoncanonical(tx)
                      \/ PassOver(tx) \/ SkipAfterFailedInit(tx)
      BY <3>3
      DEF CreateObject, ExitNoncanonical, PassOver, SkipAfterFailedInit, Classify
    <3>4. CASE \E tx, k : \/ MarkObject(tx, k) \/ RotateObject(tx, k)
                         \/ CloseObject(tx, k) \/ RefundObject(tx, k)
      BY <3>4 DEF MarkObject, RotateObject, CloseObject, RefundObject, Classify
    <3>5. QED
      BY <3>2, <3>3, <3>4
  <2>2. pc = "reducing"
    BY <2>1 DEF Deliver
  <2>3. mode' = mode
    BY <1>1 DEF ReduceNextTransaction, storeVars
  <2>4. QED
    BY <2>2, <2>3
<1>2. CASE FinishBlock
  BY <1>2 DEF FinishBlock, EndBlock
<1>3. QED
  BY <1>1, <1>2

\* Every step keeps the history.
LEMMA HistoryStepIsSound == HistoryIInv /\ [HistoryNext]_historyVars => HistoryIInv'
<1> SUFFICES ASSUME HistoryIInv, [HistoryNext]_historyVars PROVE HistoryIInv'
  OBVIOUS
<1>1. StoreIInv'
  <2>1. StoreIInv /\ [StoreNext]_allVars
    BY DEF HistoryIInv, HistoryNext, historyVars
  <2>2. QED
    BY <2>1, StepIsSound
<1>2. CASE UNCHANGED historyVars
  <2>1. UNCHANGED <<db, txn, mode, target, past>>
    BY <1>2 DEF historyVars, allVars, storeVars
  <2>2. /\ UndoIsOfStored(db') /\ UndoIsOfStored(txn')
        /\ PastLeads(db', past')
        /\ mode' = "append" =>
             Stored(db') \subseteq Stored(txn') /\ PastLeads(txn', past')
    BY <2>1 DEF HistoryIInv
  <2>3. mode' = "rollback" =>
          /\ db'.init # None
          /\ target' \in db'.init.height - 1 .. Tip(db') - 1
          /\ \E n \in target' + 1 .. Tip(db') + 1 :
               /\ Stored(txn') = db'.init.height .. n - 1
               /\ Contents(txn') = IF n = Tip(db') + 1 THEN Contents(db')
                                   ELSE past'[n]
    BY <2>1 DEF HistoryIInv, RolledBackTo
  <2>4. /\ UndoIsOfStored(db)' /\ UndoIsOfStored(txn)' /\ PastLeads(db, past)'
        /\ (mode = "append" =>
              Stored(db) \subseteq Stored(txn) /\ PastLeads(txn, past))'
    BY <2>2 DEF UndoIsOfStored, PastLeads, Stored
  <2>5. (mode = "rollback" =>
          /\ db.init # None
          /\ target \in db.init.height - 1 .. Tip(db) - 1
          /\ \E n \in target + 1 .. Tip(db) + 1 : RolledBackTo(n))'
    BY <2>3 DEF RolledBackTo, Stored, Tip, Contents
  <2>6. QED
    BY <1>1, <2>4, <2>5 DEF HistoryIInv
<1>3. CASE HistoryNext
  <2>1. StoreNext /\ Remember
    BY <1>3 DEF HistoryNext
  <2>2. ASSUME NEW ancestor \in 0 .. MaxHeight, StartRollback(ancestor)
        PROVE  HistoryIInv'
    BY <1>1, <2>1, <2>2, StartRollbackKeepsHistory
  <2>3. CASE \/ StartBatch \/ ReduceNextBlock \/ ReduceNextTransaction
             \/ FinishBlock \/ EndEmptyBatch \/ Fail
    <3>1. db' = db /\ txn' \in {txn, EmptyTables}
      BY <2>3
      DEF StartBatch, ReduceNextBlock, ReduceNextTransaction, FinishBlock,
          EndEmptyBatch, Fail, storeVars
    <3>2. mode' \notin {"append", "rollback"}
      <4>1. mode # "batch" => pc = "idle"
        BY DEF HistoryIInv, StoreIInv
      <4>2. CASE ReduceNextTransaction \/ FinishBlock
        <5>1. pc = "reducing" /\ mode' = mode
          BY <4>2, ReducingInProgress
        <5>2. QED
          BY <4>1, <5>1
      <4>3. CASE StartBatch \/ ReduceNextBlock \/ EndEmptyBatch \/ Fail
        BY <4>3 DEF StartBatch, ReduceNextBlock, EndEmptyBatch, Fail, storeVars
      <4>4. QED
        BY <2>3, <4>2, <4>3
    <3>3. QED
      BY <1>1, <2>1, <3>1, <3>2, OutsideKeepsHistory
  <2>4. QED
    BY <1>1, <2>1, <2>2, <2>3, StartAppendKeepsHistory, WriteBlockKeepsHistory,
       CommitAppendKeepsHistory, RollbackHeightKeepsHistory,
       CommitRollbackKeepsHistory
    DEF StoreNext
<1>4. QED
  BY <1>2, <1>3

\* With the history or without it, the store makes the same steps.
THEOREM HistoryOnlyWatches == HistorySpec => StoreSpec
<1>1. HistoryInit => StoreInit
  BY DEF HistoryInit
<1>2. [HistoryNext]_historyVars => [StoreNext]_allVars
  BY DEF HistoryNext, historyVars
<1>3. QED
  BY <1>1, <1>2, PTL DEF HistorySpec, StoreSpec

\* The history always leads from the tables down to the INIT.
THEOREM HistoryInvariant == HistorySpec => []HistoryIInv
BY HistoryInitIsSound, HistoryStepIsSound, PTL DEF HistorySpec

\* After every rollback the tables are, row for row, what they were when the
\* ancestor was the tip (store.rollback).
THEOREM RollbackAlwaysRestores == HistorySpec => RollbackRestores
<1> DEFINE Restores == db'.journal # db.journal => Contents(db') = past[target + 1]
<1>1. HistoryIInv /\ [HistoryNext]_historyVars => [Restores]_historyVars
  <2> SUFFICES ASSUME HistoryIInv, HistoryNext, db'.journal # db.journal
               PROVE  Contents(db') = past[target + 1]
    OBVIOUS
  <2>1. CASE CommitRollback
    BY <2>1, CommitRollbackRestores
  <2>2. CASE ~CommitRollback
    <3>1. \/ db' = db
          \/ CommitAppend
      BY <2>2
      DEF HistoryNext, StoreNext, StartBatch, ReduceNextBlock,
          ReduceNextTransaction, FinishBlock, EndEmptyBatch, StartAppend,
          WriteBlock, StartRollback, RollbackHeight, Fail, storeVars
    <3>2. CommitAppend => db'.journal = db.journal
      BY DEF CommitAppend, HistoryIInv, StoreIInv
    <3>3. QED
      BY <3>1, <3>2
  <2>3. QED
    BY <2>1, <2>2
<1>2. QED
  BY <1>1, HistoryInvariant, PTL DEF HistorySpec, RollbackRestores

-----------------------------------------------------------------------------
(***************************************************************************)
(* The store implements the stack of BlockStore.                           *)
(***************************************************************************)
\* connectBatch stops at BatchBlocks blocks.
BatchIsBounded ==
  /\ Len(batch) <= BatchBlocks
  /\ pc # "idle" => Len(batch) < BatchBlocks

\* The open append has written the blocks from f on top of the committed ones,
\* and with the rest of its batch they are no more than a batch.
AppendedFrom(f) ==
  /\ f <= Tip(txn)
  /\ Tip(txn) + Len(batch) < f + BatchBlocks
  /\ Stored(txn) = Stored(db) \cup (f .. Tip(txn))
  /\ \A h \in Stored(db) : h < f
  /\ Stored(db) # {} => f - 1 \in Stored(db)
  /\ past[f] = Contents(db)

\* An open append has nothing or part of its batch on top of the tables.
StackIInv ==
  /\ HistoryIInv
  /\ BatchIsBounded
  /\ mode = "append" => \/ txn = db /\ batch # <<>>
                        \/ \E f \in Heights : AppendedFrom(f)

\* A block is written next above the last one, and remembers what it was
\* written on.
LEMMA WriteBlockGoesOnTop ==
  ASSUME HistoryIInv, Remember, WriteBlock
  PROVE  /\ Len(batch) \in Nat
         /\ Len(batch') + 1 = Len(batch)
         /\ \E H \in Heights :
              /\ Stored(txn') = Stored(txn) \cup {H}
              /\ Tip(txn') = H
              /\ \A h \in Stored(txn) : h < H
              /\ Stored(txn) # {} => H = Tip(txn) + 1
              /\ past'[H] = Contents(txn)
              /\ \A h \in Stored(txn) : past'[h] = past[h]
<1> DEFINE b == Head(batch)
           w == Written(txn, b)
           H == b.height
<1>1. /\ mode = "append" /\ batch # <<>> /\ batch' = Tail(batch)
      /\ txn' = w
  BY DEF WriteBlock
<1>2. /\ GoodTables(txn)
      /\ Stored(db) \subseteq Stored(txn)
      /\ batch \in Seq(ReducedBlock)
      /\ Queued(txn, batch)
  BY <1>1 DEF HistoryIInv, StoreIInv, StoreTypeOK, Base
<1>3. /\ b \in ReducedBlock
      /\ b = batch[1]
      /\ 1 \in 1 .. Len(batch)
      /\ Len(batch) \in Nat
      /\ Len(batch') + 1 = Len(batch)
  BY <1>1, <1>2
<1>4. Follows(TipState(txn), b)
  <2>1. Follows(Prior(txn, batch, 1), batch[1])
    BY <1>2, <1>3 DEF Queued
  <2>2. QED
    BY <1>3, <2>1 DEF Prior
<1> HIDE DEF b
<1>5. H \in Heights
  BY <1>3, BlockType
<1>6. /\ H \notin Stored(txn)
      /\ Stored(w) = Stored(txn) \cup {H}
      /\ Tip(w) = H
      /\ \A h \in Stored(txn) : h < H
      /\ Placed(TipState(txn), b)
  <2>1. Placed(TipState(txn), b)
    BY <1>4 DEF Follows
  <2>2. /\ H \notin Stored(txn)
        /\ Stored(w) = Stored(txn) \cup {H}
        /\ Tip(w) = H
        /\ \A h \in Stored(txn) : h < H
    BY <1>2, <1>3, <1>4, WrittenChain
  <2>3. QED
    BY <2>1, <2>2
<1> HIDE DEF w
<1>7. \A h \in Stored(txn) : past'[h] = past[h]
  <2>1. ASSUME NEW h \in Stored(txn)
        PROVE  h \in Heights /\ Known(h) /\ Known(h)'
    <3>1. h \in Stored(txn') /\ h \in Heights
      BY <1>1, <1>6 DEF Stored
    <3>2. QED
      BY <3>1 DEF Stored, Known
  <2>2. QED
    BY <2>1, PastStays
<1>8. past'[H] = Contents(txn)
  <2>1. ASSUME NEW h \in Heights, h = H
        PROVE  past'[h] = Contents(txn)
    <3>1. h \notin Stored(txn) /\ h \notin Stored(db) /\ h \in Stored(txn')
      BY <1>1, <1>2, <1>6, <2>1
    <3>2. ~Known(h) /\ Known(h)'
      BY <2>1, <3>1 DEF Known, Stored
    <3>3. QED
      BY <2>1, <3>2 DEF Remember
  <2>2. QED
    BY <1>5, <2>1
<1>9. ASSUME Stored(txn) # {}
      PROVE  H = Tip(txn) + 1
  <2>1. Tip(txn) # 0
    BY <1>2, <1>9, NothingBeforeChain
  <2>2. txn.init # None
    BY <1>2, <2>1, TipIsSound
  <2>3. QED
    BY <1>6, <2>2 DEF Placed, TipState, H
<1>10. QED
  BY <1>1, <1>3, <1>5, <1>6, <1>7, <1>8, <1>9

\* The batch never outgrows its bound.
LEMMA BatchStaysBounded ==
  ASSUME StoreIInv, BatchIsBounded, StoreNext
  PROVE  BatchIsBounded'
<1>1. /\ BatchBlocks \in Nat /\ BatchBlocks > 0
      /\ batch \in Seq(ReducedBlock) /\ Len(batch) \in Nat
      /\ mode # "batch" => pc = "idle"
  BY StoreAssumption DEF StoreIInv, StoreTypeOK
<1>2. CASE ReduceNextBlock
  <2>1. Len(batch) < BatchBlocks /\ batch' = batch
    BY <1>2 DEF ReduceNextBlock, storeVars
  <2>2. QED
    BY <1>1, <2>1 DEF BatchIsBounded
<1>3. CASE ReduceNextTransaction
  <2>1. pc # "idle"
    BY <1>3, ReducingInProgress
  <2>2. batch' = batch
    BY <1>3 DEF ReduceNextTransaction, storeVars
  <2>3. QED
    BY <1>1, <2>1, <2>2 DEF BatchIsBounded
<1>4. CASE FinishBlock
  <2>1. pc # "idle" /\ pc' = "idle"
    BY <1>4 DEF FinishBlock, EndBlock
  <2>2. Len(batch') = Len(batch) + 1
    BY <1>1, <1>4 DEF FinishBlock
  <2>3. QED
    BY <1>1, <2>1, <2>2 DEF BatchIsBounded
<1>5. CASE WriteBlock
  <2>1. mode = "append" /\ pc' = pc /\ batch # <<>> /\ batch' = Tail(batch)
    BY <1>5 DEF WriteBlock, vars, work
  <2>2. Len(batch') + 1 = Len(batch) /\ Len(batch') \in Nat
    BY <1>1, <2>1
  <2>3. QED
    BY <1>1, <2>1, <2>2 DEF BatchIsBounded
<1>6. CASE Fail
  <2>1. batch' = <<>> /\ pc' = "idle"
    BY <1>6 DEF Fail, DropLocals
  <2>2. QED
    BY <1>1, <2>1 DEF BatchIsBounded
<1>7. CASE \/ StartBatch \/ EndEmptyBatch \/ StartAppend \/ CommitAppend
           \/ (\E ancestor \in 0 .. MaxHeight : StartRollback(ancestor))
           \/ RollbackHeight \/ CommitRollback
  <2>1. batch' = batch /\ pc' \in {pc, "idle"}
    BY <1>7
    DEF StartBatch, EndEmptyBatch, StartAppend, CommitAppend, StartRollback,
        RollbackHeight, CommitRollback, DropLocals, vars, work
  <2>2. QED
    BY <2>1 DEF BatchIsBounded
<1>8. QED
  BY <1>2, <1>3, <1>4, <1>5, <1>6, <1>7 DEF StoreNext

\* What an open append has written is on top of what is committed.
LEMMA WriteBlockKeepsStack ==
  ASSUME StackIInv, Remember, WriteBlock
  PROVE  \E f \in Heights : AppendedFrom(f)'
<1>1. /\ HistoryIInv /\ BatchIsBounded /\ mode = "append" /\ db' = db
      /\ BatchBlocks \in Nat
  BY StoreAssumption DEF StackIInv, WriteBlock
<1>2. /\ Len(batch) \in Nat /\ Len(batch') + 1 = Len(batch)
      /\ GoodTables(txn) /\ GoodTables(db)
  BY <1>1, WriteBlockGoesOnTop DEF HistoryIInv, StoreIInv
<1>3. PICK H \in Heights :
        /\ Stored(txn') = Stored(txn) \cup {H}
        /\ Tip(txn') = H
        /\ \A h \in Stored(txn) : h < H
        /\ Stored(txn) # {} => H = Tip(txn) + 1
        /\ past'[H] = Contents(txn)
        /\ \A h \in Stored(txn) : past'[h] = past[h]
  BY <1>1, WriteBlockGoesOnTop
<1>4. H \in Nat /\ H >= 1 /\ Len(batch') = Len(batch) - 1
  BY <1>2, <1>3, ReducerAssumption DEF Heights
<1>5. CASE txn = db
  <2>1. Stored(txn') = Stored(db) \cup (H .. H)
    BY <1>3, <1>4, <1>5
  <2>2. H + Len(batch') < H + BatchBlocks
    BY <1>1, <1>2, <1>4 DEF BatchIsBounded
  <2>3. ASSUME Stored(db) # {}
        PROVE  H - 1 \in Stored(db)
    <3>1. Tip(db) # 0
      BY <1>2, <2>3, NothingBeforeChain
    <3>2. Tip(db) \in Stored(db) /\ Tip(db) \in Nat
      BY <1>2, <3>1, TipIsSound DEF Heights
    <3>3. H = Tip(db) + 1
      BY <1>3, <1>5, <2>3
    <3>4. QED
      BY <3>2, <3>3
  <2>4. /\ H <= Tip(txn')
        /\ Tip(txn') + Len(batch') < H + BatchBlocks
        /\ Stored(txn') = Stored(db') \cup (H .. Tip(txn'))
        /\ \A h \in Stored(db') : h < H
        /\ Stored(db') # {} => H - 1 \in Stored(db')
        /\ past'[H] = Contents(db')
    BY <1>1, <1>3, <1>4, <1>5, <2>1, <2>2, <2>3
  <2>5. AppendedFrom(H)'
    BY <2>4 DEF AppendedFrom, Stored, Tip, Contents
  <2>6. QED
    BY <1>3, <2>5
<1>6. CASE txn # db
  <2>1. PICK f \in Heights : AppendedFrom(f)
    BY <1>1, <1>6 DEF StackIInv
  <2>2. /\ f \in Nat
        /\ f <= Tip(txn)
        /\ Tip(txn) + Len(batch) < f + BatchBlocks
        /\ Stored(txn) = Stored(db) \cup (f .. Tip(txn))
        /\ \A h \in Stored(db) : h < f
        /\ Stored(db) # {} => f - 1 \in Stored(db)
        /\ past[f] = Contents(db)
    BY <2>1 DEF AppendedFrom, Heights
  <2>3. Tip(txn) \in Nat
    <3>1. Tip(txn) # 0 => Tip(txn) \in Heights
      BY <1>2, TipIsSound
    <3>2. QED
      BY <3>1 DEF Heights
  <2>4. f \in Stored(txn)
    BY <2>2, <2>3
  <2>5. H = Tip(txn) + 1 /\ past'[f] = past[f]
    BY <1>3, <2>4
  <2>6. Stored(txn') = Stored(db) \cup (f .. H)
    <3>1. f .. H = (f .. Tip(txn)) \cup {H}
      BY <2>2, <2>3, <2>5
    <3>2. QED
      BY <1>3, <2>2, <3>1
  <2>7. f <= H /\ H + Len(batch') < f + BatchBlocks
    <3> DEFINE n == Len(batch)
               m == Len(batch')
    <3>1. n \in Nat /\ m + 1 = n /\ m \in Int /\ Tip(txn) + n < f + BatchBlocks
      BY <1>2, <1>4, <2>2
    <3> HIDE DEF n, m
    <3>2. f <= H /\ H + m < f + BatchBlocks
      <4>1. f \in Nat /\ f <= Tip(txn) /\ H = Tip(txn) + 1 /\ BatchBlocks \in Nat
        BY <1>1, <2>2, <2>5
      <4>2. QED
        BY <2>3, <3>1, <4>1
    <3>3. QED
      BY <3>2 DEF m
  <2>8. /\ f <= Tip(txn')
        /\ Tip(txn') + Len(batch') < f + BatchBlocks
        /\ Stored(txn') = Stored(db') \cup (f .. Tip(txn'))
        /\ \A h \in Stored(db') : h < f
        /\ Stored(db') # {} => f - 1 \in Stored(db')
        /\ past'[f] = Contents(db')
    BY <1>1, <1>3, <2>2, <2>5, <2>6, <2>7
  <2>9. AppendedFrom(f)'
    BY <2>8 DEF AppendedFrom, Stored, Tip, Contents
  <2>10. QED
    BY <2>9
<1>7. QED
  BY <1>5, <1>6

\* Every step keeps the stack.
LEMMA StackStepIsSound == StackIInv /\ [HistoryNext]_historyVars => StackIInv'
<1> SUFFICES ASSUME StackIInv, [HistoryNext]_historyVars PROVE StackIInv'
  OBVIOUS
<1>1. HistoryIInv' /\ HistoryIInv /\ StoreIInv /\ BatchIsBounded
  BY HistoryStepIsSound DEF StackIInv, HistoryIInv
<1>2. CASE UNCHANGED historyVars
  <2>1. UNCHANGED <<db, txn, mode, batch, past, pc>>
    BY <1>2 DEF historyVars, allVars, storeVars, vars, work
  <2>2. mode' = "append" =>
          \/ txn' = db' /\ batch' # <<>>
          \/ \E f \in Heights :
               /\ f <= Tip(txn')
               /\ Tip(txn') + Len(batch') < f + BatchBlocks
               /\ Stored(txn') = Stored(db') \cup (f .. Tip(txn'))
               /\ \A h \in Stored(db') : h < f
               /\ Stored(db') # {} => f - 1 \in Stored(db')
               /\ past'[f] = Contents(db')
    BY <2>1 DEF StackIInv, AppendedFrom
  <2>3. (mode = "append" => \/ txn = db /\ batch # <<>>
                            \/ \E f \in Heights : AppendedFrom(f))'
    <3>1. (\E f \in Heights : AppendedFrom(f))' <=>
            \E f \in Heights :
              /\ f <= Tip(txn')
              /\ Tip(txn') + Len(batch') < f + BatchBlocks
              /\ Stored(txn') = Stored(db') \cup (f .. Tip(txn'))
              /\ \A h \in Stored(db') : h < f
              /\ Stored(db') # {} => f - 1 \in Stored(db')
              /\ past'[f] = Contents(db')
      BY DEF AppendedFrom, Stored, Tip, Contents
    <3>2. QED
      BY <2>2, <3>1
  <2>4. BatchIsBounded'
    BY <1>1, <2>1 DEF BatchIsBounded
  <2>5. QED
    BY <1>1, <2>3, <2>4 DEF StackIInv
<1>3. CASE HistoryNext
  <2>1. StoreNext /\ Remember
    BY <1>3 DEF HistoryNext
  <2>2. BatchIsBounded'
    BY <1>1, <2>1, BatchStaysBounded
  <2>3. CASE StartAppend
    BY <1>1, <2>2, <2>3 DEF StackIInv, StartAppend
  <2>4. CASE WriteBlock
    BY <1>1, <2>1, <2>2, <2>4, WriteBlockKeepsStack DEF StackIInv
  <2>5. CASE ~StartAppend /\ ~WriteBlock
    <3>1. mode' # "append"
      <4>1. mode # "batch" => pc = "idle"
        BY <1>1 DEF StoreIInv
      <4>2. CASE ReduceNextTransaction \/ FinishBlock
        <5>1. pc = "reducing" /\ mode' = mode
          BY <4>2, ReducingInProgress
        <5>2. QED
          BY <4>1, <5>1
      <4>3. CASE \/ StartBatch \/ ReduceNextBlock \/ EndEmptyBatch
                 \/ CommitAppend \/ RollbackHeight \/ CommitRollback \/ Fail
                 \/ \E ancestor \in 0 .. MaxHeight : StartRollback(ancestor)
        BY <4>3
        DEF StartBatch, ReduceNextBlock, EndEmptyBatch, CommitAppend,
            RollbackHeight, CommitRollback, Fail, StartRollback, storeVars
      <4>4. QED
        BY <2>1, <2>5, <4>2, <4>3 DEF StoreNext
    <3>2. QED
      BY <1>1, <2>2, <3>1 DEF StackIInv
  <2>6. QED
    BY <2>3, <2>4, <2>5
<1>4. QED
  BY <1>2, <1>3

\* While the committed tables stay, so does the stack.
LEMMA StackStays ==
  ASSUME Remember, db' = db
  PROVE  UNCHANGED <<Contents(db), [h \in Stored(db) |-> past[h]]>>
<1>1. \A h \in Stored(db) : h \in Heights /\ Known(h) /\ Known(h)'
  BY DEF Stored, Known
<1>2. \A h \in Stored(db) : past'[h] = past[h]
  BY <1>1, PastStays
<1>3. Contents(db') = Contents(db) /\ Stored(db') = Stored(db)
  OBVIOUS
<1>4. [h \in Stored(db') |-> past'[h]] = [h \in Stored(db) |-> past[h]]
  BY <1>2, <1>3
<1>5. QED
  BY <1>3, <1>4 DEF Contents, Stored

\* The commit of a batch is one append of the stack.
LEMMA CommitAppendIsAppend ==
  ASSUME StackIInv, Remember, CommitAppend
  PROVE  Promise!Append
<1>1. /\ mode = "append" /\ batch = <<>> /\ db' = txn /\ HistoryIInv
      /\ Len(batch) = 0
  BY DEF CommitAppend, StackIInv
<1>2. PICK f \in Heights : AppendedFrom(f)
  BY <1>1 DEF StackIInv
<1>3. GoodTables(txn)
  BY <1>1 DEF HistoryIInv, StoreIInv
<1>4. /\ f \in Nat
      /\ f >= 1
      /\ f <= Tip(txn)
      /\ Tip(txn) + 0 < f + BatchBlocks
      /\ Stored(txn) = Stored(db) \cup (f .. Tip(txn))
      /\ \A h \in Stored(db) : h < f
      /\ Stored(db) # {} => f - 1 \in Stored(db)
      /\ past[f] = Contents(db)
  BY <1>1, <1>2, ReducerAssumption DEF AppendedFrom, Heights
<1>5. Tip(txn) \in Heights /\ Tip(txn) \in Nat
  <2>1. Tip(txn) = 0 \/ Tip(txn) \in Heights
    BY <1>3, TipIsSound
  <2>2. QED
    BY <1>4, <2>1 DEF Heights
<1>6. \A h \in Stored(txn) : past'[h] = past[h]
  <2>1. \A h \in Stored(txn) : h \in Heights /\ Known(h) /\ Known(h)'
    BY <1>1 DEF Stored, Known
  <2>2. QED
    BY <2>1, PastStays
<1> DEFINE old == [h \in Stored(db) |-> past[h]]
           new == [h \in Stored(txn) |-> past'[h]]
           top == Tip(txn)
<1> HIDE DEF top
<1>7. /\ DOMAIN old = Stored(db)
      /\ DOMAIN new = Stored(db) \cup (f .. top)
      /\ f \in DOMAIN new
      /\ new[f] = Contents(db)
  BY <1>4, <1>5, <1>6 DEF top
<1>8. new = [h \in DOMAIN new |-> IF h \in DOMAIN old THEN old[h] ELSE new[h]]
  BY <1>4, <1>6
<1>9. /\ f \in Heights /\ top \in Heights
      /\ f <= top /\ top < f + BatchBlocks
  BY <1>2, <1>4, <1>5 DEF top
<1> HIDE DEF old, new
<1>10. \E first, last \in Heights :
         /\ first <= last /\ last < first + BatchBlocks
         /\ \A h \in DOMAIN old : h < first
         /\ DOMAIN old # {} => first - 1 \in DOMAIN old
         /\ DOMAIN new = DOMAIN old \cup (first .. last)
         /\ new = [h \in DOMAIN new |-> IF h \in DOMAIN old THEN old[h] ELSE new[h]]
         /\ new[first] = Contents(db)
  <2>1. DOMAIN old = Stored(db)
    BY <1>7
  <2>2. /\ \A h \in DOMAIN old : h < f
        /\ DOMAIN old # {} => f - 1 \in DOMAIN old
    BY <1>4, <2>1
  <2>3. DOMAIN new = DOMAIN old \cup (f .. top) /\ new[f] = Contents(db)
    BY <1>7
  <2> f \in Heights /\ top \in Heights
    BY <1>9
  <2> WITNESS f \in Heights, top \in Heights
  <2>4. QED
    BY <1>8, <1>9, <2>2, <2>3
<1>11. new = [h \in Stored(db') |-> past'[h]]
  BY <1>1 DEF new
<1>12. QED
  BY <1>10, <1>11 DEF Promise!Append, Promise!Stored, old, Stored

\* The commit of a rollback is one rollback of the stack.
LEMMA CommitRollbackIsRollback ==
  ASSUME StackIInv, Remember, CommitRollback
  PROVE  Promise!Rollback
<1>1. HistoryIInv /\ mode = "rollback"
  BY DEF StackIInv, CommitRollback
<1>2. /\ Contents(db') = past[target + 1]
      /\ Stored(db') = db.init.height .. target
      /\ Stored(db') \subseteq Stored(db)
  BY <1>1, CommitRollbackRestores
<1>3. /\ Stored(db) = db.init.height .. Tip(db)
      /\ db.init.height \in 1 .. Tip(db)
      /\ target \in db.init.height - 1 .. Tip(db) - 1
      /\ Tip(db) \in Nat
  BY <1>1, RollbackIsAtTip
<1>4. target \in Nat /\ target + 1 \in Stored(db)
  <2> DEFINE i == db.init.height
             t == Tip(db)
  <2>1. i \in 1 .. t /\ target \in i - 1 .. t - 1 /\ t \in Nat
    BY <1>3
  <2> HIDE DEF i, t
  <2>2. target \in Nat /\ target + 1 \in i .. t
    BY <2>1
  <2>3. QED
    BY <1>3, <2>2 DEF i, t
<1>5. Stored(db') = {h \in Stored(db) : h < target + 1}
  <2>1. ASSUME NEW h
        PROVE  h \in Stored(db') <=> h \in Stored(db) /\ h < target + 1
    BY <1>2, <1>3, <1>4
  <2>2. QED
    BY <2>1, Zenon
<1>6. \A h \in Stored(db') : past'[h] = past[h]
  <2>1. ASSUME NEW h \in Stored(db')
        PROVE  h \in Heights /\ Known(h) /\ Known(h)'
    <3>1. h \in Stored(db) /\ h \in Stored(db')
      BY <1>2, <2>1
    <3>2. QED
      BY <3>1 DEF Stored, Known
  <2>2. QED
    BY <2>1, PastStays
<1> DEFINE old == [h \in Stored(db) |-> past[h]]
           new == [h \in Stored(db') |-> past'[h]]
<1>7. DOMAIN old = Stored(db) /\ old[target + 1] = past[target + 1]
  BY <1>4
<1>8. new = [h \in {g \in DOMAIN old : g < target + 1} |-> old[h]]
  BY <1>5, <1>6
<1> HIDE DEF old, new
<1>9. \E lowest \in DOMAIN old :
        /\ Contents(db') = old[lowest]
        /\ new = [h \in {g \in DOMAIN old : g < lowest} |-> old[h]]
  BY <1>2, <1>4, <1>7, <1>8
<1>10. QED
  BY <1>9 DEF Promise!Rollback, Promise!Stored, old, new, Stored, Contents

\* The stack always is what the tables and the open append make of it.
THEOREM StackInvariant == HistorySpec => []StackIInv
<1>1. HistoryInit => StackIInv
  <2> SUFFICES ASSUME HistoryInit PROVE StackIInv
    OBVIOUS
  <2>1. HistoryIInv
    BY HistoryInitIsSound
  <2>2. mode = "ready" /\ batch = <<>> /\ pc = "idle"
    BY DEF HistoryInit, StoreInit, Init
  <2>3. Len(batch) = 0
    BY <2>2
  <2>4. QED
    BY <2>1, <2>2, <2>3, StoreAssumption DEF StackIInv, BatchIsBounded
<1>2. QED
  BY <1>1, StackStepIsSound, PTL DEF HistorySpec

\* appendBlocks and rollback implement the stack of BlockStore: to a reader
\* each happens at once, and nothing else changes the tables.
THEOREM StoreIsBlockStore == HistorySpec => ImplementsBlockStore
<1>1. HistoryInit => Promise!Init
  <2> SUFFICES ASSUME HistoryInit PROVE Promise!Init
    OBVIOUS
  <2>1. db = EmptyTables
    BY DEF HistoryInit, StoreInit
  <2>2. Contents(EmptyTables) = EmptyTables /\ Stored(EmptyTables) = {}
    BY DEF Contents, EmptyTables, Stored
  <2>3. [h \in Stored(db) |-> past[h]] = [h \in {} |-> EmptyTables]
    BY <2>1, <2>2
  <2>4. QED
    BY <2>1, <2>2, <2>3 DEF Promise!Init
<1>2. StackIInv /\ [HistoryNext]_historyVars => [Promise!Next]_(Promise!storeVars)
  <2> SUFFICES ASSUME StackIInv, [HistoryNext]_historyVars
               PROVE  Promise!Next \/ UNCHANGED Promise!storeVars
    OBVIOUS
  <2>1. CASE UNCHANGED historyVars
    <3>1. db' = db /\ past' = past
      BY <2>1 DEF historyVars, allVars, storeVars
    <3>2. QED
      BY <3>1 DEF Promise!storeVars, Contents, Stored
  <2>2. CASE HistoryNext
    <3>1. StoreNext /\ Remember
      BY <2>2 DEF HistoryNext
    <3>2. CASE db' = db
      BY <3>1, <3>2, StackStays DEF Promise!storeVars
    <3>3. CASE CommitAppend
      BY <3>1, <3>3, CommitAppendIsAppend DEF Promise!Next
    <3>4. CASE CommitRollback
      BY <3>1, <3>4, CommitRollbackIsRollback DEF Promise!Next
    <3>5. db' = db \/ CommitAppend \/ CommitRollback
      BY <3>1
      DEF StoreNext, StartBatch, ReduceNextBlock, ReduceNextTransaction,
          FinishBlock, EndEmptyBatch, StartAppend, WriteBlock, StartRollback,
          RollbackHeight, Fail, storeVars
    <3>6. QED
      BY <3>2, <3>3, <3>4, <3>5
  <2>3. QED
    BY <2>1, <2>2
<1>3. QED
  BY <1>1, <1>2, StackInvariant, PTL
  DEF HistorySpec, ImplementsBlockStore, Promise!Spec
=============================================================================
