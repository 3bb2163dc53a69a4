----------------------------- MODULE SyncProofs -----------------------------
(***************************************************************************)
(* Proofs about Sync: whatever the node does between the calls of a tick,  *)
(* and whichever call fails, the tables hold one branch from the INIT up,  *)
(* the cache is the tip's, and a rollback whose walk was answered takes    *)
(* back abandoned blocks only.                                             *)
(***************************************************************************)
EXTENDS Sync, SequenceTheorems, TLAPS

-----------------------------------------------------------------------------
(***************************************************************************)
(* Hashes are sequences of blocks.                                         *)
(***************************************************************************)

\* A hash is a sequence no longer than the chain can grow, and back.
LEMMA HashIsSeq ==
  ASSUME NEW x \in Hash
  PROVE  /\ x \in Seq(Block)
         /\ Len(x) \in Heights
         /\ DOMAIN x = 1 .. Len(x)
<1>1. PICK h \in Heights : x \in [1 .. h -> Block]
  BY DEF Hash
<1>2. h \in Nat
  BY SyncAssumption DEF Heights
<1>3. x \in Seq(Block)
  BY <1>1, <1>2, SeqDef
<1>4. Len(x) = h /\ DOMAIN x = 1 .. Len(x)
  BY <1>1, <1>2, <1>3, LenProperties
<1> QED
  BY <1>3, <1>4

\* A sequence of blocks that fits is a hash.
LEMMA SeqIsHash ==
  ASSUME NEW x \in Seq(Block), Len(x) <= MaxHeight
  PROVE  x \in Hash
<1>1. Len(x) \in Nat /\ x \in [1 .. Len(x) -> Block]
  BY LenProperties
<1>2. Len(x) \in Heights
  BY <1>1, SyncAssumption DEF Heights
<1> QED
  BY <1>1, <1>2 DEF Hash

\* A prefix is a hash, of the length asked for, with the same blocks.
LEMMA PrefixIsHash ==
  ASSUME NEW x \in Hash, NEW h \in 0 .. Len(x)
  PROVE  /\ Prefix(x, h) \in Hash
         /\ Len(Prefix(x, h)) = h
         /\ \A k \in 1 .. h : Prefix(x, h)[k] = x[k]
<1>1. x \in Seq(Block) /\ Len(x) \in Heights
  BY HashIsSeq
<1>2. /\ Len(x) \in Nat
      /\ h \in Nat
      /\ h <= Len(x)
      /\ h <= MaxHeight
  BY <1>1, SyncAssumption DEF Heights
<1>3. /\ Prefix(x, h) \in Seq(Block)
      /\ Len(Prefix(x, h)) = h
      /\ \A k \in 1 .. h : Prefix(x, h)[k] = x[k]
  <2>1. \A k \in 1 .. h : k \in 1 .. Len(x)
    BY <1>2
  <2>2. /\ SubSeq(x, 1, h) \in Seq(Block)
        /\ Len(SubSeq(x, 1, h)) = IF 1 <= h THEN h - 1 + 1 ELSE 0
        /\ \A k \in 1 .. h - 1 + 1 : SubSeq(x, 1, h)[k] = x[1 + k - 1]
    BY <1>1, <1>2, <2>1, SubSeqProperties
  <2> QED
    BY <1>2, <2>2 DEF Prefix
<1> QED
  BY <1>2, <1>3, SeqIsHash

\* Two hashes of one length with the same blocks are equal.
LEMMA HashEqual ==
  ASSUME NEW x \in Hash, NEW y \in Hash, Len(x) = Len(y),
         \A k \in 1 .. Len(x) : x[k] = y[k]
  PROVE  x = y
BY HashIsSeq, SeqEqual

\* A prefix as long as the hash is the hash.
LEMMA PrefixWhole ==
  ASSUME NEW x \in Hash
  PROVE  Prefix(x, Len(x)) = x
<1>1. Len(x) \in 0 .. Len(x)
  BY HashIsSeq DEF Heights
<1> QED
  BY <1>1, PrefixIsHash, HashEqual

\* A prefix of a prefix is a prefix.
LEMMA PrefixOfPrefix ==
  ASSUME NEW x \in Hash, NEW g \in 0 .. Len(x), NEW h \in 0 .. g
  PROVE  Prefix(Prefix(x, g), h) = Prefix(x, h)
<1>1. h \in 0 .. Len(x) /\ 1 .. h \subseteq 1 .. g
  BY HashIsSeq DEF Heights
<1>2. Prefix(x, g) \in Hash /\ Len(Prefix(x, g)) = g
  BY PrefixIsHash
<1>3. /\ Prefix(Prefix(x, g), h) \in Hash
      /\ Len(Prefix(Prefix(x, g), h)) = h
      /\ \A k \in 1 .. h : Prefix(Prefix(x, g), h)[k] = Prefix(x, g)[k]
  BY <1>2, PrefixIsHash
<1>4. /\ Prefix(x, h) \in Hash
      /\ Len(Prefix(x, h)) = h
      /\ \A k \in 1 .. h : Prefix(x, h)[k] = Prefix(x, g)[k]
  BY <1>1, PrefixIsHash
<1> QED
  BY <1>3, <1>4, HashEqual

\* A chain that grows keeps its prefixes.
LEMMA AppendIsHash ==
  ASSUME NEW x \in Hash, NEW b \in Block, Len(x) < MaxHeight
  PROVE  /\ Append(x, b) \in Hash
         /\ Len(Append(x, b)) = Len(x) + 1
         /\ Append(x, b)[Len(x) + 1] = b
         /\ \A k \in 1 .. Len(x) : Append(x, b)[k] = x[k]
         /\ \A h \in 0 .. Len(x) : Prefix(Append(x, b), h) = Prefix(x, h)
<1>1. x \in Seq(Block) /\ Len(x) \in Nat /\ MaxHeight \in Nat
  BY HashIsSeq, SyncAssumption DEF Heights
<1>2. /\ Append(x, b) \in Seq(Block)
      /\ Len(Append(x, b)) = Len(x) + 1
      /\ Append(x, b)[Len(x) + 1] = b
      /\ \A k \in 1 .. Len(x) : Append(x, b)[k] = x[k]
  BY <1>1, AppendProperties
<1>3. Append(x, b) \in Hash
  <2>1. \A y \in Seq(Block) : Len(y) <= MaxHeight => y \in Hash
    BY SeqIsHash
  <2>2. Len(x) + 1 <= MaxHeight
    BY <1>1
  <2>3. Len(Append(x, b)) <= MaxHeight
    BY <1>2, <2>2, Zenon
  <2> QED
    BY <1>2, <2>1, <2>3, Zenon
<1>4. ASSUME NEW h \in 0 .. Len(x)
      PROVE  Prefix(Append(x, b), h) = Prefix(x, h)
  <2>1. h \in 0 .. Len(x) + 1 /\ 1 .. h \subseteq 1 .. Len(x)
    BY <1>1
  <2>2. /\ Prefix(Append(x, b), h) \in Hash
        /\ Len(Prefix(Append(x, b), h)) = h
        /\ \A k \in 1 .. h : Prefix(Append(x, b), h)[k] = Append(x, b)[k]
    BY <1>2, <1>3, <2>1, PrefixIsHash
  <2>3. /\ Prefix(x, h) \in Hash
        /\ Len(Prefix(x, h)) = h
        /\ \A k \in 1 .. h : Prefix(x, h)[k] = x[k]
    BY PrefixIsHash
  <2> QED
    BY <1>2, <2>1, <2>2, <2>3, HashEqual
<1> QED
  BY <1>2, <1>3, <1>4

\* The parent of a block above genesis is the hash one block shorter.
LEMMA ParentIsHash ==
  ASSUME NEW x \in Hash, x # <<>>
  PROVE  /\ Len(x) \in 1 .. MaxHeight
         /\ Parent(x) \in Hash
         /\ Len(Parent(x)) = Len(x) - 1
         /\ \A k \in 1 .. Len(x) - 1 : Parent(x)[k] = x[k]
<1>1. Len(x) \in 1 .. MaxHeight
  BY HashIsSeq, EmptySeq, SyncAssumption DEF Heights
<1>2. Len(x) - 1 \in 0 .. Len(x)
  BY <1>1, SyncAssumption
<1> QED
  BY <1>1, <1>2, PrefixIsHash DEF Parent

\* The empty chain is a hash.
LEMMA EmptyIsHash == <<>> \in Hash /\ Len(<<>>) = 0
<1>1. <<>> \in Seq(Block) /\ Len(<<>>) = 0
  BY EmptySeq
<1>2. \A y \in Seq(Block) : Len(y) <= MaxHeight => y \in Hash
  BY SeqIsHash
<1>3. 0 <= MaxHeight
  BY SyncAssumption
<1>4. Len(<<>>) <= MaxHeight
  BY <1>1, <1>3, Zenon
<1> QED
  BY <1>1, <1>2, <1>4, Zenon

\* Genesis is its own parent here.
LEMMA ParentOfEmpty == Parent(<<>>) = <<>>
<1>1. <<>> \in Seq(Block) /\ Len(<<>>) = 0
  BY EmptySeq
<1>2. /\ SubSeq(<<>>, 1, -1) \in Seq(Block)
      /\ Len(SubSeq(<<>>, 1, -1)) = 0
  BY <1>1, SubSeqProperties
<1> QED
  BY <1>1, <1>2, EmptySeq DEF Parent, Prefix

-----------------------------------------------------------------------------
(***************************************************************************)
(* The inductive invariant.                                                *)
(***************************************************************************)

\* A chain has the INIT at most once.
OneInit(x) == \A g, h \in DOMAIN x : x[g] = InitBlock /\ x[h] = InitBlock => g = h

\* The INIT is at height h of the chain x.
InitAt(x, h) == h \in DOMAIN x /\ x[h] = InitBlock

\* The node has this block on its chain or has had it there.
Seen(x) == x \in abandoned \/ (Len(x) <= Len(chain) /\ x = BlockHash(Len(x)))

\* Node: no chain it ever had carries the INIT twice.
NodeSound == OneInit(chain) /\ \A x \in abandoned : OneInit(x)

\* A row at height h: a block of the node and the roots it leaves.
RowFollows(row, h) ==
  /\ Len(row.hash) = h
  /\ row.stateRoot = row.hash
  /\ row.chainedRoot = row.hash
  /\ Seen(row.hash)

\* Tables: one branch, from the INIT up to the tip at height t.
TablesHold(t) ==
  /\ init \in 1 .. t
  /\ Stored = init .. t
  /\ \A h \in init .. t : RowFollows(rows[h], h) /\ InitAt(rows[h].hash, init)
  /\ \A h \in init + 1 .. t : rows[h - 1].hash = Parent(rows[h].hash)

\* Without a confirmed INIT the tables are empty.
TablesSound ==
  IF init = None THEN Stored = {} ELSE \E t \in Heights : TablesHold(t)

\* Cache: the tip's map at any time, not only between ticks.
CacheSound ==
  cache # None =>
    cache = IF TipHeight = None THEN Empty ELSE rows[TipHeight].stateRoot

\* The height of the first block of the batch under way.
First == height - Len(batch)

Connecting == pc \in {"fetch", "reduce", "append"}

\* Batch: its blocks follow each other, and the stored tip if there is one.
BatchFollows ==
  /\ batch # <<>> => Len(batch[1].hash) = First
  /\ \A n \in DOMAIN batch :
       /\ RowFollows(batch[n], First + n - 1)
       /\ InitAt(batch[n].hash, IF init = None THEN First ELSE init)
       /\ n # 1 => Parent(batch[n].hash) = batch[n - 1].hash
       /\ n = 1 /\ init # None => Parent(batch[1].hash) = rows[TipHeight].hash

\* Fetched: blocks of the node at their heights.
FetchedSound ==
  \A h \in Heights :
    fetched[h] # None => Len(fetched[h]) = h /\ Seen(fetched[h])

\* connectBatch: outside it there is neither a batch nor a fetched block.
BatchSound ==
  IF ~Connecting THEN batch = <<>> /\ fetched = NoBlocks
  ELSE /\ cache # None
       /\ height \in Nat
       /\ last <= First + BatchBlocks - 1
       /\ FetchedSound
       /\ BatchFollows

\* Chunk: what of the current chunk has been fetched.
ChunkSound ==
  /\ pc = "fetch" => /\ height <= last
                     /\ \A h \in Heights : fetched[h] # None => h \in Chunk
  /\ pc = "reduce" => \E c \in height .. last : \A h \in Heights :
                        fetched[h] # None <=> h \in height .. c

\* What the walk has passed is abandoned, unless a call of it may have failed.
PassedIsAbandoned(h) ==
  \/ "walk" \in setting.faultsAt
  \/ \A g \in Stored : g > h => rows[g].hash \in abandoned

\* Each pc: what the branch of syncOnce that leads there has established.
StepSound ==
  /\ pc \in {"tip", "walk", "rollback"} => init # None
  /\ pc \in {"hint", "locate", "confirm", "scan"} => init = None
  /\ pc = "tip" /\ TipHeight > nodeHeight => rows[TipHeight].hash \in abandoned
  /\ pc = "walk" => height \in init - 1 .. MaxHeight /\ PassedIsAbandoned(height)
  /\ pc = "rollback" => /\ ancestor \in Heights
                        /\ ancestor >= init - 1
                        /\ PassedIsAbandoned(ancestor)
  /\ pc = "confirm" => located # None /\ HasInit(located)
  /\ pc = "scan" => scanCursor # None

SyncIInv ==
  /\ TypeOK
  /\ NodeSound
  /\ TablesSound
  /\ CacheSound
  /\ BatchSound
  /\ ChunkSound
  /\ StepSound

-----------------------------------------------------------------------------
(***************************************************************************)
(* What the invariant says of a block, and of the stored tip.              *)
(***************************************************************************)

\* A prefix of a chain with one INIT has at most one.
LEMMA PrefixHasOneInit ==
  ASSUME NEW x \in Hash, NEW h \in 0 .. Len(x), OneInit(x)
  PROVE  OneInit(Prefix(x, h))
<1>1. /\ DOMAIN x = 1 .. Len(x)
      /\ DOMAIN Prefix(x, h) = 1 .. h
      /\ 1 .. h \subseteq 1 .. Len(x)
      /\ \A k \in 1 .. h : Prefix(x, h)[k] = x[k]
  BY HashIsSeq, PrefixIsHash DEF Heights
<1> QED
  BY <1>1 DEF OneInit

\* A block of the node has the INIT at most once on its chain.
LEMMA SeenHasOneInit ==
  ASSUME TypeOK, NodeSound, NEW x \in Hash, Seen(x)
  PROVE  OneInit(x)
<1>1. CASE x \in abandoned
  BY <1>1 DEF NodeSound
<1>2. CASE Len(x) <= Len(chain) /\ x = BlockHash(Len(x))
  <2>1. chain \in Hash /\ OneInit(chain)
    BY DEF TypeOK, NodeSound
  <2>2. Len(x) \in 0 .. Len(chain)
    BY <1>2, <2>1, HashIsSeq DEF Heights
  <2>3. OneInit(Prefix(chain, Len(x)))
    BY <2>1, <2>2, PrefixHasOneInit
  <2> QED
    BY <1>2, <2>3 DEF BlockHash
<1> QED
  BY <1>1, <1>2 DEF Seen

\* The block that carries the INIT has it at its own height.
LEMMA InitBlockIsAtItsHeight ==
  ASSUME NEW x \in Hash, HasInit(x)
  PROVE  Len(x) \in 1 .. MaxHeight /\ InitAt(x, Len(x))
<1>1. x # <<>> /\ x[Len(x)] = InitBlock
  BY DEF HasInit
<1>2. Len(x) \in 1 .. MaxHeight /\ DOMAIN x = 1 .. Len(x)
  BY <1>1, ParentIsHash, HashIsSeq
<1> QED
  BY <1>1, <1>2, SyncAssumption DEF InitAt

\* A block after the INIT has the INIT below it and is not its block.
LEMMA ChildKeepsInit ==
  ASSUME NEW b \in Hash, NEW p \in Hash, NEW i,
         Parent(b) = p, InitAt(p, i), OneInit(b)
  PROVE  /\ b # <<>>
         /\ Len(b) = Len(p) + 1
         /\ InitAt(b, i)
         /\ ~HasInit(b)
<1>1. DOMAIN p = 1 .. Len(p) /\ DOMAIN b = 1 .. Len(b) /\ Len(p) \in Nat
  BY HashIsSeq, SyncAssumption DEF Heights
<1>2. i \in 1 .. Len(p) /\ p[i] = InitBlock
  BY <1>1 DEF InitAt
<1>3. b # <<>>
  BY <1>2, ParentOfEmpty, EmptyIsHash
<1>4. /\ Len(b) \in 1 .. MaxHeight
      /\ Len(p) = Len(b) - 1
      /\ \A k \in 1 .. Len(b) - 1 : p[k] = b[k]
  BY <1>3, ParentIsHash
<1>5. i \in 1 .. Len(b) /\ b[i] = InitBlock /\ i # Len(b) /\ Len(b) \in 1 .. Len(b)
  BY <1>2, <1>4, SyncAssumption
<1>6. ~HasInit(b)
  BY <1>1, <1>5 DEF HasInit, OneInit
<1> QED
  BY <1>1, <1>3, <1>4, <1>5, <1>6, SyncAssumption DEF InitAt

\* canonicalTip of an interval of heights is its last.
LEMMA TipOfInterval ==
  ASSUME NEW t \in Nat, NEW i \in Nat, i <= t, Stored = i .. t
  PROVE  TipHeight = t
<1>1. t \in Stored /\ \A g \in Stored : g <= t
  OBVIOUS
<1>2. \A h \in Stored : (\A g \in Stored : g <= h) => h = t
  BY <1>1
<1> QED
  BY <1>1, <1>2 DEF TipHeight

\* The stored tip is the branch's, and the tables are empty without INIT.
LEMMA TipOfTables ==
  ASSUME TypeOK, TablesSound
  PROVE  /\ init = None => Stored = {} /\ TipHeight = None
         /\ init # None => /\ TipHeight \in Heights
                           /\ TipHeight # None
                           /\ TablesHold(TipHeight)
<1>1. CASE init = None
  BY <1>1 DEF TablesSound, TipHeight
<1>2. CASE init # None
  <2>1. PICK t \in Heights : TablesHold(t)
    BY <1>2 DEF TablesSound
  <2>2. t \in Nat /\ init \in Nat /\ init <= t /\ Stored = init .. t
    BY <2>1, SyncAssumption DEF TablesHold, Heights
  <2>3. TipHeight = t
    BY <2>2, TipOfInterval
  <2> QED
    BY <1>2, <2>1, <2>2, <2>3, SyncAssumption
<1> QED
  BY <1>1, <1>2

-----------------------------------------------------------------------------
(***************************************************************************)
(* The node: what it has shown stays shown.                                *)
(***************************************************************************)

\* Every block of the node stays one, on the chain or abandoned.
SeenStays ==
  /\ abandoned \subseteq abandoned'
  /\ \A x \in Hash : Seen(x) => Seen(x)'

\* A move of the node that keeps what was seen disturbs nothing else.
LEMMA NodeMoveKeepsIInv ==
  ASSUME SyncIInv, SeenStays, TypeOK', NodeSound',
         UNCHANGED <<setting, tables, pc, timer, stopping, memory, locals, faults>>
  PROVE  SyncIInv'
<1> USE DEF SyncIInv
<1>1. /\ UNCHANGED <<setting, rows, init, pc, cache, scanCursor, nodeHeight>>
      /\ UNCHANGED <<height, ancestor, located, last, fetched, batch>>
      /\ Stored' = Stored /\ TipHeight' = TipHeight /\ First' = First
      /\ Chunk' = Chunk /\ Connecting' = Connecting
  BY DEF tables, memory, locals, Stored, TipHeight, First, Chunk, Connecting
<1>2. ASSUME NEW row \in Row, NEW h, RowFollows(row, h)
      PROVE  RowFollows(row, h)'
  BY <1>2 DEF RowFollows, SeenStays, Row
<1>3. TablesSound'
  <2>1. CASE init = None
    BY <1>1, <2>1 DEF TablesSound
  <2>2. CASE init # None
    <3>1. PICK t \in Heights : TablesHold(t)
      BY <2>2 DEF TablesSound
    <3>2. \A h \in init .. t : rows[h] \in Row
      BY <3>1 DEF TablesHold, Stored, TypeOK
    <3>3. TablesHold(t)'
      BY <1>1, <1>2, <3>1, <3>2 DEF TablesHold
    <3> QED
      BY <1>1, <2>2, <3>1, <3>3 DEF TablesSound
  <2> QED
    BY <2>1, <2>2
<1>4. CacheSound'
  BY <1>1 DEF CacheSound
<1>5. BatchSound'
  <2>1. CASE ~Connecting
    BY <1>1, <2>1 DEF BatchSound
  <2>2. CASE Connecting
    <3>1. FetchedSound'
      BY <1>1, <2>2 DEF BatchSound, FetchedSound, SeenStays, TypeOK
    <3>2. \A n \in DOMAIN batch : batch[n] \in Row
      BY DEF TypeOK
    <3>3. BatchFollows'
      BY <1>1, <1>2, <2>2, <3>2 DEF BatchSound, BatchFollows
    <3> QED
      BY <1>1, <2>2, <3>1, <3>3 DEF BatchSound
  <2> QED
    BY <2>1, <2>2
<1>6. ChunkSound'
  BY <1>1 DEF ChunkSound
<1>7. \A h : PassedIsAbandoned(h) => PassedIsAbandoned(h)'
  BY <1>1 DEF PassedIsAbandoned, SeenStays
<1>8. StepSound'
  BY <1>1, <1>7 DEF StepSound, SeenStays
<1> QED
  BY <1>3, <1>4, <1>5, <1>6, <1>8

\* The node connects a block.
LEMMA ConnectBlockKeepsIInv ==
  ASSUME SyncIInv, NEW b \in Block, ConnectBlock(b), UNCHANGED setting
  PROVE  SyncIInv'
<1>1. /\ TypeOK /\ NodeSound
      /\ chain \in Hash
      /\ Len(chain) < MaxHeight
      /\ chain' = Append(chain, b)
      /\ b = InitBlock => InitOn(chain) = {}
      /\ abandoned' = abandoned
  BY DEF SyncIInv, TypeOK, ConnectBlock
<1>2. /\ chain' \in Hash
      /\ Len(chain') = Len(chain) + 1
      /\ chain'[Len(chain) + 1] = b
      /\ \A k \in 1 .. Len(chain) : chain'[k] = chain[k]
      /\ \A h \in 0 .. Len(chain) : Prefix(chain', h) = Prefix(chain, h)
  BY <1>1, AppendIsHash
<1>3. TypeOK'
  BY <1>1, <1>2 DEF ConnectBlock, TypeOK, tables, memory, locals
<1>4. NodeSound'
  <2>1. /\ DOMAIN chain = 1 .. Len(chain) /\ Len(chain) \in Nat
        /\ DOMAIN chain' = 1 .. Len(chain) + 1
    BY <1>1, <1>2, HashIsSeq, SyncAssumption DEF Heights
  <2>2. OneInit(chain')
    BY <1>1, <1>2, <2>1 DEF NodeSound, OneInit, InitOn
  <2> QED
    BY <1>1, <2>2 DEF NodeSound
<1>5. SeenStays
  <2>1. ASSUME NEW x \in Hash, Seen(x)
        PROVE  Seen(x)'
    <3>1. Len(x) \in Nat /\ Len(chain) \in Nat
      BY <1>1, HashIsSeq, SyncAssumption DEF Heights
    <3> QED
      BY <1>1, <1>2, <2>1, <3>1 DEF Seen, BlockHash
  <2> QED
    BY <1>1, <2>1 DEF SeenStays
<1> QED
  BY <1>3, <1>4, <1>5, NodeMoveKeepsIInv DEF ConnectBlock

\* The node disconnects blocks.
LEMMA DisconnectToKeepsIInv ==
  ASSUME SyncIInv, NEW h \in Heights, DisconnectTo(h), UNCHANGED setting
  PROVE  SyncIInv'
<1>0. /\ TypeOK /\ NodeSound
      /\ chain \in Hash
      /\ reorgs < MaxReorgs
      /\ h < Len(chain)
      /\ chain' = Prefix(chain, h)
      /\ abandoned' = abandoned \cup {BlockHash(g) : g \in h + 1 .. Len(chain)}
      /\ reorgs' = reorgs + 1
  BY DEF SyncIInv, TypeOK, DisconnectTo
<1>1. h \in 0 .. Len(chain) /\ h \in Nat /\ Len(chain) \in Nat
  <2>1. Len(chain) \in Nat /\ h \in Nat
    BY <1>0, HashIsSeq, SyncAssumption DEF Heights
  <2> QED
    BY <1>0, <2>1
<1>2. /\ chain' \in Hash
      /\ Len(chain') = h
  BY <1>0, <1>1, PrefixIsHash
<1>3. \A g \in h + 1 .. Len(chain) :
        BlockHash(g) \in Hash /\ OneInit(BlockHash(g))
  <2>1. \A g \in h + 1 .. Len(chain) : g \in 0 .. Len(chain)
    BY <1>1
  <2> QED
    BY <1>0, <1>1, <2>1, PrefixIsHash, PrefixHasOneInit DEF BlockHash, NodeSound
<1>4. TypeOK'
  <2>1. abandoned' \subseteq Hash
    BY <1>0, <1>3 DEF TypeOK
  <2>2. reorgs' \in 0 .. MaxReorgs
    BY <1>0, SyncAssumption DEF TypeOK
  <2> QED
    BY <1>0, <1>2, <2>1, <2>2 DEF DisconnectTo, TypeOK, tables, memory, locals
<1>5. NodeSound'
  BY <1>0, <1>1, <1>3, PrefixHasOneInit DEF NodeSound
<1>6. SeenStays
  <2>1. ASSUME NEW x \in Hash, Seen(x), x \notin abandoned
        PROVE  Seen(x)'
    <3>1. Len(x) \in Nat /\ Len(x) <= Len(chain) /\ x = BlockHash(Len(x))
      BY <2>1, HashIsSeq, SyncAssumption DEF Seen, Heights
    <3>2. CASE Len(x) <= h
      <4>1. Len(x) \in 0 .. h
        BY <1>0, <1>1, <3>1, <3>2
      <4>2. Prefix(chain', Len(x)) = Prefix(chain, Len(x))
        BY <1>0, <1>1, <4>1, PrefixOfPrefix
      <4> QED
        BY <1>2, <3>1, <3>2, <4>2 DEF Seen, BlockHash
    <3>3. CASE ~(Len(x) <= h)
      <4>1. Len(x) \in h + 1 .. Len(chain)
        BY <1>0, <1>1, <3>1, <3>3
      <4>2. x \in abandoned'
        BY <1>0, <1>1, <3>1, <4>1
      <4> QED
        BY <4>2 DEF Seen
    <3> QED
      BY <3>2, <3>3
  <2>2. \A x \in abandoned : Seen(x)'
    BY <1>0, <1>1 DEF Seen
  <2> QED
    BY <1>0, <1>1, <2>1, <2>2 DEF SeenStays
<1> QED
  BY <1>4, <1>5, <1>6, NodeMoveKeepsIInv DEF DisconnectTo

-----------------------------------------------------------------------------
(***************************************************************************)
(* Steps that leave the node and the tables alone.                         *)
(***************************************************************************)

\* What such a step keeps.
LEMMA TablesUntouched ==
  ASSUME SyncIInv, UNCHANGED <<setting, node, tables>>
  PROVE  /\ NodeSound' /\ TablesSound'
         /\ Stored' = Stored /\ TipHeight' = TipHeight
         /\ \A x : Seen(x)' = Seen(x)
         /\ \A row, h : RowFollows(row, h)' = RowFollows(row, h)
         /\ \A h : PassedIsAbandoned(h)' = PassedIsAbandoned(h)
         /\ cache' \in {cache, None} => CacheSound'
<1>1. UNCHANGED <<setting, chain, abandoned, rows, init>>
  BY DEF node, tables
<1>2. NodeSound'
  BY <1>1 DEF SyncIInv, NodeSound
<1>3. Stored' = Stored /\ TipHeight' = TipHeight
  BY <1>1 DEF Stored, TipHeight
<1>4. \A x : Seen(x)' = Seen(x)
  BY <1>1 DEF Seen, BlockHash
<1>5. \A row, h : RowFollows(row, h)' = RowFollows(row, h)
  BY <1>4 DEF RowFollows
<1>6. \A t : TablesHold(t)' = TablesHold(t)
  BY <1>1, <1>3, <1>5 DEF TablesHold
<1>7. TablesSound'
  BY <1>1, <1>3, <1>6 DEF SyncIInv, TablesSound
<1>8. \A h : PassedIsAbandoned(h)' = PassedIsAbandoned(h)
  BY <1>1, <1>3 DEF PassedIsAbandoned
<1>9. cache' \in {cache, None} => CacheSound'
  BY <1>1, <1>3 DEF SyncIInv, CacheSound
<1> QED
  BY <1>2, <1>3, <1>4, <1>5, <1>7, <1>8, <1>9

\* Between ticks there is nothing but the tables and the cache to be right.
LEMMA IdleIsSound ==
  ASSUME TypeOK', NodeSound', TablesSound', CacheSound', pc' = "idle", ClearLocals
  PROVE  SyncIInv'
<1>1. batch' = <<>> /\ fetched' = NoBlocks
  BY DEF ClearLocals
<1>2. BatchSound'
  BY <1>1 DEF BatchSound, Connecting, NoBlocks
<1>3. ChunkSound' /\ StepSound'
  BY DEF ChunkSound, StepSound
<1> QED
  BY <1>2, <1>3 DEF SyncIInv

\* The cleared locals are of their types.
LEMMA ClearedIsTyped ==
  ASSUME ClearLocals
  PROVE  /\ nodeHeight' \in Heights /\ height' \in -1 .. MaxHeight + 1
         /\ ancestor' \in Heights \cup {None} /\ located' \in Hash \cup {None}
         /\ scanned' \in 0 .. ScanPerTick /\ last' \in Heights
         /\ fetched' \in [Heights -> Hash \cup {None}]
         /\ batch' \in Seq(Row) /\ Len(batch') <= BatchBlocks
<1>1. batch' = <<>> /\ <<>> \in Seq(Row) /\ Len(<<>>) = 0
  BY EmptySeq DEF ClearLocals
<1>2. Len(batch') <= BatchBlocks
  <2>1. 0 <= BatchBlocks
    BY SyncAssumption
  <2> QED
    BY <1>1, <2>1, Zenon
<1>3. fetched' \in [Heights -> Hash \cup {None}]
  BY DEF ClearLocals, NoBlocks
<1> QED
  BY <1>1, <1>2, <1>3, SyncAssumption DEF ClearLocals, Heights

\* A tick that ends, or a new process, without a write.
LEMMA RestKeepsIInv ==
  ASSUME SyncIInv, UNCHANGED <<setting, node, tables>>, pc' = "idle", ClearLocals,
         cache' \in {cache, None}, timer' \in BOOLEAN, stopping' \in BOOLEAN,
         scanCursor' \in 0 .. MaxHeight + 1 \cup {None}, faults' \in 0 .. MaxFaults
  PROVE  SyncIInv'
<1>1. NodeSound' /\ TablesSound' /\ CacheSound'
  BY TablesUntouched
<1>2. TypeOK'
  BY ClearedIsTyped DEF SyncIInv, TypeOK, node, tables
<1> QED
  BY <1>1, <1>2, IdleIsSound

\* A step before or after connectBatch that keeps the cache.
LEMMA OutsideBatchKeepsIInv ==
  ASSUME SyncIInv, UNCHANGED <<setting, node, tables, cache, fetched, batch>>,
         ~Connecting, ~Connecting', TypeOK', StepSound'
  PROVE  SyncIInv'
<1>1. NodeSound' /\ TablesSound' /\ CacheSound'
  BY TablesUntouched
<1>2. BatchSound'
  BY DEF SyncIInv, BatchSound, NoBlocks
<1>3. ChunkSound'
  BY DEF ChunkSound, Connecting
<1> QED
  BY <1>1, <1>2, <1>3 DEF SyncIInv

\* Entry of connectBatch.
LEMMA ConnectKeepsIInv ==
  ASSUME SyncIInv, ~Connecting, NEW first \in 0 .. MaxHeight + 1, Connect(first),
         UNCHANGED setting
  PROVE  SyncIInv'
<1>1. /\ UNCHANGED <<setting, node, tables, fetched, batch>>
      /\ height' = first
      /\ last' = Smaller(nodeHeight, first + BatchBlocks - 1)
      /\ pc' = NextChunk(first, last')
      /\ batch = <<>> /\ fetched = NoBlocks
      /\ nodeHeight \in Nat /\ nodeHeight <= MaxHeight
      /\ first \in Nat /\ first <= MaxHeight + 1
      /\ TypeOK
  <2>1. /\ UNCHANGED <<setting, node, tables, fetched, batch>>
        /\ height' = first
        /\ last' = Smaller(nodeHeight, first + BatchBlocks - 1)
        /\ pc' = NextChunk(first, last')
    BY DEF Connect
  <2>2. batch = <<>> /\ fetched = NoBlocks
    BY DEF SyncIInv, BatchSound
  <2>3. TypeOK
    BY DEF SyncIInv
  <2>4. nodeHeight \in Heights
    BY <2>3 DEF TypeOK
  <2>5. /\ nodeHeight \in Nat /\ nodeHeight <= MaxHeight
        /\ first \in Nat /\ first <= MaxHeight + 1
    BY <2>4, SyncAssumption DEF Heights
  <2> QED
    BY <2>1, <2>2, <2>3, <2>5
<1>2. /\ last' \in Heights
      /\ last' <= first + BatchBlocks - 1
  BY <1>1, SyncAssumption DEF Smaller, Heights
<1>3. pc' \in {"fetch", "append"} /\ (pc' = "fetch" => first <= last')
  BY <1>1 DEF NextChunk
<1>4. /\ NodeSound' /\ TablesSound'
      /\ TipHeight' = TipHeight /\ UNCHANGED rows
  BY <1>1, TablesUntouched DEF tables
<1>5. /\ cache' # None
      /\ cache' \in Hash \cup {Corrupt, None}
      /\ CacheSound'
  <2>1. TipHeight # None => /\ rows[TipHeight].stateRoot \in Hash
                            /\ rows[TipHeight].stateRoot # None
    <3>1. ASSUME TipHeight # None
          PROVE  rows[TipHeight] \in Row /\ rows[TipHeight].stateRoot \in Hash
      <4>1. init # None /\ TablesHold(TipHeight) /\ TipHeight \in Heights
        BY <3>1, TipOfTables DEF SyncIInv
      <4>2. TipHeight \in init .. TipHeight
        BY <4>1, SyncAssumption DEF TablesHold, Heights
      <4>3. rows[TipHeight] \in Row
        BY <1>1, <4>1, <4>2 DEF TypeOK, Stored, TablesHold
      <4> QED
        BY <4>1, <4>2, <4>3 DEF TablesHold, RowFollows, Row
    <3> QED
      BY <3>1, NullAssumption
  <2>2. cache' = IF cache # None THEN cache
                 ELSE IF TipHeight = None THEN Empty ELSE rows[TipHeight].stateRoot
    BY DEF Connect
  <2>3. Empty \in Hash /\ Empty # None
    BY EmptyIsHash, NullAssumption DEF Empty
  <2>4. CASE cache # None
    BY <1>1, <1>4, <2>2, <2>4 DEF SyncIInv, CacheSound, TypeOK
  <2>5. CASE cache = None
    BY <1>4, <2>1, <2>2, <2>3, <2>5 DEF CacheSound
  <2> QED
    BY <2>4, <2>5
<1>6. TypeOK'
  <2>1. /\ nodeHeight' \in Heights
        /\ height' \in -1 .. MaxHeight + 1
        /\ scanned' \in 0 .. ScanPerTick
        /\ located' \in Hash \cup {None}
        /\ pc' \in Call \cup {"idle", "reduce"}
    BY <1>1, <1>3, SyncAssumption DEF Connect, Heights, Call
  <2>2. UNCHANGED <<chain, abandoned, reorgs, rows, init, timer, stopping,
                    scanCursor, ancestor, faults>>
    BY DEF Connect, node, tables
  <2> QED
    BY <1>1, <1>2, <1>5, <2>1, <2>2 DEF TypeOK
<1>7. BatchSound'
  <2>1. First' = first
    BY <1>1, EmptyIsHash DEF First
  <2>2. FetchedSound' /\ BatchFollows'
    BY <1>1 DEF FetchedSound, BatchFollows, NoBlocks
  <2> QED
    BY <1>1, <1>2, <1>3, <1>5, <2>1, <2>2 DEF BatchSound, Connecting
<1>8. ChunkSound' /\ StepSound'
  BY <1>1, <1>3 DEF ChunkSound, StepSound, NoBlocks
<1> QED
  BY <1>4, <1>5, <1>6, <1>7, <1>8 DEF SyncIInv

-----------------------------------------------------------------------------
(***************************************************************************)
(* The steps of a tick up to connectBatch.                                 *)
(***************************************************************************)

\* Ranges of the numbers, in the form the arithmetic below needs.
LEMMA Numbers ==
  ASSUME TypeOK
  PROVE  /\ MaxHeight \in Nat /\ MaxFaults \in Nat /\ Heights = 0 .. MaxHeight
         /\ chain \in Hash /\ Len(chain) \in Nat /\ Len(chain) <= MaxHeight
         /\ nodeHeight \in Nat /\ nodeHeight <= MaxHeight
         /\ height \in Int
         /\ None \notin Nat /\ None \notin Hash /\ None \notin Row
BY HashIsSeq, SyncAssumption, NullAssumption DEF TypeOK, Heights

\* The stored tip is a block of the node, at its height.
LEMMA TipIsSeen ==
  ASSUME SyncIInv, init # None
  PROVE  /\ init \in Nat /\ init >= 1 /\ init <= TipHeight
         /\ TipHeight \in Nat /\ TipHeight <= MaxHeight
         /\ Stored = init .. TipHeight
         /\ rows[TipHeight] \in Row
         /\ RowFollows(rows[TipHeight], TipHeight)
         /\ InitAt(rows[TipHeight].hash, init)
<1>1. TypeOK /\ TipHeight \in Heights /\ TablesHold(TipHeight)
  BY TipOfTables DEF SyncIInv
<1>2. /\ init \in Nat /\ init >= 1 /\ init <= TipHeight
      /\ TipHeight \in Nat /\ TipHeight <= MaxHeight
      /\ Stored = init .. TipHeight
      /\ TipHeight \in init .. TipHeight
  BY <1>1, Numbers DEF TablesHold
<1> QED
  BY <1>1, <1>2 DEF TablesHold, TypeOK, Stored

\* A stored tip the node does not have on its chain is abandoned.
LEMMA StaleTipIsAbandoned ==
  ASSUME SyncIInv, init # None, TipHeight > Len(chain) \/ ~OnChain(TipHeight)
  PROVE  rows[TipHeight].hash \in abandoned
<1>1. /\ Len(chain) \in Nat /\ TipHeight \in Nat
      /\ Len(rows[TipHeight].hash) = TipHeight
      /\ Seen(rows[TipHeight].hash)
  BY TipIsSeen, Numbers DEF SyncIInv, RowFollows
<1> QED
  BY <1>1 DEF Seen, OnChain

\* The timer fires.
LEMMA TickKeepsIInv ==
  ASSUME SyncIInv, Tick, UNCHANGED setting
  PROVE  SyncIInv'
<1>1. /\ UNCHANGED <<setting, node, tables, cache, fetched, batch>>
      /\ ~Connecting /\ ~Connecting'
      /\ nodeHeight' = Len(chain)
      /\ pc' = IF init = None THEN "hint" ELSE "tip"
      /\ UNCHANGED <<rows, init, abandoned, chain>>
  BY DEF Tick, Connecting, memory, node, tables
<1>2. TypeOK'
  <2>1. /\ TypeOK
        /\ nodeHeight' \in Heights /\ pc' \in Call \cup {"idle", "reduce"}
    BY <1>1, Numbers DEF SyncIInv, Call
  <2> QED
    BY <2>1 DEF Tick, TypeOK, node, tables, memory
<1>3. StepSound'
  <2>1. ASSUME init # None, TipHeight > nodeHeight'
        PROVE  rows[TipHeight].hash \in abandoned
    BY <1>1, <2>1, StaleTipIsAbandoned
  <2>2. TipHeight' = TipHeight
    BY <1>1, TablesUntouched
  <2> QED
    BY <1>1, <2>1, <2>2 DEF StepSound
<1> QED
  BY <1>1, <1>2, <1>3, OutsideBatchKeepsIInv

\* The tip is on the node's chain.
LEMMA TipIsOnChainKeepsIInv ==
  ASSUME SyncIInv, TipIsOnChain, UNCHANGED setting
  PROVE  SyncIInv'
<1>1. pc = "tip" /\ init # None /\ ~Connecting
  BY DEF TipIsOnChain, SyncIInv, StepSound, Connecting
<1>2. TipHeight + 1 \in 0 .. MaxHeight + 1
  BY <1>1, TipIsSeen, Numbers DEF SyncIInv
<1> QED
  BY <1>1, <1>2, ConnectKeepsIInv DEF TipIsOnChain

\* It is not: the walk starts below it.
LEMMA TipIsStaleKeepsIInv ==
  ASSUME SyncIInv, TipIsStale, UNCHANGED setting
  PROVE  SyncIInv'
<1>1. /\ UNCHANGED <<setting, node, tables, cache, fetched, batch>>
      /\ pc = "tip" /\ pc' = "walk" /\ height' = TipHeight - 1
      /\ ~Connecting /\ ~Connecting' /\ init # None
      /\ UNCHANGED <<rows, init, abandoned, chain>>
      /\ TypeOK
  BY DEF TipIsStale, Connecting, memory, node, tables, SyncIInv, StepSound
<1>2. rows[TipHeight].hash \in abandoned
  <2>1. CASE TipHeight > nodeHeight
    BY <1>1, <2>1 DEF SyncIInv, StepSound
  <2>2. CASE ~(TipHeight > nodeHeight)
    BY <1>1, <2>2, StaleTipIsAbandoned DEF TipIsStale
  <2> QED
    BY <2>1, <2>2
<1>3. height' \in init - 1 .. MaxHeight /\ height' \in -1 .. MaxHeight + 1
  BY <1>1, TipIsSeen, Numbers
<1>4. PassedIsAbandoned(TipHeight - 1)
  <2>1. ASSUME NEW g \in Stored, g > TipHeight - 1
        PROVE  g = TipHeight
    BY <1>1, <2>1, TipIsSeen
  <2> QED
    BY <1>2, <2>1 DEF PassedIsAbandoned
<1>5. PassedIsAbandoned(height)'
  BY <1>1, <1>4, TablesUntouched
<1>6. TypeOK'
  <2>1. nodeHeight' \in Heights /\ pc' \in Call \cup {"idle", "reduce"}
    BY <1>1, Numbers DEF TipIsStale, Call
  <2> QED
    BY <1>1, <1>3, <2>1 DEF TipIsStale, TypeOK, node, tables, memory
<1>7. StepSound'
  BY <1>1, <1>3, <1>5 DEF StepSound
<1> QED
  BY <1>1, <1>6, <1>7, OutsideBatchKeepsIInv

\* The walk goes one block down, past a mismatch or a failed call.
LEMMA WalkPastKeepsIInv ==
  ASSUME SyncIInv, pc = "walk", WalkPast, UNCHANGED setting,
         faults' \in 0 .. MaxFaults,
         ~OnChain(height) \/ "walk" \in setting.faultsAt
  PROVE  SyncIInv'
<1>1. /\ UNCHANGED <<setting, node, tables, cache, fetched, batch>>
      /\ pc' = "walk" /\ height' = height - 1 /\ height >= init
      /\ ~Connecting /\ ~Connecting' /\ init # None
      /\ UNCHANGED <<rows, init, abandoned, chain>>
      /\ TypeOK
      /\ height \in init - 1 .. MaxHeight /\ PassedIsAbandoned(height)
  BY DEF WalkPast, Connecting, memory, node, tables, SyncIInv, StepSound
<1>2. /\ init \in Nat /\ init >= 1 /\ height \in Nat /\ height <= MaxHeight
      /\ height' \in init - 1 .. MaxHeight
      /\ height' \in -1 .. MaxHeight + 1
  BY <1>1, TipIsSeen, Numbers
<1>3. PassedIsAbandoned(height - 1)
  <2>1. ASSUME ~OnChain(height), NEW g \in Stored, g > height - 1,
               \A k \in Stored : k > height => rows[k].hash \in abandoned
        PROVE  rows[g].hash \in abandoned
    <3>1. g \in init .. TipHeight /\ TipHeight \in Nat
      BY <1>1, <2>1, TipIsSeen
    <3>2. CASE g > height
      BY <2>1, <3>2
    <3>3. CASE ~(g > height)
      <4>1. g = height
        BY <1>2, <2>1, <3>1, <3>3
      <4>2. RowFollows(rows[g], g)
        BY <1>1, <3>1, TipOfTables DEF SyncIInv, TablesHold
      <4>3. Len(chain) \in Nat
        BY <1>1, Numbers
      <4> QED
        BY <1>2, <2>1, <4>1, <4>2, <4>3 DEF RowFollows, Seen, OnChain
    <3> QED
      BY <3>2, <3>3
  <2> QED
    BY <1>1, <2>1 DEF PassedIsAbandoned
<1>4. PassedIsAbandoned(height)'
  BY <1>1, <1>3, TablesUntouched
<1>5. TypeOK'
  BY <1>1, <1>2 DEF WalkPast, TypeOK, node, tables, memory
<1>6. StepSound'
  BY <1>1, <1>2, <1>4 DEF StepSound
<1> QED
  BY <1>1, <1>5, <1>6, OutsideBatchKeepsIInv

\* The walk stops.
LEMMA MatchAtHeightKeepsIInv ==
  ASSUME SyncIInv, MatchAtHeight, UNCHANGED setting
  PROVE  SyncIInv'
<1>1. /\ UNCHANGED <<setting, node, tables, cache, fetched, batch>>
      /\ pc = "walk" /\ pc' = "rollback"
      /\ ancestor' = IF height < init THEN init - 1 ELSE height
      /\ ~Connecting /\ ~Connecting' /\ init # None
      /\ UNCHANGED <<rows, init, abandoned, chain>>
      /\ TypeOK
      /\ height \in init - 1 .. MaxHeight /\ PassedIsAbandoned(height)
  BY DEF MatchAtHeight, Connecting, memory, node, tables, SyncIInv, StepSound
<1>2. /\ ancestor' \in Heights
      /\ ancestor' >= init - 1
      /\ ancestor' = height
  BY <1>1, TipIsSeen, Numbers
<1>3. PassedIsAbandoned(ancestor)'
  BY <1>1, <1>2, TablesUntouched
<1>4. TypeOK'
  BY <1>1, <1>2 DEF MatchAtHeight, TypeOK, node, tables, memory, Call
<1>5. StepSound'
  BY <1>1, <1>2, <1>3 DEF StepSound
<1> QED
  BY <1>1, <1>4, <1>5, OutsideBatchKeepsIInv

-----------------------------------------------------------------------------
(***************************************************************************)
(* The rollback.                                                           *)
(***************************************************************************)

\* What is left of the tables is the branch up to the ancestor, or nothing.
LEMMA RollBackLeavesTables ==
  ASSUME SyncIInv, RollBackTables, UNCHANGED <<setting, node>>
  PROVE  /\ NodeSound' /\ TablesSound'
         /\ rows' \in [Heights -> Row \cup {None}]
         /\ init' \in Heights \cup {None}
<1>1. /\ init # None /\ TypeOK /\ NodeSound
      /\ ancestor \in Heights /\ ancestor >= init - 1
      /\ UNCHANGED <<chain, abandoned>>
      /\ rows' = [h \in Heights |-> IF h > ancestor THEN None ELSE rows[h]]
      /\ init' = IF init > ancestor THEN None ELSE init
  BY DEF SyncIInv, StepSound, RollBackTables, node
<1>2. /\ init \in Nat /\ init >= 1 /\ init <= TipHeight
      /\ TipHeight \in Nat /\ TipHeight <= MaxHeight
      /\ Stored = init .. TipHeight
      /\ ancestor \in Nat /\ ancestor <= MaxHeight
      /\ None \notin Nat
      /\ TablesHold(TipHeight)
  BY <1>1, TipIsSeen, Numbers, TipOfTables DEF SyncIInv
<1>3. /\ rows' \in [Heights -> Row \cup {None}]
      /\ init' \in Heights \cup {None}
  BY <1>1 DEF TypeOK
<1>4. NodeSound'
  BY <1>1 DEF NodeSound
<1>5. \A h \in Heights : h \in Stored' <=> h \in Stored /\ h <= ancestor
  BY <1>1, <1>2, Numbers DEF Stored
<1>6. TablesSound'
  <2>1. CASE init > ancestor
    <3>1. Stored' = {}
      BY <1>2, <1>5, <2>1 DEF Stored
    <3> QED
      BY <1>1, <2>1, <3>1 DEF TablesSound
  <2>2. CASE init <= ancestor
    <3>0. PICK t \in Heights : t = Smaller(TipHeight, ancestor)
      BY <1>1, <1>2, Numbers DEF Smaller
    <3>1. /\ t \in Nat /\ init <= t /\ t <= TipHeight /\ t <= ancestor
          /\ t = TipHeight \/ t = ancestor
      BY <1>1, <1>2, <2>2, <3>0 DEF Smaller
    <3>2. init' = init /\ init' # None
      BY <1>1, <1>2, <2>2
    <3>3. Stored' = init .. t
      <4>1. Stored' \subseteq Heights /\ Heights = 0 .. MaxHeight
        BY <1>1, Numbers DEF Stored
      <4>2. \A h : h \in init .. t <=> h \in Heights /\ h \in Stored /\ h <= ancestor
        BY <1>2, <3>1, <4>1, SyncAssumption
      <4>3. \A h : h \in Stored' <=> h \in init .. t
        BY <1>5, <4>1, <4>2, Zenon
      <4> QED
        BY <4>3, Zenon
    <3>4. \A h \in init .. t : rows'[h] = rows[h] /\ h \in init .. TipHeight
      BY <1>1, <1>2, <3>1, Numbers
    <3>5. \A row, h : RowFollows(row, h)' = RowFollows(row, h)
      BY <1>1 DEF RowFollows, Seen, BlockHash
    <3>6. \A h \in init .. t : /\ RowFollows(rows[h], h)
                               /\ InitAt(rows[h].hash, init)
      BY <1>2, <3>4 DEF TablesHold
    <3>7. \A h \in init + 1 .. t :
            /\ h \in init .. t /\ h - 1 \in init .. t
            /\ rows[h - 1].hash = Parent(rows[h].hash)
      BY <1>2, <3>1 DEF TablesHold
    <3>8. TablesHold(t)'
      <4>1. init \in 1 .. t
        BY <1>2, <3>1
      <4> QED
        BY <3>2, <3>3, <3>4, <3>5, <3>6, <3>7, <4>1 DEF TablesHold
    <3> QED
      BY <3>1, <3>2, <3>8 DEF TablesSound
  <2> QED
    BY <1>2, <2>1, <2>2
<1> QED
  BY <1>3, <1>4, <1>6

\* A rollback that returns, or whose answer is lost.
LEMMA RollBackKeepsIInv ==
  ASSUME SyncIInv, RollBackTables, UNCHANGED <<setting, node, stopping>>,
         cache' = None, EndTick, faults' \in 0 .. MaxFaults,
         scanCursor' \in 0 .. MaxHeight + 1 \cup {None}
  PROVE  SyncIInv'
<1>1. /\ NodeSound' /\ TablesSound'
      /\ rows' \in [Heights -> Row \cup {None}]
      /\ init' \in Heights \cup {None}
  BY RollBackLeavesTables
<1>2. /\ pc' = "idle" /\ ClearLocals /\ timer' \in BOOLEAN
      /\ TypeOK /\ UNCHANGED <<chain, abandoned, reorgs>>
  BY DEF EndTick, SyncIInv, TypeOK, node
<1>3. TypeOK'
  BY <1>1, <1>2, ClearedIsTyped DEF TypeOK
<1>4. CacheSound'
  BY DEF CacheSound
<1> QED
  BY <1>1, <1>2, <1>3, <1>4, IdleIsSound

-----------------------------------------------------------------------------
(***************************************************************************)
(* The search for the INIT.                                                *)
(***************************************************************************)

\* The setting's hint is a height.
LEMMA HintIsHeight ==
  ASSUME SyncIInv
  PROVE  HintedHeight \in Nat
<1>1. setting \in Setting
  BY SettingsAssumption DEF SyncIInv, TypeOK
<1> QED
  BY <1>1, SyncAssumption DEF HintedHeight, Setting

\* The hinted height holds the INIT.
LEMMA HintHitsKeepsIInv ==
  ASSUME SyncIInv, HintHits, UNCHANGED setting
  PROVE  SyncIInv'
<1>1. ~Connecting
  BY DEF HintHits, Connecting
<1>2. HintedHeight \in 0 .. MaxHeight + 1
  BY HintIsHeight, Numbers DEF HintHits, SyncIInv, Smaller
<1> QED
  BY <1>1, <1>2, ConnectKeepsIInv DEF HintHits

\* It does not.
LEMMA HintMissesKeepsIInv ==
  ASSUME SyncIInv, HintMisses, UNCHANGED setting
  PROVE  SyncIInv'
<1>1. /\ UNCHANGED <<setting, node, tables, cache, fetched, batch>>
      /\ pc = "hint" /\ pc' = "locate" /\ init = None
      /\ ~Connecting /\ ~Connecting'
      /\ UNCHANGED <<rows, init, abandoned, chain>>
      /\ TypeOK
  BY DEF HintMisses, Connecting, memory, locals, node, tables, SyncIInv, StepSound
<1>2. TypeOK'
  BY <1>1 DEF HintMisses, TypeOK, node, memory, locals, Call
<1>3. StepSound'
  BY <1>1 DEF StepSound
<1> QED
  BY <1>1, <1>2, <1>3, OutsideBatchKeepsIInv

\* The node names the block of a confirmed INIT.
LEMMA LocateConfirmedKeepsIInv ==
  ASSUME SyncIInv, LocateConfirmed, UNCHANGED setting
  PROVE  SyncIInv'
<1>1. /\ UNCHANGED <<setting, node, tables, cache, fetched, batch>>
      /\ pc = "locate" /\ pc' = "confirm" /\ init = None
      /\ ~Connecting /\ ~Connecting'
      /\ UNCHANGED <<rows, init, abandoned, chain>>
      /\ TypeOK
  BY DEF LocateConfirmed, Connecting, memory, node, tables, SyncIInv, StepSound
<1>2. PICK h \in InitOn(chain) : located' = BlockHash(h)
  BY DEF LocateConfirmed
<1>3. /\ h \in 1 .. Len(chain) /\ chain[h] = InitBlock /\ chain \in Hash
      /\ h \in 0 .. Len(chain) /\ h \in 1 .. h /\ h # 0
  BY <1>1, <1>2, Numbers, HashIsSeq DEF InitOn
<1>4. /\ located' \in Hash
      /\ Len(located') = h
      /\ located'[h] = InitBlock
  BY <1>2, <1>3, PrefixIsHash DEF BlockHash
<1>5. HasInit(located') /\ located' # None
  BY <1>3, <1>4, EmptyIsHash, NullAssumption DEF HasInit
<1>6. TypeOK'
  BY <1>1, <1>4 DEF LocateConfirmed, TypeOK, node, memory, Call
<1>7. StepSound'
  BY <1>1, <1>5 DEF StepSound, HasInit
<1> QED
  BY <1>1, <1>6, <1>7, OutsideBatchKeepsIInv

\* The scan starts or goes on where it was.
LEMMA StartScanKeepsIInv ==
  ASSUME SyncIInv, pc \in {"locate", "confirm"}, StartScan, UNCHANGED setting,
         faults' \in 0 .. MaxFaults
  PROVE  SyncIInv'
<1>1. /\ UNCHANGED <<setting, node, tables, cache, fetched, batch>>
      /\ pc' = "scan" /\ init = None
      /\ ~Connecting /\ ~Connecting'
      /\ UNCHANGED <<rows, init, abandoned, chain>>
      /\ TypeOK
  BY DEF StartScan, Connecting, node, tables, SyncIInv, StepSound
<1>2. scanCursor' \in 0 .. MaxHeight + 1 /\ scanCursor' # None
  <2>1. CASE scanCursor = None
    <3>1. nodeHeight - ScanDepth \in Int /\ nodeHeight - ScanDepth <= MaxHeight
      BY <1>1, Numbers, SyncAssumption
    <3>2. scanCursor' = Larger(0, nodeHeight - ScanDepth)
      BY <2>1 DEF StartScan
    <3>3. Larger(0, nodeHeight - ScanDepth) \in 0 .. MaxHeight + 1
      BY <1>1, <3>1, Numbers DEF Larger
    <3> QED
      BY <1>1, <3>2, <3>3, Numbers
  <2>2. CASE scanCursor # None
    BY <1>1, <2>2 DEF StartScan, TypeOK
  <2> QED
    BY <2>1, <2>2
<1>3. TypeOK'
  BY <1>1, <1>2 DEF StartScan, TypeOK, node, Call
<1>4. StepSound'
  BY <1>1, <1>2 DEF StepSound
<1> QED
  BY <1>1, <1>3, <1>4, OutsideBatchKeepsIInv

\* The located block is on the node's chain.
LEMMA ConfirmLocationKeepsIInv ==
  ASSUME SyncIInv, ConfirmLocation, UNCHANGED setting
  PROVE  SyncIInv'
<1>1. ~Connecting /\ located \in Hash
  BY DEF ConfirmLocation, Connecting, SyncIInv, StepSound, TypeOK
<1>2. Len(located) \in 0 .. MaxHeight + 1
  BY <1>1, HashIsSeq, SyncAssumption DEF Heights
<1> QED
  BY <1>1, <1>2, ConnectKeepsIInv DEF ConfirmLocation

\* The scan meets the INIT.
LEMMA ScanHitKeepsIInv ==
  ASSUME SyncIInv, ScanHit, UNCHANGED setting
  PROVE  SyncIInv'
<1>1. ~Connecting /\ scanCursor \in 0 .. MaxHeight + 1
  BY DEF ScanHit, Connecting, SyncIInv, StepSound, TypeOK
<1> QED
  BY <1>1, ConnectKeepsIInv DEF ScanHit

\* The scan goes past a block without it.
LEMMA ScanMissKeepsIInv ==
  ASSUME SyncIInv, ScanMiss, UNCHANGED setting
  PROVE  SyncIInv'
<1>1. /\ UNCHANGED <<setting, node, tables, cache, fetched, batch>>
      /\ pc = "scan" /\ pc' = "scan" /\ init = None
      /\ scanCursor # None /\ scanCursor <= Len(chain)
      /\ scanCursor' = scanCursor + 1
      /\ scanned < ScanPerTick /\ scanned' = scanned + 1
      /\ ~Connecting /\ ~Connecting'
      /\ UNCHANGED <<rows, init, abandoned, chain>>
      /\ TypeOK
  BY DEF ScanMiss, Scanning, Connecting, node, tables, SyncIInv, StepSound
<1>2. scanCursor' \in 0 .. MaxHeight + 1 /\ scanCursor' # None
  BY <1>1, Numbers DEF TypeOK
<1>3. scanned' \in 0 .. ScanPerTick
  BY <1>1, SyncAssumption DEF TypeOK
<1>4. TypeOK'
  BY <1>1, <1>2, <1>3 DEF ScanMiss, TypeOK, node
<1>5. StepSound'
  BY <1>1, <1>2 DEF StepSound
<1> QED
  BY <1>1, <1>4, <1>5, OutsideBatchKeepsIInv

-----------------------------------------------------------------------------
(***************************************************************************)
(* connectBatch.                                                           *)
(***************************************************************************)

\* Ranges of the numbers inside connectBatch.
LEMMA BatchNumbers ==
  ASSUME SyncIInv, Connecting
  PROVE  /\ height \in Nat /\ height <= MaxHeight + 1
         /\ last \in Nat /\ last <= MaxHeight
         /\ batch \in Seq(Row) /\ Len(batch) \in Nat /\ Len(batch) <= BatchBlocks
         /\ DOMAIN batch = 1 .. Len(batch)
         /\ \A n \in 1 .. Len(batch) : batch[n] \in Row /\ batch[n].hash \in Hash
         /\ batch # <<>> <=> Len(batch) >= 1
         /\ First \in Int /\ First + Len(batch) = height
<1>1. /\ height \in Nat /\ height <= MaxHeight + 1
      /\ last \in Nat /\ last <= MaxHeight
      /\ batch \in Seq(Row) /\ Len(batch) <= BatchBlocks
  BY Numbers DEF SyncIInv, BatchSound, TypeOK
<1>2. /\ Len(batch) \in Nat
      /\ DOMAIN batch = 1 .. Len(batch)
      /\ batch \in [1 .. Len(batch) -> Row]
  BY <1>1, LenProperties
<1>3. batch # <<>> <=> Len(batch) >= 1
  BY <1>1, <1>2, EmptySeq
<1>4. \A n \in 1 .. Len(batch) : batch[n] \in Row /\ batch[n].hash \in Hash
  BY <1>2 DEF Row
<1> QED
  BY <1>1, <1>2, <1>3, <1>4 DEF First

\* A step of connectBatch that keeps the batch keeps what it follows.
LEMMA SameBatchFollows ==
  ASSUME SyncIInv, Connecting,
         UNCHANGED <<setting, node, tables, height, batch>>
  PROVE  BatchFollows' /\ First' = First
<1>1. First' = First /\ UNCHANGED <<init, rows, batch>>
  BY DEF First, tables
<1> QED
  BY <1>1, TablesUntouched DEF SyncIInv, BatchSound, BatchFollows

\* getBlock answers for one block of the chunk.
LEMMA FetchBlockKeepsIInv ==
  ASSUME SyncIInv, NEW h \in Heights, FetchBlock(h), UNCHANGED setting
  PROVE  SyncIInv'
<1>1. /\ UNCHANGED <<setting, node, tables, height, last, batch, cache>>
      /\ pc = "fetch" /\ Connecting /\ Connecting'
      /\ pc' = IF \E g \in Chunk : fetched'[g] = None THEN "fetch" ELSE "reduce"
      /\ h \in Chunk /\ h <= Len(chain)
      /\ fetched' = [fetched EXCEPT ![h] = BlockHash(h)]
      /\ height <= last
      /\ \A g \in Heights : fetched[g] # None => g \in Chunk
      /\ TypeOK
      /\ fetched \in [Heights -> Hash \cup {None}]
      /\ FetchedSound
      /\ cache # None
      /\ last <= First + BatchBlocks - 1
      /\ height \in Nat
  BY DEF FetchBlock, SyncIInv, ChunkSound, BatchSound, Connecting, memory, TypeOK
<1>2. /\ BlockHash(h) \in Hash /\ BlockHash(h) # None
      /\ Len(BlockHash(h)) = h
      /\ Seen(BlockHash(h))
  <2>1. h \in 0 .. Len(chain) /\ chain \in Hash
    BY <1>1, Numbers
  <2>2. BlockHash(h) \in Hash /\ Len(BlockHash(h)) = h
    BY <2>1, PrefixIsHash DEF BlockHash
  <2> QED
    BY <1>1, <2>2, NullAssumption DEF Seen
<1>3. fetched' \in [Heights -> Hash \cup {None}]
  BY <1>1, <1>2
<1>4. Chunk' = Chunk
  BY <1>1 DEF Chunk
<1>5. TypeOK'
  <2>1. UNCHANGED <<nodeHeight, ancestor, located, scanned, scanCursor, timer,
                    stopping, faults>>
    BY DEF FetchBlock, memory
  <2>2. pc' \in Call \cup {"idle", "reduce"}
    BY <1>1 DEF Call
  <2> QED
    BY <1>1, <1>3, <2>1, <2>2 DEF TypeOK, node, tables
<1>6. NodeSound' /\ TablesSound' /\ CacheSound'
  BY <1>1, TablesUntouched
<1>7. BatchSound'
  <2>1. BatchFollows' /\ First' = First
    BY <1>1, SameBatchFollows
  <2>2. \A x : Seen(x)' = Seen(x)
    BY <1>1, TablesUntouched
  <2>3. FetchedSound'
    BY <1>1, <1>2, <2>2 DEF FetchedSound
  <2> QED
    BY <1>1, <2>1, <2>3 DEF BatchSound
<1>8. ChunkSound'
  <2>1. \A g \in Heights : fetched'[g] # None => g \in Chunk
    BY <1>1
  <2>2. ASSUME pc' = "reduce"
        PROVE  \E c \in height .. last : \A g \in Heights :
                 fetched'[g] # None <=> g \in height .. c
    <3> DEFINE c == Smaller(last, height + FetchConcurrency - 1)
    <3>1. \A g \in Chunk : fetched'[g] # None
      BY <1>1, <2>2
    <3>2. Chunk = height .. c
      BY DEF Chunk
    <3>3. c \in height .. last
      <4>1. /\ height \in Nat /\ last \in Nat /\ height <= last
            /\ FetchConcurrency \in Nat /\ FetchConcurrency >= 1
        BY <1>1, BatchNumbers, SyncAssumption
      <4> QED
        BY <4>1 DEF Smaller
    <3> QED
      BY <2>1, <3>1, <3>2, <3>3
  <2> QED
    BY <1>1, <1>4, <2>1, <2>2 DEF ChunkSound
<1>9. StepSound'
  BY <1>1 DEF StepSound
<1> QED
  BY <1>5, <1>6, <1>7, <1>8, <1>9 DEF SyncIInv

\* A step of connectBatch that only ends the batch.
LEMMA EndBatchKeepsIInv ==
  ASSUME SyncIInv, pc = "reduce", pc' = "append",
         UNCHANGED <<setting, node, tables, timer, stopping, cache, locals, faults>>,
         scanCursor' \in 0 .. MaxHeight + 1 \cup {None}
  PROVE  SyncIInv'
<1>1. /\ UNCHANGED <<nodeHeight, height, ancestor, located, scanned, last,
                     fetched, batch, cache>>
      /\ Connecting /\ Connecting' /\ TypeOK
  BY DEF locals, Connecting, SyncIInv
<1>2. NodeSound' /\ TablesSound' /\ CacheSound'
  BY <1>1, TablesUntouched
<1>3. TypeOK'
  BY <1>1 DEF TypeOK, node, tables, Call
<1>4. BatchFollows' /\ First' = First
  BY <1>1, SameBatchFollows
<1>5. FetchedSound'
  BY <1>1, TablesUntouched DEF SyncIInv, BatchSound, FetchedSound
<1>6. BatchSound'
  BY <1>1, <1>4, <1>5 DEF SyncIInv, BatchSound
<1>7. ChunkSound' /\ StepSound'
  BY DEF ChunkSound, StepSound
<1> QED
  BY <1>2, <1>3, <1>6, <1>7 DEF SyncIInv

\* The INIT's height on the branch that the batch extends.
BatchInit == IF init = None THEN First ELSE init

\* The block under reduction follows what came before: it is reduced from
\* its parent, or is the INIT's block on empty tables.
LEMMA ReducedFollows ==
  ASSUME SyncIInv, NEW b \in Hash, Reducing(b), ~LinkIsBroken(b),
         ~InitIsMissing(b)
  PROVE  /\ Reduce(ObjectsBefore, b) = b /\ Reduce(PreviousRoot, b) = b
         /\ Len(b) = height /\ Seen(b)
         /\ InitAt(b, BatchInit)
         /\ batch # <<>> => Parent(b) = batch[Len(batch)].hash
         /\ batch = <<>> /\ init # None => Parent(b) = rows[TipHeight].hash
<1>1. /\ pc = "reduce" /\ b = fetched[height] /\ Connecting
      /\ TypeOK /\ NodeSound /\ TablesSound /\ CacheSound /\ BatchFollows
      /\ FetchedSound /\ ChunkSound /\ cache # None
  BY DEF Reducing, SyncIInv, Connecting, BatchSound
<1>2. height \in Heights
  <2>1. PICK c \in height .. last : TRUE
    BY <1>1 DEF ChunkSound
  <2> QED
    BY <1>1, <2>1, BatchNumbers, Numbers
<1>3. Len(b) = height /\ Seen(b) /\ b # None
  BY <1>1, <1>2, NullAssumption DEF FetchedSound
<1>4. OneInit(b)
  BY <1>1, <1>3, SeenHasOneInit
<1>5. CASE batch # <<>>
  <2> DEFINE n == Len(batch)
             p == batch[n].hash
  <2>1. n \in DOMAIN batch /\ p \in Hash
    BY <1>1, <1>5, BatchNumbers
  <2>2. /\ RowFollows(batch[n], First + n - 1)
        /\ InitAt(p, BatchInit)
    BY <1>1, <2>1 DEF BatchFollows, BatchInit
  <2>3. Parent(b) = p
    BY <1>5, <2>1, NullAssumption DEF LinkIsBroken, PreviousHash
  <2>4. InitAt(b, BatchInit) /\ ~HasInit(b)
    BY <1>4, <2>1, <2>2, <2>3, ChildKeepsInit
  <2>5. ObjectsBefore = p /\ PreviousRoot = p
    BY <1>5, <2>2 DEF ObjectsBefore, PreviousRoot, RowFollows
  <2> QED
    BY <1>3, <1>5, <2>3, <2>4, <2>5 DEF Reduce
<1>6. CASE batch = <<>> /\ init # None
  <2> DEFINE p == rows[TipHeight].hash
  <2>1. /\ TipHeight # None /\ p \in Hash
        /\ RowFollows(rows[TipHeight], TipHeight)
        /\ InitAt(p, init)
    BY <1>1, <1>6, TipIsSeen, TipOfTables DEF Row
  <2>2. Parent(b) = p
    BY <1>6, <2>1, NullAssumption DEF LinkIsBroken, PreviousHash
  <2>3. InitAt(b, init) /\ ~HasInit(b)
    BY <1>4, <2>1, <2>2, ChildKeepsInit
  <2>4. ObjectsBefore = p /\ PreviousRoot = p
    BY <1>1, <1>6, <2>1
    DEF ObjectsBefore, PreviousRoot, RowFollows, CacheSound
  <2> QED
    BY <1>3, <1>6, <2>2, <2>3, <2>4 DEF Reduce, BatchInit
<1>7. CASE batch = <<>> /\ init = None
  <2>1. HasInit(b)
    BY <1>7 DEF InitIsMissing
  <2>2. First = height
    <3>1. Len(batch) = 0
      BY <1>7, EmptyIsHash
    <3> QED
      BY <1>1, <3>1, BatchNumbers
  <2>3. InitAt(b, BatchInit)
    BY <1>3, <1>7, <2>1, <2>2, InitBlockIsAtItsHeight DEF BatchInit
  <2>4. ObjectsBefore = Empty /\ PreviousRoot = Empty
    BY <1>1, <1>7, TipOfTables DEF ObjectsBefore, PreviousRoot, CacheSound
  <2> QED
    BY <1>3, <1>7, <2>1, <2>3, <2>4 DEF Reduce
<1> QED
  BY <1>5, <1>6, <1>7

\* reduceBlock extends the batch.
LEMMA ReduceBlockKeepsIInv ==
  ASSUME SyncIInv, ReduceBlock, UNCHANGED setting
  PROVE  SyncIInv'
<1>1. PICK b \in Hash :
        /\ Reducing(b) /\ ~LinkIsBroken(b) /\ ~InitIsMissing(b)
        /\ batch' = Append(batch, [hash |-> b,
                                   stateRoot |-> Reduce(ObjectsBefore, b),
                                   chainedRoot |-> Reduce(PreviousRoot, b)])
  BY DEF ReduceBlock
<1> DEFINE row == [hash |-> b, stateRoot |-> b, chainedRoot |-> b]
           m == Len(batch)
<1>2. /\ batch' = Append(batch, row)
      /\ Len(b) = height /\ Seen(b)
      /\ InitAt(b, BatchInit)
      /\ batch # <<>> => Parent(b) = batch[m].hash
      /\ batch = <<>> /\ init # None => Parent(b) = rows[TipHeight].hash
  BY <1>1, ReducedFollows
<1>3. /\ UNCHANGED <<setting, node, tables, last, cache>>
      /\ UNCHANGED <<rows, init, timer, stopping, scanCursor, nodeHeight,
                     ancestor, located, scanned, faults>>
      /\ fetched' = [fetched EXCEPT ![height] = None]
      /\ height' = height + 1
      /\ pc' = IF \A h \in Heights : h > height => fetched[h] = None
               THEN NextChunk(height + 1, last) ELSE "reduce"
      /\ pc = "reduce" /\ Connecting
      /\ TypeOK /\ ChunkSound /\ BatchFollows /\ FetchedSound /\ cache # None
      /\ last <= First + BatchBlocks - 1
      /\ fetched \in [Heights -> Hash \cup {None}]
  BY <1>1 DEF ReduceBlock, Reducing, SyncIInv, Connecting, BatchSound, TypeOK,
              tables, memory
<1>4. PICK c \in height .. last : \A h \in Heights : fetched[h] # None <=> h \in height .. c
  BY <1>3 DEF ChunkSound
<1>5. /\ height \in Nat /\ last \in Nat /\ last <= MaxHeight
      /\ height <= c /\ c <= last /\ c \in Nat
      /\ height + 1 \in -1 .. MaxHeight + 1
      /\ m \in Nat /\ First \in Int /\ First + m = height
      /\ BatchBlocks \in Nat /\ m + 1 <= BatchBlocks
      /\ MaxHeight \in Nat /\ Heights = 0 .. MaxHeight
  <2>1. /\ height \in Nat /\ last \in Nat /\ last <= MaxHeight
        /\ m \in Nat /\ First \in Int /\ First + m = height
    BY <1>3, BatchNumbers
  <2>2. /\ MaxHeight \in Nat /\ Heights = 0 .. MaxHeight
        /\ BatchBlocks \in Nat /\ last <= First + BatchBlocks - 1
    BY <1>3, Numbers, SyncAssumption
  <2> HIDE DEF m
  <2>3. height <= c /\ c <= last /\ c \in Nat
    BY <1>4, <2>1
  <2> QED
    BY <2>1, <2>2, <2>3
<1>6. row \in Row
  BY DEF Row
<1>7. /\ batch' \in Seq(Row) /\ Len(batch') = m + 1
      /\ DOMAIN batch' = 1 .. m + 1 /\ DOMAIN batch = 1 .. m
      /\ \A n \in 1 .. m : batch'[n] = batch[n]
      /\ batch'[m + 1] = row
      /\ batch # <<>> <=> m >= 1
  <2>1. batch \in Seq(Row) /\ DOMAIN batch = 1 .. m /\ (batch # <<>> <=> m >= 1)
    BY <1>3, BatchNumbers
  <2>2. /\ Append(batch, row) \in Seq(Row)
        /\ Len(Append(batch, row)) = m + 1
        /\ Append(batch, row)[m + 1] = row
        /\ \A n \in 1 .. m : Append(batch, row)[n] = batch[n]
    BY <1>6, <2>1, AppendProperties
  <2>3. DOMAIN Append(batch, row) = 1 .. m + 1
    BY <2>2, LenProperties
  <2> HIDE DEF row, m
  <2>4. /\ batch' \in Seq(Row) /\ Len(batch') = m + 1
        /\ batch'[m + 1] = row
        /\ \A n \in 1 .. m : batch'[n] = batch[n]
    BY <1>2, <2>2, Zenon
  <2>5. DOMAIN batch' = 1 .. m + 1
    BY <1>2, <2>3, Zenon
  <2> QED
    BY <2>1, <2>4, <2>5
<1> HIDE DEF row, m
<1>8. First' = First
  <2>1. First' = height' - Len(batch')
    BY DEF First
  <2>2. height' = height + 1 /\ Len(batch') = m + 1
    BY <1>3, <1>7
  <2> QED
    BY <1>5, <2>1, <2>2
<1>9. fetched' \in [Heights -> Hash \cup {None}]
  BY <1>3
<1>10. /\ pc' \in {"fetch", "append", "reduce"}
       /\ pc' = "fetch" => height + 1 <= last
       /\ Connecting'
  BY <1>3 DEF NextChunk, Connecting
<1>11. TypeOK'
  <2>1. /\ height' \in -1 .. MaxHeight + 1
        /\ Len(batch') <= BatchBlocks
        /\ pc' \in Call \cup {"idle", "reduce"}
    BY <1>3, <1>5, <1>7, <1>10 DEF Call
  <2> QED
    BY <1>3, <1>7, <1>9, <2>1 DEF TypeOK, node, tables
<1>12. NodeSound' /\ TablesSound' /\ CacheSound' /\ TipHeight' = TipHeight
  BY <1>3, TablesUntouched
<1>13. /\ \A x : Seen(x)' = Seen(x)
       /\ \A r, h : RowFollows(r, h)' = RowFollows(r, h)
  BY <1>3, TablesUntouched
<1>14. BatchFollows'
  <2>1. RowFollows(row, height) /\ row.hash = b
    BY <1>2 DEF RowFollows, row
  <2>2. ASSUME NEW n \in 1 .. m
        PROVE  /\ batch'[n] = batch[n]
               /\ RowFollows(batch[n], First + n - 1)
               /\ InitAt(batch[n].hash, BatchInit)
               /\ n # 1 => /\ n - 1 \in 1 .. m
                           /\ Parent(batch[n].hash) = batch[n - 1].hash
               /\ n = 1 /\ init # None =>
                    Parent(batch[1].hash) = rows[TipHeight].hash
    <3>1. n \in DOMAIN batch /\ (n # 1 => n - 1 \in 1 .. m)
      BY <1>5, <1>7
    <3> QED
      BY <1>3, <1>7, <3>1 DEF BatchFollows, BatchInit
  <2>3. /\ RowFollows(row, First + (m + 1) - 1)
        /\ InitAt(row.hash, BatchInit)
        /\ m + 1 # 1 => m \in 1 .. m /\ Parent(row.hash) = batch[m].hash
        /\ m + 1 = 1 /\ init # None => Parent(row.hash) = rows[TipHeight].hash
    <3>1. First + (m + 1) - 1 = height
      BY <1>5
    <3> QED
      BY <1>2, <1>5, <1>7, <2>1, <3>1
  <2>4. ASSUME NEW n \in 1 .. m + 1
        PROVE  /\ RowFollows(batch'[n], First + n - 1)
               /\ InitAt(batch'[n].hash, BatchInit)
               /\ n # 1 => Parent(batch'[n].hash) = batch'[n - 1].hash
               /\ n = 1 /\ init # None =>
                    Parent(batch'[1].hash) = rows[TipHeight].hash
    <3>1. CASE n \in 1 .. m
      <4>1. n # 1 => batch'[n - 1] = batch[n - 1]
        BY <1>7, <2>2, <3>1
      <4> QED
        BY <2>2, <3>1, <4>1
    <3>2. CASE n = m + 1
      <4>1. m + 1 # 1 => batch'[n - 1] = batch[m]
        BY <1>5, <1>7, <2>3, <3>2
      <4> QED
        BY <1>7, <2>3, <3>2, <4>1
    <3> QED
      BY <1>5, <3>1, <3>2
  <2>5. Len(batch'[1].hash) = First
    <3>1. 1 \in 1 .. m + 1 /\ First + 1 - 1 = First
      BY <1>5
    <3> QED
      BY <2>4, <3>1 DEF RowFollows
  <2> QED
    BY <1>3, <1>7, <1>8, <1>12, <1>13, <2>4, <2>5 DEF BatchFollows, BatchInit
<1>15. BatchSound'
  <2>1. FetchedSound'
    BY <1>3, <1>13 DEF FetchedSound
  <2> QED
    BY <1>3, <1>5, <1>8, <1>10, <1>14, <2>1 DEF BatchSound
<1>16. ChunkSound'
  <2>1. ASSUME pc' = "fetch"
        PROVE  /\ height' <= last'
               /\ \A h \in Heights : fetched'[h] = None
    <3>1. \A h \in Heights : h > height => fetched[h] = None
      BY <1>3, <2>1
    <3>2. \A h \in Heights : h < height => fetched[h] = None
      BY <1>4, <1>5
    <3>3. \A h \in Heights : h > height \/ h < height \/ h = height
      BY <1>5
    <3> QED
      BY <1>3, <1>10, <2>1, <3>1, <3>2, <3>3
  <2>2. ASSUME pc' = "reduce"
        PROVE  \E d \in height' .. last' : \A h \in Heights :
                 fetched'[h] # None <=> h \in height' .. d
    <3>1. c >= height + 1
      <4>1. PICK h \in Heights : h > height /\ fetched[h] # None
        BY <1>3, <2>2 DEF NextChunk
      <4> QED
        BY <1>4, <1>5, <4>1
    <3>2. c \in height' .. last'
      BY <1>3, <1>5, <3>1
    <3>3. ASSUME NEW h \in Heights
          PROVE  fetched'[h] # None <=> h \in height' .. c
      <4>1. CASE h = height
        BY <1>3, <1>5, <4>1
      <4>2. CASE h # height
        BY <1>3, <1>4, <1>5, <4>2
      <4> QED
        BY <4>1, <4>2
    <3> QED
      BY <3>2, <3>3
  <2> QED
    BY <2>1, <2>2 DEF ChunkSound
<1>17. StepSound'
  BY <1>10 DEF StepSound
<1> QED
  BY <1>11, <1>12, <1>15, <1>16, <1>17 DEF SyncIInv

\* The step stores the blocks from f to t on top of the tables.
AppendedOnTop ==
  \E f, t \in Heights :
    /\ f <= t /\ t < f + BatchBlocks
    /\ \A h \in f .. t : rows[h] = None
    /\ \A h \in Heights \ (f .. t) : rows'[h] = rows[h]
    /\ \A h \in Heights : h \in Stored' <=> h \in Stored \/ h \in f .. t
    /\ init # None => f = TipHeight + 1
    /\ init' = IF init = None THEN f ELSE init

\* The batch is committed: the tables hold the branch up to its last block.
LEMMA AppendExtendsTables ==
  ASSUME SyncIInv, AppendToTables, UNCHANGED <<setting, node>>
  PROVE  /\ NodeSound' /\ TablesSound'
         /\ rows' \in [Heights -> Row \cup {None}]
         /\ init' \in Heights \cup {None}
         /\ TipHeight' # None
         /\ rows'[TipHeight'] = batch[Len(batch)]
         /\ batch[Len(batch)].stateRoot \in Hash
         /\ \A h \in Heights : rows[h] # None => rows'[h] # None
         /\ AppendedOnTop
<1> DEFINE m == Len(batch)
<1>1. /\ pc = "append" /\ Connecting /\ batch # <<>>
      /\ TypeOK /\ NodeSound /\ TablesSound /\ BatchFollows
      /\ UNCHANGED <<chain, abandoned>>
      /\ \A i \in DOMAIN batch : rows[Len(batch[i].hash)] = None
      /\ rows' = [h \in Heights |->
            IF \E i \in DOMAIN batch : Len(batch[i].hash) = h
            THEN batch[CHOOSE i \in DOMAIN batch : Len(batch[i].hash) = h]
            ELSE rows[h]]
      /\ init' = IF init = None THEN Len(batch[1].hash) ELSE init
  BY DEF AppendToTables, SyncIInv, Connecting, BatchSound, node
<1>2. /\ m \in Nat /\ m >= 1 /\ DOMAIN batch = 1 .. m
      /\ \A n \in 1 .. m : batch[n] \in Row /\ batch[n].hash \in Hash
      /\ First \in Int /\ MaxHeight \in Nat /\ Heights = 0 .. MaxHeight
      /\ 1 \in 1 .. m /\ m \in 1 .. m
  BY <1>1, BatchNumbers, Numbers
<1>3. PICK f \in 1 .. MaxHeight : f = First
  <2>1. /\ Len(batch[1].hash) = First
        /\ batch[1].hash # <<>>
    <3>1. batch[1].hash \in Hash /\ InitAt(batch[1].hash, BatchInit)
      BY <1>1, <1>2 DEF BatchFollows, BatchInit
    <3>2. DOMAIN batch[1].hash # {}
      BY <3>1 DEF InitAt
    <3> QED
      BY <1>1, <1>2, <3>2 DEF BatchFollows
  <2> QED
    BY <1>2, <2>1, ParentIsHash
<1>4. ASSUME NEW n \in 1 .. m
      PROVE  /\ RowFollows(batch[n], f + n - 1)
             /\ Len(batch[n].hash) = f + n - 1
             /\ InitAt(batch[n].hash, IF init = None THEN f ELSE init)
             /\ n # 1 => Parent(batch[n].hash) = batch[n - 1].hash
             /\ n = 1 /\ init # None => Parent(batch[n].hash) = rows[TipHeight].hash
  BY <1>1, <1>2, <1>3 DEF BatchFollows, RowFollows
<1>5. PICK t \in Heights : t = f + m - 1
  <2>1. Len(batch[m].hash) \in Heights
    BY <1>2, HashIsSeq
  <2> QED
    BY <1>2, <1>4, <2>1
<1> HIDE DEF m
<1>6. f \in Nat /\ f >= 1 /\ t \in Nat /\ f <= t /\ t <= MaxHeight /\ f \in 1 .. t
  BY <1>2, <1>3, <1>5
<1>7. ASSUME NEW h \in Heights
      PROVE  rows'[h] = IF h \in f .. t THEN batch[h - f + 1] ELSE rows[h]
  <2>1. \A n \in 1 .. m : Len(batch[n].hash) = h <=> n = h - f + 1
    BY <1>2, <1>4, <1>6
  <2>2. h - f + 1 \in 1 .. m <=> h \in f .. t
    BY <1>2, <1>5, <1>6
  <2>3. CASE h \in f .. t
    <3>1. h - f + 1 \in 1 .. m /\ Len(batch[h - f + 1].hash) = h
      BY <2>1, <2>2, <2>3
    <3>2. (CHOOSE i \in 1 .. m : Len(batch[i].hash) = h) = h - f + 1
      BY <2>1, <3>1
    <3> QED
      BY <1>1, <1>2, <2>3, <3>1, <3>2
  <2>4. CASE h \notin f .. t
    <3>1. ~ \E i \in 1 .. m : Len(batch[i].hash) = h
      BY <2>1, <2>2, <2>4
    <3> QED
      BY <1>1, <1>2, <2>4, <3>1
  <2> QED
    BY <2>3, <2>4
<1>8. \A h \in f .. t : /\ h \in Heights
                        /\ h - f + 1 \in 1 .. m
                        /\ rows'[h] = batch[h - f + 1]
                        /\ rows'[h] \in Row /\ rows'[h] # None
  BY <1>2, <1>5, <1>6, <1>7, NullAssumption
<1>9. rows' \in [Heights -> Row \cup {None}]
  <2>1. \A h \in Heights : rows'[h] \in Row \cup {None}
    BY <1>1, <1>7, <1>8 DEF TypeOK
  <2> QED
    BY <1>1, <2>1
<1>10. \A h : h \in Stored' <=> h \in Stored \/ h \in f .. t
  BY <1>7, <1>8 DEF Stored
<1>11. init' = IF init = None THEN f ELSE init
  BY <1>1, <1>2, <1>4
<1>12. NodeSound' /\ \A r, h : RowFollows(r, h)' = RowFollows(r, h)
  BY <1>1 DEF NodeSound, RowFollows, Seen, BlockHash
<1>13. ASSUME NEW h \in f + 1 .. t
       PROVE  rows'[h - 1].hash = Parent(rows'[h].hash)
  <2> DEFINE n == h - f + 1
  <2>1. /\ h \in f .. t /\ h - 1 \in f .. t
        /\ n # 1 /\ h - 1 - f + 1 = n - 1
    BY <1>6
  <2>2. n \in 1 .. m /\ rows'[h] = batch[n] /\ rows'[h - 1] = batch[n - 1]
    BY <1>8, <2>1
  <2> HIDE DEF n
  <2> QED
    BY <1>4, <2>1, <2>2
<1>14. ASSUME init # None
       PROVE  f = TipHeight + 1
  <2>1. /\ TipHeight \in Nat
        /\ rows[TipHeight] \in Row
        /\ Len(rows[TipHeight].hash) = TipHeight
    BY <1>14, TipIsSeen DEF RowFollows
  <2>2. /\ batch[1].hash \in Hash /\ Len(batch[1].hash) = f
        /\ Parent(batch[1].hash) = rows[TipHeight].hash
    <3>1. 1 \in 1 .. m /\ f + 1 - 1 = f
      BY <1>2, <1>6
    <3>2. /\ Len(batch[1].hash) = f + 1 - 1
          /\ Parent(batch[1].hash) = rows[TipHeight].hash
      BY <1>4, <1>14, <3>1
    <3> QED
      BY <1>2, <3>1, <3>2
  <2>3. batch[1].hash # <<>>
    BY <1>6, <2>2, EmptyIsHash
  <2> QED
    BY <1>6, <2>1, <2>2, <2>3, ParentIsHash
<1>15. TablesHold(t)' /\ init' # None
  <2>1. CASE init = None
    <3>1. init' = f /\ init' # None
      BY <1>6, <1>11, <2>1, SyncAssumption
    <3>2. Stored' = f .. t
      BY <1>1, <1>10, <2>1, TipOfTables
    <3>3. ASSUME NEW h \in f .. t
          PROVE  RowFollows(rows'[h], h) /\ InitAt(rows'[h].hash, f)
      <4> DEFINE n == h - f + 1
      <4>1. n \in 1 .. m /\ rows'[h] = batch[n]
        BY <1>8
      <4>2. f + n - 1 = h
        BY <1>6
      <4> HIDE DEF n
      <4> QED
        BY <1>4, <2>1, <4>1, <4>2
    <3>4. ASSUME NEW h \in f + 1 .. t
          PROVE  rows'[h - 1].hash = Parent(rows'[h].hash)
      BY <1>13, <3>4
    <3> QED
      BY <1>6, <1>12, <3>1, <3>2, <3>3, <3>4 DEF TablesHold
  <2>2. CASE init # None
    <3>1. /\ init \in Nat /\ init >= 1 /\ init <= TipHeight
          /\ TipHeight \in Nat /\ TipHeight <= MaxHeight
          /\ Stored = init .. TipHeight
          /\ TablesHold(TipHeight)
      BY <1>1, <2>2, TipIsSeen, TipOfTables
    <3>2. f = TipHeight + 1
      BY <1>14, <2>2
    <3>3. init' = init
      BY <1>11, <2>2
    <3>4. Stored' = init .. t
      <4>1. \A h : h \in init .. t <=> h \in init .. TipHeight \/ h \in f .. t
        BY <1>6, <3>1, <3>2
      <4>2. \A h : h \in Stored' <=> h \in init .. t
        BY <1>10, <3>1, <4>1, Zenon
      <4> QED
        BY <4>2, Zenon
    <3>5. \A h \in init .. TipHeight : h \in Heights /\ rows'[h] = rows[h]
      <4>1. ASSUME NEW h \in init .. TipHeight
            PROVE  h \in Heights /\ h \notin f .. t
        BY <1>2, <1>6, <3>1, <3>2
      <4> QED
        BY <1>7, <4>1
    <3>6. \A h \in init .. t : h \in init .. TipHeight \/ h \in f .. t
      BY <1>6, <3>1, <3>2
    <3>7. \A h \in init .. t : RowFollows(rows'[h], h) /\ InitAt(rows'[h].hash, init)
      <4>1. \A h \in f .. t : RowFollows(rows'[h], h) /\ InitAt(rows'[h].hash, init)
        <5>1. ASSUME NEW h \in f .. t
              PROVE  f + (h - f + 1) - 1 = h
          BY <1>6
        <5> QED
          BY <1>4, <1>8, <2>2, <5>1
      <4> QED
        BY <3>1, <3>5, <3>6, <4>1 DEF TablesHold
    <3>8. ASSUME NEW h \in init + 1 .. t
          PROVE  rows'[h - 1].hash = Parent(rows'[h].hash)
      <4>1. CASE h <= TipHeight
        <5>1. h \in init + 1 .. TipHeight /\ h \in init .. TipHeight
              /\ h - 1 \in init .. TipHeight
          BY <3>1, <4>1
        <5> QED
          BY <3>1, <3>5, <5>1 DEF TablesHold
      <4>2. CASE h = f
        <5>1. f - f + 1 = 1 /\ f \in f .. t
          BY <1>6
        <5>2. rows'[h] = batch[1]
          BY <1>8, <4>2, <5>1
        <5>3. h - 1 = TipHeight
          BY <3>1, <3>2, <4>2
        <5>4. TipHeight \in init .. TipHeight
          BY <3>1
        <5>5. rows'[h - 1] = rows[TipHeight]
          BY <3>5, <5>3, <5>4
        <5>6. Parent(batch[1].hash) = rows[TipHeight].hash
          BY <1>2, <1>4, <2>2
        <5> QED
          BY <5>2, <5>5, <5>6
      <4>3. CASE h > f
        <5>1. h \in f + 1 .. t
          BY <1>6, <3>1, <4>3
        <5> QED
          BY <1>13, <5>1
      <4> QED
        BY <1>6, <3>1, <3>2, <4>1, <4>2, <4>3
    <3>9. init \in 1 .. t
      BY <1>6, <3>1, <3>2
    <3> QED
      BY <1>12, <2>2, <3>3, <3>4, <3>7, <3>8, <3>9 DEF TablesHold
  <2> QED
    BY <2>1, <2>2
<1>16. TablesSound' /\ init' \in Heights \cup {None}
  BY <1>1, <1>2, <1>6, <1>11, <1>15 DEF TablesSound, TypeOK
<1>17. TipHeight' = t
  <2>1. init' \in Nat /\ init' <= t /\ Stored' = init' .. t /\ t \in Stored'
        /\ \A g \in Stored' : g <= t
    BY <1>6, <1>15 DEF TablesHold
  <2>2. \A h \in Stored' : (\A g \in Stored' : g <= h) => h = t
    BY <2>1, <1>6
  <2> QED
    BY <2>1, <2>2 DEF TipHeight
<1>18. rows'[TipHeight'] = batch[m] /\ TipHeight' # None
  <2>1. t - f + 1 = m /\ t \in f .. t
    BY <1>2, <1>5, <1>6
  <2> QED
    BY <1>6, <1>8, <1>17, <2>1, SyncAssumption
<1>19. batch[m].stateRoot \in Hash
  BY <1>2, <1>4 DEF RowFollows
<1>20. \A h \in Heights : rows[h] # None => rows'[h] # None
  BY <1>7, <1>8
<1>21. \A h \in f .. t : rows[h] = None
  <2>1. ASSUME NEW h \in f .. t
        PROVE  h - f + 1 \in 1 .. m /\ Len(batch[h - f + 1].hash) = h
    <3>1. h - f + 1 \in 1 .. m /\ f + (h - f + 1) - 1 = h
      <4>1. h \in Nat /\ f \in Nat
        BY <1>6
      <4> QED
        BY <1>8, <4>1
    <3>2. Len(batch[h - f + 1].hash) = f + (h - f + 1) - 1
      BY <1>4, <3>1
    <3> QED
      BY <3>1, <3>2
  <2> QED
    BY <1>1, <1>2, <2>1
<1>22. t < f + BatchBlocks
  <2>1. m <= BatchBlocks /\ BatchBlocks \in Nat
    BY <1>1, BatchNumbers, SyncAssumption DEF m, SyncIInv
  <2> QED
    BY <1>2, <1>5, <1>6, <2>1
<1>23. AppendedOnTop
  <2>1. f \in Heights
    BY <1>2, <1>6
  <2>2. \A h \in Heights \ (f .. t) : rows'[h] = rows[h]
    BY <1>7
  <2> QED
    BY <1>5, <1>6, <1>10, <1>11, <1>14, <1>21, <1>22, <2>1, <2>2 DEF AppendedOnTop
<1> QED
  BY <1>9, <1>12, <1>16, <1>18, <1>19, <1>20, <1>23 DEF m

\* The commit of the batch, whether or not its answer arrives.
LEMMA AppendKeepsIInv ==
  ASSUME SyncIInv, AppendToTables, UNCHANGED <<setting, node, stopping, scanCursor>>,
         cache' \in {None, batch[Len(batch)].stateRoot}, EndTick,
         faults' \in 0 .. MaxFaults
  PROVE  SyncIInv'
<1>1. /\ NodeSound' /\ TablesSound'
      /\ rows' \in [Heights -> Row \cup {None}]
      /\ init' \in Heights \cup {None}
      /\ TipHeight' # None
      /\ rows'[TipHeight'] = batch[Len(batch)]
      /\ batch[Len(batch)].stateRoot \in Hash
  BY AppendExtendsTables
<1>2. /\ pc' = "idle" /\ ClearLocals /\ timer' \in BOOLEAN
      /\ TypeOK /\ UNCHANGED <<chain, abandoned, reorgs>>
  BY DEF EndTick, SyncIInv, TypeOK, node
<1>3. TypeOK'
  BY <1>1, <1>2, ClearedIsTyped DEF TypeOK
<1>4. CacheSound'
  BY <1>1 DEF CacheSound
<1> QED
  BY <1>1, <1>2, <1>3, <1>4, IdleIsSound

-----------------------------------------------------------------------------
(***************************************************************************)
(* Every step keeps the invariant.                                         *)
(***************************************************************************)

\* The initial state has it: no block, no table, no cache.
LEMMA InitGivesIInv == Init => SyncIInv
<1> SUFFICES ASSUME Init PROVE SyncIInv
  OBVIOUS
<1> USE DEF Init
<1>1. <<>> \in Hash /\ Len(<<>>) = 0 /\ None \notin Row
  BY EmptyIsHash, NullAssumption
<1>2. batch \in Seq(Row) /\ Len(batch) <= BatchBlocks
  <2>1. <<>> \in Seq(Row) /\ 0 <= BatchBlocks
    BY SyncAssumption, EmptySeq
  <2> QED
    BY <1>1, <2>1, Zenon
<1>3. rows \in [Heights -> Row \cup {None}] /\ fetched \in [Heights -> Hash \cup {None}]
  BY DEF NoBlocks
<1>4. TypeOK
  <2>1. /\ 0 \in 0 .. MaxReorgs /\ 0 \in Heights /\ 0 \in -1 .. MaxHeight + 1
        /\ 0 \in 0 .. ScanPerTick /\ 0 \in 0 .. MaxFaults
    BY SyncAssumption DEF Heights
  <2> QED
    BY <1>1, <1>2, <1>3, <2>1 DEF TypeOK
<1>5. NodeSound
  <2>1. DOMAIN <<>> = {}
    BY HashIsSeq, <1>1
  <2> QED
    BY <2>1 DEF NodeSound, OneInit
<1>6. TablesSound
  BY DEF TablesSound, Stored, NoBlocks
<1>7. CacheSound /\ BatchSound /\ ChunkSound /\ StepSound
  BY DEF CacheSound, BatchSound, Connecting, ChunkSound, StepSound
<1> QED
  BY <1>4, <1>5, <1>6, <1>7 DEF SyncIInv

\* A fault is counted.
LEMMA FaultsInRange ==
  ASSUME SyncIInv, faults' = faults \/ (faults < MaxFaults /\ faults' = faults + 1)
  PROVE  faults' \in 0 .. MaxFaults
BY SyncAssumption DEF SyncIInv, TypeOK

\* A shutdown changes the timer alone.
LEMMA ShutdownKeepsIInv ==
  ASSUME SyncIInv, Shutdown, UNCHANGED setting
  PROVE  SyncIInv'
<1>1. /\ UNCHANGED <<setting, node, tables, pc, cache, scanCursor, nodeHeight>>
      /\ UNCHANGED <<height, ancestor, located, scanned, last, fetched, batch>>
      /\ UNCHANGED <<chain, abandoned, reorgs, rows, init>>
      /\ faults' \in 0 .. MaxFaults
      /\ timer' \in BOOLEAN /\ stopping' \in BOOLEAN
  BY FaultsInRange DEF Shutdown, memory, locals, node, tables
<1>2. TypeOK'
  BY <1>1 DEF SyncIInv, TypeOK
<1>3. SeenStays
  BY <1>1, TablesUntouched DEF SeenStays
<1>4. NodeSound' /\ TablesSound' /\ CacheSound' /\ TipHeight' = TipHeight
  BY <1>1, TablesUntouched
<1>5. BatchSound'
  <2>1. First' = First /\ Connecting' = Connecting
    BY <1>1 DEF First, Connecting
  <2>2. FetchedSound' = FetchedSound
    BY <1>1, TablesUntouched DEF FetchedSound
  <2>3. BatchFollows' = BatchFollows
    BY <1>1, <1>4, <2>1, TablesUntouched DEF BatchFollows
  <2> QED
    BY <1>1, <2>1, <2>2, <2>3 DEF SyncIInv, BatchSound, NoBlocks
<1>6. ChunkSound'
  BY <1>1 DEF SyncIInv, ChunkSound, Chunk
<1>7. StepSound'
  BY <1>1, <1>4, TablesUntouched DEF SyncIInv, StepSound, PassedIsAbandoned, Stored
<1> QED
  BY <1>2, <1>4, <1>5, <1>6, <1>7 DEF SyncIInv

\* A tick that ends without a write, normally or with an error.
LEMMA TickEndsKeepsIInv ==
  ASSUME SyncIInv, EndTick, UNCHANGED <<setting, node, tables, stopping>>,
         cache' \in {cache, None},
         scanCursor' \in 0 .. MaxHeight + 1 \cup {None}, faults' \in 0 .. MaxFaults
  PROVE  SyncIInv'
<1>1. pc' = "idle" /\ ClearLocals /\ timer' \in BOOLEAN /\ stopping' \in BOOLEAN
  BY DEF EndTick, SyncIInv, TypeOK
<1> QED
  BY <1>1, RestKeepsIInv

\* Each step keeps the invariant.
LEMMA NextKeepsIInv == SyncIInv /\ [Next]_vars => SyncIInv'
<1> SUFFICES ASSUME SyncIInv, [Next]_vars PROVE SyncIInv'
  OBVIOUS
<1>1. CASE UNCHANGED vars
  <2>1. /\ UNCHANGED <<setting, chain, abandoned, reorgs, rows, init, pc, timer>>
        /\ UNCHANGED <<stopping, scanCursor, cache, nodeHeight, height, ancestor>>
        /\ UNCHANGED <<located, scanned, last, fetched, batch, faults>>
    BY <1>1 DEF vars, node, tables, memory, locals
  <2>2. TypeOK'
    BY <2>1 DEF SyncIInv, TypeOK
  <2>3. /\ UNCHANGED <<setting, node, tables>>
        /\ cache' \in {cache, None}
    BY <1>1 DEF vars, memory
  <2>4. NodeSound' /\ TablesSound' /\ CacheSound' /\ TipHeight' = TipHeight
    BY <2>3, TablesUntouched
  <2>5. BatchSound'
    <3>1. First' = First /\ Connecting' = Connecting
      BY <2>1 DEF First, Connecting
    <3>2. FetchedSound' = FetchedSound
      BY <2>1, <2>3, TablesUntouched DEF FetchedSound
    <3>3. BatchFollows' = BatchFollows
      BY <2>1, <2>3, <2>4, <3>1, TablesUntouched DEF BatchFollows
    <3> QED
      BY <2>1, <3>1, <3>2, <3>3 DEF SyncIInv, BatchSound, NoBlocks
  <2>6. ChunkSound'
    BY <2>1 DEF SyncIInv, ChunkSound, Chunk
  <2>7. StepSound'
    BY <2>1, <2>3, <2>4, TablesUntouched DEF SyncIInv, StepSound
  <2> QED
    BY <2>2, <2>4, <2>5, <2>6, <2>7 DEF SyncIInv
<1>2. CASE Next
  <2>1. UNCHANGED setting /\ Move
    BY <1>2 DEF Next
  <2>2. /\ scanCursor \in 0 .. MaxHeight + 1 \cup {None}
        /\ faults \in 0 .. MaxFaults
        /\ stopping \in BOOLEAN
    BY DEF SyncIInv, TypeOK
  <2>3. CASE \E b \in Block : ConnectBlock(b)
    BY <2>1, <2>3, ConnectBlockKeepsIInv
  <2>4. CASE \E h \in Heights : DisconnectTo(h)
    BY <2>1, <2>4, DisconnectToKeepsIInv
  <2>5. CASE SyncStep
    <3>1. CASE Tick
      BY <2>1, <3>1, TickKeepsIInv
    <3>2. CASE TipIsOnChain
      BY <2>1, <3>2, TipIsOnChainKeepsIInv
    <3>3. CASE TipIsStale
      BY <2>1, <3>3, TipIsStaleKeepsIInv
    <3>4. CASE NoMatchAtHeight
      BY <2>1, <2>2, <3>4, WalkPastKeepsIInv DEF NoMatchAtHeight
    <3>5. CASE MatchAtHeight
      BY <2>1, <3>5, MatchAtHeightKeepsIInv
    <3>6. CASE RollBack
      BY <2>1, <2>2, <3>6, RollBackKeepsIInv DEF RollBack
    <3>7. CASE HintHits
      BY <2>1, <3>7, HintHitsKeepsIInv
    <3>8. CASE HintMisses
      BY <2>1, <3>8, HintMissesKeepsIInv
    <3>9. CASE LocateConfirmed
      BY <2>1, <3>9, LocateConfirmedKeepsIInv
    <3>10. CASE LocateInMempool
      <4>1. scanCursor' \in 0 .. MaxHeight + 1 \cup {None}
        BY <2>2, <3>10, Numbers DEF SyncIInv, LocateInMempool, Larger
      <4> QED
        BY <2>1, <2>2, <3>10, <4>1, TickEndsKeepsIInv DEF LocateInMempool
    <3>11. CASE LocateUnknown
      BY <2>1, <2>2, <3>11, StartScanKeepsIInv DEF LocateUnknown
    <3>12. CASE ConfirmLocation
      BY <2>1, <3>12, ConfirmLocationKeepsIInv
    <3>13. CASE LocationIsStale
      BY <2>1, <2>2, <3>13, StartScanKeepsIInv DEF LocationIsStale
    <3>14. CASE ScanHit
      BY <2>1, <3>14, ScanHitKeepsIInv
    <3>15. CASE ScanMiss
      BY <2>1, <3>15, ScanMissKeepsIInv
    <3>16. CASE EndScan
      BY <2>1, <2>2, <3>16, TickEndsKeepsIInv DEF EndScan, memory
    <3>17. CASE \E h \in Heights : FetchBlock(h)
      BY <2>1, <3>17, FetchBlockKeepsIInv
    <3>18. CASE BreakBatch
      BY <2>1, <2>2, <3>18, EndBatchKeepsIInv DEF BreakBatch, Reducing, memory
    <3>19. CASE MissInit
      BY <2>1, <2>2, <3>19, EndBatchKeepsIInv DEF MissInit, Reducing
    <3>20. CASE ReduceBlock
      BY <2>1, <3>20, ReduceBlockKeepsIInv
    <3>21. CASE NothingToAppend
      BY <2>1, <2>2, <3>21, TickEndsKeepsIInv DEF NothingToAppend, memory
    <3>22. CASE AppendBatch
      BY <2>1, <2>2, <3>22, AppendKeepsIInv DEF AppendBatch
    <3>23. CASE HeightOutOfRange
      BY <2>1, <2>2, <3>23, TickEndsKeepsIInv DEF HeightOutOfRange, Throw
    <3> QED
      BY <2>5, <3>1, <3>2, <3>3, <3>4, <3>5, <3>6, <3>7, <3>8, <3>9, <3>10, <3>11,
         <3>12, <3>13, <3>14, <3>15, <3>16, <3>17, <3>18, <3>19, <3>20, <3>21,
         <3>22, <3>23 DEF SyncStep
  <2>6. CASE CallFails
    BY <2>1, <2>2, <2>6, FaultsInRange, TickEndsKeepsIInv DEF CallFails, Fault, Throw
  <2>7. CASE WalkCallFails
    <3>1. pc = "walk" /\ "walk" \in setting.faultsAt /\ faults' \in 0 .. MaxFaults
      BY <2>7, FaultsInRange DEF WalkCallFails, Fault
    <3> QED
      BY <2>1, <2>7, <3>1, WalkPastKeepsIInv DEF WalkCallFails
  <2>8. CASE LocateCallFails
    <3>1. pc \in {"locate", "confirm"} /\ faults' \in 0 .. MaxFaults
      BY <2>8, FaultsInRange DEF LocateCallFails, Fault
    <3> QED
      BY <2>1, <2>8, <3>1, StartScanKeepsIInv DEF LocateCallFails
  <2>9. CASE RollbackAnswerLost
    <3>1. faults' \in 0 .. MaxFaults
      BY <2>9, FaultsInRange DEF RollbackAnswerLost, Fault
    <3> QED
      BY <2>1, <2>2, <2>9, <3>1, RollBackKeepsIInv DEF RollbackAnswerLost, Throw
  <2>10. CASE AppendAnswerLost
    <3>1. faults' \in 0 .. MaxFaults
      BY <2>10, FaultsInRange DEF AppendAnswerLost, Fault
    <3> QED
      BY <2>1, <2>10, <3>1, AppendKeepsIInv DEF AppendAnswerLost, Throw
  <2>11. CASE Shutdown
    BY <2>1, <2>11, ShutdownKeepsIInv
  <2>12. CASE Restart
    BY <2>1, <2>2, <2>12, RestKeepsIInv DEF Restart, Bootstrap
  <2>13. CASE Crash
    BY <2>1, <2>13, FaultsInRange, RestKeepsIInv DEF Crash, Bootstrap
  <2> QED
    BY <2>1, <2>3, <2>4, <2>5, <2>6, <2>7, <2>8, <2>9, <2>10, <2>11, <2>12, <2>13
    DEF Move
<1> QED
  BY <1>1, <1>2

\* syncOnce and its store keep the inductive invariant, for every node, batch
\* size, fetch concurrency and pattern of failures.
THEOREM SyncInvariant == Spec => []SyncIInv
BY InitGivesIInv, NextKeepsIInv, PTL DEF Spec

\* The state of SyncService has its types.
THEOREM SyncTypeCorrect == Spec => []TypeOK
<1>1. SyncIInv => TypeOK
  BY DEF SyncIInv
<1> QED
  BY <1>1, SyncInvariant, PTL

\* What the tables hold is one branch from an INIT block up, and each row's
\* roots come from that branch alone: appendBlocks never mixes two branches.
THEOREM StoredChainAlwaysOneBranch == Spec => []StoredChainIsOneBranch
<1>1. SyncIInv => StoredChainIsOneBranch
  <2> SUFFICES ASSUME SyncIInv PROVE StoredChainIsOneBranch
    OBVIOUS
  <2>1. CASE init = None
    BY <2>1, TipOfTables DEF SyncIInv, StoredChainIsOneBranch
  <2>2. CASE init # None
    <3>1. /\ init \in Nat /\ init >= 1 /\ init <= TipHeight
          /\ TipHeight \in Nat
          /\ Stored = init .. TipHeight
          /\ TablesHold(TipHeight)
          /\ TypeOK
      BY <2>2, TipIsSeen, TipOfTables DEF SyncIInv
    <3>2. Stored # {}
      BY <3>1
    <3>3. ASSUME NEW h \in Stored
          PROVE  /\ RowFollows(rows[h], h)
                 /\ IF h = init THEN HasInit(rows[h].hash)
                    ELSE h - 1 \in Stored /\ rows[h - 1].hash = Parent(rows[h].hash)
      <4>1. h \in init .. TipHeight /\ rows[h] \in Row /\ rows[h].hash \in Hash
        BY <3>1, <3>3 DEF Stored, TypeOK, Row
      <4>2. RowFollows(rows[h], h) /\ InitAt(rows[h].hash, init)
        BY <3>1, <4>1 DEF TablesHold
      <4>3. CASE h = init
        <5>1. rows[h].hash # <<>>
          BY <3>1, <4>1, <4>2, <4>3, EmptyIsHash DEF RowFollows
        <5> QED
          BY <4>2, <4>3, <5>1 DEF HasInit, RowFollows, InitAt
      <4>4. CASE h # init
        <5>1. h \in init + 1 .. TipHeight /\ h - 1 \in init .. TipHeight
          BY <3>1, <4>1, <4>4
        <5> QED
          BY <3>1, <4>2, <4>4, <5>1 DEF TablesHold
      <4> QED
        BY <4>2, <4>3, <4>4
    <3> QED
      BY <2>2, <3>2, <3>3 DEF StoredChainIsOneBranch, RowFollows
  <2> QED
    BY <2>1, <2>2
<1> QED
  BY <1>1, SyncInvariant, PTL

\* this.objects is null or the stored tip's map: after a failed commit, a lost
\* answer, a rollback or a restart no block is reduced into another map.
THEOREM CacheAlwaysFollowsTip == Spec => []CacheFollowsTip
<1>1. SyncIInv => CacheFollowsTip
  BY DEF SyncIInv, CacheSound, CacheFollowsTip
<1> QED
  BY <1>1, SyncInvariant, PTL

\* The tables change in two calls of the store only.
LEMMA StoreCalls ==
  ASSUME [Next]_vars, tables' # tables
  PROVE  \/ RollBackTables /\ UNCHANGED <<setting, node>>
         \/ AppendToTables /\ UNCHANGED <<setting, node>>
<1>1. Move /\ UNCHANGED setting
  BY DEF Next, vars
<1>2. CASE SyncStep
  <2>1. \/ RollBackTables /\ UNCHANGED node
        \/ AppendToTables /\ UNCHANGED node
    BY <1>2 DEF SyncStep, Tick, TipIsOnChain, Connect, TipIsStale,
       NoMatchAtHeight, WalkPast, MatchAtHeight, RollBack, HintHits, HintMisses,
       LocateConfirmed, LocateInMempool, LocateUnknown, StartScan,
       ConfirmLocation, LocationIsStale, ScanHit, ScanMiss, EndScan, FetchBlock,
       BreakBatch, MissInit, ReduceBlock, NothingToAppend, AppendBatch,
       HeightOutOfRange, tables
  <2> QED
    BY <1>1, <2>1
<1>3. CASE ~SyncStep
  <2>1. \/ RollbackAnswerLost \/ AppendAnswerLost
        \/ \E b \in Block : ConnectBlock(b)
        \/ \E h \in Heights : DisconnectTo(h)
        \/ CallFails \/ WalkCallFails \/ LocateCallFails
        \/ Shutdown \/ Restart \/ Crash
    BY <1>1, <1>3 DEF Move
  <2>2. RollbackAnswerLost \/ AppendAnswerLost
    BY <2>1 DEF ConnectBlock, DisconnectTo, CallFails, WalkCallFails, WalkPast,
       LocateCallFails, StartScan, Shutdown, Restart, Crash, Bootstrap, tables
  <2> QED
    BY <1>1, <2>2 DEF RollbackAnswerLost, AppendAnswerLost
<1> QED
  BY <1>2, <1>3

\* A rollback deletes abandoned blocks only, whatever fails, as long as no
\* getBlockHash of rollbackToCommonAncestor does.
THEOREM RollbackAlwaysExactIfWalkAnswers == Spec => RollbackIsExactIfWalkAnswers
<1>1. SyncIInv /\ [Next]_vars =>
        [("walk" \in setting.faultsAt) \/ OnlyAbandonedRowsGo]_rows
  <2> SUFFICES ASSUME SyncIInv, [Next]_vars, rows' # rows
               PROVE  ("walk" \in setting.faultsAt) \/ OnlyAbandonedRowsGo
    OBVIOUS
  <2>1. \/ RollBackTables /\ UNCHANGED <<setting, node>>
        \/ AppendToTables /\ UNCHANGED <<setting, node>>
    <3>1. tables' # tables
      BY DEF tables
    <3> QED
      BY <3>1, StoreCalls
  <2>2. CASE RollBackTables
    <3>1. /\ PassedIsAbandoned(ancestor)
          /\ rows' = [h \in Heights |-> IF h > ancestor THEN None ELSE rows[h]]
      BY <2>2 DEF RollBackTables, SyncIInv, StepSound
    <3> QED
      BY <3>1 DEF PassedIsAbandoned, Stored, OnlyAbandonedRowsGo
  <2>3. CASE AppendToTables /\ UNCHANGED <<setting, node>>
    BY <2>3, AppendExtendsTables DEF OnlyAbandonedRowsGo
  <2> QED
    BY <2>1, <2>2, <2>3
<1> QED
  BY <1>1, SyncInvariant, PTL DEF Spec, RollbackIsExactIfWalkAnswers

-----------------------------------------------------------------------------
(***************************************************************************)
(* The store as the loop uses it.                                          *)
(***************************************************************************)
\* What is stored, in a row of the heights.
LEMMA StoredRange ==
  ASSUME SyncIInv
  PROVE  /\ MaxHeight \in Nat /\ Heights = 0 .. MaxHeight
         /\ rows \in [Heights -> Row \cup {None}]
         /\ init = None => Stored = {}
         /\ init # None => /\ init \in Nat /\ TipHeight \in Nat
                           /\ init <= TipHeight
                           /\ Stored = init .. TipHeight
<1>1. TypeOK /\ TablesSound
  BY DEF SyncIInv
<1>2. MaxHeight \in Nat /\ Heights = 0 .. MaxHeight
  BY <1>1, Numbers
<1>3. rows \in [Heights -> Row \cup {None}]
  BY <1>1 DEF TypeOK
<1>4. init = None => Stored = {}
  BY <1>1 DEF TablesSound
<1>5. ASSUME init # None
      PROVE  /\ init \in Nat /\ TipHeight \in Nat
             /\ init <= TipHeight
             /\ Stored = init .. TipHeight
  BY <1>5, TipIsSeen
<1> QED
  BY <1>2, <1>3, <1>4, <1>5

\* Tables that agree below a height hold the same below it.
LEMMA SameBelow ==
  ASSUME NEW h, \A g \in Heights : g < h => rows'[g] = rows[g],
         (IF init' < h THEN init' ELSE None) = (IF init < h THEN init ELSE None)
  PROVE  Below(h)' = Below(h)
<1>1. [g \in Heights |-> IF g < h THEN rows'[g] ELSE None]
        = [g \in Heights |-> IF g < h THEN rows[g] ELSE None]
  OBVIOUS
<1> QED
  BY <1>1 DEF Below

\* appendBlocks puts the batch on top.
LEMMA AppendIsAppend ==
  ASSUME SyncIInv, AppendToTables, UNCHANGED <<setting, node>>
  PROVE  Store!Append
<1>1. AppendedOnTop
  BY AppendExtendsTables
<1>2. PICK f \in Heights, t \in Heights :
        /\ f <= t /\ t < f + BatchBlocks
        /\ \A h \in f .. t : rows[h] = None
        /\ \A h \in Heights \ (f .. t) : rows'[h] = rows[h]
        /\ \A h \in Heights : h \in Stored' <=> h \in Stored \/ h \in f .. t
        /\ init # None => f = TipHeight + 1
        /\ init' = IF init = None THEN f ELSE init
  BY <1>1 DEF AppendedOnTop
<1>3. /\ MaxHeight \in Nat /\ Heights = 0 .. MaxHeight
      /\ rows \in [Heights -> Row \cup {None}]
      /\ init = None => Stored = {}
      /\ init # None => /\ init \in Nat /\ TipHeight \in Nat
                        /\ init <= TipHeight
                        /\ Stored = init .. TipHeight
  BY StoredRange
<1>4. /\ f \in Nat /\ t \in Nat /\ f .. t \subseteq Heights
      /\ None \notin Nat
  BY <1>2, <1>3, SyncAssumption
<1>5. \A h \in Stored : h \in Nat /\ h < f
  <2>1. CASE init = None
    BY <1>3, <2>1
  <2>2. CASE init # None
    BY <1>2, <1>3, <2>2
  <2> QED
    BY <2>1, <2>2
<1>6. Stored # {} => f - 1 \in Stored
  BY <1>2, <1>3
<1>7. Stored' = Stored \cup (f .. t)
  <2>1. Stored \subseteq Heights /\ Stored' \subseteq Heights
    BY DEF Stored
  <2>2. \A h : h \in Stored' <=> h \in Stored \cup (f .. t)
    BY <1>2, <1>4, <2>1
  <2> QED
    BY <2>2, Zenon
<1>8. \A g \in Heights : g < f => rows'[g] = rows[g]
  BY <1>2, <1>3, <1>4
<1>9. \A h \in Stored : Below(h)' = Below(h)
  <2>1. ASSUME NEW h \in Stored
        PROVE  Below(h)' = Below(h)
    <3>1. h \in Nat /\ h < f /\ init # None
      BY <1>3, <1>5
    <3>2. init' = init
      BY <1>2, <3>1
    <3>3. \A g \in Heights : g < h => rows'[g] = rows[g]
      BY <1>3, <1>4, <1>8, <3>1
    <3> QED
      BY <3>2, <3>3, SameBelow
  <2> QED
    BY <2>1
<1>10. Below(f)' = [rows |-> rows, init |-> init]
  <2>1. \A g \in Heights : rows[g] = IF g < f THEN rows'[g] ELSE None
    <3>1. ASSUME NEW g \in Heights, ~(g < f)
          PROVE  rows[g] = None
      <4>1. g \notin Stored
        BY <1>5, <3>1
      <4> QED
        BY <3>1, <4>1 DEF Stored
    <3> QED
      BY <1>8, <3>1
  <2>2. rows = [g \in Heights |-> IF g < f THEN rows'[g] ELSE None]
    BY <1>3, <2>1
  <2>3. init = IF init' < f THEN init' ELSE None
    <3>1. CASE init = None
      BY <1>2, <1>4, <3>1
    <3>2. CASE init # None
      BY <1>2, <1>3, <1>4, <3>2
    <3> QED
      BY <3>1, <3>2
  <2> QED
    BY <2>2, <2>3 DEF Below
<1> DEFINE old == [h \in Stored |-> Below(h)]
           new == [h \in Stored' |-> Below(h)']
<1>11. /\ DOMAIN old = Stored
       /\ DOMAIN new = Stored \cup (f .. t)
       /\ f \in DOMAIN new
       /\ new[f] = [rows |-> rows, init |-> init]
  <2>1. f \in Stored'
    BY <1>2, <1>4, <1>7
  <2> QED
    BY <1>7, <1>10, <2>1
<1>12. new = [h \in DOMAIN new |-> IF h \in DOMAIN old THEN old[h] ELSE new[h]]
  <2>1. \A h \in Stored' : new[h] = IF h \in Stored THEN old[h] ELSE new[h]
    BY <1>9
  <2> QED
    BY <2>1
<1> HIDE DEF old, new
<1>13. \E first, top \in Heights :
         /\ first <= top /\ top < first + BatchBlocks
         /\ \A h \in DOMAIN old : h < first
         /\ DOMAIN old # {} => first - 1 \in DOMAIN old
         /\ DOMAIN new = DOMAIN old \cup (first .. top)
         /\ new = [h \in DOMAIN new |-> IF h \in DOMAIN old THEN old[h] ELSE new[h]]
         /\ new[first] = [rows |-> rows, init |-> init]
  <2> f \in Heights /\ t \in Heights
    OBVIOUS
  <2> WITNESS f \in Heights, t \in Heights
  <2> QED
    BY <1>2, <1>5, <1>6, <1>11, <1>12
<1> QED
  BY <1>13 DEF Store!Append, Store!Stored, old, new

\* store.rollback removes what is above the ancestor.
LEMMA RollBackIsRollback ==
  ASSUME SyncIInv, RollBackTables, tables' # tables
  PROVE  Store!Rollback
<1>1. /\ init # None /\ ancestor \in Heights /\ ancestor >= init - 1
      /\ rows' = [h \in Heights |-> IF h > ancestor THEN None ELSE rows[h]]
      /\ init' = IF init > ancestor THEN None ELSE init
  BY DEF SyncIInv, StepSound, RollBackTables
<1>2. /\ MaxHeight \in Nat /\ Heights = 0 .. MaxHeight
      /\ rows \in [Heights -> Row \cup {None}]
      /\ init \in Nat /\ TipHeight \in Nat
      /\ init <= TipHeight
      /\ Stored = init .. TipHeight
  BY <1>1, StoredRange
<1>3. ancestor \in Nat
  BY <1>1, <1>2
<1>4. ancestor < TipHeight
  <2>1. ASSUME ancestor >= TipHeight
        PROVE  tables' = tables
    <3>1. ASSUME NEW h \in Heights, h > ancestor
          PROVE  rows[h] = None
      <4>1. h \notin Stored
        BY <1>2, <1>3, <2>1, <3>1
      <4> QED
        BY <4>1 DEF Stored
    <3>2. rows' = rows
      BY <1>1, <1>2, <3>1
    <3>3. init' = init
      BY <1>1, <1>2, <1>3, <2>1
    <3> QED
      BY <3>2, <3>3 DEF tables
  <2> QED
    BY <1>2, <1>3, <2>1
<1> DEFINE lowest == ancestor + 1
<1>5. /\ lowest \in Stored
      /\ \A h \in Heights : h < lowest <=> ~(h > ancestor)
      /\ init < lowest <=> ~(init > ancestor)
  BY <1>1, <1>2, <1>3, <1>4
<1> HIDE DEF lowest
<1>6. [rows |-> rows', init |-> init'] = Below(lowest)
  BY <1>1, <1>5 DEF Below
<1>7. Stored' = {h \in Stored : h < lowest}
  <2>1. ASSUME NEW h \in Heights
        PROVE  rows'[h] # None <=> rows[h] # None /\ h < lowest
    BY <1>1, <1>5
  <2> QED
    BY <2>1 DEF Stored
<1>8. \A h \in Stored' : Below(h)' = Below(h)
  <2>1. ASSUME NEW h \in Stored'
        PROVE  Below(h)' = Below(h)
    <3>1. h \in Nat /\ init <= h /\ h <= ancestor
      BY <1>2, <1>3, <1>7 DEF lowest
    <3>2. init' = init
      BY <1>1, <1>2, <1>3, <3>1
    <3>3. \A g \in Heights : g < h => rows'[g] = rows[g]
      BY <1>1, <1>2, <1>3, <3>1
    <3> QED
      BY <3>2, <3>3, SameBelow
  <2> QED
    BY <2>1
<1> DEFINE old == [h \in Stored |-> Below(h)]
           new == [h \in Stored' |-> Below(h)']
<1>9. DOMAIN old = Stored /\ old[lowest] = Below(lowest)
  BY <1>5
<1>10. new = [h \in {g \in DOMAIN old : g < lowest} |-> old[h]]
  BY <1>7, <1>8
<1> HIDE DEF old, new
<1>11. \E low \in DOMAIN old :
         /\ [rows |-> rows', init |-> init'] = old[low]
         /\ new = [h \in {g \in DOMAIN old : g < low} |-> old[h]]
  BY <1>5, <1>6, <1>9, <1>10
<1> QED
  BY <1>11 DEF Store!Rollback, Store!Stored, old, new

\* syncOnce uses the tables as the stack that IndexerStore implements: it
\* appends at most a batch above the tip and removes what is above an ancestor,
\* whatever fails, is lost, stops or restarts.
THEOREM SyncUsesBlockStore == Spec => UsesBlockStore
<1>1. Init => Store!Init
  <2> SUFFICES ASSUME Init PROVE Store!Init
    OBVIOUS
  <2>1. rows = NoBlocks /\ init = None
    BY DEF Init
  <2>2. Stored = {}
    BY <2>1 DEF Stored, NoBlocks
  <2>3. [h \in Stored |-> Below(h)] = [h \in {} |-> [rows |-> NoBlocks, init |-> None]]
    BY <2>2
  <2> QED
    BY <2>1, <2>3 DEF Store!Init
<1>2. SyncIInv /\ [Next]_vars => [Store!Next]_(Store!storeVars)
  <2> SUFFICES ASSUME SyncIInv, [Next]_vars
               PROVE  Store!Next \/ UNCHANGED Store!storeVars
    OBVIOUS
  <2>1. CASE tables' = tables
    <3>1. rows' = rows /\ init' = init
      BY <2>1 DEF tables
    <3>2. Stored' = Stored /\ \A h : Below(h)' = Below(h)
      BY <3>1 DEF Stored, Below
    <3>3. [h \in Stored' |-> Below(h)'] = [h \in Stored |-> Below(h)]
      BY <3>2
    <3> QED
      BY <3>1, <3>3 DEF Store!storeVars
  <2>2. CASE tables' # tables
    <3>1. CASE RollBackTables
      BY <2>2, <3>1, RollBackIsRollback DEF Store!Next
    <3>2. CASE AppendToTables /\ UNCHANGED <<setting, node>>
      BY <3>2, AppendIsAppend DEF Store!Next
    <3> QED
      BY <2>2, <3>1, <3>2, StoreCalls
  <2> QED
    BY <2>1, <2>2
<1> QED
  BY <1>1, <1>2, SyncInvariant, PTL DEF Spec, UsesBlockStore, Store!Spec
=============================================================================
