-------------------------------- MODULE Sync --------------------------------
(***************************************************************************)
(* The sync loop of src/indexer/sync.service.ts against a Bitcoin Core     *)
(* node whose chain grows and is disconnected between any two RPC calls.   *)
(* An action is the answer of a call and what the loop does until the next *)
(* one it waits for, which `pc` names; reads of the tables, which only     *)
(* this loop writes, belong to the call before them.  A call can fail, the *)
(* answer to a commit can be lost, and the process can stop or crash and   *)
(* come back.                                                              *)
(*                                                                         *)
(* A block's hash commits to its ancestors, so a hash is the sequence of   *)
(* the blocks up to it and its height the length of that sequence.  The    *)
(* object map and the chained root that a block leaves are functions of    *)
(* the chain from the INIT, so each is named by the hash of the last block *)
(* reduced into it, and reducing a block into the wrong map is Corrupt.    *)
(* What a block does to the map is in BlockReducer, how the tables keep it *)
(* in IndexerStore.                                                        *)
(***************************************************************************)
EXTENDS Integers, FiniteSets, Sequences

CONSTANTS
  Fork,         \* blocks without the INIT, told apart to compete
  InitBlock,    \* the block with the INIT
  None,         \* null
  Corrupt,      \* a map or root reduced from the wrong predecessor
  BatchBlocks,  \* sync.batchBlocks: blocks committed in one transaction
  FetchConcurrency, \* sync.fetchConcurrency: blocks fetched at a time
  ScanDepth,    \* sync.initScanDepth: how far back the INIT scan starts
  ScanPerTick,  \* MAX_INIT_SCAN_PER_TICK
  Settings,     \* the deployments of this instance, one per behavior
  MaxHeight,    \* bound: the node's chain ends here
  MaxReorgs,    \* bound: times the node disconnects blocks
  MaxFaults     \* bound: failed calls, crashes and shutdowns

Call == {"tip", "walk", "rollback", "hint", "locate", "confirm", "scan",
         "fetch", "append"}

ASSUME SyncAssumption ==
  /\ {ScanDepth, MaxHeight, MaxReorgs, MaxFaults} \subseteq Nat
  /\ {BatchBlocks, FetchConcurrency, ScanPerTick} \subseteq Nat \ {0}
  /\ None \notin Nat

\* initHint: deployment.initHeight, or None; txIndex: whether the node can
\* locate a confirmed transaction; faultsAt: the calls that may fail.
Setting == [initHint : Nat \cup {None}, txIndex : BOOLEAN, faultsAt : SUBSET Call]

ASSUME SettingsAssumption == Settings \subseteq Setting

VARIABLES
  setting,      \* the deployment, fixed from the start
  \* The node.
  chain,        \* its active chain above genesis
  abandoned,    \* hashes of the blocks it has ever disconnected
  reorgs,       \* times it has disconnected blocks
  \* The tables.
  rows,         \* tandem_blocks, by height
  init,         \* tandem_init: the height of the confirmed INIT, or None
  \* SyncService.
  pc,           \* "idle", "reduce", or the call syncOnce waits for
  timer,        \* a tick is scheduled
  stopping,     \* onModuleDestroy has run
  scanCursor,   \* next height of the INIT scan, or None
  cache,        \* this.objects: an object map, or None
  \* The locals of syncOnce and of what it calls.
  nodeHeight,   \* info.blocks
  height,       \* the height the current loop is at
  ancestor,     \* rollbackToCommonAncestor's result
  located,      \* the block hash the node gave for the INIT
  scanned,      \* blocks scanned in this tick
  last,         \* lastHeight of connectBatch
  fetched,      \* the blocks of the current chunk, by height
  batch,        \* the reduced blocks
  faults        \* failed calls, crashes and shutdowns so far

node == <<chain, abandoned, reorgs>>
tables == <<rows, init>>
memory == <<scanCursor, cache>>
locals == <<nodeHeight, height, ancestor, located, scanned, last, fetched,
            batch>>
vars == <<setting, node, tables, pc, timer, stopping, memory, locals, faults>>

Heights == 0 .. MaxHeight

-----------------------------------------------------------------------------
(***************************************************************************)
(* Blocks, hashes and what is reduced from them.                           *)
(***************************************************************************)
Block == Fork \cup {InitBlock}

Hash == UNION {[1 .. h -> Block] : h \in Heights}

Prefix(c, h) == SubSeq(c, 1, h)

\* getBlockHash, for a height the node has.
BlockHash(h) == Prefix(chain, h)

Parent(hash) == Prefix(hash, Len(hash) - 1)

HasInit(hash) == hash # <<>> /\ hash[Len(hash)] = InitBlock

InitOn(c) == {h \in DOMAIN c : c[h] = InitBlock}

\* The map before the INIT.
Empty == <<>>

\* reduceBlock: the INIT block starts from the empty map, any other block
\* from its parent's.
Reduce(map, hash) ==
  IF map = IF HasInit(hash) THEN Empty ELSE Parent(hash)
  THEN hash ELSE Corrupt

Row == [hash : Hash, stateRoot : Hash \cup {Corrupt},
        chainedRoot : Hash \cup {Corrupt}]

\* null is neither a hash nor a row.
ASSUME NullAssumption == None \notin Hash /\ None \notin Row

Stored == {h \in Heights : rows[h] # None}

\* canonicalTip; only this loop writes, so its answer is still right later.
TipHeight == IF Stored = {} THEN None
             ELSE CHOOSE h \in Stored : \A g \in Stored : g <= h

\* The node has the stored block of this height on its chain.
OnChain(h) == h <= Len(chain) /\ rows[h].hash = BlockHash(h)

NoBlocks == [h \in Heights |-> None]

Smaller(a, b) == IF a < b THEN a ELSE b
Larger(a, b) == IF a < b THEN b ELSE a

-----------------------------------------------------------------------------
(***************************************************************************)
(* The node (external): it connects blocks, at most one of which carries   *)
(* the INIT, and disconnects them; a reorganization is both.               *)
(***************************************************************************)
ConnectBlock(b) ==
  /\ Len(chain) < MaxHeight
  /\ b = InitBlock => InitOn(chain) = {}
  /\ chain' = Append(chain, b)
  /\ UNCHANGED <<abandoned, reorgs, tables, pc, timer, stopping, memory, locals,
                 faults>>

DisconnectTo(h) ==
  /\ reorgs < MaxReorgs
  /\ h < Len(chain)
  /\ chain' = Prefix(chain, h)
  /\ abandoned' = abandoned \cup {BlockHash(g) : g \in h + 1 .. Len(chain)}
  /\ reorgs' = reorgs + 1
  /\ UNCHANGED <<tables, pc, timer, stopping, memory, locals, faults>>

-----------------------------------------------------------------------------
(***************************************************************************)
(* The start and the end of a tick.                                        *)
(***************************************************************************)
ClearLocals ==
  /\ nodeHeight' = 0
  /\ height' = 0
  /\ ancestor' = None
  /\ located' = None
  /\ scanned' = 0
  /\ last' = 0
  /\ fetched' = NoBlocks
  /\ batch' = <<>>

\* The finally of tick: schedule does nothing once stopping.
EndTick ==
  /\ pc' = "idle"
  /\ timer' = ~stopping
  /\ ClearLocals

\* The catch of tick drops the cache.
Throw == EndTick /\ cache' = None

-----------------------------------------------------------------------------
(***************************************************************************)
(* syncOnce up to the choice between rolling back and connecting.          *)
(***************************************************************************)
\* The timer fires; getBlockchainInfo, loadActivation and canonicalTip.
Tick ==
  /\ pc = "idle"
  /\ timer
  /\ timer' = FALSE
  /\ nodeHeight' = Len(chain)
  /\ pc' = IF init = None THEN "hint" ELSE "tip"
  /\ UNCHANGED <<node, tables, stopping, memory, height, ancestor, located,
                 scanned, last, fetched, batch, faults>>

\* Mutant: the chunk loop stops before the last block.
NextChunk_LastSkipped(h, l) == IF h < l /\ ~stopping THEN "fetch" ELSE "append"

\* The condition of connectBatch's chunk loop, which sees a shutdown.
NextChunk(h, l) == IF h <= l /\ ~stopping THEN "fetch" ELSE "append"

\* Mutant: the batch takes one block too many.
Connect_OneMore(first) ==
  /\ height' = first
  /\ last' = Smaller(nodeHeight, first + BatchBlocks)
  /\ cache' = IF cache # None THEN cache
              ELSE IF TipHeight = None THEN Empty ELSE rows[TipHeight].stateRoot
  /\ pc' = NextChunk(first, last')
  /\ nodeHeight' = 0 /\ located' = None /\ scanned' = 0
  /\ UNCHANGED <<node, tables, timer, stopping, scanCursor, ancestor, fetched,
                 batch, faults>>

\* Entry of connectBatch.  loadObjects: the cached map, or the tables' map
\* into the cache.
Connect(first) ==
  /\ height' = first
  /\ last' = Smaller(nodeHeight, first + BatchBlocks - 1)
  /\ cache' = IF cache # None THEN cache
              ELSE IF TipHeight = None THEN Empty ELSE rows[TipHeight].stateRoot
  /\ pc' = NextChunk(first, last')
  /\ nodeHeight' = 0 /\ located' = None /\ scanned' = 0 \* not read again
  /\ UNCHANGED <<node, tables, timer, stopping, scanCursor, ancestor, fetched,
                 batch, faults>>

TipIsOnChain ==
  /\ pc = "tip"
  /\ TipHeight <= nodeHeight
  /\ OnChain(TipHeight)
  /\ Connect(TipHeight + 1)

TipIsStale ==
  /\ pc = "tip"
  /\ \/ TipHeight > nodeHeight
     \/ TipHeight <= Len(chain) /\ ~OnChain(TipHeight)
  /\ height' = TipHeight - 1
  /\ pc' = "walk"
  /\ nodeHeight' = 0 \* not read again
  /\ UNCHANGED <<node, tables, timer, stopping, memory, ancestor,
                 located, scanned, last, fetched, batch, faults>>

-----------------------------------------------------------------------------
(***************************************************************************)
(* rollbackToCommonAncestor.  A getBlockHash that fails, for whatever      *)
(* reason, counts as a mismatch.                                           *)
(***************************************************************************)
WalkPast ==
  /\ height >= init
  /\ height' = height - 1
  /\ UNCHANGED <<node, tables, pc, timer, stopping, memory, nodeHeight, ancestor,
                 located, scanned, last, fetched, batch>>

NoMatchAtHeight ==
  /\ pc = "walk"
  /\ height >= init
  /\ ~OnChain(height)
  /\ WalkPast
  /\ UNCHANGED faults

\* Mutant: the walk stops one block too low.
MatchAtHeight_BelowMatch ==
  /\ pc = "walk"
  /\ IF height < init THEN ancestor' = init - 1
     ELSE OnChain(height) /\ ancestor' = height - 1
  /\ pc' = "rollback"
  /\ UNCHANGED <<node, tables, timer, stopping, memory, nodeHeight, height,
                 located, scanned, last, fetched, batch, faults>>

MatchAtHeight ==
  /\ pc = "walk"
  /\ IF height < init THEN ancestor' = init - 1
     ELSE OnChain(height) /\ ancestor' = height
  /\ pc' = "rollback"
  /\ UNCHANGED <<node, tables, timer, stopping, memory, nodeHeight, height,
                 located, scanned, last, fetched, batch, faults>>

\* getBlockchainInfo for the journal row, and store.rollback in one
\* transaction; deleting the INIT's block cascades.
RollBackTables ==
  /\ pc = "rollback"
  /\ rows' = [h \in Heights |-> IF h > ancestor THEN None ELSE rows[h]]
  /\ init' = IF init > ancestor THEN None ELSE init

\* Mutant: the cached map survives the rollback.
RollBack_KeepCache ==
  /\ RollBackTables
  /\ scanCursor' = None
  /\ EndTick
  /\ UNCHANGED <<node, stopping, cache, faults>>

RollBack ==
  /\ RollBackTables
  /\ cache' = None
  /\ scanCursor' = None
  /\ EndTick
  /\ UNCHANGED <<node, stopping, faults>>

-----------------------------------------------------------------------------
(***************************************************************************)
(* locateInit.                                                             *)
(***************************************************************************)
HintedHeight ==
  IF setting.initHint = None THEN MaxHeight + 1 ELSE setting.initHint

HintHits ==
  /\ pc = "hint"
  /\ HintedHeight <= Smaller(nodeHeight, Len(chain))
  /\ HasInit(BlockHash(HintedHeight))
  /\ Connect(HintedHeight)

HintMisses ==
  /\ pc = "hint"
  /\ \/ HintedHeight > nodeHeight
     \/ HintedHeight <= Len(chain) /\ ~HasInit(BlockHash(HintedHeight))
  /\ pc' = "locate"
  /\ UNCHANGED <<node, tables, timer, stopping, memory, locals, faults>>

\* With txindex the node names the block of a confirmed INIT.
LocateConfirmed ==
  /\ pc = "locate"
  /\ setting.txIndex
  /\ InitOn(chain) # {}
  /\ \E h \in InitOn(chain) : located' = BlockHash(h)
  /\ pc' = "confirm"
  /\ UNCHANGED <<node, tables, timer, stopping, memory, nodeHeight, height,
                 ancestor, scanned, last, fetched, batch, faults>>

LocateInMempool ==
  /\ pc = "locate"
  /\ InitOn(chain) = {}
  /\ scanCursor' = IF scanCursor = None THEN nodeHeight
                   ELSE Larger(scanCursor, nodeHeight)
  /\ EndTick
  /\ UNCHANGED <<node, tables, stopping, cache, faults>>

StartScan ==
  /\ scanCursor' = IF scanCursor = None THEN Larger(0, nodeHeight - ScanDepth)
                   ELSE scanCursor
  /\ pc' = "scan"
  /\ UNCHANGED <<node, tables, timer, stopping, cache, nodeHeight, height,
                 ancestor, located, scanned, last, fetched, batch>>

LocateUnknown ==
  /\ pc = "locate"
  /\ ~setting.txIndex \/ InitOn(chain) = {}
  /\ StartScan
  /\ UNCHANGED faults

\* getBlockHeader: only a block of the active chain has confirmations.
ConfirmLocation ==
  /\ pc = "confirm"
  /\ located = BlockHash(Smaller(Len(located), Len(chain)))
  /\ Connect(Len(located))

LocationIsStale ==
  /\ pc = "confirm"
  /\ located # BlockHash(Smaller(Len(located), Len(chain)))
  /\ StartScan
  /\ UNCHANGED faults

Scanning == scanCursor <= nodeHeight /\ scanned < ScanPerTick

ScanHit ==
  /\ pc = "scan"
  /\ Scanning
  /\ scanCursor <= Len(chain)
  /\ HasInit(BlockHash(scanCursor))
  /\ Connect(scanCursor)

ScanMiss ==
  /\ pc = "scan"
  /\ Scanning
  /\ scanCursor <= Len(chain)
  /\ ~HasInit(BlockHash(scanCursor))
  /\ scanCursor' = scanCursor + 1
  /\ scanned' = scanned + 1
  /\ UNCHANGED <<node, tables, pc, timer, stopping, cache, nodeHeight, height,
                 ancestor, located, last, fetched, batch, faults>>

EndScan ==
  /\ pc = "scan"
  /\ ~Scanning
  /\ EndTick
  /\ UNCHANGED <<node, tables, stopping, memory, faults>>

-----------------------------------------------------------------------------
(***************************************************************************)
(* connectBatch.                                                           *)
(***************************************************************************)
Chunk == height .. Smaller(last, height + FetchConcurrency - 1)

\* The calls of a chunk run at once and may see different chains.
FetchBlock(h) ==
  /\ pc = "fetch"
  /\ h \in Chunk
  /\ fetched[h] = None
  /\ h <= Len(chain)
  /\ fetched' = [fetched EXCEPT ![h] = BlockHash(h)]
  /\ pc' = IF \E g \in Chunk : fetched'[g] = None THEN "fetch" ELSE "reduce"
  /\ UNCHANGED <<node, tables, timer, stopping, memory, nodeHeight, height,
                 ancestor, located, scanned, last, batch, faults>>

Reducing(b) ==
  /\ pc = "reduce"
  /\ b = fetched[height]

PreviousHash ==
  IF batch # <<>> THEN batch[Len(batch)].hash
  ELSE IF TipHeight # None THEN rows[TipHeight].hash ELSE None

\* Mutant: only the first block of a batch is checked.
LinkIsBroken_FirstOnly(b) ==
  batch = <<>> /\ TipHeight # None /\ Parent(b) # PreviousHash

LinkIsBroken(b) == PreviousHash # None /\ Parent(b) # PreviousHash

InitIsMissing(b) == init = None /\ batch = <<>> /\ ~HasInit(b)

\* A block that does not follow ends the batch.
BreakBatch ==
  /\ \E b \in Hash : Reducing(b) /\ LinkIsBroken(b)
  /\ pc' = "append"
  /\ UNCHANGED <<node, tables, timer, stopping, memory, locals, faults>>

\* So does a first block without the INIT; the scan starts over.
MissInit ==
  /\ \E b \in Hash : Reducing(b) /\ ~LinkIsBroken(b) /\ InitIsMissing(b)
  /\ scanCursor' = None
  /\ pc' = "append"
  /\ UNCHANGED <<node, tables, timer, stopping, cache, locals, faults>>

ObjectsBefore == IF batch # <<>> THEN batch[Len(batch)].stateRoot ELSE cache

PreviousRoot == IF batch # <<>> THEN batch[Len(batch)].chainedRoot
                ELSE IF TipHeight # None THEN rows[TipHeight].chainedRoot
                ELSE Empty

ReduceBlock ==
  LET chunkEnds == \A h \in Heights : h > height => fetched[h] = None IN
  /\ \E b \in Hash :
       /\ Reducing(b)
       /\ ~LinkIsBroken(b)
       /\ ~InitIsMissing(b)
       /\ batch' = Append(batch, [hash |-> b,
                                  stateRoot |-> Reduce(ObjectsBefore, b),
                                  chainedRoot |-> Reduce(PreviousRoot, b)])
  /\ fetched' = [fetched EXCEPT ![height] = None]
  /\ height' = height + 1
  /\ pc' = IF chunkEnds THEN NextChunk(height + 1, last) ELSE "reduce"
  /\ UNCHANGED <<node, tables, timer, stopping, memory, nodeHeight, ancestor,
                 located, scanned, last, faults>>

NothingToAppend ==
  /\ pc = "append"
  /\ batch = <<>>
  /\ EndTick
  /\ UNCHANGED <<node, tables, stopping, memory, faults>>

\* appendBlocks: one transaction; the INSERTs fail on a height already there.
AppendToTables ==
  /\ pc = "append"
  /\ batch # <<>>
  /\ \A i \in DOMAIN batch : rows[Len(batch[i].hash)] = None
  /\ rows' = [h \in Heights |->
       IF \E i \in DOMAIN batch : Len(batch[i].hash) = h
       THEN batch[CHOOSE i \in DOMAIN batch : Len(batch[i].hash) = h]
       ELSE rows[h]]
  /\ init' = IF init = None THEN Len(batch[1].hash) ELSE init

AppendBatch ==
  /\ AppendToTables
  /\ cache' = batch[Len(batch)].stateRoot
  /\ EndTick
  /\ UNCHANGED <<node, stopping, scanCursor, faults>>

-----------------------------------------------------------------------------
(***************************************************************************)
(* What goes wrong.                                                        *)
(***************************************************************************)
\* The node refuses a height above its chain and the call throws.
HeightOutOfRange ==
  /\ \/ pc = "tip" /\ TipHeight \in Len(chain) + 1 .. nodeHeight
     \/ pc = "hint" /\ HintedHeight \in Len(chain) + 1 .. nodeHeight
     \/ pc = "scan" /\ Scanning /\ scanCursor > Len(chain)
     \/ pc = "fetch" /\ \E h \in Chunk : fetched[h] = None /\ h > Len(chain)
  /\ Throw
  /\ UNCHANGED <<node, tables, stopping, scanCursor, faults>>

Fault(calls) ==
  /\ pc \in setting.faultsAt \cap calls
  /\ faults < MaxFaults
  /\ faults' = faults + 1

CallFails ==
  /\ Fault(Call \ {"walk", "locate", "confirm"})
  /\ Throw
  /\ UNCHANGED <<node, tables, stopping, scanCursor>>

\* rollbackToCommonAncestor swallows the error of getBlockHash.
WalkCallFails == Fault({"walk"}) /\ WalkPast

\* locateInit swallows the errors of its two lookups.
LocateCallFails == Fault({"locate", "confirm"}) /\ StartScan

\* The transaction commits and the answer is lost, so the call throws.
RollbackAnswerLost ==
  /\ Fault({"rollback"})
  /\ RollBackTables
  /\ Throw
  /\ UNCHANGED <<node, stopping, scanCursor>>

AppendAnswerLost ==
  /\ Fault({"append"})
  /\ AppendToTables
  /\ Throw
  /\ UNCHANGED <<node, stopping, scanCursor>>

\* onModuleDestroy: the tick under way runs on.
Shutdown ==
  /\ ~stopping
  /\ faults < MaxFaults
  /\ faults' = faults + 1
  /\ stopping' = TRUE
  /\ timer' = FALSE
  /\ UNCHANGED <<node, tables, pc, memory, locals>>

\* onApplicationBootstrap of a new process.
Bootstrap ==
  /\ pc' = "idle"
  /\ timer' = TRUE
  /\ stopping' = FALSE
  /\ scanCursor' = None
  /\ cache' = None
  /\ ClearLocals
  /\ UNCHANGED <<node, tables>>

Restart == stopping /\ pc = "idle" /\ Bootstrap /\ UNCHANGED faults

Crash ==
  /\ faults < MaxFaults
  /\ faults' = faults + 1
  /\ Bootstrap

-----------------------------------------------------------------------------
Init ==
  /\ setting \in Settings
  /\ chain = <<>>
  /\ abandoned = {}
  /\ reorgs = 0
  /\ rows = NoBlocks
  /\ init = None
  /\ pc = "idle"
  /\ timer = TRUE
  /\ stopping = FALSE
  /\ scanCursor = None
  /\ cache = None
  /\ nodeHeight = 0
  /\ height = 0
  /\ ancestor = None
  /\ located = None
  /\ scanned = 0
  /\ last = 0
  /\ fetched = NoBlocks
  /\ batch = <<>>
  /\ faults = 0

\* What the process does by itself.
SyncStep ==
  \/ Tick
  \/ TipIsOnChain
  \/ TipIsStale
  \/ NoMatchAtHeight
  \/ MatchAtHeight
  \/ RollBack
  \/ HintHits
  \/ HintMisses
  \/ LocateConfirmed
  \/ LocateInMempool
  \/ LocateUnknown
  \/ ConfirmLocation
  \/ LocationIsStale
  \/ ScanHit
  \/ ScanMiss
  \/ EndScan
  \/ \E h \in Heights : FetchBlock(h)
  \/ BreakBatch
  \/ MissInit
  \/ ReduceBlock
  \/ NothingToAppend
  \/ AppendBatch
  \/ HeightOutOfRange

Move ==
  \/ \E b \in Block : ConnectBlock(b)
  \/ \E h \in Heights : DisconnectTo(h)
  \/ SyncStep
  \/ CallFails
  \/ WalkCallFails
  \/ LocateCallFails
  \/ RollbackAnswerLost
  \/ AppendAnswerLost
  \/ Shutdown
  \/ Restart
  \/ Crash

Next == Move /\ UNCHANGED setting

Spec == Init /\ [][Next]_vars

\* Every call is answered or aborted by its timeout, and an armed timer fires.
FairSpec == Spec /\ WF_vars(SyncStep /\ UNCHANGED setting)

-----------------------------------------------------------------------------
(***************************************************************************)
(* The tables as the stack that IndexerStore implements: below a block are *)
(* the blocks under it, and the INIT if it is one of them.                 *)
(***************************************************************************)
Below(h) == [rows |-> [g \in Heights |-> IF g < h THEN rows[g] ELSE None],
             init |-> IF init < h THEN init ELSE None]

Store == INSTANCE BlockStore
           WITH Height <- Heights, Empty <- [rows |-> NoBlocks, init |-> None],
                contents <- [rows |-> rows, init |-> init],
                below <- [h \in Stored |-> Below(h)]

(***************************************************************************)
(* The loop asks of the store only what it promises: to append at most     *)
(* sync.batchBlocks blocks above the tip, and to remove the blocks above   *)
(* an ancestor; a lost answer, a crash or a reorganization adds nothing.   *)
(***************************************************************************)
UsesBlockStore == Store!Spec

-----------------------------------------------------------------------------
(***************************************************************************)
(* What must hold.                                                         *)
(***************************************************************************)
\* Every variable has its type.
TypeOK ==
  /\ setting \in Settings
  /\ chain \in Hash
  /\ abandoned \subseteq Hash
  /\ reorgs \in 0 .. MaxReorgs
  /\ rows \in [Heights -> Row \cup {None}]
  /\ init \in Heights \cup {None}
  /\ pc \in Call \cup {"idle", "reduce"}
  /\ timer \in BOOLEAN /\ stopping \in BOOLEAN
  /\ scanCursor \in 0 .. MaxHeight + 1 \cup {None}
  /\ cache \in Hash \cup {None, Corrupt}
  /\ nodeHeight \in Heights
  /\ height \in -1 .. MaxHeight + 1
  /\ ancestor \in Heights \cup {None}
  /\ located \in Hash \cup {None}
  /\ scanned \in 0 .. ScanPerTick
  /\ last \in Heights
  /\ fetched \in [Heights -> Hash \cup {None}]
  /\ batch \in Seq(Row) /\ Len(batch) <= BatchBlocks
  /\ faults \in 0 .. MaxFaults

(***************************************************************************)
(* The stored chain is one branch from an INIT block up, whatever the node *)
(* did between the calls of a batch, and each row's roots come from the    *)
(* blocks of that branch alone.                                            *)
(***************************************************************************)
StoredChainIsOneBranch ==
  /\ init = None <=> Stored = {}
  /\ \A h \in Stored :
       /\ Len(rows[h].hash) = h
       /\ rows[h].stateRoot = rows[h].hash
       /\ rows[h].chainedRoot = rows[h].hash
       /\ IF h = init THEN HasInit(rows[h].hash)
          ELSE h - 1 \in Stored /\ rows[h - 1].hash = Parent(rows[h].hash)

(***************************************************************************)
(* The cached object map between ticks is the stored tip's, through failed *)
(* commits, rollbacks and lost answers.                                    *)
(***************************************************************************)
CacheFollowsTip ==
  pc = "idle" /\ cache # None =>
    cache = IF TipHeight = None THEN Empty ELSE rows[TipHeight].stateRoot

(***************************************************************************)
(* A rollback takes back only blocks the node has disconnected: it stops   *)
(* at the common ancestor.                                                 *)
(***************************************************************************)
OnlyAbandonedRowsGo ==
  \A h \in Heights :
    rows[h] # None /\ rows'[h] = None => rows[h].hash \in abandoned

RollbackStopsAtCommonAncestor == [][OnlyAbandonedRowsGo]_rows

(***************************************************************************)
(* The same, as far as the walk's own calls are answered: a failure of any *)
(* other call, a lost answer, a crash or a shutdown never lets a rollback  *)
(* take a block the node still has.                                        *)
(***************************************************************************)
RollbackIsExactIfWalkAnswers ==
  [][("walk" \in setting.faultsAt) \/ OnlyAbandonedRowsGo]_rows

(***************************************************************************)
(* Once the node is quiet the tables hold its chain from the INIT up, and  *)
(* nothing if its chain has no INIT, unless the process has been stopped.  *)
(***************************************************************************)
HoldsNodeChain ==
  \A h \in Heights :
    rows[h] = IF h \in DOMAIN chain /\ \E g \in InitOn(chain) : g <= h
              THEN [hash |-> BlockHash(h), stateRoot |-> BlockHash(h),
                    chainedRoot |-> BlockHash(h)]
              ELSE None

CatchesUp == <>[](stopping \/ HoldsNodeChain)

(***************************************************************************)
(* The same, for a node that indexes transactions, which needs no search.  *)
(***************************************************************************)
CatchesUpWithTxIndex ==
  <>[](setting.txIndex => stopping \/ HoldsNodeChain)
=============================================================================
