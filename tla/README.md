# Tandem indexer, pipeline A: TLA+ models and proofs

This directory models the indexer of this repository: the program that follows a Bitcoin Core node
from the block of a configured INIT transaction, reduces every block to changes of the Tandem
objects, keeps them in MySQL, takes blocks back when the node reorganizes, and serves the result.
TLC checks the models on small instances; TLAPS proves theorems about them for all values of their
constants.

Paths such as `src/indexer/sync.service.ts` are relative to the repository's root.

## 1. Inventory

| Part | State it keeps | Operations | What makes it correct |
|---|---|---|---|
| State engine (`src/protocol/state-engine.ts`) | none: a pure function on a map | `applyStateTransition` | an object is created once, moves one sequence number at a time, ends once |
| Block reducer (`src/indexer/block-reducer.ts`) | the working state of one block | `reduceBlock` | map, carrier index, undo journal, rows and events agree with each other and with Bitcoin's coins |
| Indexer store (`src/indexer/indexer.store.ts`) | the MySQL tables | `appendBlocks`, `rollback`, tip reads | the tables are what the tip's roots commit to; any suffix can be taken back |
| Reorg planner (`src/indexer/reorg.service.ts`) | none | `planReorgRollback` | heights in descending order, never past the INIT boundary |
| Sync loop (`src/indexer/sync.service.ts`) | timer, `running`, `stopping`, cached object map, INIT scan cursor | `tick`, `syncOnce`, `locateInit`, `connectBatch`, `rollbackToCommonAncestor`, `wake` | one branch is stored; the cache is the tables'; it catches up with the node |
| Deployment state (`src/indexer/deployment-state.service.ts`) | phase, activation, node tip, last error | `setActivation` and field writes of the sync loop | follows the tables between ticks |
| Readiness (`src/observability/readiness.service.ts`) | none | `probe` | ready only at a complete checkpoint near the node's tip |
| Agreement (`src/agreement/`) | signing key | `signedAt`, signing, verification | signs only a checkpoint of a stored block |
| Verified gateway (`src/verification/verified-gateway.service.ts`) | none | `executeBound`, `resolve` | data is returned only with the agreement it was read under |
| Catalog (`src/api/tandem-catalog.service.ts`) | number of pages in flight | `page` | pages of one snapshot; at most two at once |
| Block events (`src/api/block-events.service.ts`) | none | `blockEvents` | pages of one block, by hash |
| Queries and controllers (`src/api/`) | none | reads of one to three statements | what a response is put together from belongs together |
| Carrier addresses (`src/api/carrier-address.ts`) | none | encode, decode | one address per carrier and network, nothing else is taken for one |
| Mempool overlay (`src/indexer/mempool-overlay.service.ts`) | `tandem_mempool` | `observe`, `reconcile`, `clearConfirmed` | no driver calls it in this repository |
| Protocol inspection, projector, ordering (`src/protocol/`, `src/indexer/block-projector.service.ts`) | none | pure | |
| Evidence (`src/indexer/evidence.ts`) | none | signature hashes, DER, scripts | cryptography |
| RPC client, ZMQ (`src/bitcoin/`) | sockets | calls with a timeout, notifications | a call ends |
| Configuration (`src/config/configuration.ts`) | none | `loadConfiguration` | asserts of the INIT only what a valid INIT can fulfil |
| INIT tool (`src/tools/validate-init.ts`) | none | `main`, an exit code | says of an INIT what the indexer will say |
| Site (`site/src/lib/`) | none | the envelope inspector, an address writer, a teaching state machine | repeats the service's rules without drifting from them |
| Migrations, metrics, wiring, scripts | | | |
| Validator package (`vendor/`), pipeline B, Bitcoin Core | external | | |

How they interact: a timer or a ZMQ notification starts a tick; only one tick runs at a time. A tick
asks the node for its tip, compares hashes with the tables, and either rolls back (planner, store)
or fetches a batch of blocks, reduces them one after another from the cached map (reducer, which
calls the validator for each relevant transaction) and commits them in one transaction (store).
The read side (readiness, agreement, gateway, catalog, block events) reads the tables and the
deployment state while the loop writes them, without a lock between the two.

The hard behaviours are: a node that changes its chain between any two calls; calls that fail or
whose answer is lost after a commit; a crash or a shutdown anywhere; an in-memory map that must
follow every one of these; a rollback that must undo, row by row, exactly what the blocks did; and,
inside a block, transactions that spend carriers in every legal and illegal combination. Beside
these, several rules are written down more than once (what an INIT's heights may be, what an
envelope must look like, how an address is made) and must not drift apart. The list in
`PROJECT.json` ("hazards") places each at its line.

## 2. Modules

```
ObjectLifecycle  <-- refinement --  BlockReducer  <-- IndexerStore  <-- StoreHistory
                                       ^    ^                             ^      ^
                     BlockReducerProofs   MCBlockReducer      MCIndexerStore     |
                              ^--------------- EXTENDS ------------ IndexerStoreProofs
BlockStore  <-- refinement --  StoreHistory, Sync, Readiness
Sync  <-- MCSync, SyncProofs
Readiness  <-- EXTENDS --  VerifiedGateway  <-- EXTENDS --  VerifiedQueries
     ^                       ^    ^---------- EXTENDS --  Catalog  <-- MCCatalog
     |                  GatewayProofs  <--  VerifiedQueriesProofs, CatalogProofs, BlockEventsProofs
     +---------- EXTENDS --  BlockEvents  <-- MCBlockEvents
Nullable  <--  AgreementEnvelope, CarrierAddress, InitDeployment, SiteObject  <-- MCSameRules
                                                                  |
                                                   ObjectLifecycle (refinement)
```

SameRulesProofs extends AgreementEnvelope, InitDeployment and SiteObject; each other proof module
extends the module it is named for. Section 5 describes them.

**ObjectLifecycle** is the abstract specification: the state is the map of
`IndexedObjectState`, with one action per operation of `applyStateTransition`. `RequireActive` is
`requireActive`. `Exit` takes a set of objects because one Bitcoin transaction ends all the objects
whose carriers it spends.

**BlockReducer** is `reduceBlock`. `objects`, `active`, `undo`, `newStates`, `spentOutpoints` and
`chapters` are the fields of `WorkingState`; `base` is the input map; `events` holds the object
events. One step classifies one transaction (`CreateObject`, `MarkObject`, `RotateObject`,
`CloseObject`, `RefundObject`, `ExitNoncanonical`, `PassOver`, `SkipAfterFailedInit`);
`BeginBlock` and `EndBlock` are the entry and the exit. `coins` is the Bitcoin chain: for every txid
whether its output 1 exists, when it was confirmed and whether it is spent. Transactions are
arbitrary: any unspent inputs, any attempted operation, any sequence number and keys, within the
rule that an output is spent once. The validator is external; its definitions (`CreateIsValid` and
the rest) keep what depends on the object map, on confirmation heights and on the sequence number,
and everything else it may reject (encoding, shape, signatures, fees) is the operation
`MALFORMED`. A carrier is always output 1 and an object key a hash of the CREATE's txid, so txids
name carriers and objects as well. The chained and state roots are hashes of what is modelled and
appear as the maps themselves. The INVALID events without an object are not kept.

**IndexerStore** extends the reducer with the tables and the transactions that write them. `db` is
what is committed and readers see; `txn` is the view of the open transaction. `Written` is
`writeBlock`, `Undone` one height of `rollback`, each with the cascades of the foreign keys.
`StartBatch` .. `FinishBlock` are `connectBatch` around the reducer, `StartRollback` the planner and
the checks under the lock. `Fail` is a failure or a crash at any point in between.

**StoreHistory** is IndexerStore with a history variable: `past` remembers, for each block that is
stored or being written, the tables it was written on (`Remember`). The program keeps no such thing; it
is there to say of a rollback that it gives these tables back (`RollbackRestores`). It makes no other
steps of the tables than IndexerStore (`HistoryOnlyWatches`). The journal of rollbacks, which only grows, is
left out of the comparison (`Contents`).

**BlockStore** is the abstract specification of the store, a stack: `contents` is what a reader finds in
the tables, `below` gives for each stored block what was there before it. `Append` puts at most
`BatchBlocks` blocks on top at once, `Rollback` brings back what was below one of them. StoreHistory
implements it (`ImplementsBlockStore`, with `past` as `below`). Sync and Readiness, whose actions take a
batch or a rollback as one step, change their tables as it allows (`UsesBlockStore` with the stored rows
below a height, `ReadsBlockStore` with the beginnings of a branch).

**Sync** is `sync.service.ts` against a node that connects and disconnects blocks at any moment.
`pc` names the call the loop waits for; an action is the answer to it and everything the loop does
until the next call: `Tick`, `TipIsOnChain`/`TipIsStale` (the comparison of tips),
`NoMatchAtHeight`/`MatchAtHeight`/`RollBack` (`rollbackToCommonAncestor`), `HintHits` .. `EndScan`
(`locateInit`), `FetchBlock` .. `AppendBatch` (`connectBatch`, whose chunk of calls runs
concurrently). `HeightOutOfRange` and the actions after it are errors, lost answers, shutdown and
crash. A block hash is the sequence of blocks it commits to. What a block does to the object map is
abstracted to the hash it was reduced from: reducing a block into any map but its parent's yields
`Corrupt`. `rollback` and `appendBlocks` are the two steps of BlockStore, which IndexerStore
implements.

**Readiness** is the source of all reads and the probe. The source is the branch that the tables
hold, with the reorganization epoch: what the tables contain is a function of the branch
(IndexerStore: `RootMatchesObjects`, `TablesAgree`), and a batch or a rollback changes it in one step
(`SyncAppends`, also with blocks of a branch the node has just left, and `SyncRollsBack`, also below
the common ancestor). `ProbeTip`, `ProbeCheckpoint` and `ProbeNode` are the three answers a probe
waits for. `phase` follows the tables between ticks and starts over with the process.

**VerifiedGateway** is `executeBound`: `Agree` ends the first resolution, `AgreeAgain` the second;
`SignA` and `FetchB` are the two sides of `Promise.all` and may be answered in any order, long after
the probe. An agreement tuple is the block hash at its height. `Fail` is 503, before the query
(`refused`) or after it (`withheld`). It has no specification of its own: **VerifiedQueries** runs
the queries of `TandemQueryService` in it and **Catalog** a page.

**VerifiedQueries** has all routes of `VerifiedTandemController`. `Stages` gives the statements of
a route: one for the listings, two in a row for an object, a transaction and its events, three at
once for a search. There is no transaction around them, so each `Read` sees the branch the tables hold
at that moment; `Required` is the statement whose empty result is 404, `Skips` the second statement of
`events` that runs only when the first found nothing, `LegacyRead` the unverified read that keeps a
missing object a 404.

**Catalog** is `page` with its counter `inFlight`, `readSnapshot` in a transaction that sees the
tables of its first read (`SeenBy`), the check of the node's hash, deadline, timer and the release of
the slot, and the callers that follow its cursors. A caller that is answered 503 may ask again, one
that is answered 409 starts again. A block creates a given number of objects; a row is its place in
the catalog's order and the branch at which its columns were read. `TandemObjects` is the table as the
set of its rows and `InOrder` what ORDER BY makes of a set: the row with no row before it comes first,
the one with one row before it second, and so on.

**BlockEvents** is `blockEvents`: the probe, the three statements of its transaction, the cursor with
the block's hash, and readers that page through a height from below the INIT to above the tip.

**AgreementEnvelope** has the two envelopes of a verification as JSON values: whether a field is a
string, whether its text has the field's form, what the signature was made with and over.
`ParseAgreementEnvelope`, `AssertAgreementTuple`, `VerifyAgreementEnvelope` and `InspectEnvelope` are
the functions of the gateway, the agreement service and the site's inspector, each a list of checks
in the code's order. Envelopes are signed from tuples that differ in any field, changed in any one
place, or answered by the wrong pipeline (`Echo`); `VerifyBefore` keeps the metadata of a first
resolution for comparison with a second. `trusted` are the two trust maps, and each may be any map from
key ids to keys: one id or several, several ids for one key, keys of the other pipeline, as
`trustedKeys` of `configuration.ts` takes them. `MapsAreSeparate` is what the operator is asked to see
to and the service cannot check.

**CarrierAddress** is bech32 as `carrier-address.ts` computes it: `ConvertBits`, `Polymod` (the 30 bits
of the checksum as six 5-bit numbers), `DecodeCarrierAddress` with its refusals in order. An address is
written by the site, then miscopied in one place, or written anew by other software with a checksum
that is right.

**InitDeployment** is the INIT before and after it confirms. `Reason` is the validator's verdict for a
block at a height, `Activation` what `reduceBlock` makes of it, `CheckConfiguredHeights` and
`InspectTransaction` the comparisons with the configuration, `LoadConfiguration` the check of the
configuration itself. `AskInfo`, `AskTransaction`, `AskHeader`, `AskBlock`, `AskParent` and
`AskParentHeader` are the calls of `validate-init`, one action each; `CallFails` is any of them that
fails, caught (exit 4, the INIT's own) or not (exit 1). The chain grows and shrinks between all of
these. A block is told from others of its height by the disconnections before it (`born`); `stale` has
the block that the INIT or its parent was last disconnected with, since the node, with a txindex, still
names that block for a transaction it has dropped from its mempool (`Located`). A block that was
disconnected does not come back, and the INIT and its parent are not replaced by conflicting transactions.

**SiteObject** is `createObject` and `applyOperation` of the site, which implements ObjectLifecycle.

The definitions named `X_Something` beside a definition `X` are mutants: `X` with a plausible bug.
`PROJECT.json` pairs each with the property it breaks; no specification uses them.

## 3. Runs

| Run | What it asks | Instance |
|---|---|---|
| BlockReducer | the seven invariants of the reducer, and that it implements ObjectLifecycle | 4 txids, 2 key pairs, heights to 4, sequences to 2, refund after 1 block |
| IndexerStore | seven invariants of the tables, `TerminalIsFinal`, that a rollback restores what was there, and that the tables are the stack of BlockStore | 3 txids, heights to 4, batches of 2, 2 rollbacks |
| Sync | one branch stored, cache follows the tip, a rollback stops at the common ancestor if the walk's calls are answered, the tables catch up with a quiet node if there is a txindex | a node with txindex where any call may fail, and one without, hinted the INIT's height, where any call but the walk's may; 1 reorganization, 1 failure, crash or shutdown |
| SyncWalkFault | violated: rollback past the common ancestor | failures of the walk's calls only |
| SyncInitScan | violated: catching up without txindex | no failure, 1 reorganization |
| VerifiedQueries | data is of the state its agreement names, on every route | 1 request, 2 blocks, 1 reorganization |
| VerifiedQueriesAba | violated: withheld when the state changed during the read | 1 reorganization |
| CatalogPaging | pages add up to one snapshot | 1 caller, 2 blocks, 2 reorganizations, pages of 1 |
| CatalogSlots | two slots, exactly counted and released; every caller is answered | 1 caller, 3 requests, only timers are fair |
| BlockEvents | pages of one block's events | 1 reader, 3 blocks, 2 reorganizations, pages of 2 |
| SameRules | seven properties of rules that are written in several places | see below |
| InspectorVerdict | violated: the inspector's verdict is the gateway's | 1 change of an envelope |

What the properties say:

- `UndoExact`: the undo journal takes each block back to its parent's map, however often an object
  changed in it; this is all that a rollback relies on for the objects.
- `RollbackRestores`: after a rollback the tables are, row for row, what they were when the ancestor was
  the tip: objects, states with their spent marks, chapters, undo rows, blocks and the INIT. The mutant
  journals an object's state before its last change in the block instead of before the block.
- `ImplementsBlockStore`: a batch of several blocks appears at once, on top of the tables it found or in
  the empty ones; a rollback uncovers what was below the lowest block it removes; no failure, lost answer
  or restart between two statements shows a reader anything else. `RollbackRestores` speaks of the
  commits of rollbacks, this property of every step. Its mutant forgets to take back the INIT.
- `ActiveCarrierIsUnspent`, `StoredCarrierIsUnspent`: no object is active on a spent carrier, and
  the confirmation height that decides a refund's maturity is right, in memory and after a reload.
- `ActiveIndexExact`: inside a block, the carrier index has no stale and no missing entry.
- `OneStepPerBlock`: no order of transactions moves an object twice in a block.
- `RowsAccountForObjects`, `TablesAgree`: the rows written beside the map say the same as the map,
  after appends and after rollbacks, also between the blocks of one transaction.
- `EventsExplainObjects`: a reader replaying a block's events gets the block's map: status, sequence, carrier
  and number of chapters of each object. The key pairs and the terminal txid are not compared.
- `RootMatchesObjects`, `ChainIsContiguous`, `InsertsAreFresh`: the table of objects is what the
  tip's root commits to, the chain has no gap and starts at the INIT, and no left-over row makes a
  later INSERT fail.
- `CacheCoherent`, `CacheFollowsTip`: the cached map is what a reload would give.
- `TerminalIsFinal`: outside rollbacks, a commit never changes or forgets an ended object.
- `StoredChainIsOneBranch`: the stored blocks are one branch, each reduced into its parent's map.
  `RollbackIsExactIfWalkAnswers`: a rollback takes back only blocks the node has left;
  `RollbackStopsAtCommonAncestor` is the same without the condition. `CatchesUpWithTxIndex`: a node
  that becomes quiet ends up in the tables; `CatchesUp` is the same without a txindex.
- `VerifiedUnlessRolledBack`: every statement of a verified response read the state of its agreement,
  if no rollback was committed while the request ran. `WithheldWhenStateChanged` is the same without
  the condition, as documented; see section 4.
- `CatalogIsOneSnapshot`: what a caller has is, row for row, the beginning of the membership at one
  branch, some rows and not all while it has a cursor, and all of it when no cursor is left. `PagesNeverInconsistent`: offset, total and keyset
  agree, so the last check of `readSnapshot` is never the one that refuses.
- `SlotsAreExact`, `SlotIsReleased`, `CallerIsAnswered`: the two slots, counted and given back, and an
  answer for every caller.
- `SameVerdictOnStrings`: inspector and gateway refuse the same envelopes, one thing being wrong.
  `VerifiedMeansSigned`: every field of what is verified was signed, with the key that the map of its
  pipeline has for the id it names; and by two different pipelines, if the maps are separate. Without that
  condition it is false: with one signer in both maps `Echo` leads to a verified result.
  `SameMetadataSameTuples`: equal metadata before and after a read means equal tuples, releases too.
- `OneAddressPerCarrier`: the API reads what the site writes, and no string besides.
- `ToolForesees`: wherever blocks come and go between the tool's questions, an INIT it calls valid is
  valid at the height it was judged for, a refused one is not valid later, and one it calls confirmed is in
  the block it says and judged there as the indexer judges it, unless that block has left since the tool
  started. The mutant takes a blockhash for a confirmation. `AssertionsHold`: no INIT is good by
  one place's rules for its heights and bad by another's.
- `SiteMirrorsStateEngine`: the walkthrough's object goes through transitions of the state engine only.
- `EventsAreOfOneBlock`, `PageIsUnderItsCheckpoint`: what a reader has is the beginning of one
  block's events, all of it when told so, and block and checkpoint of a page are of one branch.

**Bounds.** Four txids let a block hold a CREATE and an operation that spends an older carrier next
to it, two objects be ended by one transaction, and an object be created, moved twice and ended.
`MaxSequence = 2` makes the sequence limit reachable. Four heights separate the INIT, `H_open`,
`H_close` and the mature refund of an object that was moved in between. The store's instance reaches a rollback over two blocks, a
second one, and an append after each; two blocks in a transaction are enough to have a state
between them. In Sync, heights to 3 with two competing blocks give forks of every length up to
the whole chain, a batch that spans a fork, and an INIT that moves to another height; one failure
is combined with every position of one reorganization. Block heights, reorganizations, failures,
crashes and shutdowns are the only bounded quantities; the bounds are constants named in each module.
A bounded chain ends, so the runs of the reducer and the store stop there and do not check for
deadlock; the sync loop polls for ever and is checked for it.

On the read side, requests only share the two slots, so one request suffices except in the Catalog
run about slots; there, three requests exceed the limit by one, and one caller reaches them all,
since it may ask again when the timer has answered it. Two heights and two
reorganizations (in VerifiedQueries one, each of its routes having at most three statements) allow a block to be appended, rolled back and appended again within one request or
between two pages, and a branch to be replaced by one of the same length and back. In CatalogPaging
one kind of block creates two objects, which a page of one separates, and the other none; in
BlockEvents the blocks hold one page of events and one and a half.

SameRules has one instance of four modules that share no variable; `part` chooses one of them and
the others stand still. One change of an envelope, in every field and to a value of every kind, is what
each check by itself must find; the tuples of the two pipelines differ in every field. Each pipeline has one key
(`MaxKeys = 1`) and signs under one id (`SignIds`), while two ids are well-formed; of the trust maps four
pairs are tried (`MCTrust`), with one id or two for A's key, and with B's key alone or beside A's key in
the map of B, so that maps are separate and overlap, and an echo is refused and verified. The theorem
is about all maps. The program
written as an address ends so that bech32's weakness against inserted characters is reached, and a
mistake is made at each of its places. The marker's height has its largest value at 5, so that every
relation of open, close, confirmed and asserted height occurs; with one disconnection the INIT or its
parent leaves its block before, between and after the tool's questions, and confirms again in another.

**Symmetry.** Txids and key pairs are interchangeable and are permuted in the runs of the reducer and
the store, and the competing blocks in SyncWalkFault; nothing is permuted where liveness is checked.

**Fairness.** `FairSpec` of Sync asks that the loop's own steps happen when they can. The code
justifies it: a call is aborted by its timeout (`BitcoinRpcClient.call`), and every exit of a tick
arms the timer again unless the service stops. Failures, reorganizations and restarts are never
required to happen, and are bounded, so the property speaks of a node that becomes quiet. A stopped
process is excused. `FairSpec` of Catalog asks only that deadlines pass and timers fire, so
`CallerIsAnswered` needs no call to be answered. `SlotIsReleased` is under the condition `CallsEnd`: the gateway's and the page's own
calls are answered or fail: the node's by the client's timeout, pipeline B's by its abort timer,
never by an answer (`FetchB` is not fair), the database's by the driver, which reports a lost
connection; the code sets no timeout on a statement.

## 4. What disagrees with the documentation

- `docs/database.md` says the INIT can never be rolled away. The planner allows the ancestor
  `initHeight - 1`, and the loop uses it when no stored block is on the node's chain; the INIT's
  block goes and `tandem_init` with it, a step that IndexerStore takes (`ChainIsContiguous` speaks of
  the state after it). The loop then searches again, which Sync shows to work with txindex; only the
  sentence is wrong, and no run is spent on it.
- Without txindex, a reorganization while the INIT is awaited can leave the INIT below the scan
  cursor for good (SyncInitScan).
- A failed `getblockhash` during the walk counts as a mismatch, so blocks that are still canonical
  are rolled back and connected again, and the journal names a lower ancestor (SyncWalkFault).
- `docs/api.md` says a verified response is withheld if height or roots changed during the read. The
  gateway compares the agreement before with the one after; a block appended and rolled back in
  between leaves them equal, and data of the block is released under the older agreement
  (VerifiedQueriesAba). The catalog is not affected: its snapshot is compared with the agreement.
- The header of `site/src/lib/agreement.ts` promises the gateway's verdict. The inspector judges key id
  and signature by `String(...)`, the gateway insists on JSON strings: a numeric key id passes the one
  and is refused by the other (InspectorVerdict). It also tests the fields in another order, so with two
  of them wrong it names another first failure than the gateway reports.

Observed while reading, without a run: `site/src/data/env-vars.ts` calls the INIT txid, heights and
namespace required, though `loadConfiguration` takes them as optional; `inspectTransaction` compares a
marker's heights with unset ones as with any others, so without configured heights no INIT is a
candidate, and it counts foreign INIT markers that the reducer drops; `validate-init` exits with 3,
"pending", for an unconfirmed INIT whose parent is unconfirmed even if a later rule fails, since the
validator reports the first reason only. `ToolForesees` therefore says nothing of exit 3 without
`valid`. `docs/troubleshooting.md` concludes from a 404 that verification passed: `executeBound` also
answers 404 when the first resolution failed, if the unverified read that follows finds nothing.
`docs/configuration.md` and `trust-registries.mdx` say that a signer in both trust maps is verified as both
pipelines; the model agrees, see `VerifiedMeansSigned`.

## 5. Proofs

The theorems hold for every value of the constants: any sets of txids, key pairs, blocks, requests and
callers, any heights, limits and batch sizes, and any number of reorganizations, failures and rollbacks,
since the bounds of section 3 are constants like the others. They state 30 of the 31 invariants the
runs check, the three action properties and all three refinements. Three things are proved that no run
checks. `UndoLeadsToParent` is what the undo rows of every stored height are good for. `UsesBlockStore`
and `ReadsBlockStore` hold on the instances of Sync and BlockEvents, too, but double the time of those
runs and are left to their theorems, as is the type invariant of BlockEvents.

| Module | Theorem | Statement |
|---|---|---|
| BlockReducerProofs | `ReducerInvariant`, `BlockInvariant` | `Spec => []IInv`, `Spec => [](IInv /\ BlockFollows)` |
| | `ReducerTypeCorrect` | `Spec => []TypeOK` |
| | `UndoJournalExact` | `Spec => []UndoExact` |
| | `NoActiveSpentCarrier` | `Spec => []ActiveCarrierIsUnspent` |
| | `ActiveIndexCorrect` | `Spec => []ActiveIndexExact` |
| | `AtMostOneStep` | `Spec => []OneStepPerBlock` |
| | `RowsAccount` | `Spec => []RowsAccountForObjects` |
| | `EventsExplain` | `Spec => []EventsExplainObjects` |
| | `ReducerImplementsLifecycle` | `Spec => ImplementsLifecycle` |
| IndexerStoreProofs | `StoreInvariant` | `StoreSpec => []StoreIInv` |
| | `StoreTypeCorrect` | `StoreSpec => []StoreTypeOK` |
| | `RootAlwaysMatches` | `StoreSpec => []RootMatchesObjects` |
| | `UndoAlwaysLeadsToParent` | `StoreSpec => []UndoLeadsToParent` |
| | `TablesAlwaysAgree` | `StoreSpec => []TablesAgree` |
| | `CacheAlwaysCoherent` | `StoreSpec => []CacheCoherent` |
| | `StoredCarrierAlwaysUnspent` | `StoreSpec => []StoredCarrierIsUnspent` |
| | `ChainAlwaysContiguous` | `StoreSpec => []ChainIsContiguous` |
| | `InsertsAlwaysFresh` | `StoreSpec => []InsertsAreFresh` |
| | `TerminalAlwaysFinal` | `StoreSpec => TerminalIsFinal` |
| | `HistoryOnlyWatches` | `HistorySpec => StoreSpec` |
| | `HistoryInvariant` | `HistorySpec => []HistoryIInv` |
| | `RollbackAlwaysRestores` | `HistorySpec => RollbackRestores` |
| | `StackInvariant` | `HistorySpec => []StackIInv` |
| | `StoreIsBlockStore` | `HistorySpec => ImplementsBlockStore` |
| SyncProofs | `SyncInvariant` | `Spec => []SyncIInv` |
| | `SyncTypeCorrect` | `Spec => []TypeOK` |
| | `StoredChainAlwaysOneBranch` | `Spec => []StoredChainIsOneBranch` |
| | `CacheAlwaysFollowsTip` | `Spec => []CacheFollowsTip` |
| | `RollbackAlwaysExactIfWalkAnswers` | `Spec => RollbackIsExactIfWalkAnswers` |
| | `SyncUsesBlockStore` | `Spec => UsesBlockStore` |
| VerifiedQueriesProofs | `QueriesInvariant` | `Spec => []IInv` |
| | `QueriesTypeCorrect` | `Spec => []TypeOK` |
| | `VerifiedReadsAreOfTheAgreement` | `Spec => []VerifiedUnlessRolledBack` |
| | `QueriesReadBlockStore` | `Spec => ReadsBlockStore` |
| CatalogProofs | `CatalogInvariant` | `Spec => []CatalogIInv` |
| | `CatalogTypeCorrect` | `Spec => []TypeOK` |
| | `PagesMakeOneSnapshot` | `Spec => []CatalogIsOneSnapshot` |
| | `PagesAreConsistent` | `Spec => []PagesNeverInconsistent` |
| | `SlotsAreCounted` | `Spec => []SlotsAreExact` |
| | `CatalogReadsBlockStore` | `Spec => ReadsBlockStore` |
| BlockEventsProofs | `BlockEventsInvariant` | `Spec => []IInv` |
| | `BlockEventsTypeCorrect` | `Spec => []TypeOK` |
| | `ReadersGetOneBlock` | `Spec => []EventsAreOfOneBlock` |
| | `PagesAreUnderTheirCheckpoint` | `Spec => []PageIsUnderItsCheckpoint` |
| | `EventsReadBlockStore` | `Spec => ReadsBlockStore` |
| SameRulesProofs | `AgreementInvariant` | `AgreementSpec => []AgreementIInv` |
| | `InspectorReachesTheVerdict` | `AgreementSpec => []SameVerdictOnStrings` |
| | `OnlySignedIsVerified` | `AgreementSpec => []VerifiedMeansSigned` |
| | `EqualMetadataEqualTuples` | `AgreementSpec => []SameMetadataSameTuples` |
| | `DeploymentInvariant` | `DeploymentSpec => []DeploymentIInv` |
| | `ToolForeseesActivation` | `DeploymentSpec => []ToolForesees` |
| | `AssertedHeightsAgree` | `DeploymentSpec => []AssertionsHold` |
| | `SiteInvariant` | `SiteSpec => []SiteIInv` |
| | `SiteImplementsLifecycle` | `SiteSpec => SiteMirrorsStateEngine` |

GatewayProofs has no theorem of its own: it holds what the three modules of the read side share, lemmas
about branches and their prefixes, about the sources, the probe and the gateway.

**Assumptions**, each named in the module that declares the constants and evaluated by the runs. That
limits and bounds are natural numbers, and that the ones the configuration forces to be positive are
(`ReducerAssumption`: a refund needs at least one block; `StoreAssumption`, `SyncAssumption`,
`CatalogAssumption`, `BlockEventsAssumption`: batch sizes, concurrency and page limits;
`ReadinessAssumption`; `DeploymentAssumption`: the founding window fits a u32). That signers are configured
with well-formed key ids (`AgreementAssumption`). That the values which
stand for null, "not touched" or an absent object are none of the values they stand beside
(`MarkerAssumption`, `LifecycleAssumption`, `StoreMarkerAssumption`, `NullAssumption`, and conjuncts of
`ReadinessAssumption`, `CatalogAssumption`, `DeploymentAssumption`, `SiteAssumption`). Nothing is assumed
about behaviour.

**The reducer.** None of the invariants is inductive alone. That no active carrier is spent needs the
index to be exact, since the index decides whose carrier an input is; the index stays exact only if
two active objects never share a carrier (`CarriersAreDistinct`); a new carrier is fresh because a
txid that the chain has not seen names no object (`UnseenTxidHasNoObject`); a transaction may be
skipped after a failed INIT only because there is no object then (`NothingBeforeValidInit`). `IInv`
is their conjunction. `ConsumedObjects` turns it into what a transaction may rely on: the objects
it consumes are exactly the active ones whose carriers are among its inputs. The actions then fall
into those that end what they consume (`TerminationKeepsIInv`), those that move it
(`AdvanceKeepsIInv`), CREATE, and those that leave the map alone. The refinement uses the same
invariant: a valid operation consumes exactly one object, which is active on its current carrier, so
the abstract guard holds. `BlockFollows` relates everything a block hands to the store to the map it
started from: which objects changed and by how much, which carrier each row and spent mark is about,
which chapter belongs to which sequence. Its core is `UnmovedBelowHeight`: an operation needs a carrier
that was confirmed below the block's height, and an object that has moved in the block has none, so
a second operation in a block finds no object; that is `OneStepPerBlock`.

**The store.** A rollback takes the tip away and must leave tables that can be rolled back further,
so facts about the tip alone are not inductive. `GoodTables` states everything at each stored height:
the objects rewound to that height by the undo rows are what its root commits to, and that height's
states, spent marks, chapters and coins follow from its parent's map in the sense of `BlockFollows`.
Removing the tip then leaves the facts of the heights below as they were. `StoreIInv` adds what is
in flight: the queued blocks follow from each other and from the tables the batch goes on (`Queued`),
the reducer works on what the last of them left (`InProgress`), the cache is a load of the committed
tables, and an open append transaction has forgotten or changed no ended object. The reducer's own
theorems enter as lemmas about its steps.

That a rollback restores the tables rests on one lemma about the two operators: undoing a block that
has just been written gives the tables it was written on (`WrittenIsUndone`). For the objects this is the
undo journal; a deletion that cascades takes no older row, because an object the block created had none
(`DeletedHadNoRows`); a spent mark that is removed was not there, because the block spent a carrier
that was live. `HistoryIInv` repeats this at every height: undoing the block at h from what is
remembered of h + 1 gives what is remembered of h (`PastLeads`), and an open rollback has come down to
one of these heights (`RolledBackTo`). A failure in between forgets what was being written and keeps
what is stored.

**The store as a stack.** The abstract append names the first and the last block of a batch, while the
code writes one block after the other and may stop after any of them. `StackIInv` adds to `HistoryIInv`
what an open append has done so far (`AppendedFrom`): the blocks from its first to the transaction's tip
are those it has put on the committed ones, below the first are the committed tables, and with what is
still queued they are no more than a batch. The commit is then the abstract append, and every other step,
a failure or a restart in the middle of a batch among them, is a stutter: for a reader the batch was
never begun. `WriteBlockGoesOnTop` is the step of the argument, `CommitAppendIsAppend` and
`CommitRollbackIsRollback` its ends. A rollback uses `PastLeads` and `RolledBackTo` of the history.

The other side of the promise is shown where it is relied on. In Sync an append that commits goes above
the tip, and a rollback to the ancestor of the walk names a stored block or changes nothing
(`AppendIsAppend`, `RollBackIsRollback`, from `SyncIInv`). On the read side only the steps of the sync
loop change the tables (`TablesMoveWithSources`), each of them a batch or a rollback
(`SourcesMoveAsStore`).

**The sync loop.** `SyncIInv` has the tables as one branch of blocks that the node has or had (`Seen`),
with the INIT at one height; the batch as rows that follow each other and the tip; what is fetched as
blocks of the right heights; and, for each call the loop waits for, what the branch leading there
has established. The walk is the delicate part: a mismatch means an abandoned block only if the call
answered, so `PassedIsAbandoned` carries the condition that `RollbackIsExactIfWalkAnswers` has. A node
that reorganizes during the walk only adds abandoned blocks, which is why the walk's past answers
stay true.

**Verified requests.** For a request that saw no rollback, the tables have only grown: what its
statements saw lies, as branches, between the first agreement and the tables (`SeenFits`), and the
second resolution, begun later, is not below anything seen (`ResolvesAbove`). If the gateway then finds
both agreements equal, everything between them is that agreement. With a rollback in between the argument
fails, and so does the property: VerifiedQueriesAba is the counterexample.

**The catalog.** A page depends on its transaction's snapshot only, and that is compared with the
agreement; so no growth of the tables has to be followed. `PageSound` ties each step of a page to the stage of its
gateway and, from the first read on, its snapshot to the agreement that the gateway will compare.
The other half is about lists: `InOrder` puts a row after as many rows as precede it, so the keyset of a
cursor selects exactly the rows behind its offset (`KeysetIsOffset`), and the beginning a caller holds
joined with the page is a longer beginning (`PageExtendsListing`). `SlotsSound` has the counter as the
number of pages in production, `Busy`, which gains or loses one element with each admission and release.

**Block events.** What a reader has is the events before its cursor of the block that the cursor
names by hash; a request that passed the cursor check found that very block (`RequestSound`), and a page joins
what came before it (`PagesJoin`).

**The rules.** A change of an envelope never makes a signature that verifies over other bytes
(`AgreementIInv`), so what is verified is what was signed, for any number of changes and any trust maps;
that two pipelines signed is concluded under `MapsAreSeparate` only. Whichever field is wrong, both
checkers refuse, if not for the same reason. For the tool, `DeploymentIInv` says of every block that once
held the INIT (`HadInit`) that it is stale for good or in the chain with the INIT and its parent at the
heights it had; each question keeps this of the block it learnt of (`RightTool`), whatever the chain did
meanwhile, and the answer follows by the validator's rules from what it was told (`Answer`). That a
verdict outlives the blocks it was made on rests on the rules being monotone: but for its parent, what is
good at a height is good at a lower one. What `loadConfiguration` accepts of heights stays accepted. An active object of the site is on
a carrier and has no more chapters than operations, which is what each of its steps needs to be a
transition of ObjectLifecycle.

**Only model-checked.** Liveness under fairness (`CatchesUpWithTxIndex`, `SlotIsReleased`,
`CallerIsAnswered`), which is out of the prover's reach. `OneAddressPerCarrier`, whose checksum is a
recursive computation over bits: what it computes for all inputs is induction over data. The four violated properties are refuted by
their counterexamples.

## 6. Not modelled, and the plan

Not modelled because there is nothing to check or it is beyond a model checker: signature hashing and
script parsing (`evidence.ts`), namespace hashes, formats of configuration variables that have no
relation to others, JSON and OpenAPI output, metrics, framework wiring, running the migrations, the
site's pages. The mempool overlay and the block projector have no caller in the repository; which of
their operations would run when is not in the code. Pipeline B, the validator and Bitcoin Core are
external. A second indexer process on one database is outside the documented deployment and is listed
as a hazard without a property.

What is left:

1. A second writer: two indexers on one database, which needs the append's primary key and the
   rollback's lock as steps of two processes in IndexerStore.
2. One instance of BlockStore shared by the writing and the reading side in one specification. Now each
   side is shown to be an instance by itself.
