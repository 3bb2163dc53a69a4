------------------------------- MODULE Readiness -------------------------------
(***************************************************************************)
(* What the read side of the service reads, and the readiness probe that   *)
(* every gated route makes first                                           *)
(* (src/observability/readiness.service.ts).                               *)
(*                                                                         *)
(* The tables are what the sync loop has committed.  IndexerStore shows    *)
(* that each of its commits is one atomic change of all of them and that   *)
(* blocks and checkpoints agree; here they are the branch of blocks they   *)
(* hold, from the block of the INIT transaction at position 1.  The hash   *)
(* of a block is the branch that ends with it, and what the tables hold    *)
(* (objects, events, roots, counts) is a function of the branch.           *)
(*                                                                         *)
(* A probe is three answers it waits for, one after the other: the tables  *)
(* and the node move between them.                                         *)
(***************************************************************************)
EXTENDS Integers, Sequences, FiniteSets, SequencesExt

CONSTANTS
  Block,        \* the blocks that compete for a height
  Reader,       \* the requests that may be served at one time
  None,         \* null
  MaxBlockLag,  \* readiness.maxBlockLag
  MaxHeight,    \* bound: the longest branch
  MaxReorgs     \* bound: how often the node disconnects blocks

ASSUME ReadinessAssumption ==
  /\ None \notin Block /\ None \notin Nat
  /\ MaxBlockLag \in Nat /\ MaxHeight \in Nat /\ MaxReorgs \in Nat

VARIABLES
  node,        \* the best branch of the node
  left,        \* the branch it has left, while the sync loop may hold blocks of it
  reorgs,      \* how often it disconnected blocks
  tables,      \* the branch the tables hold
  reorgEpoch,  \* MAX(id) of tandem_reorg_journal
  phase,       \* DeploymentStateService.phase
  probe        \* [Reader -> Probe]: the probe each request is making

sourceVars == <<node, left, reorgs, tables, reorgEpoch, phase>>
readinessVars == <<node, left, reorgs, tables, reorgEpoch, phase, probe>>

Branch == UNION {[1..n -> Block] : n \in 0..MaxHeight}
HeightOrNull == 1..MaxHeight \cup {None}

Probe == [pc : {"idle", "tip", "checkpoint", "node", "ready", "unready"},
          canonicalHeight : HeightOrNull,
          checkpointHeight : HeightOrNull]

ReadinessTypeOK ==
  /\ node \in Branch /\ left \in Branch /\ tables \in Branch
  /\ reorgs \in 0..MaxReorgs
  /\ reorgEpoch \in Nat
  /\ phase \in {"awaiting_init", "active"}
  /\ probe \in [Reader -> Probe]

NoProbe == [pc |-> "idle", canonicalHeight |-> None, checkpointHeight |-> None]
NewProbe == [NoProbe EXCEPT !.pc = "tip"]

\* Mutant: height 0, not null, when there is no row.
TipHeight_Zero(branch) == Len(branch)

\* tip[0]?.height ?? null
TipHeight(branch) == IF branch = <<>> THEN None ELSE Len(branch)

PhaseOf(branch) == IF branch = <<>> THEN "awaiting_init" ELSE "active"

ReadinessInit ==
  /\ node = <<>> /\ left = <<>> /\ reorgs = 0
  /\ tables = <<>> /\ reorgEpoch = 0
  /\ phase = "awaiting_init"
  /\ probe = [r \in Reader |-> NoProbe]

-----------------------------------------------------------------------------
(* The node and the sync loop *)

NodeConnects(b) ==
  /\ Len(node) < MaxHeight
  /\ node' = Append(node, b)
  /\ UNCHANGED <<left, reorgs, tables, reorgEpoch, phase>>

NodeDisconnects ==
  /\ reorgs < MaxReorgs
  /\ \E n \in 0..(Len(node) - 1) : node' = SubSeq(node, 1, n)
  /\ left' = node
  /\ reorgs' = reorgs + 1
  /\ UNCHANGED <<tables, reorgEpoch, phase>>

\* A batch of appendBlocks commits.  Its blocks were fetched a moment ago: the
\* node may have left their branch since.  The loop has one batch at a time.
SyncAppends ==
  /\ \E branch \in {node, left}, n \in 1..MaxHeight :
       /\ Len(tables) < n /\ n <= Len(branch)
       /\ IsPrefix(tables, branch)
       /\ tables' = SubSeq(branch, 1, n)
  /\ left' = <<>>
  /\ UNCHANGED <<node, reorgs, reorgEpoch, phase>>

\* A rollback commits: blocks above the common ancestor go, a row of
\* tandem_reorg_journal comes.  A failed call during the walk takes it below the
\* common ancestor.
SyncRollsBack ==
  /\ ~IsPrefix(tables, node)
  /\ \E n \in 0..Len(LongestCommonPrefix({tables, node})) : tables' = SubSeq(tables, 1, n)
  /\ reorgEpoch' = reorgEpoch + 1
  /\ left' = <<>>
  /\ UNCHANGED <<node, reorgs, phase>>

\* setActivation, at the start of a tick (from the row of tandem_init) and
\* after a batch.
SyncNotesActivation ==
  /\ phase # PhaseOf(tables)
  /\ phase' = PhaseOf(tables)
  /\ UNCHANGED <<node, left, reorgs, tables, reorgEpoch>>

SourcesMove ==
  \/ \E b \in Block : NodeConnects(b)
  \/ NodeDisconnects
  \/ SyncAppends
  \/ SyncRollsBack
  \/ SyncNotesActivation

-----------------------------------------------------------------------------
(***************************************************************************)
(* What is read here is the stack of BlockStore: the tables change as the  *)
(* transactions of IndexerStore change them, by a batch or a rollback.     *)
(***************************************************************************)
Store == INSTANCE BlockStore
           WITH Height <- 1..MaxHeight, Empty <- <<>>, BatchBlocks <- MaxHeight,
                contents <- tables,
                below <- [h \in 1..Len(tables) |-> SubSeq(tables, 1, h - 1)]

\* Requests see tables that only appendBlocks and rollback change.
ReadsBlockStore == Store!Spec

-----------------------------------------------------------------------------
(* The probe of request r *)

\* evaluateReadiness, as far as it depends on what moves: no reason applies.
\* The node may be below the tables: the lag is then negative.
IsReady(canonical, checkpoint, nodeHeight, initPhase) ==
  /\ initPhase = "active"
  /\ canonical # None
  /\ nodeHeight - canonical <= MaxBlockLag
  /\ checkpoint = canonical

ProbeTip(r) ==
  /\ probe[r].pc = "tip"
  /\ probe' = [probe EXCEPT ![r].pc = "checkpoint", ![r].canonicalHeight = TipHeight(tables)]
  /\ UNCHANGED sourceVars

ProbeCheckpoint(r) ==
  /\ probe[r].pc = "checkpoint"
  /\ probe' = [probe EXCEPT ![r].pc = "node", ![r].checkpointHeight = TipHeight(tables)]
  /\ UNCHANGED sourceVars

\* getblockchaininfo answers; the phase is read from memory right after.
ProbeNode(r) ==
  /\ probe[r].pc = "node"
  /\ LET p == probe[r] IN
     probe' = [probe EXCEPT ![r].pc =
       IF IsReady(p.canonicalHeight, p.checkpointHeight, Len(node), phase)
       THEN "ready" ELSE "unready"]
  /\ UNCHANGED sourceVars

\* A call fails, or the node is on another network or in its initial download.
ProbeFails(r) ==
  /\ probe[r].pc \in {"tip", "checkpoint", "node"}
  /\ probe' = [probe EXCEPT ![r].pc = "unready"]
  /\ UNCHANGED sourceVars

ProbeStep(r) == ProbeTip(r) \/ ProbeCheckpoint(r) \/ ProbeNode(r) \/ ProbeFails(r)
=============================================================================
