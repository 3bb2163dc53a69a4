--------------------------- MODULE InitDeployment ---------------------------
(***************************************************************************)
(* The INIT transaction of a deployment, as four places judge it:          *)
(*   - src/tools/validate-init.ts, before the operator relies on it;       *)
(*   - loadConfiguration of src/config/configuration.ts, the heights that  *)
(*     the operator asserts for it;                                        *)
(*   - reduceBlock of src/indexer/block-reducer.ts, in its block, and      *)
(*     checkConfiguredHeights of src/indexer/sync.service.ts after that;   *)
(*   - inspectTransaction of src/protocol/protocol.service.ts.             *)
(*                                                                         *)
(* An INIT has one input; its parent is the transaction that it spends.    *)
(* Rules of the template that do not depend on the chain are two booleans, *)
(* for what is checked before the parent's height and after it.            *)
(* validate-init asks the node up to five questions; blocks come and go    *)
(* between any two of them, so that a block it was told of may be stale    *)
(* when it asks for its header or its content.                             *)
(***************************************************************************)
EXTENDS Nullable, Integers

CONSTANTS
  InitLead,       \* INIT_LEAD: blocks from the INIT to the open height
  FoundingWindow, \* FOUNDING_WINDOW: blocks from the open to the close height
  MaxU32,         \* the largest height that a marker can name
  MaxBlocks,      \* bound: the height of the chain
  MaxReorgs       \* bound: blocks that are disconnected

VARIABLES
  blocks,   \* the height of the node's tip
  reorgs,   \* blocks disconnected so far
  born,     \* [Height -> reorgs when the last block of that height was connected]
  parent,   \* the height of the INIT's parent, or None
  init,     \* the INIT transaction
  stale,    \* the last block, if any, that each of the two was disconnected with
  tool,     \* the run of validate-init
  settings  \* the configuration the service was started with, or None

deploymentVars == <<blocks, reorgs, born, parent, init, stale, tool, settings>>

Height == 0 .. MaxBlocks
MarkerHeight == 0 .. MaxU32

\* markers: what the outputs hold; early and late: the template's other rules;
\* at: its height, or None while it waits in the mempool.
InitTransaction == [markers : {"none", "two", "unreadable", "init"},
          open : MarkerHeight, close : MarkerHeight, spec : BOOLEAN,
          early : BOOLEAN, late : BOOLEAN, at : Height \cup {None}]

Perfect == [markers |-> "init", open |-> 0, close |-> 0, spec |-> TRUE,
            early |-> TRUE, late |-> TRUE, at |-> None]

-----------------------------------------------------------------------------
(***************************************************************************)
(* The validator package, and reduceBlock for the block of the INIT.       *)
(***************************************************************************)
Heights(open, close) == [open |-> open, close |-> close]

\* initHeights: of the one marker that is readable.
InitHeights(tx) ==
  IF tx.markers = "init" THEN Heights(tx.open, tx.close) ELSE Heights(None, None)

\* prevout: the height that the evidence has for the INIT's parent, or None.
ParentIsEarlier(prevout, height) == prevout # None /\ prevout < height

HeightsAreRight(open, close, height) ==
  /\ open <= MaxU32 - FoundingWindow
  /\ close = open + FoundingWindow
  /\ open >= height + InitLead

\* validateTandemTransaction and checkInit: the first rule that fails.
Reason(tx, prevout, height) ==
  CASE tx.markers # "init" -> "marker"
    [] tx.markers = "init" /\ ~tx.spec -> "spec hash"
    [] tx.markers = "init" /\ tx.spec /\ ~tx.early -> "template"
    [] tx.markers = "init" /\ tx.spec /\ tx.early /\ ~ParentIsEarlier(prevout, height) -> "parent"
    [] OTHER -> IF ~tx.late THEN "template"
                ELSE IF HeightsAreRight(tx.open, tx.close, height) THEN "valid"
                ELSE "heights"

\* The activation that reduceBlock makes of the INIT in a block at a height.
Activation(tx, prevout, height) ==
  LET reason == Reason(tx, prevout, height) IN
  [height |-> height, heights |-> InitHeights(tx), reason |-> reason,
   valid |-> reason = "valid"]

-----------------------------------------------------------------------------
(***************************************************************************)
(* configuration.ts                                                        *)
(***************************************************************************)
\* optionalInteger: unset, or decimal digits only.  -1 stands for other texts.
IsOptionalInteger(x) == x # None => x >= 0

\* Mutant: one block less of lead is enough.
HeightsAreConsistent_ShortLead(s) ==
  /\ (s.open = None) = (s.close = None)
  /\ s.open # None => s.close = s.open + FoundingWindow
  /\ s.height # None /\ s.open # None => s.open - s.height >= InitLead - 1

HeightsAreConsistent(s) ==
  /\ (s.open = None) = (s.close = None)
  /\ s.open # None => s.close = s.open + FoundingWindow
  /\ s.height # None /\ s.open # None => s.open - s.height >= InitLead

\* loadConfiguration does not throw.
LoadConfiguration(s) ==
  /\ IsOptionalInteger(s.height) /\ IsOptionalInteger(s.open) /\ IsOptionalInteger(s.close)
  /\ s.txid = None => s.height = None /\ s.open = None /\ s.close = None
  /\ HeightsAreConsistent(s)

-----------------------------------------------------------------------------
(***************************************************************************)
(* sync.service.ts: what the configuration asserts and the chain denies.   *)
(***************************************************************************)
CheckConfiguredHeights(s, activation) ==
  {x \in {"height", "open", "close"} :
     \/ x = "height" /\ s.height # None /\ s.height # activation.height
     \/ x = "open" /\ s.open # None /\ s.open # activation.heights.open
     \/ x = "close" /\ s.close # None /\ s.close # activation.heights.close}

-----------------------------------------------------------------------------
(***************************************************************************)
(* protocol.service.ts: the INIT as it is seen in the mempool.             *)
(***************************************************************************)
\* A height that is not configured is null and equals no marker's.
InspectTransaction(s, tx) ==
  CASE tx.markers = "none" -> "none"
    [] tx.markers \in {"two", "unreadable"} -> "invalid"
    [] OTHER -> IF s.txid = "init" /\ tx.open = s.open /\ tx.close = s.close /\ tx.spec
                THEN "candidate" ELSE "invalid"

-----------------------------------------------------------------------------
(***************************************************************************)
(* validate-init.ts                                                        *)
(***************************************************************************)
\* A block, told from any other of its height.  Its hash fixes all that is below
\* it, so what its undo data says of the INIT's parent is part of it.
BlockAt(height) == [height |-> height, born |-> born[height], parent |-> parent]

\* getblockheader: it has confirmations.
InChain(block) == block.height <= blocks /\ born[block.height] = block.born

\* getrawtransaction: the blockhash.  A transaction that the node has dropped from
\* its mempool is still found, by txindex, in the stale block it was in.
Located(height, staleBlock) ==
  IF height = None THEN {None, staleBlock} ELSE {BlockAt(height)}

\* step: what it asks the node next; tip: getblockchaininfo's answer, and began the
\* blocks disconnected by then; place and parentPlace: the blockhash of the INIT and
\* of its parent; prevout: the height that the parent has in the evidence.
NoTool == [step |-> "start", tip |-> 0, began |-> 0, place |-> None, parentPlace |-> None,
           prevout |-> None, confirmed |-> FALSE, valid |-> FALSE, exit |-> None]

Unfinished == tool.step # "done"

ExitCode(confirmed, activation) ==
  IF confirmed THEN IF activation.valid THEN 0 ELSE 2
  ELSE IF activation.valid \/ activation.reason = "parent" THEN 3 ELSE 2

\* Every question leaves the chain, the INIT and the service alone.
ToolStep == settings = None /\ UNCHANGED <<blocks, reorgs, born, parent, init, stale, settings>>

\* The operator runs it before the service is started, or not at all.
AskInfo ==
  /\ tool.step = "start"
  /\ tool' = [NoTool EXCEPT !.step = "transaction", !.tip = blocks, !.began = reorgs]
  /\ ToolStep

AskTransaction ==
  /\ tool.step = "transaction"
  /\ IF init = None THEN tool' = [tool EXCEPT !.step = "done", !.exit = 4]
     ELSE \E place \in Located(init.at, stale.init) :
            tool' = [tool EXCEPT !.step = IF place = None THEN "parent" ELSE "header",
                                 !.place = place]
  /\ ToolStep

\* Mutant: an INIT with a blockhash is taken for confirmed.
AskHeader_AnyBlock ==
  /\ tool.step = "header"
  /\ tool' = [tool EXCEPT !.step = "block", !.confirmed = TRUE]
  /\ ToolStep

\* Of a stale block there are no confirmations: the INIT counts as unconfirmed.
AskHeader ==
  /\ tool.step = "header"
  /\ tool' = IF InChain(tool.place) THEN [tool EXCEPT !.step = "block", !.confirmed = TRUE]
             ELSE [tool EXCEPT !.step = "parent"]
  /\ ToolStep

\* The block that reduceBlock gets: the INIT's own, or one made up on the tip of
\* the first answer.
EvaluatedHeight(t) == IF t.confirmed THEN t.place.height ELSE t.tip + 1

Evaluated(t, prevout) ==
  LET activation == Activation(init, prevout, EvaluatedHeight(t)) IN
  [t EXCEPT !.step = "done", !.prevout = prevout, !.valid = activation.valid,
            !.exit = ExitCode(t.confirmed, activation)]

\* The block is answered also if it is stale by now.
AskBlock ==
  /\ tool.step = "block"
  /\ tool' = Evaluated(tool, tool.place.parent)
  /\ ToolStep

AskParent ==
  /\ tool.step = "parent"
  /\ \E place \in Located(parent, stale.parent) :
       tool' = IF place = None THEN Evaluated(tool, None)
               ELSE [tool EXCEPT !.step = "parentHeader", !.parentPlace = place]
  /\ ToolStep

AskParentHeader ==
  /\ tool.step = "parentHeader"
  /\ tool' = Evaluated(tool, IF InChain(tool.parentPlace) THEN tool.parentPlace.height ELSE None)
  /\ ToolStep

\* Any call may end in an error; only that of the INIT itself is caught.
CallFails ==
  /\ Unfinished
  /\ tool' = [tool EXCEPT !.step = "done", !.exit = IF tool.step = "transaction" THEN 4 ELSE 1]
  /\ ToolStep

RunAgain ==
  /\ tool.step = "done"
  /\ tool' = NoTool
  /\ ToolStep

-----------------------------------------------------------------------------
(***************************************************************************)
(* The chain and the operator.                                             *)
(***************************************************************************)
DeploymentInit ==
  /\ blocks = 0
  /\ reorgs = 0
  /\ born = [height \in Height |-> 0]
  /\ parent = None
  /\ init = None
  /\ stale = [init |-> None, parent |-> None]
  /\ tool = NoTool
  /\ settings = None

Broadcast(tx) ==
  /\ init = None
  /\ init' = tx
  /\ UNCHANGED <<blocks, reorgs, born, parent, stale, tool, settings>>

\* A block, with the INIT and with its parent or without.
Mine ==
  /\ blocks < MaxBlocks
  /\ blocks' = blocks + 1
  /\ born' = [born EXCEPT ![blocks + 1] = reorgs]
  /\ parent' \in IF parent = None THEN {None, blocks + 1} ELSE {parent}
  /\ \/ init' = init
     \/ /\ init # None /\ init.at = None /\ parent' # None
        /\ init' = [init EXCEPT !.at = blocks + 1]
  /\ UNCHANGED <<reorgs, stale, tool, settings>>

\* The tip is disconnected: what it confirmed is in no block again.
Disconnect ==
  LET initLeaves == init # None /\ init.at = blocks
      parentLeaves == parent = blocks
  IN
  /\ blocks > 0 /\ reorgs < MaxReorgs
  /\ blocks' = blocks - 1
  /\ reorgs' = reorgs + 1
  /\ parent' = IF parentLeaves THEN None ELSE parent
  /\ init' = IF initLeaves THEN [init EXCEPT !.at = None] ELSE init
  /\ stale' = [init |-> IF initLeaves THEN BlockAt(blocks) ELSE stale.init,
               parent |-> IF parentLeaves THEN BlockAt(blocks) ELSE stale.parent]
  /\ UNCHANGED <<born, tool, settings>>

\* One rule of the template fails, or none.
Broadcasts ==
  {[Perfect EXCEPT !.open = h[1], !.close = h[2]] : h \in MarkerHeight \X MarkerHeight}
  \cup {[Perfect EXCEPT !.open = MaxU32 - FoundingWindow, !.close = MaxU32,
                        !.markers = m] : m \in {"none", "two", "unreadable"}}
  \cup {[Perfect EXCEPT !.open = MaxU32 - FoundingWindow, !.close = MaxU32, ![f] = FALSE] :
          f \in {"spec", "early", "late"}}

Settings ==
  [txid : {None, "init", "another"},
   height : Height \cup {None, -1},
   open : MarkerHeight \cup {None, -1},
   close : MarkerHeight \cup {MaxU32 + 1, None, -1}]

Accepted == {s \in Settings : LoadConfiguration(s)}

\* The service starts with settings that loadConfiguration accepts: with others it
\* throws and nothing happens.
Start ==
  /\ settings = None
  /\ tool.step = "start"
  /\ settings' \in Accepted
  /\ UNCHANGED <<blocks, reorgs, born, parent, init, stale, tool>>

\* The heights are u32; a transaction and a configuration are no null.
ASSUME DeploymentAssumption ==
  /\ InitLead \in Nat /\ FoundingWindow \in Nat /\ MaxBlocks \in Nat /\ MaxReorgs \in Nat
  /\ MaxU32 \in Nat /\ FoundingWindow <= MaxU32
  /\ None \notin Int /\ None \notin InitTransaction /\ None \notin Settings

DeploymentNext ==
  \/ \E tx \in Broadcasts : Broadcast(tx)
  \/ Mine
  \/ Disconnect
  \/ Start
  \/ AskInfo \/ AskTransaction \/ AskHeader \/ AskBlock \/ AskParent \/ AskParentHeader
  \/ CallFails \/ RunAgain

DeploymentSpec == DeploymentInit /\ [][DeploymentNext]_deploymentVars

-----------------------------------------------------------------------------
(* Properties *)

Confirmed == init # None /\ init.at # None
ActivationNow == Activation(init, parent, init.at)

\* Valid, if the parent is no later than it was said to be.
ForeseenValid ==
  LET height == IF tool.confirmed THEN tool.place.height ELSE tool.tip + 1 IN
  /\ tool.valid /\ init.at <= height
  /\ ParentIsEarlier(parent, init.at) \/ (init.at = height /\ parent = tool.prevout)

\* Refused while it waited, for other reasons than its parent.
ForeseenInvalid == tool.exit = 2 /\ ~tool.confirmed /\ init.at > tool.tip

\* What validate-init answers is what the indexer does with the INIT, although
\* the tool puts its answer together from up to five questions, between which
\* blocks are connected and disconnected:
\*  - an INIT it calls valid is valid in the block it was judged for, the next one
\*    after the tip of the first question or the INIT's own, and in an earlier one,
\*    as long as its parent is confirmed before;
\*  - one that it refuses while it waits is valid in no block after that tip, so
\*    nothing is lost by dropping it;
\*  - one that it calls confirmed is in the block it says, unless blocks were
\*    disconnected since the tool was started; and while it is, in between or not,
\*    the tool and the indexer say the same of it.  (validate-init.ts.)
ToolForesees ==
  tool.step = "done" /\ tool.exit \in {0, 2, 3} =>
    /\ Confirmed /\ ForeseenValid => ActivationNow.valid
    /\ Confirmed /\ ForeseenInvalid => ~ActivationNow.valid
    /\ tool.confirmed /\ reorgs = tool.began => InChain(tool.place)
    /\ tool.confirmed /\ InChain(tool.place)
         => Confirmed /\ (tool.exit = 0 <=> ActivationNow.valid)

Asserted == settings # None /\ settings.txid = "init" /\ settings.open # None

Denied == CheckConfiguredHeights(settings, ActivationNow)

\* An INIT that confirms at all three heights asserted for it is right about them.
AssertedIsRight ==
  settings.height # None /\ Denied = {} => ActivationNow.reason # "heights"

\* A candidate is denied neither its open nor its close height, and an INIT that
\* activates as it was asserted was a candidate.
CandidateActivates ==
  LET denied == Denied \cap {"open", "close"} IN
  /\ InspectTransaction(settings, init) = "candidate" => denied = {}
  /\ ActivationNow.valid /\ denied = {} => InspectTransaction(settings, init) = "candidate"

\* The heights in the configuration mean to loadConfiguration, to
\* inspectTransaction and to checkConfiguredHeights what they mean to the
\* validator: each place has rules of its own for them, and no INIT is good by one
\* and bad by another once its heights are configured.
AssertionsHold == Asserted /\ Confirmed => AssertedIsRight /\ CandidateActivates
=============================================================================
