---------------------------- MODULE BlockReducer ----------------------------
(***************************************************************************)
(* The reducer of src/indexer/block-reducer.ts: it takes the object map    *)
(* left by the previous block and classifies the transactions of the next  *)
(* one in block order.  Beside the new object map it hands the store an    *)
(* undo entry for every object it touched, the state rows it created, the  *)
(* carrier outpoints it saw spent, the chapters and the object events.     *)
(*                                                                         *)
(* The block's transactions arrive one per step from a Bitcoin chain whose *)
(* coins are tracked in `coins`, so a carrier can be spent in any way      *)
(* Bitcoin allows: by a valid operation, by a malformed one, together with *)
(* other carriers, or in the very block that created it.                   *)
(***************************************************************************)
EXTENDS Integers, FiniteSets

CONSTANTS
  Txid,         \* transaction identifiers (see ObjectLifecycle)
  KeyPair,      \* the two holder keys of a carrier, as one value
  None,         \* null, undefined, and the missing key of a Map
  Untouched,    \* undo: the block has not touched this object
  MaxSequence,  \* the largest state sequence (0xffffffff on the wire)
  OpenHeight,   \* H_open, read from the INIT marker
  CloseHeight,  \* H_close, read from the INIT marker
  InitLead,     \* blocks that must separate the INIT from H_open
  RefundDelay,  \* age of a carrier, in blocks, before it can be refunded
  MaxHeight     \* bound: the chain ends here

ASSUME ReducerAssumption ==
  /\ {MaxSequence, OpenHeight, CloseHeight, InitLead, MaxHeight} \subseteq Nat
  /\ RefundDelay \in Nat \ {0}
  /\ None \notin Txid \cup Nat

VARIABLES
  coins,          \* the chain: every txid's output 1, see Coin
  pc,             \* "idle" between blocks, "reducing" inside reduceBlock
  height,         \* height of the block being reduced, or of the last one
  activation,     \* the INIT as confirmed, or None
  base,           \* input.objects: the object map before this block
  objects,        \* WorkingState.objects
  active,         \* WorkingState.activeByOutpoint
  undo,           \* WorkingState.undo
  newStates,      \* WorkingState.newStates, by outpoint
  spentOutpoints, \* WorkingState.spentOutpoints: outpoint -> spending txid
  chapters,       \* WorkingState.chapters, by txid
  events          \* the object events of the block, as a set

work == <<base, objects, active, undo, newStates, spentOutpoints, chapters,
          events>>
vars == <<coins, pc, height, activation, work>>

-----------------------------------------------------------------------------
(***************************************************************************)
(* Types.                                                                  *)
(***************************************************************************)
Status == {"active", "closed", "refunded", "exited_noncanonical"}

ObjectRecord ==
  [createHeight : Nat, founding : BOOLEAN, status : Status,
   stateSequence : 0 .. MaxSequence, currentOutpoint : Txid \cup {None},
   currentHeight : Nat \cup {None}, keys : KeyPair,
   terminalTxid : Txid \cup {None}, chapterCount : Nat]

\* An operation is what a transaction's marker and shape attempt.  "MALFORMED"
\* has a marker the validator rejects whatever the state (bad encoding, shape,
\* signature, several markers); "UNMARKED" has none and is no refund.
Operation == {"CREATE", "MARK", "ROTATE", "CLOSE", "REFUND", "MALFORMED",
              "UNMARKED"}

\* The coin of a txid: not on this chain yet, spent, or the height that
\* confirmed it while it is unspent.
Unseen == -1
Spent == 0
Coin == {Unseen, Spent} \cup (1 .. MaxHeight)

StateRow == [key : Txid, sequence : 0 .. MaxSequence, keys : KeyPair]
ChapterRow == [key : Txid, sequence : 0 .. MaxSequence]

EventRecord ==
  [type : {"CREATE", "MARK", "ROTATE", "CLOSE", "REFUND",
           "EXITED_NONCANONICAL"},
   key : Txid, sequence : 0 .. MaxSequence,
   predecessor : Txid \cup {None}, successor : Txid \cup {None}]

Activation == [height : Nat, valid : BOOLEAN]

NoRows == [t \in Txid |-> None]

\* The markers are told apart from what they stand beside.
ASSUME MarkerAssumption ==
  /\ Untouched # None
  /\ None \notin ObjectRecord \cup Activation \cup StateRow \cup ChapterRow
  /\ Untouched \notin ObjectRecord

-----------------------------------------------------------------------------
(***************************************************************************)
(* The validator package, as far as its verdict depends on the state.      *)
(***************************************************************************)
\* Mutant: only one of the carriers a transaction spends is seen.
Consumed_First(tx) ==
  LET all == {active[o] : o \in {i \in tx.inputs : active[i] # None}} IN
  IF all = {} THEN {} ELSE {CHOOSE k \in all : TRUE}

Consumed(tx) == {active[o] : o \in {i \in tx.inputs : active[i] # None}}

\* Every input was confirmed in an earlier block.
ConfirmedBefore(tx) == \A o \in tx.inputs : coins[o] < height

\* carrierEvidence: a missing height counts as 0.
CarrierHeight(record) ==
  IF record.currentHeight = None THEN 0 ELSE record.currentHeight

CreateIsValid(tx) ==
  /\ tx.op = "CREATE"
  /\ Consumed(tx) = {}
  /\ ConfirmedBefore(tx)
  /\ height >= OpenHeight

\* What MARK, ROTATE and CLOSE share: one carrier and the next sequence.
StepIsValid(tx, k) ==
  /\ Consumed(tx) = {k}
  /\ ConfirmedBefore(tx)
  /\ objects[k].stateSequence # MaxSequence
  /\ tx.sequence = objects[k].stateSequence + 1

MarkIsValid(tx, k) == tx.op = "MARK" /\ StepIsValid(tx, k)

RotateIsValid(tx, k) ==
  /\ tx.op = "ROTATE"
  /\ StepIsValid(tx, k)
  /\ tx.keys # objects[k].keys

CloseIsValid(tx, k) == tx.op = "CLOSE" /\ StepIsValid(tx, k)

RefundIsValid(tx, k) ==
  /\ tx.op = "REFUND"
  /\ Consumed(tx) = {k}
  /\ tx.inputs = {objects[k].currentOutpoint}
  /\ ConfirmedBefore(tx)
  /\ height >= CarrierHeight(objects[k]) + RefundDelay

IsValid(tx) ==
  \/ CreateIsValid(tx)
  \/ \E k \in Txid : \/ MarkIsValid(tx, k)
                     \/ RotateIsValid(tx, k)
                     \/ CloseIsValid(tx, k)
                     \/ RefundIsValid(tx, k)

-----------------------------------------------------------------------------
(***************************************************************************)
(* touch, terminate and advance.                                           *)
(***************************************************************************)
\* Mutant: every touch snapshots the object.
Touch_Every(K) ==
  undo' = [k \in Txid |-> IF k \in K THEN objects[k] ELSE undo[k]]

\* touch: the first touch in a block snapshots the object.
Touch(K) ==
  undo' = [k \in Txid |->
             IF k \in K /\ undo[k] = Untouched THEN objects[k] ELSE undo[k]]

\* Mutant: the carriers stay in activeByOutpoint.
SpendCarriers_KeepIndex(K, tx, successors) ==
  LET gone == {objects[k].currentOutpoint : k \in K} \ {None} IN
  /\ active' = [o \in Txid |->
       IF o \in DOMAIN successors THEN successors[o] ELSE active[o]]
  /\ spentOutpoints' = [o \in Txid |->
       IF o \in gone THEN tx.id ELSE spentOutpoints[o]]

\* Mutant: the spent carriers are not reported to the store.
SpendCarriers_Unreported(K, tx, successors) ==
  LET gone == {objects[k].currentOutpoint : k \in K} \ {None} IN
  /\ active' = [o \in Txid |->
       IF o \in DOMAIN successors THEN successors[o]
       ELSE IF o \in gone THEN None ELSE active[o]]
  /\ UNCHANGED spentOutpoints

\* The carriers of K leave activeByOutpoint and are recorded as spent by tx.
SpendCarriers(K, tx, successors) ==
  LET gone == {objects[k].currentOutpoint : k \in K} \ {None} IN
  /\ active' = [o \in Txid |->
       IF o \in DOMAIN successors THEN successors[o]
       ELSE IF o \in gone THEN None ELSE active[o]]
  /\ spentOutpoints' = [o \in Txid |->
       IF o \in gone THEN tx.id ELSE spentOutpoints[o]]

NoSuccessor == [o \in {} |-> None]

\* Mutant: an ended object keeps its carrier.
Terminated_KeepOutpoint(record, status, sequence, txid) ==
  [record EXCEPT !.status = status, !.stateSequence = sequence,
                 !.currentHeight = None, !.terminalTxid = txid]

Terminated(record, status, sequence, txid) ==
  [record EXCEPT !.status = status, !.stateSequence = sequence,
                 !.currentOutpoint = None, !.currentHeight = None,
                 !.terminalTxid = txid]

Event(type, k, sequence, successor) ==
  [type |-> type, key |-> k, sequence |-> sequence,
   predecessor |-> IF objects[k] = None THEN None
                   ELSE objects[k].currentOutpoint,
   successor |-> successor]

\* Mutant: the event carries the sequence before the transition.
TerminateOne_OldSequence(k, tx, status, sequence, type) ==
  /\ Touch({k})
  /\ SpendCarriers({k}, tx, NoSuccessor)
  /\ objects' = [objects EXCEPT ![k] = Terminated(@, status, sequence, tx.id)]
  /\ events' = events \cup {Event(type, k, objects[k].stateSequence, None)}
  /\ UNCHANGED <<newStates, chapters>>

TerminateOne(k, tx, status, sequence, type) ==
  /\ Touch({k})
  /\ SpendCarriers({k}, tx, NoSuccessor)
  /\ objects' = [objects EXCEPT ![k] = Terminated(@, status, sequence, tx.id)]
  /\ events' = events \cup {Event(type, k, sequence, None)}
  /\ UNCHANGED <<newStates, chapters>>

Moved(record, sequence, outpoint, keys, chapterCount) ==
  [record EXCEPT !.stateSequence = sequence, !.currentOutpoint = outpoint,
                 !.currentHeight = height, !.keys = keys,
                 !.chapterCount = chapterCount]

Advance(k, tx, keys, chapterCount, type) ==
  /\ Touch({k})
  /\ SpendCarriers({k}, tx, [o \in {tx.id} |-> k])
  /\ objects' = [objects EXCEPT ![k] =
                   Moved(@, tx.sequence, tx.id, keys, chapterCount)]
  /\ newStates' = [newStates EXCEPT ![tx.id] =
       [key |-> k, sequence |-> tx.sequence, keys |-> keys]]
  /\ events' = events \cup {Event(type, k, tx.sequence, tx.id)}

-----------------------------------------------------------------------------
(***************************************************************************)
(* One transaction of the block, as classifyTransaction handles it.        *)
(***************************************************************************)
\* What the chain may bring next: a new txid whose inputs are unspent, some
\* perhaps created in this very block.
Arriving ==
  [id : {t \in Txid : coins[t] = Unseen},
   inputs : SUBSET {t \in Txid : coins[t] > Spent},
   op : Operation, sequence : 0 .. MaxSequence + 1, keys : KeyPair]

Deliver(tx) ==
  /\ pc = "reducing"
  /\ coins' = [t \in Txid |-> IF t = tx.id THEN height
                              ELSE IF t \in tx.inputs THEN Spent
                              ELSE coins[t]]
  /\ UNCHANGED <<pc, height, activation, base>>

Classify(tx) == Deliver(tx) /\ activation.valid

CreateObject(tx) ==
  /\ Classify(tx)
  /\ CreateIsValid(tx)
  /\ Touch({tx.id})
  /\ objects' = [objects EXCEPT ![tx.id] =
       [createHeight |-> height,
        founding |-> height >= OpenHeight /\ height < CloseHeight,
        status |-> "active", stateSequence |-> 0, currentOutpoint |-> tx.id,
        currentHeight |-> height, keys |-> tx.keys, terminalTxid |-> None,
        chapterCount |-> 0]]
  /\ active' = [active EXCEPT ![tx.id] = tx.id]
  /\ newStates' = [newStates EXCEPT ![tx.id] =
       [key |-> tx.id, sequence |-> 0, keys |-> tx.keys]]
  /\ events' = events \cup {Event("CREATE", tx.id, 0, tx.id)}
  /\ UNCHANGED <<spentOutpoints, chapters>>

MarkObject(tx, k) ==
  /\ Classify(tx)
  /\ MarkIsValid(tx, k)
  /\ Advance(k, tx, objects[k].keys, objects[k].chapterCount + 1, "MARK")
  /\ chapters' = [chapters EXCEPT ![tx.id] =
       [key |-> k, sequence |-> tx.sequence]]

RotateObject(tx, k) ==
  /\ Classify(tx)
  /\ RotateIsValid(tx, k)
  /\ Advance(k, tx, tx.keys, objects[k].chapterCount, "ROTATE")
  /\ UNCHANGED chapters

CloseObject(tx, k) ==
  /\ Classify(tx)
  /\ CloseIsValid(tx, k)
  /\ TerminateOne(k, tx, "closed", tx.sequence, "CLOSE")

RefundObject(tx, k) ==
  /\ Classify(tx)
  /\ RefundIsValid(tx, k)
  /\ TerminateOne(k, tx, "refunded", objects[k].stateSequence, "REFUND")

\* Mutant: leaving the rules counts as a step.
ExitNoncanonical_Advances(tx) ==
  LET K == Consumed(tx) IN
  /\ Classify(tx)
  /\ ~IsValid(tx)
  /\ K # {}
  /\ Touch(K)
  /\ SpendCarriers(K, tx, NoSuccessor)
  /\ objects' = [k \in Txid |->
       IF k \in K
       THEN Terminated(objects[k], "exited_noncanonical",
                       objects[k].stateSequence + 1, tx.id)
       ELSE objects[k]]
  /\ events' = events \cup
       {Event("EXITED_NONCANONICAL", k, objects[k].stateSequence, None) :
          k \in K}
  /\ UNCHANGED <<newStates, chapters>>

\* A transaction that spends carriers and is no valid operation ends them all.
ExitNoncanonical(tx) ==
  LET K == Consumed(tx) IN
  /\ Classify(tx)
  /\ ~IsValid(tx)
  /\ K # {}
  /\ Touch(K)
  /\ SpendCarriers(K, tx, NoSuccessor)
  /\ objects' = [k \in Txid |->
       IF k \in K
       THEN Terminated(objects[k], "exited_noncanonical",
                       objects[k].stateSequence, tx.id)
       ELSE objects[k]]
  /\ events' = events \cup
       {Event("EXITED_NONCANONICAL", k, objects[k].stateSequence, None) :
          k \in K}
  /\ UNCHANGED <<newStates, chapters>>

\* Irrelevant, or an INVALID event without an object: no object changes.
PassOver(tx) ==
  /\ Classify(tx)
  /\ ~IsValid(tx)
  /\ Consumed(tx) = {}
  /\ UNCHANGED <<objects, active, undo, newStates, spentOutpoints, chapters,
                 events>>

\* After a failed INIT the chain is followed but nothing is classified.
SkipAfterFailedInit(tx) ==
  /\ Deliver(tx)
  /\ ~activation.valid
  /\ UNCHANGED <<objects, active, undo, newStates, spentOutpoints, chapters,
                 events>>

-----------------------------------------------------------------------------
(***************************************************************************)
(* Block boundaries.                                                       *)
(***************************************************************************)
\* The INIT is valid only if it confirms early enough before H_open.
InitIsValid(h) == OpenHeight >= h + InitLead

\* Entry of reduceBlock.  A null activation makes this the INIT block.
BeginBlock ==
  /\ pc = "idle"
  /\ height < MaxHeight
  /\ pc' = "reducing"
  /\ height' = height + 1
  /\ activation' = IF activation # None THEN activation
                   ELSE [height |-> height + 1, valid |-> InitIsValid(height + 1)]
  /\ base' = objects
  /\ active' = [o \in Txid |->
       IF \E k \in Txid : /\ objects[k] # None
                          /\ objects[k].status = "active"
                          /\ objects[k].currentOutpoint = o
       THEN CHOOSE k \in Txid : /\ objects[k] # None
                                /\ objects[k].status = "active"
                                /\ objects[k].currentOutpoint = o
       ELSE None]
  /\ undo' = [k \in Txid |-> Untouched]
  /\ newStates' = NoRows
  /\ spentOutpoints' = NoRows
  /\ chapters' = NoRows
  /\ events' = {}
  /\ UNCHANGED <<coins, objects>>

\* Exit of reduceBlock: the working state is the ReducedBlock it returns.
EndBlock ==
  /\ pc = "reducing"
  /\ pc' = "idle"
  /\ UNCHANGED <<coins, height, activation, work>>

ReduceTransaction ==
  \/ \E tx \in Arriving : CreateObject(tx)
  \/ \E tx \in Arriving, k \in Txid : MarkObject(tx, k)
  \/ \E tx \in Arriving, k \in Txid : RotateObject(tx, k)
  \/ \E tx \in Arriving, k \in Txid : CloseObject(tx, k)
  \/ \E tx \in Arriving, k \in Txid : RefundObject(tx, k)
  \/ \E tx \in Arriving : ExitNoncanonical(tx)
  \/ \E tx \in Arriving : PassOver(tx)
  \/ \E tx \in Arriving : SkipAfterFailedInit(tx)

Init ==
  /\ coins = [t \in Txid |-> Unseen]
  /\ pc = "idle"
  /\ height \in 0 .. MaxHeight
  /\ activation = None
  /\ base = NoRows
  /\ objects = NoRows
  /\ active = NoRows
  /\ undo = [k \in Txid |-> Untouched]
  /\ newStates = NoRows
  /\ spentOutpoints = NoRows
  /\ chapters = NoRows
  /\ events = {}

Next ==
  \/ BeginBlock
  \/ ReduceTransaction
  \/ EndBlock

Spec == Init /\ [][Next]_vars

-----------------------------------------------------------------------------
(***************************************************************************)
(* What must hold.                                                         *)
(***************************************************************************)
\* Every variable has its type.
TypeOK ==
  /\ coins \in [Txid -> Coin]
  /\ pc \in {"idle", "reducing"}
  /\ height \in 0 .. MaxHeight
  /\ activation \in Activation \cup {None}
  /\ base \in [Txid -> ObjectRecord \cup {None}]
  /\ objects \in [Txid -> ObjectRecord \cup {None}]
  /\ active \in [Txid -> Txid \cup {None}]
  /\ undo \in [Txid -> ObjectRecord \cup {None, Untouched}]
  /\ newStates \in [Txid -> StateRow \cup {None}]
  /\ spentOutpoints \in [Txid -> Txid \cup {None}]
  /\ chapters \in [Txid -> ChapterRow \cup {None}]
  /\ events \subseteq EventRecord

IsActive(k) == objects[k] # None /\ objects[k].status = "active"

(***************************************************************************)
(* The undo journal is exact (touch, block-reducer.ts): an object the      *)
(* block touched has its state before the block recorded, however often it *)
(* changed since, and an object without an entry has not changed.  This is *)
(* what lets a rollback restore the map without replaying the chain.       *)
(***************************************************************************)
UndoExact ==
  \A k \in Txid : IF undo[k] = Untouched THEN objects[k] = base[k]
                                         ELSE undo[k] = base[k]

(***************************************************************************)
(* No object is held active on a carrier the chain has already spent, and  *)
(* the height that decides a refund's maturity is the carrier's own: every *)
(* way to spend a carrier, canonical or not, must end or move its object.  *)
(***************************************************************************)
ActiveCarrierIsUnspent ==
  \A k \in Txid : IsActive(k) =>
    /\ objects[k].currentOutpoint # None
    /\ objects[k].currentHeight # None
    /\ coins[objects[k].currentOutpoint] = objects[k].currentHeight
    /\ objects[k].currentHeight > 0

(***************************************************************************)
(* activeByOutpoint is exactly the active objects' carriers: an entry left *)
(* behind or missing would misjudge a later transaction of the block.      *)
(***************************************************************************)
ActiveIndexExact ==
  pc = "reducing" =>
    \A o, k \in Txid :
      (active[o] = k) <=> (IsActive(k) /\ objects[k].currentOutpoint = o)

(***************************************************************************)
(* An object advances at most once per block: a carrier must be confirmed  *)
(* below the height that spends it, so the sequence number of an object    *)
(* grows by at most one per block, however the block orders its spends.    *)
(***************************************************************************)
OneStepPerBlock ==
  \A k \in Txid : objects[k] # None =>
    IF base[k] = None
    THEN objects[k].stateSequence = 0
    ELSE objects[k].stateSequence \in
           {base[k].stateSequence, base[k].stateSequence + 1}

(***************************************************************************)
(* The rows handed to the store account for the change of the object map:  *)
(* the live carriers after the block are those before it and the created   *)
(* ones, less the spent ones, and each created row still live carries the  *)
(* sequence and keys of its object.                                        *)
(***************************************************************************)
LiveIn(map, o, k) ==
  /\ map[k] # None
  /\ map[k].status = "active"
  /\ map[k].currentOutpoint = o

RowsAccountForObjects ==
  \A o, k \in Txid :
    LiveIn(objects, o, k) <=>
      /\ spentOutpoints[o] = None
      /\ \/ LiveIn(base, o, k) /\ newStates[o] = None
         \/ /\ newStates[o] # None
            /\ objects[k] # None
            /\ newStates[o] = [key |-> k, sequence |-> objects[k].stateSequence,
                               keys |-> objects[k].keys]

(***************************************************************************)
(* The events a reader sees explain the map: an object without events has  *)
(* not changed; the successors less the predecessors of its events are its *)
(* carrier; a terminal event names its final status; and every MARK is a   *)
(* chapter.  A client replaying the block's events gets of the map status, *)
(* sequence, carrier and chapters; key pairs and terminalTxid are not      *)
(* compared.                                                               *)
(***************************************************************************)
EventsOf(k) == {e \in events : e.key = k}

StatusAfter(type) ==
  IF type = "CLOSE" THEN "closed"
  ELSE IF type = "REFUND" THEN "refunded"
  ELSE IF type = "EXITED_NONCANONICAL" THEN "exited_noncanonical"
  ELSE "active"

EventsExplainObjects ==
  \A k \in Txid :
    LET E == EventsOf(k)
        last == {e \in E : \A f \in E : e.successor = None
                                        \/ f.predecessor # e.successor}
    IN IF E = {} THEN objects[k] = base[k]
       ELSE /\ objects[k] # None
            /\ \E e \in last :
                 /\ \A f \in last : f = e
                 /\ objects[k].status = StatusAfter(e.type)
                 /\ objects[k].stateSequence = e.sequence
                 /\ objects[k].currentOutpoint = e.successor
            /\ objects[k].chapterCount =
                 (IF base[k] = None THEN 0 ELSE base[k].chapterCount)
                 + Cardinality({e \in E : e.type = "MARK"})

(***************************************************************************)
(* Each transaction applies transitions of the promised life cycle         *)
(* (src/protocol/state-engine.ts) and nothing else.                        *)
(***************************************************************************)
LifecycleState(record) ==
  IF record = None THEN None
  ELSE [status |-> record.status, sequence |-> record.stateSequence,
        currentOutpoint |-> record.currentOutpoint, keys |-> record.keys,
        chapterCount |-> record.chapterCount,
        terminalTxid |-> record.terminalTxid]

LifecycleStates == [k \in Txid |-> LifecycleState(objects[k])]

Lifecycle == INSTANCE ObjectLifecycle WITH states <- LifecycleStates

\* An absent object is no state of the life cycle.
ASSUME LifecycleAssumption == None \notin Lifecycle!IndexedObjectState

ImplementsLifecycle == Lifecycle!Spec

-----------------------------------------------------------------------------
(***************************************************************************)
(* The inductive invariant behind the safety properties above.             *)
(***************************************************************************)
CarriersAreDistinct ==
  \A j, k \in Txid :
    /\ IsActive(j) /\ IsActive(k)
    /\ objects[j].currentOutpoint = objects[k].currentOutpoint
    => j = k

UnseenTxidHasNoObject == \A k \in Txid : coins[k] = Unseen => objects[k] = None

NothingBeforeValidInit ==
  (IF activation = None THEN TRUE ELSE ~activation.valid)
    => \A k \in Txid : ~IsActive(k)

BlockIsPlaced == pc = "reducing" => height > 0 /\ activation # None

IInv ==
  /\ TypeOK
  /\ UndoExact
  /\ ActiveIndexExact
  /\ ActiveCarrierIsUnspent
  /\ CarriersAreDistinct
  /\ UnseenTxidHasNoObject
  /\ NothingBeforeValidInit
  /\ BlockIsPlaced
=============================================================================
