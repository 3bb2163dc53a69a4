------------------------- MODULE BlockReducerProofs -------------------------
(***************************************************************************)
(* Theorems about BlockReducer, for every value of its constants: the      *)
(* object map and its undo rows while a block is reduced, and then what    *)
(* the block that reduceBlock returns is worth to the store, how its       *)
(* objects, state rows, spent marks, chapters and events follow from the   *)
(* object map it started from.                                             *)
(***************************************************************************)
EXTENDS BlockReducer, FiniteSetTheorems, TLAPS

-----------------------------------------------------------------------------
(***************************************************************************)
(* Lemmas about one transaction.                                           *)
(***************************************************************************)
\* The initial states satisfy the inductive invariant.
LEMMA InitIInv == Init => IInv
<1> SUFFICES ASSUME Init PROVE IInv
  OBVIOUS
<1>1. TypeOK
  BY ReducerAssumption DEF Init, TypeOK, Coin, Unseen, Spent, NoRows
<1>2. QED
  BY <1>1, ReducerAssumption
  DEF Init, IInv, UndoExact, ActiveIndexExact, ActiveCarrierIsUnspent,
      CarriersAreDistinct, UnseenTxidHasNoObject, NothingBeforeValidInit,
      BlockIsPlaced, IsActive, NoRows

\* What the arrival of a transaction gives, whatever the reducer makes of it.
LEMMA DeliverType ==
  ASSUME IInv, NEW tx \in Arriving, Deliver(tx)
  PROVE  /\ coins' \in [Txid -> Coin]
         /\ pc' = "reducing"
         /\ height' = height
         /\ height \in 1 .. MaxHeight
         /\ height \in Nat
         /\ activation' = activation
         /\ activation \in Activation
         /\ activation # None
         /\ base' = base
         /\ base \in [Txid -> ObjectRecord \cup {None}]
         /\ tx.id \in Txid
         /\ coins[tx.id] = Unseen
         /\ coins'[tx.id] = height
         /\ tx.id \notin tx.inputs
         /\ tx.keys \in KeyPair
         /\ tx.inputs \in SUBSET Txid
         /\ \A t \in Txid \ tx.inputs : t # tx.id => coins'[t] = coins[t]
         /\ \A t \in tx.inputs : coins[t] \in 1 .. MaxHeight
<1>1. /\ pc = "reducing" /\ height \in 1 .. MaxHeight
      /\ activation \in Activation /\ activation # None
  BY ReducerAssumption DEF Deliver, IInv, TypeOK, BlockIsPlaced
<1>2. /\ tx.id \in Txid /\ coins[tx.id] = Unseen /\ tx.keys \in KeyPair
      /\ tx.inputs \in SUBSET Txid
      /\ \A t \in tx.inputs : coins[t] > Spent
  BY DEF Arriving
<1>3. \A t \in tx.inputs : coins[t] \in 1 .. MaxHeight
  BY <1>2, ReducerAssumption DEF IInv, TypeOK, Coin, Spent, Unseen
<1>4. tx.id \notin tx.inputs
  BY <1>2 DEF Spent, Unseen
<1>5. coins' \in [Txid -> Coin]
  BY <1>1, ReducerAssumption DEF Deliver, IInv, TypeOK, Coin
<1>6. QED
  BY <1>1, <1>2, <1>3, <1>4, <1>5, ReducerAssumption
  DEF Deliver, IInv, TypeOK

\* The objects a transaction spends are the active ones whose carriers are
\* among its inputs; the others keep an unspent carrier.
LEMMA ConsumedObjects ==
  ASSUME IInv, NEW tx \in Arriving, Deliver(tx)
  PROVE  /\ \A k \in Consumed(tx) :
              /\ k \in Txid
              /\ IsActive(k)
              /\ objects[k] \in ObjectRecord
              /\ objects[k].currentOutpoint \in tx.inputs
         /\ \A k \in Txid \ Consumed(tx) : IsActive(k) =>
              /\ objects[k].currentOutpoint \in Txid
              /\ objects[k].currentOutpoint \notin tx.inputs
              /\ objects[k].currentOutpoint # tx.id
              /\ coins'[objects[k].currentOutpoint] = objects[k].currentHeight
<1> USE DeliverType
<1>1. \A o, k \in Txid :
        (active[o] = k) <=> (IsActive(k) /\ objects[k].currentOutpoint = o)
  BY DEF Deliver, IInv, ActiveIndexExact
<1>2. ASSUME NEW k \in Consumed(tx)
      PROVE  /\ k \in Txid
             /\ IsActive(k)
             /\ objects[k] \in ObjectRecord
             /\ objects[k].currentOutpoint \in tx.inputs
  <2>1. PICK o \in tx.inputs : active[o] # None /\ active[o] = k
    BY DEF Consumed
  <2>2. o \in Txid /\ k \in Txid
    BY <2>1 DEF IInv, TypeOK
  <2>3. QED
    BY <1>1, <2>1, <2>2 DEF IInv, TypeOK, IsActive
<1>3. ASSUME NEW k \in Txid \ Consumed(tx), IsActive(k)
      PROVE  /\ objects[k].currentOutpoint \in Txid
             /\ objects[k].currentOutpoint \notin tx.inputs
             /\ objects[k].currentOutpoint # tx.id
             /\ coins'[objects[k].currentOutpoint] = objects[k].currentHeight
  <2>1. /\ objects[k].currentOutpoint \in Txid
        /\ coins[objects[k].currentOutpoint] = objects[k].currentHeight
        /\ objects[k].currentHeight > 0
    BY <1>3 DEF IInv, ActiveCarrierIsUnspent, TypeOK, ObjectRecord, IsActive
  <2>2. active[objects[k].currentOutpoint] = k
    BY <1>1, <1>3, <2>1
  <2>3. k # None
    BY ReducerAssumption
  <2>4. objects[k].currentOutpoint \notin tx.inputs
    BY <2>2, <2>3 DEF Consumed
  <2>5. objects[k].currentOutpoint # tx.id
    BY <2>1 DEF Unseen
  <2>6. QED
    BY <2>1, <2>4, <2>5
<1>4. QED
  BY <1>2, <1>3

-----------------------------------------------------------------------------
(***************************************************************************)
(* What touch and the spending of carriers do, whoever calls them.         *)
(***************************************************************************)
\* touch keeps the journal exact for a change confined to the touched objects.
LEMMA TouchKeepsUndoExact ==
  ASSUME TypeOK, UndoExact, NEW K \in SUBSET Txid, Touch(K), base' = base,
         \A k \in Txid \ K : objects'[k] = objects[k]
  PROVE  /\ UndoExact'
         /\ undo' \in [Txid -> ObjectRecord \cup {None, Untouched}]
<1>1. undo' \in [Txid -> ObjectRecord \cup {None, Untouched}]
  BY DEF Touch, TypeOK
<1>2. ASSUME NEW k \in Txid
      PROVE  IF undo'[k] = Untouched THEN objects'[k] = base'[k]
                                     ELSE undo'[k] = base'[k]
  <2>1. objects[k] # Untouched
    BY MarkerAssumption DEF TypeOK
  <2>2. undo'[k] = IF k \in K /\ undo[k] = Untouched THEN objects[k] ELSE undo[k]
    BY DEF Touch
  <2>3. CASE k \in K
    BY <2>1, <2>2, <2>3 DEF UndoExact
  <2>4. CASE k \notin K
    BY <2>2, <2>4 DEF UndoExact
  <2>5. QED
    BY <2>3, <2>4
<1>3. QED
  BY <1>1, <1>2 DEF UndoExact

\* The carriers of the consumed objects are among the inputs.
LEMMA SpendCarriersType ==
  ASSUME IInv, NEW tx \in Arriving, Deliver(tx), NEW successors,
         SpendCarriers(Consumed(tx), tx, successors),
         \A o \in DOMAIN successors : successors[o] \in Txid
  PROVE  /\ active' \in [Txid -> Txid \cup {None}]
         /\ spentOutpoints' \in [Txid -> Txid \cup {None}]
BY DeliverType DEF SpendCarriers, IInv, TypeOK

(***************************************************************************)
(* A transaction that ends exactly the objects it consumes.                *)
(***************************************************************************)
LEMMA TerminationKeepsIInv ==
  ASSUME IInv, NEW tx \in Arriving, Classify(tx),
         Touch(Consumed(tx)),
         SpendCarriers(Consumed(tx), tx, NoSuccessor),
         objects' \in [Txid -> ObjectRecord \cup {None}],
         \A k \in Consumed(tx) : objects'[k] # None
                                 /\ objects'[k].status # "active",
         \A k \in Txid \ Consumed(tx) : objects'[k] = objects[k],
         UNCHANGED <<newStates, chapters>>,
         events' \subseteq EventRecord
  PROVE  IInv'
<1>1. Deliver(tx) /\ activation.valid
  BY DEF Classify
<1>2. Consumed(tx) \in SUBSET Txid
  BY <1>1, ConsumedObjects
<1>3. UndoExact' /\ undo' \in [Txid -> ObjectRecord \cup {None, Untouched}]
  BY <1>1, <1>2, DeliverType, TouchKeepsUndoExact DEF IInv
<1>4. TypeOK'
  <2>1. /\ active' \in [Txid -> Txid \cup {None}]
        /\ spentOutpoints' \in [Txid -> Txid \cup {None}]
    BY <1>1, SpendCarriersType DEF NoSuccessor
  <2>2. QED
    BY <1>1, <1>3, <2>1, DeliverType DEF IInv, TypeOK
<1>5. \A k \in Txid : IsActive(k)' <=> k \notin Consumed(tx) /\ IsActive(k)
  BY <1>2 DEF IsActive
<1>6. \A k \in Txid : IsActive(k)' => objects'[k] = objects[k]
  BY <1>5
<1>7. ActiveIndexExact'
  <2>1. \A o, k \in Txid :
          (active[o] = k) <=> (IsActive(k) /\ objects[k].currentOutpoint = o)
    BY <1>1 DEF Deliver, IInv, ActiveIndexExact
  <2> DEFINE gone == {objects[k].currentOutpoint : k \in Consumed(tx)} \ {None}
  <2>2. \A o \in Txid : active'[o] = IF o \in gone THEN None ELSE active[o]
    BY DEF SpendCarriers, NoSuccessor
  <2>3. ASSUME NEW o \in Txid, NEW k \in Txid
        PROVE  (active'[o] = k) <=>
                 (IsActive(k)' /\ objects'[k].currentOutpoint = o)
    <3>1. k # None /\ o # None
      BY ReducerAssumption
    <3>2. CASE o \in gone
      <4>1. PICK j \in Consumed(tx) : objects[j].currentOutpoint = o
        BY <3>2
      <4>2. IsActive(j) /\ j \in Txid
        BY <1>1, ConsumedObjects
      <4>3. active[o] = j
        BY <2>1, <4>1, <4>2
      <4>4. ~(IsActive(k)' /\ objects'[k].currentOutpoint = o)
        BY <1>5, <1>6, <2>1, <4>1, <4>2, <4>3
      <4>5. QED
        BY <2>2, <3>1, <3>2, <4>4
    <3>3. CASE o \notin gone
      <4>1. active'[o] = active[o]
        BY <2>2, <3>3
      <4>2. IsActive(k) /\ objects[k].currentOutpoint = o => k \notin Consumed(tx)
        BY <3>1, <3>3
      <4>3. QED
        BY <1>5, <1>6, <2>1, <4>1, <4>2
    <3>4. QED
      BY <3>2, <3>3
  <2>4. QED
    BY <2>3 DEF ActiveIndexExact
<1>8. ActiveCarrierIsUnspent'
  BY <1>1, <1>5, <1>6, ConsumedObjects
  DEF IInv, ActiveCarrierIsUnspent
<1>9. CarriersAreDistinct'
  BY <1>5, <1>6 DEF IInv, CarriersAreDistinct
<1>10. UnseenTxidHasNoObject'
  <2>1. ASSUME NEW k \in Txid, coins'[k] = Unseen PROVE objects'[k] = None
    <3>1. coins[k] = Unseen
      BY <1>1, <2>1, DeliverType DEF Deliver, Unseen, Spent
    <3>2. objects[k] = None
      BY <3>1 DEF IInv, UnseenTxidHasNoObject
    <3>3. k \notin Consumed(tx)
      BY <1>1, <3>2, ConsumedObjects DEF IsActive
    <3>4. QED
      BY <3>2, <3>3
  <2>2. QED
    BY <2>1 DEF UnseenTxidHasNoObject
<1>11. NothingBeforeValidInit' /\ BlockIsPlaced'
  BY <1>1, DeliverType DEF NothingBeforeValidInit, BlockIsPlaced
<1>12. QED
  BY <1>3, <1>4, <1>7, <1>8, <1>9, <1>10, <1>11 DEF IInv

(***************************************************************************)
(* A transaction that moves the one object it consumes to its output.      *)
(***************************************************************************)
LEMMA AdvanceKeepsIInv ==
  ASSUME IInv, NEW tx \in Arriving, Classify(tx), NEW k \in Txid,
         Consumed(tx) = {k}, tx.sequence \in 0 .. MaxSequence,
         NEW keys \in KeyPair, NEW chapterCount \in Nat,
         NEW type \in {"MARK", "ROTATE"},
         Advance(k, tx, keys, chapterCount, type),
         chapters' \in [Txid -> ChapterRow \cup {None}]
  PROVE  IInv'
<1> DEFINE moved == Moved(objects[k], tx.sequence, tx.id, keys, chapterCount)
<1>1. Deliver(tx) /\ activation.valid
  BY DEF Classify
<1>2. /\ k \in Consumed(tx)
      /\ IsActive(k)
      /\ objects[k] \in ObjectRecord
      /\ objects[k].currentOutpoint \in tx.inputs
  BY <1>1, ConsumedObjects
<1>3. /\ moved \in ObjectRecord
      /\ moved.status = "active"
      /\ moved.currentOutpoint = tx.id
      /\ moved.currentHeight = height
  BY <1>1, <1>2, DeliverType DEF Moved, ObjectRecord, IsActive
<1>4. objects' = [objects EXCEPT ![k] = moved]
  BY DEF Advance
<1>5. moved # None
  BY <1>3, MarkerAssumption
<1>6. /\ objects' \in [Txid -> ObjectRecord \cup {None}]
      /\ objects'[k] = moved
      /\ \A j \in Txid \ {k} : objects'[j] = objects[j]
  BY <1>3, <1>4 DEF IInv, TypeOK
<1> HIDE DEF moved
<1>7. UndoExact' /\ undo' \in [Txid -> ObjectRecord \cup {None, Untouched}]
  <2>1. Touch({k}) /\ {k} \in SUBSET Txid
    BY DEF Advance
  <2>2. \A j \in Txid \ {k} : objects'[j] = objects[j]
    BY <1>6
  <2>3. base' = base
    BY <1>1, DeliverType
  <2>4. TypeOK /\ UndoExact
    BY DEF IInv
  <2>5. QED
    BY <2>1, <2>2, <2>3, <2>4, TouchKeepsUndoExact
<1> DEFINE successors == [o \in {tx.id} |-> k]
<1>8. SpendCarriers({k}, tx, successors)
  BY DEF Advance
<1>9. TypeOK'
  <2>1. /\ active' \in [Txid -> Txid \cup {None}]
        /\ spentOutpoints' \in [Txid -> Txid \cup {None}]
    <3>1. \A o \in DOMAIN successors : successors[o] \in Txid
      OBVIOUS
    <3>2. SpendCarriers(Consumed(tx), tx, successors)
      BY <1>8
    <3> HIDE DEF successors
    <3>3. QED
      BY <1>1, <3>1, <3>2, SpendCarriersType
  <2>2. newStates' \in [Txid -> StateRow \cup {None}]
    BY <1>1, DeliverType DEF Advance, IInv, TypeOK, StateRow
  <2>3. events' \subseteq EventRecord
    <3>1. Event(type, k, tx.sequence, tx.id) \in EventRecord
      BY <1>1, <1>2, DeliverType DEF Event, EventRecord, IsActive, ObjectRecord
    <3>2. QED
      BY <3>1 DEF Advance, IInv, TypeOK
  <2>4. QED
    BY <1>1, <1>6, <1>7, <2>1, <2>2, <2>3, DeliverType DEF IInv, TypeOK
<1>10. \A j \in Txid : IsActive(j)' <=> IsActive(j)
  BY <1>2, <1>3, <1>5, <1>6 DEF IsActive
<1>11. ActiveIndexExact'
  <2>1. \A o, j \in Txid :
          (active[o] = j) <=> (IsActive(j) /\ objects[j].currentOutpoint = o)
    BY <1>1 DEF Deliver, IInv, ActiveIndexExact
  <2>2. objects[k].currentOutpoint \in Txid /\ objects[k].currentOutpoint # tx.id
    BY <1>1, <1>2, DeliverType
  <2>3. \A o \in Txid :
          active'[o] = IF o = tx.id THEN k
                       ELSE IF o = objects[k].currentOutpoint THEN None
                       ELSE active[o]
    BY <1>8, <2>2, ReducerAssumption DEF SpendCarriers
  <2>4. ASSUME NEW o \in Txid, NEW j \in Txid
        PROVE  (active'[o] = j) <=>
                 (IsActive(j)' /\ objects'[j].currentOutpoint = o)
    <3>1. j # None
      BY ReducerAssumption
    <3>2. CASE j = k
      BY <1>2, <1>3, <1>6, <1>10, <2>1, <2>2, <2>3, <3>1, <3>2
    <3>3. CASE j # k
      <4>1. IsActive(j) => objects[j].currentOutpoint # tx.id
        BY <1>1, <3>3, ConsumedObjects
      <4>2. objects'[j] = objects[j] /\ (IsActive(j)' <=> IsActive(j))
        BY <1>6, <1>10, <3>3
      <4>3. IsActive(j) => objects[j].currentOutpoint # objects[k].currentOutpoint
        BY <1>2, <2>1, <2>2, <3>3
      <4>4. CASE o = tx.id
        BY <2>3, <3>3, <4>1, <4>2, <4>4
      <4>5. CASE o = objects[k].currentOutpoint
        BY <2>2, <2>3, <3>1, <4>2, <4>3, <4>5
      <4>6. CASE o # tx.id /\ o # objects[k].currentOutpoint
        BY <2>1, <2>3, <4>2, <4>6
      <4>7. QED
        BY <4>4, <4>5, <4>6
    <3>4. QED
      BY <3>2, <3>3
  <2>5. QED
    BY <2>4 DEF ActiveIndexExact
<1>12. ActiveCarrierIsUnspent'
  <2>1. ASSUME NEW j \in Txid, IsActive(j)'
        PROVE  /\ objects'[j].currentOutpoint # None
               /\ objects'[j].currentHeight # None
               /\ coins'[objects'[j].currentOutpoint] = objects'[j].currentHeight
               /\ objects'[j].currentHeight > 0
    <3>1. CASE j = k
      BY <1>1, <1>3, <1>6, <3>1, DeliverType, ReducerAssumption
    <3>2. CASE j # k
      BY <1>1, <1>6, <1>10, <2>1, <3>2, ConsumedObjects
      DEF IInv, ActiveCarrierIsUnspent
    <3>3. QED
      BY <3>1, <3>2
  <2>2. QED
    BY <2>1 DEF ActiveCarrierIsUnspent
<1>13. CarriersAreDistinct'
  <2>1. \A j \in Txid \ {k} : IsActive(j) =>
          objects[j].currentOutpoint # tx.id
    BY <1>1, ConsumedObjects
  <2>2. QED
    BY <1>3, <1>6, <1>10, <2>1 DEF IInv, CarriersAreDistinct
<1>14. UnseenTxidHasNoObject'
  <2>1. ASSUME NEW j \in Txid, coins'[j] = Unseen PROVE objects'[j] = None
    <3>1. coins[j] = Unseen
      BY <1>1, <2>1, DeliverType DEF Deliver, Unseen, Spent
    <3>2. objects[j] = None
      BY <3>1 DEF IInv, UnseenTxidHasNoObject
    <3>3. QED
      BY <1>2, <1>6, <3>2 DEF IsActive
  <2>2. QED
    BY <2>1 DEF UnseenTxidHasNoObject
<1>15. NothingBeforeValidInit' /\ BlockIsPlaced'
  BY <1>1, DeliverType DEF NothingBeforeValidInit, BlockIsPlaced
<1>16. QED
  BY <1>7, <1>9, <1>11, <1>12, <1>13, <1>14, <1>15 DEF IInv

-----------------------------------------------------------------------------
(***************************************************************************)
(* Each action keeps the invariant.                                        *)
(***************************************************************************)
\* A CREATE consumes no object and adds one whose carrier is the new coin.
LEMMA CreateKeepsIInv ==
  ASSUME IInv, NEW tx \in Arriving, CreateObject(tx)
  PROVE  IInv'
<1> DEFINE created ==
      [createHeight |-> height,
       founding |-> height >= OpenHeight /\ height < CloseHeight,
       status |-> "active", stateSequence |-> 0, currentOutpoint |-> tx.id,
       currentHeight |-> height, keys |-> tx.keys, terminalTxid |-> None,
       chapterCount |-> 0]
<1>1. Deliver(tx) /\ activation.valid /\ Consumed(tx) = {}
  BY DEF CreateObject, Classify, CreateIsValid
<1>2. tx.id \in Txid /\ objects[tx.id] = None
  BY <1>1, DeliverType DEF IInv, UnseenTxidHasNoObject
<1>3. /\ created \in ObjectRecord
      /\ created.status = "active"
      /\ created.currentOutpoint = tx.id
      /\ created.currentHeight = height
  <2>1. (height >= OpenHeight /\ height < CloseHeight) \in BOOLEAN
    OBVIOUS
  <2>2. 0 \in 0 .. MaxSequence
    BY ReducerAssumption
  <2>3. QED
    BY <1>1, <2>1, <2>2, DeliverType DEF ObjectRecord, Status
<1>4. objects' = [objects EXCEPT ![tx.id] = created]
  BY DEF CreateObject
<1> HIDE DEF created
<1>5. created # None
  BY <1>3, MarkerAssumption
<1>6. /\ objects' \in [Txid -> ObjectRecord \cup {None}]
      /\ objects'[tx.id] = created
      /\ \A j \in Txid \ {tx.id} : objects'[j] = objects[j]
  BY <1>2, <1>3, <1>4 DEF IInv, TypeOK
<1>7. UndoExact' /\ undo' \in [Txid -> ObjectRecord \cup {None, Untouched}]
  <2>1. Touch({tx.id}) /\ {tx.id} \in SUBSET Txid
    BY <1>2 DEF CreateObject
  <2>2. base' = base /\ TypeOK /\ UndoExact
    BY <1>1, DeliverType DEF IInv
  <2>3. QED
    BY <1>6, <2>1, <2>2, TouchKeepsUndoExact
<1>8. TypeOK'
  <2>1. active' \in [Txid -> Txid \cup {None}]
    BY <1>2 DEF CreateObject, IInv, TypeOK
  <2>2. newStates' \in [Txid -> StateRow \cup {None}]
    BY <1>1, DeliverType, ReducerAssumption
    DEF CreateObject, IInv, TypeOK, StateRow
  <2>3. events' \subseteq EventRecord
    <3>1. Event("CREATE", tx.id, 0, tx.id) \in EventRecord
      BY <1>2, ReducerAssumption DEF Event, EventRecord
    <3>2. QED
      BY <3>1 DEF CreateObject, IInv, TypeOK
  <2>4. UNCHANGED <<spentOutpoints, chapters>>
    BY DEF CreateObject
  <2>5. QED
    BY <1>1, <1>6, <1>7, <2>1, <2>2, <2>3, <2>4, DeliverType DEF IInv, TypeOK
<1>9. /\ IsActive(tx.id)'
      /\ \A j \in Txid \ {tx.id} : IsActive(j)' <=> IsActive(j)
  BY <1>3, <1>5, <1>6 DEF IsActive
<1>10. \A j \in Txid \ {tx.id} : IsActive(j) =>
         /\ objects[j].currentOutpoint \in Txid
         /\ objects[j].currentOutpoint # tx.id
         /\ coins'[objects[j].currentOutpoint] = objects[j].currentHeight
  BY <1>1, ConsumedObjects
<1>11. ActiveIndexExact'
  <2>1. \A o, j \in Txid :
          (active[o] = j) <=> (IsActive(j) /\ objects[j].currentOutpoint = o)
    BY <1>1 DEF Deliver, IInv, ActiveIndexExact
  <2>2. active'[tx.id] = tx.id /\ \A o \in Txid \ {tx.id} : active'[o] = active[o]
    BY <1>2 DEF CreateObject, IInv, TypeOK
  <2>3. ~IsActive(tx.id)
    BY <1>2 DEF IsActive
  <2>4. \A o, j \in Txid :
          (active'[o] = j) <=> (IsActive(j)' /\ objects'[j].currentOutpoint = o)
    BY <1>2, <1>3, <1>6, <1>9, <1>10, <2>1, <2>2, <2>3
  <2>5. QED
    BY <2>4 DEF ActiveIndexExact
<1>12. ActiveCarrierIsUnspent'
  <2>1. ASSUME NEW j \in Txid, IsActive(j)'
        PROVE  /\ objects'[j].currentOutpoint # None
               /\ objects'[j].currentHeight # None
               /\ coins'[objects'[j].currentOutpoint] = objects'[j].currentHeight
               /\ objects'[j].currentHeight > 0
    <3>1. CASE j = tx.id
      BY <1>1, <1>3, <1>6, <3>1, DeliverType, ReducerAssumption
    <3>2. CASE j # tx.id
      BY <1>6, <1>9, <1>10, <2>1, <3>2 DEF IInv, ActiveCarrierIsUnspent
    <3>3. QED
      BY <3>1, <3>2
  <2>2. QED
    BY <2>1 DEF ActiveCarrierIsUnspent
<1>13. CarriersAreDistinct'
  BY <1>3, <1>6, <1>9, <1>10 DEF IInv, CarriersAreDistinct
<1>14. UnseenTxidHasNoObject'
  <2>1. ASSUME NEW j \in Txid, coins'[j] = Unseen PROVE objects'[j] = None
    <3>1. coins[j] = Unseen /\ j # tx.id
      BY <1>1, <2>1, DeliverType DEF Deliver, Unseen, Spent
    <3>2. QED
      BY <1>6, <3>1 DEF IInv, UnseenTxidHasNoObject
  <2>2. QED
    BY <2>1 DEF UnseenTxidHasNoObject
<1>15. NothingBeforeValidInit' /\ BlockIsPlaced'
  BY <1>1, DeliverType DEF NothingBeforeValidInit, BlockIsPlaced
<1>16. QED
  BY <1>7, <1>8, <1>11, <1>12, <1>13, <1>14, <1>15 DEF IInv

\* A MARK moves the object it consumes and adds a chapter.
LEMMA MarkKeepsIInv ==
  ASSUME IInv, NEW tx \in Arriving, NEW k \in Txid, MarkObject(tx, k)
  PROVE  IInv'
<1>1. Classify(tx) /\ Deliver(tx) /\ Consumed(tx) = {k}
  BY DEF MarkObject, MarkIsValid, StepIsValid, Classify
<1>2. IsActive(k) /\ objects[k] \in ObjectRecord
  BY <1>1, ConsumedObjects
<1>3. tx.sequence \in 0 .. MaxSequence
  BY <1>2, ReducerAssumption
  DEF MarkObject, MarkIsValid, StepIsValid, ObjectRecord
<1>4. objects[k].keys \in KeyPair /\ objects[k].chapterCount + 1 \in Nat
  BY <1>2 DEF ObjectRecord
<1>5. Advance(k, tx, objects[k].keys, objects[k].chapterCount + 1, "MARK")
  BY DEF MarkObject
<1>6. chapters' \in [Txid -> ChapterRow \cup {None}]
  BY <1>3 DEF MarkObject, IInv, TypeOK, ChapterRow
<1>7. QED
  BY <1>1, <1>3, <1>4, <1>5, <1>6, AdvanceKeepsIInv

\* A ROTATE moves the object it consumes to other keys.
LEMMA RotateKeepsIInv ==
  ASSUME IInv, NEW tx \in Arriving, NEW k \in Txid, RotateObject(tx, k)
  PROVE  IInv'
<1>1. Classify(tx) /\ Deliver(tx) /\ Consumed(tx) = {k}
  BY DEF RotateObject, RotateIsValid, StepIsValid, Classify
<1>2. IsActive(k) /\ objects[k] \in ObjectRecord
  BY <1>1, ConsumedObjects
<1>3. tx.sequence \in 0 .. MaxSequence
  BY <1>2, ReducerAssumption
  DEF RotateObject, RotateIsValid, StepIsValid, ObjectRecord
<1>4. tx.keys \in KeyPair /\ objects[k].chapterCount \in Nat
  BY <1>1, <1>2, DeliverType DEF ObjectRecord
<1>5. Advance(k, tx, tx.keys, objects[k].chapterCount, "ROTATE")
  BY DEF RotateObject
<1>6. chapters' \in [Txid -> ChapterRow \cup {None}]
  BY DEF RotateObject, IInv, TypeOK
<1>7. QED
  BY <1>1, <1>3, <1>4, <1>5, <1>6, AdvanceKeepsIInv

\* A record that ends stays a record, and is not active.
LEMMA TerminatedType ==
  ASSUME NEW record \in ObjectRecord, NEW status \in Status \ {"active"},
         NEW sequence \in 0 .. MaxSequence, NEW txid \in Txid
  PROVE  /\ Terminated(record, status, sequence, txid) \in ObjectRecord
         /\ Terminated(record, status, sequence, txid) # None
         /\ Terminated(record, status, sequence, txid).status = status
<1>1. Terminated(record, status, sequence, txid) \in ObjectRecord
  BY DEF Terminated, ObjectRecord
<1>2. Terminated(record, status, sequence, txid).status = status
  BY DEF Terminated, ObjectRecord
<1>3. QED
  BY <1>1, <1>2, MarkerAssumption

\* CLOSE and REFUND.
LEMMA TerminateOneKeepsIInv ==
  ASSUME IInv, NEW tx \in Arriving, Classify(tx), NEW k \in Txid,
         Consumed(tx) = {k}, NEW status \in Status \ {"active"},
         NEW sequence \in 0 .. MaxSequence, NEW type \in {"CLOSE", "REFUND"},
         TerminateOne(k, tx, status, sequence, type)
  PROVE  IInv'
<1> DEFINE ended == Terminated(objects[k], status, sequence, tx.id)
<1>1. Deliver(tx) /\ tx.id \in Txid
  BY DeliverType DEF Classify
<1>2. IsActive(k) /\ objects[k] \in ObjectRecord
  BY <1>1, ConsumedObjects
<1>3. ended \in ObjectRecord /\ ended # None /\ ended.status # "active"
  BY <1>1, <1>2, TerminatedType
<1>4. objects' = [objects EXCEPT ![k] = ended]
  BY DEF TerminateOne
<1> HIDE DEF ended
<1>5. /\ objects' \in [Txid -> ObjectRecord \cup {None}]
      /\ objects'[k] = ended
      /\ \A j \in Txid \ {k} : objects'[j] = objects[j]
  BY <1>3, <1>4 DEF IInv, TypeOK
<1>6. events' \subseteq EventRecord
  <2>1. Event(type, k, sequence, None) \in EventRecord
    BY <1>2 DEF Event, EventRecord, IsActive, ObjectRecord
  <2>2. QED
    BY <2>1 DEF TerminateOne, IInv, TypeOK
<1>7. /\ Touch({k}) /\ SpendCarriers({k}, tx, NoSuccessor)
      /\ UNCHANGED <<newStates, chapters>>
  BY DEF TerminateOne
<1>8. \A j \in Consumed(tx) : objects'[j] # None /\ objects'[j].status # "active"
  BY <1>3, <1>5
<1>9. QED
  BY <1>5, <1>6, <1>7, <1>8, TerminationKeepsIInv

\* A CLOSE ends the object it consumes at the next sequence.
LEMMA CloseKeepsIInv ==
  ASSUME IInv, NEW tx \in Arriving, NEW k \in Txid, CloseObject(tx, k)
  PROVE  IInv'
<1>1. Classify(tx) /\ Deliver(tx) /\ Consumed(tx) = {k}
  BY DEF CloseObject, CloseIsValid, StepIsValid, Classify
<1>2. objects[k] \in ObjectRecord
  BY <1>1, ConsumedObjects
<1>3. tx.sequence \in 0 .. MaxSequence
  BY <1>2, ReducerAssumption
  DEF CloseObject, CloseIsValid, StepIsValid, ObjectRecord
<1>4. TerminateOne(k, tx, "closed", tx.sequence, "CLOSE")
  BY DEF CloseObject
<1>5. "closed" \in Status \ {"active"}
  BY DEF Status
<1>6. QED
  BY <1>1, <1>3, <1>4, <1>5, TerminateOneKeepsIInv

\* A REFUND ends the object it consumes at its own sequence.
LEMMA RefundKeepsIInv ==
  ASSUME IInv, NEW tx \in Arriving, NEW k \in Txid, RefundObject(tx, k)
  PROVE  IInv'
<1>1. Classify(tx) /\ Deliver(tx) /\ Consumed(tx) = {k}
  BY DEF RefundObject, RefundIsValid, Classify
<1>2. objects[k].stateSequence \in 0 .. MaxSequence
  BY <1>1, ConsumedObjects DEF ObjectRecord
<1>3. TerminateOne(k, tx, "refunded", objects[k].stateSequence, "REFUND")
  BY DEF RefundObject
<1>4. "refunded" \in Status \ {"active"}
  BY DEF Status
<1>5. QED
  BY <1>1, <1>2, <1>3, <1>4, TerminateOneKeepsIInv

\* A transaction outside the rules ends every object it consumes.
LEMMA ExitKeepsIInv ==
  ASSUME IInv, NEW tx \in Arriving, ExitNoncanonical(tx)
  PROVE  IInv'
<1>1. /\ Classify(tx) /\ Deliver(tx)
      /\ Touch(Consumed(tx)) /\ SpendCarriers(Consumed(tx), tx, NoSuccessor)
      /\ UNCHANGED <<newStates, chapters>>
  BY DEF ExitNoncanonical, Classify
<1>2. ASSUME NEW k \in Consumed(tx)
      PROVE  /\ objects'[k] \in ObjectRecord
             /\ objects'[k] # None
             /\ objects'[k].status # "active"
             /\ Event("EXITED_NONCANONICAL", k, objects[k].stateSequence, None)
                  \in EventRecord
  <2>1. k \in Txid /\ IsActive(k) /\ objects[k] \in ObjectRecord /\ tx.id \in Txid
    BY <1>1, ConsumedObjects, DeliverType
  <2>2. objects'[k] = Terminated(objects[k], "exited_noncanonical",
                                 objects[k].stateSequence, tx.id)
    BY <2>1 DEF ExitNoncanonical
  <2>3. "exited_noncanonical" \in Status \ {"active"}
        /\ objects[k].stateSequence \in 0 .. MaxSequence
    BY <2>1 DEF Status, ObjectRecord
  <2>4. /\ objects'[k] \in ObjectRecord
        /\ objects'[k] # None
        /\ objects'[k].status # "active"
    BY <2>1, <2>2, <2>3, TerminatedType
  <2>5. Event("EXITED_NONCANONICAL", k, objects[k].stateSequence, None)
          \in EventRecord
    BY <2>1 DEF Event, EventRecord, ObjectRecord, IsActive
  <2>6. QED
    BY <2>4, <2>5
<1>3. /\ objects' \in [Txid -> ObjectRecord \cup {None}]
      /\ \A k \in Txid \ Consumed(tx) : objects'[k] = objects[k]
  <2>1. objects' = [k \in Txid |-> IF k \in Consumed(tx) THEN objects'[k]
                                   ELSE objects[k]]
    BY DEF ExitNoncanonical
  <2>2. QED
    BY <1>2, <2>1 DEF IInv, TypeOK
<1>4. events' \subseteq EventRecord
  <2>1. events' = events \cup
          {Event("EXITED_NONCANONICAL", k, objects[k].stateSequence, None) :
             k \in Consumed(tx)}
    BY DEF ExitNoncanonical
  <2>2. QED
    BY <1>2, <2>1 DEF IInv, TypeOK
<1>5. QED
  BY <1>1, <1>2, <1>3, <1>4, TerminationKeepsIInv

\* A transaction that leaves the working state alone consumes no object: it
\* has no carrier among its inputs, or there is none to spend.
LEMMA UntouchedKeepsIInv ==
  ASSUME IInv, NEW tx \in Arriving, Deliver(tx), Consumed(tx) = {},
         UNCHANGED <<objects, active, undo, newStates, spentOutpoints,
                     chapters, events>>
  PROVE  IInv'
<1>1. TypeOK'
  BY DeliverType DEF IInv, TypeOK
<1>2. \A k \in Txid : IsActive(k)' <=> IsActive(k)
  BY DEF IsActive
<1>3. UndoExact' /\ CarriersAreDistinct' /\ BlockIsPlaced'
  BY <1>2, DeliverType
  DEF IInv, UndoExact, CarriersAreDistinct, BlockIsPlaced
<1>4. ActiveIndexExact'
  BY <1>2 DEF IInv, ActiveIndexExact, Deliver
<1>5. ActiveCarrierIsUnspent'
  BY <1>2, ConsumedObjects DEF IInv, ActiveCarrierIsUnspent
<1>6. UnseenTxidHasNoObject'
  BY DeliverType DEF IInv, UnseenTxidHasNoObject, Deliver, Unseen, Spent
<1>7. NothingBeforeValidInit'
  BY <1>2, DeliverType DEF IInv, NothingBeforeValidInit
<1>8. QED
  BY <1>1, <1>3, <1>4, <1>5, <1>6, <1>7 DEF IInv

\* A transaction that spends no carrier and is no operation changes no object.
LEMMA PassOverKeepsIInv ==
  ASSUME IInv, NEW tx \in Arriving, PassOver(tx)
  PROVE  IInv'
BY UntouchedKeepsIInv DEF PassOver, Classify

\* After a failed INIT there is no active object to lose.
LEMMA SkipKeepsIInv ==
  ASSUME IInv, NEW tx \in Arriving, SkipAfterFailedInit(tx)
  PROVE  IInv'
<1>1. Deliver(tx) /\ ~activation.valid
  BY DEF SkipAfterFailedInit
<1>2. Consumed(tx) = {}
  BY <1>1, ConsumedObjects, DeliverType DEF IInv, NothingBeforeValidInit
<1>3. QED
  BY <1>1, <1>2, UntouchedKeepsIInv DEF SkipAfterFailedInit

\* What a map must satisfy before a block, wherever it was loaded from: the
\* invariant without what reduceBlock sets up on entry.
LoadedInv ==
  /\ TypeOK
  /\ ActiveCarrierIsUnspent
  /\ CarriersAreDistinct
  /\ UnseenTxidHasNoObject
  /\ NothingBeforeValidInit

\* The entry of reduceBlock rebuilds the index from the object map.
LEMMA BeginBlockGivesIInv ==
  ASSUME LoadedInv, BeginBlock
  PROVE  IInv'
<1>1. /\ height' \in 1 .. MaxHeight
      /\ activation' \in Activation
      /\ activation' # None
  <2>1. height' \in 1 .. MaxHeight /\ height + 1 \in Nat
    BY ReducerAssumption DEF BeginBlock, LoadedInv, TypeOK
  <2>2. [height |-> height + 1, valid |-> InitIsValid(height + 1)] \in Activation
    BY <2>1 DEF Activation, InitIsValid
  <2>3. [height |-> height + 1, valid |-> InitIsValid(height + 1)] # None
    BY <2>2, MarkerAssumption
  <2>4. QED
    BY <2>1, <2>2, <2>3 DEF BeginBlock, LoadedInv, TypeOK
<1>2. \A k \in Txid : IsActive(k)' <=> IsActive(k)
  BY DEF IsActive, BeginBlock
<1>3. active' \in [Txid -> Txid \cup {None}]
      /\ ActiveIndexExact'
  <2> DEFINE Holds(k, o) == /\ objects[k] # None
                            /\ objects[k].status = "active"
                            /\ objects[k].currentOutpoint = o
  <2>1. \A o \in Txid : active'[o] = IF \E k \in Txid : Holds(k, o)
                                     THEN CHOOSE k \in Txid : Holds(k, o)
                                     ELSE None
    BY DEF BeginBlock
  <2>2. \A j, k, o \in Txid : Holds(j, o) /\ Holds(k, o) => j = k
    BY DEF LoadedInv, CarriersAreDistinct, IsActive
  <2>3. \A o, k \in Txid : IsActive(k)' /\ objects'[k].currentOutpoint = o
                           <=> Holds(k, o)
    BY DEF BeginBlock, IsActive
  <2>4. active' = [o \in Txid |-> active'[o]]
    BY DEF BeginBlock
  <2> HIDE DEF Holds
  <2>5. \A o, k \in Txid : (active'[o] = k) <=> Holds(k, o)
    BY <2>1, <2>2, ReducerAssumption
  <2>6. \A o \in Txid : active'[o] \in Txid \cup {None}
    BY <2>1
  <2>7. QED
    BY <2>3, <2>4, <2>5, <2>6 DEF ActiveIndexExact
<1>4. TypeOK'
  BY <1>1, <1>3, ReducerAssumption DEF BeginBlock, LoadedInv, TypeOK, NoRows
<1>5. UndoExact' /\ BlockIsPlaced'
  BY <1>1, ReducerAssumption
  DEF BeginBlock, LoadedInv, TypeOK, UndoExact, BlockIsPlaced
<1>6. /\ ActiveCarrierIsUnspent' /\ CarriersAreDistinct'
      /\ UnseenTxidHasNoObject'
  BY <1>2 DEF BeginBlock, LoadedInv, ActiveCarrierIsUnspent, CarriersAreDistinct,
              UnseenTxidHasNoObject
<1>7. NothingBeforeValidInit'
  BY <1>1, <1>2 DEF BeginBlock, LoadedInv, NothingBeforeValidInit
<1>8. QED
  BY <1>3, <1>4, <1>5, <1>6, <1>7 DEF IInv

\* The exit of reduceBlock changes nothing it hands over.
LEMMA EndBlockKeepsIInv ==
  ASSUME IInv, EndBlock \/ UNCHANGED vars
  PROVE  IInv'
BY DEF EndBlock, vars, work, IInv, TypeOK, UndoExact, ActiveIndexExact,
       ActiveCarrierIsUnspent, CarriersAreDistinct, UnseenTxidHasNoObject,
       NothingBeforeValidInit, BlockIsPlaced, IsActive

\* Whatever the next transaction of the block is.
LEMMA TransactionKeepsIInv ==
  ASSUME IInv, ReduceTransaction
  PROVE  IInv'
<1>1. ASSUME NEW tx \in Arriving, CreateObject(tx) PROVE IInv'
  BY <1>1, CreateKeepsIInv
<1>2. ASSUME NEW tx \in Arriving, NEW k \in Txid, MarkObject(tx, k)
      PROVE  IInv'
  BY <1>2, MarkKeepsIInv
<1>3. ASSUME NEW tx \in Arriving, NEW k \in Txid, RotateObject(tx, k)
      PROVE  IInv'
  BY <1>3, RotateKeepsIInv
<1>4. ASSUME NEW tx \in Arriving, NEW k \in Txid, CloseObject(tx, k)
      PROVE  IInv'
  BY <1>4, CloseKeepsIInv
<1>5. ASSUME NEW tx \in Arriving, NEW k \in Txid, RefundObject(tx, k)
      PROVE  IInv'
  BY <1>5, RefundKeepsIInv
<1>6. ASSUME NEW tx \in Arriving, ExitNoncanonical(tx) PROVE IInv'
  BY <1>6, ExitKeepsIInv
<1>7. ASSUME NEW tx \in Arriving, PassOver(tx) PROVE IInv'
  BY <1>7, PassOverKeepsIInv
<1>8. ASSUME NEW tx \in Arriving, SkipAfterFailedInit(tx) PROVE IInv'
  BY <1>8, SkipKeepsIInv
<1>9. QED
  BY <1>1, <1>2, <1>3, <1>4, <1>5, <1>6, <1>7, <1>8 DEF ReduceTransaction

-----------------------------------------------------------------------------
(***************************************************************************)
(* The theorems.                                                           *)
(***************************************************************************)
\* IInv is an invariant: whatever order a block's transactions come in and
\* whatever they spend, reduceBlock keeps its working state consistent.
THEOREM ReducerInvariant == Spec => []IInv
<1>1. Init => IInv
  BY InitIInv
<1>2. IInv /\ [Next]_vars => IInv'
  <2> SUFFICES ASSUME IInv, [Next]_vars PROVE IInv'
    OBVIOUS
  <2>1. CASE BeginBlock
    BY <2>1, BeginBlockGivesIInv DEF IInv, LoadedInv
  <2>2. CASE ReduceTransaction
    BY <2>2, TransactionKeepsIInv
  <2>3. CASE EndBlock \/ UNCHANGED vars
    BY <2>3, EndBlockKeepsIInv
  <2>4. QED
    BY <2>1, <2>2, <2>3 DEF Next
<1>3. QED
  BY <1>1, <1>2, PTL DEF Spec

\* Type correctness, for any set of txids and any bound on the chain.
THEOREM ReducerTypeCorrect == Spec => []TypeOK
BY ReducerInvariant, PTL DEF IInv

\* The undo entries the store persists invert the block: restoring them gives
\* back the object map the block started from.
THEOREM UndoJournalExact == Spec => []UndoExact
BY ReducerInvariant, PTL DEF IInv

\* No object is ever held active on a carrier the chain has spent.
THEOREM NoActiveSpentCarrier == Spec => []ActiveCarrierIsUnspent
BY ReducerInvariant, PTL DEF IInv

\* activeByOutpoint finds the object of every live carrier, and only that.
THEOREM ActiveIndexCorrect == Spec => []ActiveIndexExact
BY ReducerInvariant, PTL DEF IInv

-----------------------------------------------------------------------------
(***************************************************************************)
(* The reducer implements the life cycle of src/protocol/state-engine.ts.  *)
(***************************************************************************)
\* A step that changes one object changes one abstract state.
LEMMA OneStateChanges ==
  ASSUME TypeOK, NEW k \in Txid, NEW record,
         objects' = [objects EXCEPT ![k] = record]
  PROVE  LifecycleStates' =
           [LifecycleStates EXCEPT ![k] = LifecycleState(record)]
BY DEF TypeOK, LifecycleStates, LifecycleState

\* The object a valid operation consumes is active on its current carrier, and
\* so is its abstract state.
LEMMA ConsumedIsRequiredActive ==
  ASSUME IInv, NEW tx \in Arriving, Deliver(tx), NEW k \in Consumed(tx)
  PROVE  /\ k \in Txid
         /\ objects[k] \in ObjectRecord
         /\ objects[k] # None
         /\ objects[k].currentOutpoint \in Txid
         /\ Lifecycle!RequireActive(k, objects[k].currentOutpoint)
         /\ LifecycleStates[k] = LifecycleState(objects[k])
<1>1. /\ k \in Txid /\ IsActive(k) /\ objects[k] \in ObjectRecord
      /\ objects[k].currentOutpoint \in tx.inputs
  BY ConsumedObjects
<1>2. objects[k].currentOutpoint \in Txid
  BY <1>1, DeliverType
<1>3. LifecycleStates[k] = LifecycleState(objects[k])
  BY <1>1 DEF LifecycleStates
<1>4. Lifecycle!RequireActive(k, objects[k].currentOutpoint)
  <2>1. /\ LifecycleState(objects[k]).status = "active"
        /\ LifecycleState(objects[k]).currentOutpoint = objects[k].currentOutpoint
    BY <1>1 DEF IsActive, LifecycleState
  <2>2. LifecycleState(objects[k]) # None
    <3>1. LifecycleState(objects[k]) \in Lifecycle!IndexedObjectState
      BY <1>1 DEF IsActive, LifecycleState, ObjectRecord, Status,
                  Lifecycle!IndexedObjectState, Lifecycle!Ended
    <3>2. QED
      BY <3>1, LifecycleAssumption
  <2>3. QED
    BY <1>3, <2>1, <2>2 DEF Lifecycle!RequireActive
<1>5. QED
  BY <1>1, <1>2, <1>3, <1>4 DEF IsActive

\* A valid CREATE is a creation of the life cycle.
LEMMA CreateRefines ==
  ASSUME IInv, NEW tx \in Arriving, CreateObject(tx)
  PROVE  Lifecycle!Next
<1>1. Deliver(tx)
  BY DEF CreateObject, Classify
<1>2. tx.id \in Txid /\ tx.keys \in KeyPair /\ objects[tx.id] = None
  BY <1>1, DeliverType DEF IInv, UnseenTxidHasNoObject
<1> DEFINE created ==
      [createHeight |-> height,
       founding |-> height >= OpenHeight /\ height < CloseHeight,
       status |-> "active", stateSequence |-> 0, currentOutpoint |-> tx.id,
       currentHeight |-> height, keys |-> tx.keys, terminalTxid |-> None,
       chapterCount |-> 0]
<1>3. created # None
  <2>1. created \in ObjectRecord
    <3>1. (height >= OpenHeight /\ height < CloseHeight) \in BOOLEAN
      OBVIOUS
    <3>2. QED
      BY <1>1, <1>2, <3>1, DeliverType, ReducerAssumption
      DEF ObjectRecord, Status
  <2>2. QED
    BY <2>1, MarkerAssumption
<1>4. LifecycleState(created) =
        [status |-> "active", sequence |-> 0, currentOutpoint |-> tx.id,
         keys |-> tx.keys, chapterCount |-> 0, terminalTxid |-> None]
  BY <1>3 DEF LifecycleState
<1>5. LifecycleStates' = [LifecycleStates EXCEPT ![tx.id] = LifecycleState(created)]
  <2>1. objects' = [objects EXCEPT ![tx.id] = created]
    BY DEF CreateObject
  <2> HIDE DEF created
  <2>2. QED
    BY <1>2, <2>1, OneStateChanges DEF IInv
<1>6. LifecycleStates[tx.id] = None
  BY <1>2 DEF LifecycleStates, LifecycleState
<1>7. Lifecycle!Create(tx.id, tx.id, tx.keys)
  BY <1>4, <1>5, <1>6 DEF Lifecycle!Create
<1>8. QED
  BY <1>2, <1>7 DEF Lifecycle!Next

\* The life cycle's view of a record.
LEMMA LifecycleStateOfRecord ==
  ASSUME NEW r \in ObjectRecord
  PROVE  /\ LifecycleState(r) \in Lifecycle!IndexedObjectState
         /\ LifecycleState(r).status = r.status
         /\ LifecycleState(r).sequence = r.stateSequence
         /\ LifecycleState(r).currentOutpoint = r.currentOutpoint
         /\ LifecycleState(r).keys = r.keys
         /\ LifecycleState(r).chapterCount = r.chapterCount
         /\ LifecycleState(r).terminalTxid = r.terminalTxid
<1>1. r # None
  BY MarkerAssumption
<1>2. QED
  BY <1>1 DEF LifecycleState, ObjectRecord, Status,
              Lifecycle!IndexedObjectState, Lifecycle!Ended

\* States of the life cycle are equal when their fields are.
LEMMA SameState ==
  ASSUME NEW u \in Lifecycle!IndexedObjectState,
         NEW v \in Lifecycle!IndexedObjectState,
         u.status = v.status, u.sequence = v.sequence,
         u.currentOutpoint = v.currentOutpoint, u.keys = v.keys,
         u.chapterCount = v.chapterCount, u.terminalTxid = v.terminalTxid
  PROVE  u = v
BY DEF Lifecycle!IndexedObjectState

\* Moving a record moves its state of the life cycle.
LEMMA MovedState ==
  ASSUME height \in Nat, NEW r \in ObjectRecord,
         r.stateSequence + 1 \in 0 .. MaxSequence,
         NEW txid \in Txid, NEW keys \in KeyPair, NEW more \in {0, 1}
  PROVE  LifecycleState(Moved(r, r.stateSequence + 1, txid, keys,
                              r.chapterCount + more))
         = Lifecycle!Moved(LifecycleState(r), txid, keys, more)
<1> DEFINE moved == Moved(r, r.stateSequence + 1, txid, keys,
                          r.chapterCount + more)
           before == LifecycleState(r)
           after == Lifecycle!Moved(before, txid, keys, more)
<1>1. r.chapterCount + more \in Nat
  BY DEF ObjectRecord
<1>2. /\ moved \in ObjectRecord
      /\ moved.status = r.status
      /\ moved.stateSequence = r.stateSequence + 1
      /\ moved.currentOutpoint = txid
      /\ moved.keys = keys
      /\ moved.chapterCount = r.chapterCount + more
      /\ moved.terminalTxid = r.terminalTxid
  BY <1>1 DEF Moved, ObjectRecord
<1>3. /\ before \in Lifecycle!IndexedObjectState
      /\ before.status = r.status
      /\ before.sequence = r.stateSequence
      /\ before.chapterCount = r.chapterCount
      /\ before.terminalTxid = r.terminalTxid
  BY LifecycleStateOfRecord
<1> HIDE DEF moved, before
<1>4. /\ after \in Lifecycle!IndexedObjectState
      /\ after.status = r.status
      /\ after.sequence = r.stateSequence + 1
      /\ after.currentOutpoint = txid
      /\ after.keys = keys
      /\ after.chapterCount = r.chapterCount + more
      /\ after.terminalTxid = r.terminalTxid
  BY <1>1, <1>3 DEF Lifecycle!Moved, Lifecycle!IndexedObjectState
<1> HIDE DEF after
<1>5. LifecycleState(moved) = after
  <2> DEFINE state == LifecycleState(moved)
  <2>1. /\ state \in Lifecycle!IndexedObjectState
        /\ state.status = moved.status
        /\ state.sequence = moved.stateSequence
        /\ state.currentOutpoint = moved.currentOutpoint
        /\ state.keys = moved.keys
        /\ state.chapterCount = moved.chapterCount
        /\ state.terminalTxid = moved.terminalTxid
    BY <1>2, LifecycleStateOfRecord
  <2> HIDE DEF state
  <2>2. state = after
    BY <1>2, <1>4, <2>1, SameState
  <2>3. QED
    BY <2>2 DEF state
<1>6. QED
  BY <1>5 DEF moved, before, after

\* MARK and ROTATE.
LEMMA AdvanceRefines ==
  ASSUME IInv, NEW tx \in Arriving, Classify(tx), NEW k \in Txid,
         Consumed(tx) = {k}, objects[k].stateSequence # MaxSequence,
         tx.sequence = objects[k].stateSequence + 1,
         NEW keys \in KeyPair, NEW more \in {0, 1},
         NEW type \in {"MARK", "ROTATE"},
         Advance(k, tx, keys, objects[k].chapterCount + more, type)
  PROVE  Lifecycle!Next
<1> DEFINE o == objects[k].currentOutpoint
           moved == Moved(objects[k], objects[k].stateSequence + 1, tx.id, keys,
                          objects[k].chapterCount + more)
           before == LifecycleState(objects[k])
<1>1. Deliver(tx) /\ k \in Consumed(tx) /\ tx.id \in Txid /\ height \in Nat
  BY DeliverType DEF Classify
<1>2. /\ objects[k] \in ObjectRecord /\ objects[k] # None /\ o \in Txid
      /\ Lifecycle!RequireActive(k, o)
      /\ LifecycleStates[k] = before
  BY <1>1, ConsumedIsRequiredActive
<1>3. objects[k].stateSequence + 1 \in 0 .. MaxSequence
  <2>1. objects[k].stateSequence \in 0 .. MaxSequence
    BY <1>2 DEF ObjectRecord
  <2>2. MaxSequence \in Nat
    BY ReducerAssumption
  <2>3. QED
    BY <2>1, <2>2
<1>4. before.sequence < MaxSequence
  BY <1>2, ReducerAssumption, LifecycleStateOfRecord DEF ObjectRecord
<1>5. objects' = [objects EXCEPT ![k] = moved]
  BY DEF Advance
<1>6. LifecycleState(moved) = Lifecycle!Moved(before, tx.id, keys, more)
  BY <1>1, <1>2, <1>3, MovedState
<1> HIDE DEF moved, before
<1>7. LifecycleStates' =
        [LifecycleStates EXCEPT ![k] = Lifecycle!Moved(@, tx.id, keys, more)]
  BY <1>2, <1>5, <1>6, OneStateChanges DEF IInv
<1>8. Lifecycle!Advance(k, o, tx.id, keys, more)
  BY <1>2, <1>4, <1>7 DEF Lifecycle!Advance
<1>9. QED
  BY <1>1, <1>2, <1>8 DEF Lifecycle!Next

\* Ending a record ends its state of the life cycle.
LEMMA TerminatedState ==
  ASSUME NEW record \in ObjectRecord, NEW status \in Status \ {"active"},
         NEW sequence \in 0 .. MaxSequence, NEW txid \in Txid
  PROVE  LifecycleState(Terminated(record, status, sequence, txid)) =
           Lifecycle!Terminal(LifecycleState(record), status, sequence, txid)
<1> DEFINE ended == Terminated(record, status, sequence, txid)
           before == LifecycleState(record)
           after == Lifecycle!Terminal(before, status, sequence, txid)
<1>1. /\ ended \in ObjectRecord
      /\ ended.status = status
      /\ ended.stateSequence = sequence
      /\ ended.currentOutpoint = None
      /\ ended.keys = record.keys
      /\ ended.chapterCount = record.chapterCount
      /\ ended.terminalTxid = txid
  BY DEF Terminated, ObjectRecord
<1>2. /\ before \in Lifecycle!IndexedObjectState
      /\ before.keys = record.keys
      /\ before.chapterCount = record.chapterCount
  BY LifecycleStateOfRecord
<1> HIDE DEF ended, before
<1>3. /\ after \in Lifecycle!IndexedObjectState
      /\ after.status = status
      /\ after.sequence = sequence
      /\ after.currentOutpoint = None
      /\ after.keys = record.keys
      /\ after.chapterCount = record.chapterCount
      /\ after.terminalTxid = txid
  BY <1>2 DEF Lifecycle!Terminal, Lifecycle!IndexedObjectState,
              Lifecycle!Ended, Status
<1> HIDE DEF after
<1>4. LifecycleState(ended) = after
  BY <1>1, <1>3, LifecycleStateOfRecord, SameState
<1>5. QED
  BY <1>4 DEF ended, before, after

\* A valid CLOSE is a close of the life cycle.
LEMMA CloseRefines ==
  ASSUME IInv, NEW tx \in Arriving, NEW k \in Txid, CloseObject(tx, k)
  PROVE  Lifecycle!Next
<1> DEFINE o == objects[k].currentOutpoint
           before == LifecycleState(objects[k])
<1>1. /\ Deliver(tx) /\ k \in Consumed(tx) /\ tx.id \in Txid
      /\ objects[k].stateSequence # MaxSequence
      /\ tx.sequence = objects[k].stateSequence + 1
  BY DeliverType DEF CloseObject, Classify, CloseIsValid, StepIsValid
<1>2. /\ objects[k] \in ObjectRecord /\ objects[k] # None /\ o \in Txid
      /\ Lifecycle!RequireActive(k, o)
      /\ LifecycleStates[k] = before
  BY <1>1, ConsumedIsRequiredActive
<1>3. tx.sequence \in 0 .. MaxSequence /\ "closed" \in Status \ {"active"}
  BY <1>1, <1>2, ReducerAssumption DEF ObjectRecord, Status
<1>4. LifecycleState(Terminated(objects[k], "closed", tx.sequence, tx.id)) =
        Lifecycle!Terminal(before, "closed", tx.sequence, tx.id)
  BY <1>1, <1>2, <1>3, TerminatedState
<1>5. objects' = [objects EXCEPT ![k] =
                    Terminated(objects[k], "closed", tx.sequence, tx.id)]
  BY DEF CloseObject, TerminateOne
<1>6. before.sequence < MaxSequence /\ before.sequence + 1 = tx.sequence
  BY <1>1, <1>2, ReducerAssumption DEF LifecycleState, ObjectRecord
<1> HIDE DEF before
<1>7. LifecycleStates' = [LifecycleStates EXCEPT ![k] =
        Lifecycle!Terminal(before, "closed", tx.sequence, tx.id)]
  BY <1>4, <1>5, OneStateChanges DEF IInv
<1>8. Lifecycle!Close(k, o, tx.id)
  BY <1>2, <1>6, <1>7 DEF Lifecycle!Close
<1>9. QED
  BY <1>1, <1>2, <1>8 DEF Lifecycle!Next

\* A valid REFUND is a refund of the life cycle.
LEMMA RefundRefines ==
  ASSUME IInv, NEW tx \in Arriving, NEW k \in Txid, RefundObject(tx, k)
  PROVE  Lifecycle!Next
<1> DEFINE o == objects[k].currentOutpoint
           before == LifecycleState(objects[k])
           sequence == objects[k].stateSequence
<1>1. Deliver(tx) /\ k \in Consumed(tx) /\ tx.id \in Txid
  BY DeliverType DEF RefundObject, Classify, RefundIsValid
<1>2. /\ objects[k] \in ObjectRecord /\ objects[k] # None /\ o \in Txid
      /\ Lifecycle!RequireActive(k, o)
      /\ LifecycleStates[k] = before
  BY <1>1, ConsumedIsRequiredActive
<1>3. sequence \in 0 .. MaxSequence /\ "refunded" \in Status \ {"active"}
  BY <1>2 DEF ObjectRecord, Status
<1>4. LifecycleState(Terminated(objects[k], "refunded", sequence, tx.id)) =
        Lifecycle!Terminal(before, "refunded", sequence, tx.id)
  BY <1>1, <1>2, <1>3, TerminatedState
<1>5. objects' = [objects EXCEPT ![k] =
                    Terminated(objects[k], "refunded", sequence, tx.id)]
  BY DEF RefundObject, TerminateOne
<1>6. before.sequence = sequence
  BY <1>2 DEF LifecycleState
<1> HIDE DEF before, sequence
<1>7. LifecycleStates' = [LifecycleStates EXCEPT ![k] =
        Lifecycle!Terminal(before, "refunded", sequence, tx.id)]
  BY <1>4, <1>5, OneStateChanges DEF IInv
<1>8. Lifecycle!Refund(k, o, tx.id)
  BY <1>2, <1>6, <1>7 DEF Lifecycle!Refund
<1>9. QED
  BY <1>1, <1>2, <1>8 DEF Lifecycle!Next

\* A noncanonical spend is an exit of the life cycle.
LEMMA ExitRefines ==
  ASSUME IInv, NEW tx \in Arriving, ExitNoncanonical(tx)
  PROVE  Lifecycle!Next
<1> DEFINE K == Consumed(tx)
<1>1. Deliver(tx) /\ K # {} /\ tx.id \in Txid
  BY DeliverType DEF ExitNoncanonical, Classify
<1>2. ASSUME NEW k \in K
      PROVE  /\ k \in Txid
             /\ \E o \in Txid : Lifecycle!RequireActive(k, o)
             /\ LifecycleState(Terminated(objects[k], "exited_noncanonical",
                                          objects[k].stateSequence, tx.id))
                = Lifecycle!Terminal(LifecycleStates[k], "exited_noncanonical",
                                     LifecycleStates[k].sequence, tx.id)
  <2>1. /\ k \in Txid /\ objects[k] \in ObjectRecord /\ objects[k] # None
        /\ objects[k].currentOutpoint \in Txid
        /\ Lifecycle!RequireActive(k, objects[k].currentOutpoint)
        /\ LifecycleStates[k] = LifecycleState(objects[k])
    BY <1>1, ConsumedIsRequiredActive
  <2>2. "exited_noncanonical" \in Status \ {"active"}
        /\ objects[k].stateSequence \in 0 .. MaxSequence
    BY <2>1 DEF Status, ObjectRecord
  <2>3. LifecycleState(objects[k]).sequence = objects[k].stateSequence
    BY <2>1 DEF LifecycleState
  <2>4. QED
    BY <1>1, <2>1, <2>2, <2>3, TerminatedState
<1>3. LifecycleStates' =
        [k \in Txid |->
           IF k \in K
           THEN Lifecycle!Terminal(LifecycleStates[k], "exited_noncanonical",
                                   LifecycleStates[k].sequence, tx.id)
           ELSE LifecycleStates[k]]
  <2>1. \A k \in Txid : objects'[k] =
          IF k \in K THEN Terminated(objects[k], "exited_noncanonical",
                                     objects[k].stateSequence, tx.id)
          ELSE objects[k]
    BY DEF ExitNoncanonical
  <2>2. LifecycleStates' = [k \in Txid |-> LifecycleState(objects'[k])]
    BY DEF LifecycleStates, LifecycleState
  <2>3. \A k \in Txid : LifecycleStates[k] = LifecycleState(objects[k])
    BY DEF LifecycleStates
  <2> HIDE DEF K
  <2>4. QED
    BY <1>2, <2>1, <2>2, <2>3
<1>4. K \in SUBSET Txid
  BY <1>2
<1>5. Lifecycle!Exit(K, tx.id)
  BY <1>1, <1>2, <1>3, <1>4 DEF Lifecycle!Exit
<1>6. QED
  BY <1>1, <1>4, <1>5 DEF Lifecycle!Next

(***************************************************************************)
(* The reducer implements the life cycle: from nothing, objects only ever  *)
(* take the transitions applyStateTransition allows, whatever the chain    *)
(* does to their carriers.                                                 *)
(***************************************************************************)
THEOREM ReducerImplementsLifecycle == Spec => ImplementsLifecycle
<1>1. Init => Lifecycle!Init
  BY DEF Init, NoRows, Lifecycle!Init, LifecycleStates, LifecycleState
<1>2. IInv /\ [Next]_vars => [Lifecycle!Next]_LifecycleStates
  <2> SUFFICES ASSUME IInv, [Next]_vars
               PROVE  Lifecycle!Next \/ UNCHANGED LifecycleStates
    OBVIOUS
  <2>1. CASE ReduceTransaction
    <3>1. ASSUME NEW tx \in Arriving, CreateObject(tx) PROVE Lifecycle!Next
      BY <3>1, CreateRefines
    <3>2. ASSUME NEW tx \in Arriving, NEW k \in Txid, MarkObject(tx, k)
          PROVE  Lifecycle!Next
      <4>1. /\ Classify(tx) /\ Deliver(tx) /\ k \in Consumed(tx)
            /\ StepIsValid(tx, k)
        BY <3>2 DEF MarkObject, MarkIsValid, StepIsValid, Classify
      <4>2. objects[k].keys \in KeyPair
        BY <4>1, ConsumedObjects DEF ObjectRecord
      <4>3. Advance(k, tx, objects[k].keys, objects[k].chapterCount + 1, "MARK")
        BY <3>2 DEF MarkObject
      <4>4. QED
        BY <4>1, <4>2, <4>3, AdvanceRefines DEF StepIsValid
    <3>3. ASSUME NEW tx \in Arriving, NEW k \in Txid, RotateObject(tx, k)
          PROVE  Lifecycle!Next
      <4>1. /\ Classify(tx) /\ Deliver(tx) /\ k \in Consumed(tx)
            /\ StepIsValid(tx, k)
        BY <3>3 DEF RotateObject, RotateIsValid, StepIsValid, Classify
      <4>2. tx.keys \in KeyPair
        BY <4>1, DeliverType
      <4>3. objects[k].chapterCount \in Nat
        BY <4>1, ConsumedObjects DEF ObjectRecord
      <4>4. Advance(k, tx, tx.keys, objects[k].chapterCount + 0, "ROTATE")
        BY <3>3, <4>3 DEF RotateObject
      <4>5. QED
        BY <4>1, <4>2, <4>4, AdvanceRefines DEF StepIsValid
    <3>4. ASSUME NEW tx \in Arriving, NEW k \in Txid, CloseObject(tx, k)
          PROVE  Lifecycle!Next
      BY <3>4, CloseRefines
    <3>5. ASSUME NEW tx \in Arriving, NEW k \in Txid, RefundObject(tx, k)
          PROVE  Lifecycle!Next
      BY <3>5, RefundRefines
    <3>6. ASSUME NEW tx \in Arriving, ExitNoncanonical(tx) PROVE Lifecycle!Next
      BY <3>6, ExitRefines
    <3>7. ASSUME NEW tx \in Arriving, PassOver(tx) \/ SkipAfterFailedInit(tx)
          PROVE  UNCHANGED LifecycleStates
      BY <3>7 DEF PassOver, SkipAfterFailedInit, LifecycleStates
    <3>8. QED
      BY <2>1, <3>1, <3>2, <3>3, <3>4, <3>5, <3>6, <3>7 DEF ReduceTransaction
  <2>2. CASE BeginBlock \/ EndBlock \/ UNCHANGED vars
    BY <2>2 DEF BeginBlock, EndBlock, vars, work, LifecycleStates
  <2>3. QED
    BY <2>1, <2>2 DEF Next
<1>3. QED
  BY <1>1, <1>2, ReducerInvariant, PTL
  DEF Spec, ImplementsLifecycle, Lifecycle!Spec

-----------------------------------------------------------------------------
(***************************************************************************)
(* The parts of the invariant.  m is the map before the block b.           *)
(***************************************************************************)
\* The block as it is after the transactions so far.
Working ==
  [height |-> height, objects |-> objects, undo |-> undo,
   newStates |-> newStates, spentOutpoints |-> spentOutpoints,
   chapters |-> chapters, coins |-> coins]

\* An object stays once it is there, an ended one as it is, and its sequence
\* number makes at most one step.
ObjectsFollow(m, b) ==
  \A k \in Txid :
    /\ m[k] # None =>
         /\ b.objects[k] # None
         /\ b.objects[k].createHeight = m[k].createHeight
         /\ m[k].status # "active" => b.objects[k] = m[k]
    /\ b.objects[k] # None =>
         b.objects[k].stateSequence \in
           IF m[k] = None THEN {0}
           ELSE {m[k].stateSequence, m[k].stateSequence + 1}

\* The sequence number that a CREATE or a step gives.
StepSequence(m, k) == IF m[k] = None THEN 0 ELSE m[k].stateSequence + 1

\* A row written for an outpoint is of the object's last step, and its live
\* carrier unless it is marked spent.
NewRowFollows(m, b, o) ==
  b.newStates[o] # None =>
    LET k == b.newStates[o].key IN
    /\ b.coins[o] # Unseen
    /\ b.objects[k] # None
    /\ b.objects[k].stateSequence = StepSequence(m, k)
    /\ b.newStates[o] = [key |-> k, sequence |-> b.objects[k].stateSequence,
                         keys |-> b.objects[k].keys]
    /\ b.spentOutpoints[o] = None => LiveIn(b.objects, o, k)

\* Only a carrier of the map or a row of the block is marked spent.
SpentMarkFollows(m, b, o) ==
  b.spentOutpoints[o] # None =>
    /\ b.coins[o] # Unseen
    /\ b.newStates[o] # None \/ \E k \in Txid : LiveIn(m, o, k)

\* A live carrier has a row of the block, or its object has not moved.
LiveCarrierFollows(m, b, o) ==
  \A k \in Txid : LiveIn(b.objects, o, k) =>
    /\ b.spentOutpoints[o] = None
    /\ IF b.newStates[o] = None THEN b.objects[k] = m[k]
       ELSE /\ b.newStates[o].key = k
            /\ b.objects[k].currentHeight = b.height

\* A carrier of the map that the block does not mention is still live.
OldCarrierStays(m, b, o) ==
  \A k \in Txid :
    /\ LiveIn(m, o, k)
    /\ b.spentOutpoints[o] = None
    /\ b.newStates[o] = None
    => LiveIn(b.objects, o, k)

RowsFollow(m, b) ==
  \A o \in Txid : /\ NewRowFollows(m, b, o)
                  /\ SpentMarkFollows(m, b, o)
                  /\ LiveCarrierFollows(m, b, o)
                  /\ OldCarrierStays(m, b, o)

\* A chapter is of the one step its object made.
ChapterFollows(m, b, x) ==
  b.chapters[x] # None =>
    LET k == b.chapters[x].key IN
    /\ b.coins[x] # Unseen
    /\ m[k] # None
    /\ b.objects[k] # None
    /\ b.objects[k].stateSequence = m[k].stateSequence + 1
    /\ b.objects[k].chapterCount = m[k].chapterCount + 1
    /\ b.chapters[x].sequence = b.objects[k].stateSequence
    /\ \A y \in Txid : b.chapters[y] # None /\ b.chapters[y].key = k => y = x

HasChapter(b, k) == \E x \in Txid : b.chapters[x] # None /\ b.chapters[x].key = k

ChaptersFollow(m, b) ==
  /\ \A x \in Txid : ChapterFollows(m, b, x)
  /\ \A k \in Txid : b.objects[k] # None /\ ~HasChapter(b, k) =>
       b.objects[k].chapterCount = IF m[k] = None THEN 0 ELSE m[k].chapterCount

EndedHasNoCarrier(m) ==
  \A k \in Txid : m[k] # None /\ m[k].status # "active" =>
    m[k].currentOutpoint = None /\ m[k].currentHeight = None

BlockFollows ==
  /\ ObjectsFollow(base, Working)
  /\ RowsFollow(base, Working)
  /\ ChaptersFollow(base, Working)
  /\ EndedHasNoCarrier(objects)

-----------------------------------------------------------------------------
(***************************************************************************)
(* Lemmas about one transaction.                                           *)
(***************************************************************************)
\* An object whose carrier was confirmed below this block has not moved yet.
LEMMA UnmovedBelowHeight ==
  ASSUME IInv, BlockFollows, NEW tx \in Arriving, Deliver(tx),
         ConfirmedBefore(tx), NEW k \in Consumed(tx)
  PROVE  objects[k] = base[k]
<1>1. /\ k \in Txid /\ IsActive(k)
      /\ objects[k].currentOutpoint \in tx.inputs
  BY ConsumedObjects
<1>2. objects[k].currentOutpoint \in Txid
  BY <1>1, DeliverType
<1>3. coins[objects[k].currentOutpoint] < height
  BY <1>1 DEF ConfirmedBefore
<1>4. /\ coins[objects[k].currentOutpoint] = objects[k].currentHeight
      /\ LiveIn(objects, objects[k].currentOutpoint, k)
  BY <1>1 DEF IInv, ActiveCarrierIsUnspent, LiveIn, IsActive
<1>5. objects[k].currentHeight # height
  BY <1>3, <1>4, DeliverType
<1>6. QED
  BY <1>1, <1>2, <1>4, <1>5
  DEF BlockFollows, RowsFollow, LiveCarrierFollows, Working

\* Such an object has neither a row nor a chapter in this block.
LEMMA UnmovedHasNoRows ==
  ASSUME IInv, BlockFollows, NEW k \in Txid, objects[k] = base[k]
  PROVE  /\ \A o \in Txid : newStates[o] # None => newStates[o].key # k
         /\ \A x \in Txid : chapters[x] # None => chapters[x].key # k
<1>1. base[k] # None => base[k].stateSequence \in Nat
  BY ReducerAssumption DEF IInv, TypeOK, ObjectRecord
<1>2. ASSUME NEW o \in Txid, newStates[o] # None, newStates[o].key = k
      PROVE  FALSE
  <2>1. objects[k] # None /\ objects[k].stateSequence = StepSequence(base, k)
    BY <1>2 DEF BlockFollows, RowsFollow, NewRowFollows, Working
  <2>2. QED
    BY <1>1, <2>1 DEF StepSequence
<1>3. ASSUME NEW x \in Txid, chapters[x] # None, chapters[x].key = k
      PROVE  FALSE
  BY <1>1, <1>3 DEF BlockFollows, ChaptersFollow, ChapterFollows, Working
<1>4. QED
  BY <1>2, <1>3

\* Which outpoints are marked spent after a transaction.
LEMMA SpentMarks ==
  ASSUME IInv, NEW tx \in Arriving, Deliver(tx), NEW successors,
         SpendCarriers(Consumed(tx), tx, successors)
  PROVE  \A o \in Txid :
           /\ (\E k \in Consumed(tx) : objects[k].currentOutpoint = o)
                => spentOutpoints'[o] = tx.id /\ spentOutpoints'[o] # None
           /\ ~(\E k \in Consumed(tx) : objects[k].currentOutpoint = o)
                => spentOutpoints'[o] = spentOutpoints[o]
<1>1. tx.id # None
  BY DeliverType, ReducerAssumption
<1>2. \A o \in Txid : o # None
  BY ReducerAssumption
<1>3. QED
  BY <1>1, <1>2 DEF SpendCarriers

\* Live carriers are seen, and only one object's.
LEMMA LiveIsActive ==
  ASSUME IInv, NEW o \in Txid, NEW k \in Txid, LiveIn(objects, o, k)
  PROVE  /\ IsActive(k)
         /\ objects[k].currentOutpoint = o
         /\ coins[o] = objects[k].currentHeight
         /\ coins[o] > 0
         /\ \A j \in Txid : LiveIn(objects, o, j) => j = k
BY DEF LiveIn, IsActive, IInv, ActiveCarrierIsUnspent, CarriersAreDistinct

(***************************************************************************)
(* A transaction that ends exactly the objects it consumes.                *)
(***************************************************************************)
\* What may become of an object that ends.
EndsWell(k) ==
  /\ objects'[k] # None
  /\ objects'[k].status # "active"
  /\ objects'[k].currentOutpoint = None
  /\ objects'[k].currentHeight = None
  /\ objects'[k].createHeight = objects[k].createHeight
  /\ objects'[k].keys = objects[k].keys
  /\ objects'[k].chapterCount = objects[k].chapterCount
  /\ \/ objects'[k].stateSequence = objects[k].stateSequence
     \/ /\ objects[k] = base[k]
        /\ objects'[k].stateSequence = objects[k].stateSequence + 1

\* A transaction that ends every object it consumes keeps the block's account.
LEMMA EndingKeepsFollows ==
  ASSUME IInv, BlockFollows, NEW tx \in Arriving, Deliver(tx),
         SpendCarriers(Consumed(tx), tx, NoSuccessor),
         \A k \in Consumed(tx) : EndsWell(k),
         \A k \in Txid \ Consumed(tx) : objects'[k] = objects[k],
         UNCHANGED <<newStates, chapters>>
  PROVE  BlockFollows'
<1> DEFINE K == Consumed(tx)
<1>1. /\ base' = base
      /\ height' = height
      /\ base \in [Txid -> ObjectRecord \cup {None}]
      /\ \A o \in Txid : coins[o] # Unseen => coins'[o] # Unseen
  BY DeliverType DEF Deliver, Unseen, Spent
<1>2. \A k \in K : k \in Txid /\ IsActive(k) /\ objects[k] # None
  BY ConsumedObjects DEF IsActive
<1>3. \A o, k \in Txid : LiveIn(objects, o, k)' <=> LiveIn(objects, o, k) /\ k \notin K
  BY <1>2 DEF LiveIn, EndsWell
<1>4. \A o, k \in Txid : LiveIn(objects, o, k)' => objects'[k] = objects[k]
  BY <1>3
<1>5. \A o \in Txid :
        /\ (\E k \in K : LiveIn(objects, o, k)) => spentOutpoints'[o] # None
        /\ ~(\E k \in K : LiveIn(objects, o, k))
             => spentOutpoints'[o] = spentOutpoints[o]
  BY <1>2, SpentMarks DEF LiveIn, IsActive
<1>6. \A k \in Txid : base[k] # None => base[k].stateSequence \in Nat
  BY <1>1, ReducerAssumption DEF ObjectRecord
<1> HIDE DEF K
<1>7. ObjectsFollow(base, Working)'
  <2>1. ASSUME NEW k \in Txid
        PROVE  /\ base[k] # None =>
                    /\ objects'[k] # None
                    /\ objects'[k].createHeight = base[k].createHeight
                    /\ base[k].status # "active" => objects'[k] = base[k]
               /\ objects'[k] # None =>
                    objects'[k].stateSequence \in
                      IF base[k] = None THEN {0}
                      ELSE {base[k].stateSequence, base[k].stateSequence + 1}
    <3>1. /\ base[k] # None =>
               /\ objects[k] # None
               /\ objects[k].createHeight = base[k].createHeight
               /\ base[k].status # "active" => objects[k] = base[k]
          /\ objects[k] # None =>
               objects[k].stateSequence \in
                 IF base[k] = None THEN {0}
                 ELSE {base[k].stateSequence, base[k].stateSequence + 1}
      BY DEF BlockFollows, ObjectsFollow, Working
    <3>2. CASE k \in K
      BY <1>2, <3>1, <3>2 DEF EndsWell, IsActive
    <3>3. CASE k \notin K
      BY <3>1, <3>3 DEF K
    <3>4. QED
      BY <3>2, <3>3
  <2>2. QED
    BY <1>1, <2>1 DEF ObjectsFollow, Working
<1>8. RowsFollow(base, Working)'
  <2> SUFFICES ASSUME NEW o \in Txid
               PROVE  /\ NewRowFollows(base, Working, o)'
                      /\ SpentMarkFollows(base, Working, o)'
                      /\ LiveCarrierFollows(base, Working, o)'
                      /\ OldCarrierStays(base, Working, o)'
    BY DEF RowsFollow
  <2>1. /\ NewRowFollows(base, Working, o)
        /\ SpentMarkFollows(base, Working, o)
        /\ LiveCarrierFollows(base, Working, o)
        /\ OldCarrierStays(base, Working, o)
    BY DEF BlockFollows, RowsFollow
  <2>2. NewRowFollows(base, Working, o)'
    <3> SUFFICES ASSUME newStates[o] # None
                 PROVE  NewRowFollows(base, Working, o)'
      BY DEF NewRowFollows, Working
    <3> DEFINE k == newStates[o].key
    <3>1. /\ coins[o] # Unseen
          /\ objects[k] # None
          /\ objects[k].stateSequence = StepSequence(base, k)
          /\ newStates[o] = [key |-> k, sequence |-> objects[k].stateSequence,
                             keys |-> objects[k].keys]
          /\ spentOutpoints[o] = None => LiveIn(objects, o, k)
      BY <2>1 DEF NewRowFollows, Working
    <3>2. k \in Txid
      BY DEF IInv, TypeOK, StateRow
    <3>3. /\ objects'[k] # None
          /\ objects'[k].stateSequence = objects[k].stateSequence
          /\ objects'[k].keys = objects[k].keys
      <4>1. CASE k \in K
        <5>1. objects[k] # base[k]
          BY <3>2, UnmovedHasNoRows
        <5>2. QED
          BY <4>1, <5>1 DEF EndsWell, K
      <4>2. CASE k \notin K
        BY <3>1, <3>2, <4>2 DEF K
      <4>3. QED
        BY <4>1, <4>2
    <3>4. spentOutpoints'[o] = None => LiveIn(objects, o, k)'
      <4> SUFFICES ASSUME spentOutpoints'[o] = None PROVE LiveIn(objects, o, k)'
        OBVIOUS
      <4>1. spentOutpoints[o] = None /\ \A j \in K : ~LiveIn(objects, o, j)
        BY <1>5
      <4>2. QED
        BY <1>3, <3>1, <3>2, <4>1
    <3>5. StepSequence(base, k)' = StepSequence(base, k)
      BY <1>1 DEF StepSequence
    <3> HIDE DEF k
    <3>6. QED
      BY <1>1, <3>1, <3>3, <3>4, <3>5 DEF NewRowFollows, Working, k, StepSequence
  <2>3. SpentMarkFollows(base, Working, o)'
    <3>1. CASE \E k \in K : LiveIn(objects, o, k)
      <4>1. PICK k \in K : LiveIn(objects, o, k)
        BY <3>1
      <4>2. k \in Txid /\ coins[o] > 0
        BY <1>2, <4>1, LiveIsActive
      <4>3. newStates[o] # None \/ LiveIn(base, o, k)
        BY <2>1, <4>1, <4>2 DEF LiveCarrierFollows, Working, LiveIn
      <4>4. QED
        BY <1>1, <4>2, <4>3 DEF SpentMarkFollows, Working, Unseen, LiveIn
    <3>2. CASE ~\E k \in K : LiveIn(objects, o, k)
      BY <1>1, <1>5, <2>1, <3>2 DEF SpentMarkFollows, Working, LiveIn
    <3>3. QED
      BY <3>1, <3>2
  <2>4. LiveCarrierFollows(base, Working, o)'
    <3> SUFFICES ASSUME NEW k \in Txid, LiveIn(objects, o, k)'
                 PROVE  /\ spentOutpoints'[o] = None
                        /\ IF newStates'[o] = None THEN objects'[k] = base'[k]
                           ELSE /\ newStates'[o].key = k
                                /\ objects'[k].currentHeight = height'
      BY DEF LiveCarrierFollows, Working
    <3>1. LiveIn(objects, o, k) /\ k \notin K /\ objects'[k] = objects[k]
      BY <1>3, <1>4
    <3>2. spentOutpoints'[o] = spentOutpoints[o]
      BY <1>2, <1>5, <3>1, LiveIsActive
    <3>3. QED
      BY <1>1, <2>1, <3>1, <3>2 DEF LiveCarrierFollows, Working
  <2>5. OldCarrierStays(base, Working, o)'
    BY <1>1, <1>3, <1>5, <2>1 DEF OldCarrierStays, Working, LiveIn
  <2>6. QED
    BY <2>2, <2>3, <2>4, <2>5
<1>9. ChaptersFollow(base, Working)'
  <2>1. ASSUME NEW x \in Txid PROVE ChapterFollows(base, Working, x)'
    <3> SUFFICES ASSUME chapters[x] # None
                 PROVE  ChapterFollows(base, Working, x)'
      BY DEF ChapterFollows, Working
    <3>1. ChapterFollows(base, Working, x)
      BY DEF BlockFollows, ChaptersFollow
    <3> DEFINE k == chapters[x].key
    <3>2. k \in Txid
      BY DEF IInv, TypeOK, ChapterRow
    <3>3. objects[k] # base[k]
      BY <3>2, UnmovedHasNoRows
    <3>4. objects[k] # None
      BY <3>1 DEF ChapterFollows, Working
    <3>5. /\ objects'[k] # None
          /\ objects'[k].stateSequence = objects[k].stateSequence
          /\ objects'[k].chapterCount = objects[k].chapterCount
      BY <3>2, <3>3, <3>4 DEF EndsWell
    <3>6. QED
      BY <1>1, <3>1, <3>5 DEF ChapterFollows, Working
  <2>2. ASSUME NEW k \in Txid, objects'[k] # None, ~HasChapter(Working, k)'
        PROVE  objects'[k].chapterCount =
                 IF base'[k] = None THEN 0 ELSE base'[k].chapterCount
    <3>1. ~HasChapter(Working, k)
      BY <2>2 DEF HasChapter, Working
    <3>2. objects[k] # None /\ objects'[k].chapterCount = objects[k].chapterCount
      BY <1>2, <2>2 DEF EndsWell, K
    <3>3. QED
      BY <1>1, <3>1, <3>2 DEF BlockFollows, ChaptersFollow, Working
  <2>3. QED
    BY <2>1, <2>2 DEF ChaptersFollow, Working
<1>10. EndedHasNoCarrier(objects)'
  BY DEF BlockFollows, EndedHasNoCarrier, EndsWell
<1>11. QED
  BY <1>7, <1>8, <1>9, <1>10 DEF BlockFollows

(***************************************************************************)
(* A CREATE: an object and a row for a txid that nothing refers to yet.    *)
(***************************************************************************)
LEMMA CreateKeepsFollows ==
  ASSUME IInv, BlockFollows, NEW tx \in Arriving, CreateObject(tx)
  PROVE  BlockFollows'
<1> DEFINE t == tx.id
<1>1. Deliver(tx)
  BY DEF CreateObject, Classify
<1>2. /\ base' = base
      /\ height' = height
      /\ t \in Txid
      /\ \A o \in Txid : coins[o] # Unseen => coins'[o] # Unseen
      /\ coins[t] = Unseen
      /\ coins'[t] # Unseen
  BY <1>1, DeliverType DEF Deliver, Unseen, Spent
<1>3. objects[t] = None
  BY <1>2 DEF IInv, UnseenTxidHasNoObject
<1>4. base[t] = None
  BY <1>2, <1>3 DEF BlockFollows, ObjectsFollow, Working
<1>5. /\ objects'[t] # None
      /\ objects'[t].status = "active"
      /\ objects'[t].stateSequence = 0
      /\ objects'[t].currentOutpoint = t
      /\ objects'[t].currentHeight = height
      /\ objects'[t].keys = tx.keys
      /\ objects'[t].chapterCount = 0
  <2> DEFINE created ==
        [createHeight |-> height,
         founding |-> height >= OpenHeight /\ height < CloseHeight,
         status |-> "active", stateSequence |-> 0, currentOutpoint |-> tx.id,
         currentHeight |-> height, keys |-> tx.keys, terminalTxid |-> None,
         chapterCount |-> 0]
  <2>1. objects'[t] = created
    BY <1>2 DEF CreateObject, IInv, TypeOK
  <2>2. created \in ObjectRecord
    <3>1. (height >= OpenHeight /\ height < CloseHeight) \in BOOLEAN
      OBVIOUS
    <3>2. 0 \in 0 .. MaxSequence
      BY ReducerAssumption
    <3>3. QED
      BY <1>1, <1>2, <3>1, <3>2, DeliverType DEF ObjectRecord, Status
  <2>3. created # None
    BY <2>2, MarkerAssumption
  <2>4. QED
    BY <2>1, <2>3
<1>6. \A k \in Txid \ {t} : objects'[k] = objects[k]
  BY DEF CreateObject, IInv, TypeOK
<1>7. /\ newStates'[t] = [key |-> t, sequence |-> 0, keys |-> tx.keys]
      /\ newStates'[t] # None
      /\ \A o \in Txid \ {t} : newStates'[o] = newStates[o]
  <2>1. newStates' = [newStates EXCEPT ![t] =
                        [key |-> t, sequence |-> 0, keys |-> tx.keys]]
    BY DEF CreateObject
  <2>2. [key |-> t, sequence |-> 0, keys |-> tx.keys] # None
    <3>1. [key |-> t, sequence |-> 0, keys |-> tx.keys] \in StateRow
      BY <1>1, <1>2, DeliverType, ReducerAssumption DEF StateRow
    <3>2. QED
      BY <3>1, MarkerAssumption
  <2>3. QED
    BY <1>2, <2>1, <2>2 DEF IInv, TypeOK
<1> HIDE DEF t
<1>8. UNCHANGED <<spentOutpoints, chapters>>
  BY DEF CreateObject
<1>9. \A o \in Txid : ~LiveIn(objects, t, o) /\ ~LiveIn(objects, o, t)
  BY <1>2, <1>3, LiveIsActive DEF LiveIn, Unseen
<1>10. \A o, k \in Txid :
         LiveIn(objects, o, k)' <=> LiveIn(objects, o, k) \/ (o = t /\ k = t)
  BY <1>2, <1>5, <1>6, <1>9 DEF LiveIn
<1>11. /\ newStates[t] = None
       /\ spentOutpoints[t] = None
       /\ chapters[t] = None
  BY <1>2
  DEF BlockFollows, RowsFollow, NewRowFollows, SpentMarkFollows,
      ChaptersFollow, ChapterFollows, Working
<1>12. /\ \A o \in Txid : newStates[o] # None => newStates[o].key # t
       /\ \A x \in Txid : chapters[x] # None => chapters[x].key # t
  BY <1>2, <1>3, <1>4, UnmovedHasNoRows
<1>13. ObjectsFollow(base, Working)'
  <2>1. ASSUME NEW k \in Txid
        PROVE  /\ base[k] # None =>
                    /\ objects'[k] # None
                    /\ objects'[k].createHeight = base[k].createHeight
                    /\ base[k].status # "active" => objects'[k] = base[k]
               /\ objects'[k] # None =>
                    objects'[k].stateSequence \in
                      IF base[k] = None THEN {0}
                      ELSE {base[k].stateSequence, base[k].stateSequence + 1}
    <3>1. CASE k = t
      BY <1>4, <1>5, <3>1
    <3>2. CASE k # t
      BY <1>6, <3>2 DEF BlockFollows, ObjectsFollow, Working
    <3>3. QED
      BY <3>1, <3>2
  <2>2. QED
    BY <1>2, <2>1 DEF ObjectsFollow, Working
<1>14. RowsFollow(base, Working)'
  <2> SUFFICES ASSUME NEW o \in Txid
               PROVE  /\ NewRowFollows(base, Working, o)'
                      /\ SpentMarkFollows(base, Working, o)'
                      /\ LiveCarrierFollows(base, Working, o)'
                      /\ OldCarrierStays(base, Working, o)'
    BY DEF RowsFollow
  <2>1. /\ NewRowFollows(base, Working, o)
        /\ SpentMarkFollows(base, Working, o)
        /\ LiveCarrierFollows(base, Working, o)
        /\ OldCarrierStays(base, Working, o)
    BY DEF BlockFollows, RowsFollow
  <2>2. NewRowFollows(base, Working, o)'
    <3>1. CASE o = t
      BY <1>2, <1>4, <1>5, <1>7, <1>10, <3>1
      DEF NewRowFollows, StepSequence, Working, LiveIn
    <3>2. CASE o # t /\ newStates[o] # None
      <4>1. newStates[o].key \in Txid \ {t}
        BY <1>12, <3>2 DEF IInv, TypeOK, StateRow
      <4>2. newStates'[o] = newStates[o]
            /\ objects'[newStates[o].key] = objects[newStates[o].key]
        BY <1>6, <1>7, <3>2, <4>1
      <4>3. QED
        BY <1>2, <1>8, <1>10, <2>1, <4>1, <4>2
        DEF NewRowFollows, StepSequence, Working
    <3>3. CASE o # t /\ newStates[o] = None
      BY <1>7, <3>3 DEF NewRowFollows, Working
    <3>4. QED
      BY <3>1, <3>2, <3>3
  <2>3. SpentMarkFollows(base, Working, o)'
    BY <1>2, <1>7, <1>8, <2>1 DEF SpentMarkFollows, Working, LiveIn
  <2>4. LiveCarrierFollows(base, Working, o)'
    <3> SUFFICES ASSUME NEW k \in Txid, LiveIn(objects, o, k)'
                 PROVE  /\ spentOutpoints'[o] = None
                        /\ IF newStates'[o] = None THEN objects'[k] = base'[k]
                           ELSE /\ newStates'[o].key = k
                                /\ objects'[k].currentHeight = height'
      BY DEF LiveCarrierFollows, Working
    <3>1. CASE o = t
      BY <1>2, <1>5, <1>7, <1>8, <1>9, <1>10, <1>11, <3>1
    <3>2. CASE o # t
      <4>1. LiveIn(objects, o, k) /\ k # t
        BY <1>9, <1>10, <3>2
      <4>2. QED
        BY <1>2, <1>6, <1>7, <1>8, <2>1, <3>2, <4>1
        DEF LiveCarrierFollows, Working
    <3>3. QED
      BY <3>1, <3>2
  <2>5. OldCarrierStays(base, Working, o)'
    BY <1>2, <1>7, <1>8, <1>10, <2>1 DEF OldCarrierStays, Working, LiveIn
  <2>6. QED
    BY <2>2, <2>3, <2>4, <2>5
<1>15. ChaptersFollow(base, Working)'
  <2>1. ASSUME NEW x \in Txid PROVE ChapterFollows(base, Working, x)'
    <3>1. ChapterFollows(base, Working, x)
      BY DEF BlockFollows, ChaptersFollow
    <3>2. chapters[x] # None => chapters[x].key \in Txid \ {t}
      BY <1>12 DEF IInv, TypeOK, ChapterRow
    <3>3. QED
      BY <1>2, <1>6, <1>8, <3>1, <3>2 DEF ChapterFollows, Working
  <2>2. ASSUME NEW k \in Txid, objects'[k] # None, ~HasChapter(Working, k)'
        PROVE  objects'[k].chapterCount =
                 IF base'[k] = None THEN 0 ELSE base'[k].chapterCount
    <3>1. ~HasChapter(Working, k)
      BY <1>8, <2>2 DEF HasChapter, Working
    <3>2. CASE k = t
      BY <1>2, <1>4, <1>5, <3>2
    <3>3. CASE k # t
      BY <1>2, <1>6, <2>2, <3>1, <3>3 DEF BlockFollows, ChaptersFollow, Working
    <3>4. QED
      BY <3>2, <3>3
  <2>3. QED
    BY <2>1, <2>2 DEF ChaptersFollow, Working
<1>16. EndedHasNoCarrier(objects)'
  BY <1>5, <1>6 DEF BlockFollows, EndedHasNoCarrier
<1>17. QED
  BY <1>13, <1>14, <1>15, <1>16 DEF BlockFollows

(***************************************************************************)
(* MARK and ROTATE: the one step of an object that has not moved yet.      *)
(***************************************************************************)
LEMMA AdvanceKeepsFollows ==
  ASSUME IInv, BlockFollows, NEW tx \in Arriving, Deliver(tx),
         ConfirmedBefore(tx), NEW k \in Txid, Consumed(tx) = {k},
         tx.sequence = objects[k].stateSequence + 1,
         tx.sequence \in 0 .. MaxSequence,
         NEW keys \in KeyPair, NEW count, NEW type,
         Advance(k, tx, keys, count, type),
         \/ UNCHANGED chapters /\ count = objects[k].chapterCount
         \/ /\ count = objects[k].chapterCount + 1
            /\ chapters' = [chapters EXCEPT ![tx.id] =
                              [key |-> k, sequence |-> tx.sequence]]
  PROVE  BlockFollows'
<1> DEFINE t == tx.id
           old == objects[k].currentOutpoint
<1>1. /\ base' = base
      /\ height' = height
      /\ t \in Txid
      /\ \A o \in Txid : coins[o] # Unseen => coins'[o] # Unseen
      /\ coins[t] = Unseen
      /\ coins'[t] # Unseen
  BY DeliverType DEF Deliver, Unseen, Spent
<1>2. /\ IsActive(k)
      /\ objects[k] \in ObjectRecord
      /\ old \in Txid
      /\ old # t
      /\ LiveIn(objects, old, k)
      /\ objects[k] = base[k]
  <2>1. k \in Consumed(tx)
    OBVIOUS
  <2>2. /\ IsActive(k) /\ objects[k] \in ObjectRecord /\ old \in tx.inputs
        /\ objects[k] = base[k]
    BY <2>1, ConsumedObjects, UnmovedBelowHeight
  <2>3. QED
    BY <2>2, DeliverType DEF LiveIn, IsActive
<1>3. /\ objects'[k] # None
      /\ objects'[k].createHeight = objects[k].createHeight
      /\ objects'[k].status = "active"
      /\ objects'[k].stateSequence = tx.sequence
      /\ objects'[k].currentOutpoint = t
      /\ objects'[k].currentHeight = height
      /\ objects'[k].keys = keys
      /\ objects'[k].chapterCount = count
  <2> DEFINE moved == Moved(objects[k], tx.sequence, tx.id, keys, count)
  <2>1. objects'[k] = moved
    BY DEF Advance, IInv, TypeOK
  <2>2. count \in Nat
    BY <1>2 DEF ObjectRecord
  <2>3. height \in Nat
    BY DeliverType
  <2>4. moved \in ObjectRecord
    BY <1>1, <1>2, <2>2, <2>3 DEF Moved, ObjectRecord
  <2>5. moved # None
    BY <2>4, MarkerAssumption
  <2>6. QED
    BY <1>2, <2>1, <2>5 DEF Moved, ObjectRecord, IsActive
<1>4. \A j \in Txid \ {k} : objects'[j] = objects[j]
  BY DEF Advance, IInv, TypeOK
<1>5. /\ newStates'[t] = [key |-> k, sequence |-> tx.sequence, keys |-> keys]
      /\ newStates'[t] # None
      /\ \A o \in Txid \ {t} : newStates'[o] = newStates[o]
  <2>1. newStates' = [newStates EXCEPT ![t] =
                        [key |-> k, sequence |-> tx.sequence, keys |-> keys]]
    BY DEF Advance
  <2>2. [key |-> k, sequence |-> tx.sequence, keys |-> keys] # None
    <3>1. [key |-> k, sequence |-> tx.sequence, keys |-> keys] \in StateRow
      BY DEF StateRow
    <3>2. QED
      BY <3>1, MarkerAssumption
  <2>3. QED
    BY <1>1, <2>1, <2>2 DEF IInv, TypeOK
<1>6. \A o \in Txid :
        IF o = old THEN spentOutpoints'[o] # None
                   ELSE spentOutpoints'[o] = spentOutpoints[o]
  <2>1. SpendCarriers(Consumed(tx), tx, [o \in {tx.id} |-> k])
    BY DEF Advance
  <2>2. ASSUME NEW o \in Txid
        PROVE  /\ (\E j \in Consumed(tx) : objects[j].currentOutpoint = o)
                    => spentOutpoints'[o] = tx.id /\ spentOutpoints'[o] # None
               /\ ~(\E j \in Consumed(tx) : objects[j].currentOutpoint = o)
                    => spentOutpoints'[o] = spentOutpoints[o]
    BY <2>1, SpentMarks
  <2>3. \A o \in Txid :
          (\E j \in Consumed(tx) : objects[j].currentOutpoint = o) <=> o = old
    BY <1>2, Zenon
  <2>4. QED
    BY <2>2, <2>3
<1>7. \/ /\ UNCHANGED chapters
         /\ count = objects[k].chapterCount
      \/ /\ count = objects[k].chapterCount + 1
         /\ chapters'[t] = [key |-> k, sequence |-> tx.sequence]
         /\ chapters'[t] # None
         /\ \A x \in Txid \ {t} : chapters'[x] = chapters[x]
  <2>1. [key |-> k, sequence |-> tx.sequence] # None
    <3>1. [key |-> k, sequence |-> tx.sequence] \in ChapterRow
      BY DEF ChapterRow
    <3>2. QED
      BY <3>1, MarkerAssumption
  <2>2. QED
    BY <1>1, <2>1 DEF IInv, TypeOK
<1>8. /\ newStates[t] = None
      /\ spentOutpoints[t] = None
      /\ chapters[t] = None
  BY <1>1
  DEF BlockFollows, RowsFollow, NewRowFollows, SpentMarkFollows,
      ChaptersFollow, ChapterFollows, Working
<1>9. /\ \A o \in Txid : newStates[o] # None => newStates[o].key # k
      /\ \A x \in Txid : chapters[x] # None => chapters[x].key # k
  BY <1>2, UnmovedHasNoRows
<1>10. /\ base[k] # None
       /\ base[k].stateSequence \in Nat
       /\ tx.sequence = base[k].stateSequence + 1
  BY <1>2, ReducerAssumption DEF IsActive, ObjectRecord
<1>11. \A o \in Txid : ~LiveIn(objects, t, o)
  BY <1>1, LiveIsActive DEF Unseen
<1>12. \A o \in Txid : LiveIn(objects, o, k) <=> o = old
  BY <1>2 DEF LiveIn
<1>13. \A j \in Txid : LiveIn(objects, old, j) => j = k
  BY <1>2, LiveIsActive
<1> HIDE DEF t, old
<1>14. \A o, j \in Txid :
         LiveIn(objects, o, j)' <=> IF j = k THEN o = t ELSE LiveIn(objects, o, j)
  BY <1>3, <1>4 DEF LiveIn
<1>15. ObjectsFollow(base, Working)'
  <2>1. ASSUME NEW j \in Txid
        PROVE  /\ base[j] # None =>
                    /\ objects'[j] # None
                    /\ objects'[j].createHeight = base[j].createHeight
                    /\ base[j].status # "active" => objects'[j] = base[j]
               /\ objects'[j] # None =>
                    objects'[j].stateSequence \in
                      IF base[j] = None THEN {0}
                      ELSE {base[j].stateSequence, base[j].stateSequence + 1}
    <3>1. CASE j = k
      BY <1>2, <1>3, <1>10, <3>1 DEF IsActive
    <3>2. CASE j # k
      BY <1>4, <3>2 DEF BlockFollows, ObjectsFollow, Working
    <3>3. QED
      BY <3>1, <3>2
  <2>2. QED
    BY <1>1, <2>1 DEF ObjectsFollow, Working
<1>16. RowsFollow(base, Working)'
  <2> SUFFICES ASSUME NEW o \in Txid
               PROVE  /\ NewRowFollows(base, Working, o)'
                      /\ SpentMarkFollows(base, Working, o)'
                      /\ LiveCarrierFollows(base, Working, o)'
                      /\ OldCarrierStays(base, Working, o)'
    BY DEF RowsFollow
  <2>1. /\ NewRowFollows(base, Working, o)
        /\ SpentMarkFollows(base, Working, o)
        /\ LiveCarrierFollows(base, Working, o)
        /\ OldCarrierStays(base, Working, o)
    BY DEF BlockFollows, RowsFollow
  <2>2. NewRowFollows(base, Working, o)'
    <3>1. CASE o = t
      <4>1. StepSequence(base', k) = tx.sequence
        BY <1>1, <1>10 DEF StepSequence
      <4>2. LiveIn(objects, t, k)'
        BY <1>1, <1>14
      <4>3. QED
        BY <1>1, <1>3, <1>5, <3>1, <4>1, <4>2 DEF NewRowFollows, Working
    <3>2. CASE o # t /\ newStates[o] # None
      <4>1. newStates[o].key \in Txid \ {k}
        BY <1>9, <3>2 DEF IInv, TypeOK, StateRow
      <4>2. newStates'[o] = newStates[o]
            /\ objects'[newStates[o].key] = objects[newStates[o].key]
        BY <1>4, <1>5, <3>2, <4>1
      <4>3. spentOutpoints'[o] = None => spentOutpoints[o] = None
        BY <1>6
      <4>4. QED
        BY <1>1, <1>14, <2>1, <4>1, <4>2, <4>3
        DEF NewRowFollows, StepSequence, Working
    <3>3. CASE o # t /\ newStates[o] = None
      BY <1>5, <3>3 DEF NewRowFollows, Working
    <3>4. QED
      BY <3>1, <3>2, <3>3
  <2>3. SpentMarkFollows(base, Working, o)'
    <3>1. CASE o = old
      <4>1. coins[old] > 0
        BY <1>2, LiveIsActive
      <4>2. LiveIn(base, old, k)
        BY <1>2 DEF LiveIn
      <4>3. QED
        BY <1>1, <3>1, <4>1, <4>2 DEF SpentMarkFollows, Working, Unseen
    <3>2. CASE o # old
      BY <1>1, <1>5, <1>6, <2>1, <3>2 DEF SpentMarkFollows, Working, LiveIn
    <3>3. QED
      BY <3>1, <3>2
  <2>4. LiveCarrierFollows(base, Working, o)'
    <3> SUFFICES ASSUME NEW j \in Txid, LiveIn(objects, o, j)'
                 PROVE  /\ spentOutpoints'[o] = None
                        /\ IF newStates'[o] = None THEN objects'[j] = base'[j]
                           ELSE /\ newStates'[o].key = j
                                /\ objects'[j].currentHeight = height'
      BY DEF LiveCarrierFollows, Working
    <3>1. CASE j = k
      BY <1>1, <1>2, <1>3, <1>5, <1>6, <1>8, <1>14, <3>1
    <3>2. CASE j # k
      <4>1. LiveIn(objects, o, j) /\ o # t /\ o # old
        BY <1>11, <1>13, <1>14, <3>2
      <4>2. QED
        BY <1>1, <1>4, <1>5, <1>6, <2>1, <3>2, <4>1
        DEF LiveCarrierFollows, Working
    <3>3. QED
      BY <3>1, <3>2
  <2>5. OldCarrierStays(base, Working, o)'
    <3> SUFFICES ASSUME NEW j \in Txid, LiveIn(base, o, j),
                        spentOutpoints'[o] = None, newStates'[o] = None
                 PROVE  LiveIn(objects, o, j)'
      BY <1>1 DEF OldCarrierStays, Working, LiveIn
    <3>1. o # t /\ o # old
      BY <1>5, <1>6
    <3>2. LiveIn(objects, o, j)
      BY <1>5, <1>6, <2>1, <3>1 DEF OldCarrierStays, Working
    <3>3. QED
      BY <1>12, <1>14, <3>1, <3>2
  <2>6. QED
    BY <2>2, <2>3, <2>4, <2>5
<1>17. ChaptersFollow(base, Working)'
  <2>1. ASSUME NEW x \in Txid PROVE ChapterFollows(base, Working, x)'
    <3>1. ChapterFollows(base, Working, x)
      BY DEF BlockFollows, ChaptersFollow
    <3>2. CASE x = t /\ chapters'[t] # None
      <4>1. /\ count = objects[k].chapterCount + 1
            /\ chapters'[t] = [key |-> k, sequence |-> tx.sequence]
            /\ \A y \in Txid \ {t} : chapters'[y] = chapters[y]
        BY <1>7, <1>8, <3>2
      <4>2. \A y \in Txid : chapters'[y] # None /\ chapters'[y].key = k => y = t
        BY <1>9, <4>1
      <4>3. QED
        BY <1>1, <1>2, <1>3, <1>10, <3>2, <4>1, <4>2 DEF ChapterFollows, Working
    <3>3. CASE x # t /\ chapters[x] # None
      <4>1. chapters[x].key \in Txid \ {k}
        BY <1>9, <3>3 DEF IInv, TypeOK, ChapterRow
      <4>2. /\ chapters'[x] = chapters[x]
            /\ objects'[chapters[x].key] = objects[chapters[x].key]
        BY <1>4, <1>7, <3>3, <4>1
      <4>3. \A y \in Txid : chapters'[y] # None /\ chapters'[y].key # k
              => chapters'[y] = chapters[y]
        BY <1>7
      <4>4. QED
        BY <1>1, <3>1, <3>3, <4>1, <4>2, <4>3 DEF ChapterFollows, Working
    <3>4. CASE chapters'[x] = None
      BY <3>4 DEF ChapterFollows, Working
    <3>5. QED
      BY <1>7, <3>2, <3>3, <3>4
  <2>2. ASSUME NEW j \in Txid, objects'[j] # None, ~HasChapter(Working, j)'
        PROVE  objects'[j].chapterCount =
                 IF base'[j] = None THEN 0 ELSE base'[j].chapterCount
    <3>1. CASE j = k
      <4>1. UNCHANGED chapters /\ count = objects[k].chapterCount
        BY <1>1, <1>7, <2>2, <3>1 DEF HasChapter, Working
      <4>2. QED
        BY <1>1, <1>2, <1>3, <1>10, <3>1, <4>1
    <3>2. CASE j # k
      <4>1. ~HasChapter(Working, j)
        BY <1>1, <1>7, <1>8, <2>2, <3>2 DEF HasChapter, Working
      <4>2. QED
        BY <1>1, <1>4, <2>2, <3>2, <4>1 DEF BlockFollows, ChaptersFollow, Working
    <3>3. QED
      BY <3>1, <3>2
  <2>3. QED
    BY <2>1, <2>2 DEF ChaptersFollow, Working
<1>18. EndedHasNoCarrier(objects)'
  BY <1>3, <1>4 DEF BlockFollows, EndedHasNoCarrier
<1>19. QED
  BY <1>15, <1>16, <1>17, <1>18 DEF BlockFollows

(***************************************************************************)
(* Each transaction, and the boundaries of a block.                        *)
(***************************************************************************)
\* A transaction that leaves the working state alone only adds a coin.
LEMMA UntouchedKeepsFollows ==
  ASSUME IInv, BlockFollows, NEW tx \in Arriving, Deliver(tx),
         UNCHANGED <<objects, newStates, spentOutpoints, chapters>>
  PROVE  BlockFollows'
<1>1. /\ base' = base
      /\ height' = height
      /\ \A o \in Txid : coins[o] # Unseen => coins'[o] # Unseen
  BY DeliverType DEF Deliver, Unseen, Spent
<1>2. ObjectsFollow(base, Working)' /\ EndedHasNoCarrier(objects)'
  BY <1>1 DEF BlockFollows, ObjectsFollow, EndedHasNoCarrier, Working
<1>3. RowsFollow(base, Working)'
  BY <1>1
  DEF BlockFollows, RowsFollow, NewRowFollows, SpentMarkFollows,
      LiveCarrierFollows, OldCarrierStays, StepSequence, LiveIn, Working
<1>4. ChaptersFollow(base, Working)'
  BY <1>1
  DEF BlockFollows, ChaptersFollow, ChapterFollows, HasChapter, Working
<1>5. QED
  BY <1>2, <1>3, <1>4 DEF BlockFollows

\* A MARK or a ROTATE.
LEMMA MoveKeepsFollows ==
  ASSUME IInv, BlockFollows, NEW tx \in Arriving, NEW k \in Txid,
         MarkObject(tx, k) \/ RotateObject(tx, k)
  PROVE  BlockFollows'
<1>1. /\ Deliver(tx) /\ ConfirmedBefore(tx) /\ Consumed(tx) = {k}
      /\ tx.sequence = objects[k].stateSequence + 1
      /\ objects[k].stateSequence # MaxSequence
  BY DEF MarkObject, RotateObject, MarkIsValid, RotateIsValid, StepIsValid,
         Classify
<1>2. k \in Consumed(tx)
  BY <1>1
<1>3. objects[k] \in ObjectRecord
  BY <1>1, <1>2, ConsumedObjects
<1>4. tx.sequence \in 0 .. MaxSequence
  BY <1>1, <1>3, ReducerAssumption DEF ObjectRecord
<1>5. CASE MarkObject(tx, k)
  <2>1. objects[k].keys \in KeyPair
    BY <1>3 DEF ObjectRecord
  <2>2. Advance(k, tx, objects[k].keys, objects[k].chapterCount + 1, "MARK")
    BY <1>5 DEF MarkObject
  <2>3. chapters' = [chapters EXCEPT ![tx.id] =
                       [key |-> k, sequence |-> tx.sequence]]
    BY <1>5 DEF MarkObject
  <2>4. QED
    BY <1>1, <1>4, <2>1, <2>2, <2>3, AdvanceKeepsFollows
<1>6. CASE RotateObject(tx, k)
  <2>1. tx.keys \in KeyPair
    BY <1>1, DeliverType
  <2>2. Advance(k, tx, tx.keys, objects[k].chapterCount, "ROTATE")
    BY <1>6 DEF RotateObject
  <2>3. UNCHANGED chapters
    BY <1>6 DEF RotateObject
  <2>4. QED
    BY <1>1, <1>4, <2>1, <2>2, <2>3, AdvanceKeepsFollows
<1>7. QED
  BY <1>5, <1>6

\* What an ended record keeps of the record it was.
LEMMA TerminatedFields ==
  ASSUME NEW record \in ObjectRecord, NEW status \in Status \ {"active"},
         NEW sequence \in 0 .. MaxSequence, NEW txid \in Txid
  PROVE  LET ended == Terminated(record, status, sequence, txid) IN
         /\ ended # None
         /\ ended.status # "active"
         /\ ended.currentOutpoint = None
         /\ ended.currentHeight = None
         /\ ended.createHeight = record.createHeight
         /\ ended.keys = record.keys
         /\ ended.chapterCount = record.chapterCount
         /\ ended.stateSequence = sequence
<1>1. Terminated(record, status, sequence, txid) # None
  BY TerminatedType
<1>2. QED
  BY <1>1 DEF Terminated, ObjectRecord

\* A CLOSE or a REFUND.
LEMMA EndKeepsFollows ==
  ASSUME IInv, BlockFollows, NEW tx \in Arriving, NEW k \in Txid,
         CloseObject(tx, k) \/ RefundObject(tx, k)
  PROVE  BlockFollows'
<1>1. /\ Deliver(tx) /\ ConfirmedBefore(tx) /\ Consumed(tx) = {k}
  BY DEF CloseObject, RefundObject, CloseIsValid, RefundIsValid, StepIsValid,
         Classify
<1>2. k \in Consumed(tx)
  BY <1>1
<1>3. objects[k] \in ObjectRecord /\ tx.id \in Txid
  BY <1>1, <1>2, ConsumedObjects, DeliverType
<1>4. PICK status \in Status \ {"active"}, sequence \in 0 .. MaxSequence,
           type \in {"CLOSE", "REFUND"} :
        /\ TerminateOne(k, tx, status, sequence, type)
        /\ sequence \in {objects[k].stateSequence, objects[k].stateSequence + 1}
  <2>1. CASE CloseObject(tx, k)
    <3>1. /\ tx.sequence = objects[k].stateSequence + 1
          /\ objects[k].stateSequence # MaxSequence
      BY <2>1 DEF CloseObject, CloseIsValid, StepIsValid
    <3>2. tx.sequence \in 0 .. MaxSequence /\ "closed" \in Status \ {"active"}
      BY <1>3, <3>1, ReducerAssumption DEF ObjectRecord, Status
    <3>3. TerminateOne(k, tx, "closed", tx.sequence, "CLOSE")
      BY <2>1 DEF CloseObject
    <3>4. QED
      BY <3>1, <3>2, <3>3
  <2>2. CASE RefundObject(tx, k)
    <3>1. /\ objects[k].stateSequence \in 0 .. MaxSequence
          /\ "refunded" \in Status \ {"active"}
      BY <1>3 DEF ObjectRecord, Status
    <3>2. TerminateOne(k, tx, "refunded", objects[k].stateSequence, "REFUND")
      BY <2>2 DEF RefundObject
    <3>3. QED
      BY <3>1, <3>2
  <2>3. QED
    BY <2>1, <2>2
<1>5. /\ SpendCarriers({k}, tx, NoSuccessor)
      /\ UNCHANGED <<newStates, chapters>>
      /\ objects' = [objects EXCEPT ![k] =
                       Terminated(objects[k], status, sequence, tx.id)]
  BY <1>4 DEF TerminateOne
<1>6. \A j \in Txid \ {k} : objects'[j] = objects[j]
  BY <1>5 DEF IInv, TypeOK
<1>7. EndsWell(k)
  <2>1. objects'[k] = Terminated(objects[k], status, sequence, tx.id)
    BY <1>5 DEF IInv, TypeOK
  <2>2. objects[k] = base[k]
    BY <1>1, <1>2, UnmovedBelowHeight
  <2>3. QED
    BY <1>3, <1>4, <2>1, <2>2, TerminatedFields DEF EndsWell
<1>8. QED
  BY <1>1, <1>5, <1>6, <1>7, EndingKeepsFollows

\* A noncanonical spend.
LEMMA ExitKeepsFollows ==
  ASSUME IInv, BlockFollows, NEW tx \in Arriving, ExitNoncanonical(tx)
  PROVE  BlockFollows'
<1>1. /\ Deliver(tx)
      /\ SpendCarriers(Consumed(tx), tx, NoSuccessor)
      /\ UNCHANGED <<newStates, chapters>>
      /\ objects' = [k \in Txid |->
           IF k \in Consumed(tx)
           THEN Terminated(objects[k], "exited_noncanonical",
                           objects[k].stateSequence, tx.id)
           ELSE objects[k]]
  BY DEF ExitNoncanonical, Classify
<1>2. ASSUME NEW k \in Consumed(tx) PROVE EndsWell(k)
  <2>1. k \in Txid /\ objects[k] \in ObjectRecord /\ tx.id \in Txid
    BY <1>1, ConsumedObjects, DeliverType
  <2>2. /\ objects[k].stateSequence \in 0 .. MaxSequence
        /\ "exited_noncanonical" \in Status \ {"active"}
    BY <2>1 DEF ObjectRecord, Status
  <2>3. objects'[k] = Terminated(objects[k], "exited_noncanonical",
                                 objects[k].stateSequence, tx.id)
    BY <1>1, <2>1
  <2>4. QED
    BY <2>1, <2>2, <2>3, TerminatedFields DEF EndsWell
<1>3. \A k \in Txid \ Consumed(tx) : objects'[k] = objects[k]
  BY <1>1
<1>4. QED
  BY <1>1, <1>2, <1>3, EndingKeepsFollows

\* Whatever a block brings, what it holds so far follows from its base.
LEMMA TransactionKeepsFollows ==
  ASSUME IInv, BlockFollows, ReduceTransaction
  PROVE  BlockFollows'
<1>1. ASSUME NEW tx \in Arriving, CreateObject(tx) PROVE BlockFollows'
  BY <1>1, CreateKeepsFollows
<1>2. ASSUME NEW tx \in Arriving, NEW k \in Txid, MarkObject(tx, k)
      PROVE  BlockFollows'
  BY <1>2, MoveKeepsFollows
<1>3. ASSUME NEW tx \in Arriving, NEW k \in Txid, RotateObject(tx, k)
      PROVE  BlockFollows'
  BY <1>3, MoveKeepsFollows
<1>4. ASSUME NEW tx \in Arriving, NEW k \in Txid, CloseObject(tx, k)
      PROVE  BlockFollows'
  BY <1>4, EndKeepsFollows
<1>5. ASSUME NEW tx \in Arriving, NEW k \in Txid, RefundObject(tx, k)
      PROVE  BlockFollows'
  BY <1>5, EndKeepsFollows
<1>6. ASSUME NEW tx \in Arriving, ExitNoncanonical(tx) PROVE BlockFollows'
  BY <1>6, ExitKeepsFollows
<1>7. ASSUME NEW tx \in Arriving, PassOver(tx) \/ SkipAfterFailedInit(tx)
      PROVE  BlockFollows'
  BY <1>7, UntouchedKeepsFollows DEF PassOver, SkipAfterFailedInit, Classify
<1>8. QED
  BY <1>1, <1>2, <1>3, <1>4, <1>5, <1>6, <1>7 DEF ReduceTransaction

\* An empty block follows from the map it starts from.
LEMMA EmptyBlockFollows ==
  ASSUME NEW m \in [Txid -> ObjectRecord \cup {None}], EndedHasNoCarrier(m),
         NEW b, b.objects = m, b.newStates = NoRows,
         b.spentOutpoints = NoRows, b.chapters = NoRows
  PROVE  /\ ObjectsFollow(m, b)
         /\ RowsFollow(m, b)
         /\ ChaptersFollow(m, b)
<1>1. /\ \A t \in Txid : /\ b.newStates[t] = None
                         /\ b.spentOutpoints[t] = None
                         /\ b.chapters[t] = None
  BY DEF NoRows
<1>2. ObjectsFollow(m, b)
  <2>1. ASSUME NEW k \in Txid, m[k] # None PROVE m[k].stateSequence \in Nat
    BY <2>1, ReducerAssumption DEF ObjectRecord
  <2>2. QED
    BY <2>1 DEF ObjectsFollow
<1>3. QED
  BY <1>1, <1>2
  DEF RowsFollow, NewRowFollows, SpentMarkFollows, LiveCarrierFollows,
      OldCarrierStays, ChaptersFollow, ChapterFollows, HasChapter

\* The entry of reduceBlock starts an empty block on the map.
LEMMA BeginBlockFollows ==
  ASSUME TypeOK, EndedHasNoCarrier(objects), BeginBlock
  PROVE  BlockFollows'
<1>1. /\ base' = objects
      /\ objects' = objects
      /\ newStates' = NoRows
      /\ spentOutpoints' = NoRows
      /\ chapters' = NoRows
      /\ base' \in [Txid -> ObjectRecord \cup {None}]
  BY DEF BeginBlock, TypeOK
<1>2. EndedHasNoCarrier(base')
  BY <1>1 DEF EndedHasNoCarrier
<1>3. /\ Working'.objects = base'
      /\ Working'.newStates = NoRows
      /\ Working'.spentOutpoints = NoRows
      /\ Working'.chapters = NoRows
  BY <1>1 DEF Working
<1> DEFINE m == base'
           b == Working'
<1>4. ObjectsFollow(m, b) /\ RowsFollow(m, b) /\ ChaptersFollow(m, b)
  <2> HIDE DEF m, b
  <2>1. /\ m \in [Txid -> ObjectRecord \cup {None}]
        /\ EndedHasNoCarrier(m)
        /\ b.objects = m /\ b.newStates = NoRows
        /\ b.spentOutpoints = NoRows /\ b.chapters = NoRows
    BY <1>1, <1>2, <1>3 DEF m, b
  <2>2. QED
    BY <2>1, EmptyBlockFollows
<1>5. EndedHasNoCarrier(objects)'
  BY <1>1 DEF EndedHasNoCarrier
<1>6. QED
  BY <1>4, <1>5
  DEF BlockFollows, ObjectsFollow, RowsFollow, NewRowFollows,
      SpentMarkFollows, LiveCarrierFollows, OldCarrierStays, StepSequence,
      LiveIn, ChaptersFollow, ChapterFollows, HasChapter

(***************************************************************************)
(* The block a reducer works on follows from its base at every moment.     *)
(***************************************************************************)
THEOREM BlockInvariant == Spec => [](IInv /\ BlockFollows)
<1>1. Init => BlockFollows
  <2> SUFFICES ASSUME Init PROVE BlockFollows
    OBVIOUS
  <2>1. NoRows \in [Txid -> ObjectRecord \cup {None}]
    BY DEF NoRows
  <2>2. EndedHasNoCarrier(NoRows)
    BY DEF EndedHasNoCarrier, NoRows
  <2>3. QED
    BY <2>1, <2>2, EmptyBlockFollows DEF Init, BlockFollows, Working
<1>2. IInv /\ BlockFollows /\ [Next]_vars => BlockFollows'
  <2> SUFFICES ASSUME IInv, BlockFollows, [Next]_vars PROVE BlockFollows'
    OBVIOUS
  <2>1. CASE BeginBlock
    BY <2>1, BeginBlockFollows DEF IInv, BlockFollows
  <2>2. CASE ReduceTransaction
    BY <2>2, TransactionKeepsFollows
  <2>3. CASE EndBlock \/ UNCHANGED vars
    <3>1. UNCHANGED <<coins, height, work>>
      BY <2>3 DEF EndBlock, vars
    <3>2. /\ objects' = objects /\ base' = base /\ Working' = Working
      BY <3>1 DEF work, Working
    <3>3. QED
      BY <3>2 DEF BlockFollows
  <2>4. QED
    BY <2>1, <2>2, <2>3 DEF Next
<1>3. QED
  BY <1>1, <1>2, ReducerInvariant, PTL DEF Spec

(***************************************************************************)
(* An object makes at most one step per block: a carrier is confirmed      *)
(* below the height that spends it (block-reducer.ts, OneStepPerBlock).    *)
(***************************************************************************)
THEOREM AtMostOneStep == Spec => []OneStepPerBlock
<1>1. BlockFollows => OneStepPerBlock
  BY DEF BlockFollows, ObjectsFollow, OneStepPerBlock, Working
<1>2. QED
  BY <1>1, BlockInvariant, PTL

(***************************************************************************)
(* The state rows and spent marks handed to the store turn the live        *)
(* carriers before the block into those after it (RowsAccountForObjects).  *)
(***************************************************************************)
THEOREM RowsAccount == Spec => []RowsAccountForObjects
<1>1. ASSUME IInv, BlockFollows PROVE RowsAccountForObjects
  <2> SUFFICES ASSUME NEW o \in Txid, NEW k \in Txid
               PROVE  LiveIn(objects, o, k) <=>
                        /\ spentOutpoints[o] = None
                        /\ \/ LiveIn(base, o, k) /\ newStates[o] = None
                           \/ /\ newStates[o] # None
                              /\ objects[k] # None
                              /\ newStates[o] =
                                   [key |-> k,
                                    sequence |-> objects[k].stateSequence,
                                    keys |-> objects[k].keys]
    BY DEF RowsAccountForObjects
  <2>1. /\ NewRowFollows(base, Working, o)
        /\ LiveCarrierFollows(base, Working, o)
        /\ OldCarrierStays(base, Working, o)
    BY <1>1 DEF BlockFollows, RowsFollow
  <2>2. ASSUME newStates[o] # None
        PROVE  LET j == newStates[o].key IN
               /\ newStates[o] = [key |-> j, sequence |-> objects[j].stateSequence,
                                  keys |-> objects[j].keys]
               /\ spentOutpoints[o] = None => LiveIn(objects, o, j)
    BY <2>1, <2>2 DEF NewRowFollows, Working
  <2>3. ASSUME LiveIn(objects, o, k)
        PROVE  /\ spentOutpoints[o] = None
               /\ newStates[o] = None => objects[k] = base[k]
               /\ newStates[o] # None => newStates[o].key = k
    BY <2>1, <2>3 DEF LiveCarrierFollows, Working
  <2>4. ASSUME LiveIn(base, o, k), spentOutpoints[o] = None, newStates[o] = None
        PROVE  LiveIn(objects, o, k)
    BY <2>1, <2>4 DEF OldCarrierStays, Working
  <2>5. ASSUME NEW s, NEW q, newStates[o] = [key |-> k, sequence |-> s, keys |-> q]
        PROVE  newStates[o].key = k
    BY <2>5
  <2>6. QED
    BY <2>2, <2>3, <2>4, <2>5 DEF LiveIn
<1>2. QED
  BY <1>1, BlockInvariant, PTL

-----------------------------------------------------------------------------
(***************************************************************************)
(* The events of a block.                                                  *)
(***************************************************************************)
MarksOf(k) == {e \in EventsOf(k) : e.type = "MARK"}

\* The event of an object whose successor no other event has spent: it names
\* the object's state, and the others lead to it.
IsCurrentEvent(k, e) ==
  /\ objects[k].status = StatusAfter(e.type)
  /\ objects[k].stateSequence = e.sequence
  /\ objects[k].currentOutpoint = e.successor
  /\ e.successor # None => \A f \in EventsOf(k) : f.predecessor # e.successor
  /\ \A f \in EventsOf(k) : f # e =>
       f.successor # None /\ \E g \in EventsOf(k) : g.predecessor = f.successor

ChaptersBefore(k) == IF base[k] = None THEN 0 ELSE base[k].chapterCount

\* The events so far explain how each object differs from the base.
EventsFollow ==
  /\ \A e \in events : /\ e.predecessor # None => coins[e.predecessor] # Unseen
                       /\ e.successor # None => coins[e.successor] # Unseen
  /\ \A k \in Txid :
       /\ IsFiniteSet(MarksOf(k))
       /\ objects[k] # None =>
            objects[k].chapterCount = ChaptersBefore(k) + Cardinality(MarksOf(k))
       /\ IF EventsOf(k) = {} THEN objects[k] = base[k]
          ELSE objects[k] # None /\ \E e \in EventsOf(k) : IsCurrentEvent(k, e)

\* The event n of an object's step in the transaction tx.
IsEventOf(n, k, tx) ==
  /\ n.key = k
  /\ n.predecessor = IF objects[k] = None THEN None ELSE objects[k].currentOutpoint
  /\ n.successor \in {None, tx.id}
  /\ n.type = "MARK" => n.successor = tx.id
  /\ objects[k] # None => IsActive(k)
  /\ objects'[k] # None
  /\ objects'[k].status = StatusAfter(n.type)
  /\ objects'[k].stateSequence = n.sequence
  /\ objects'[k].currentOutpoint = n.successor
  /\ objects'[k].chapterCount =
       (IF objects[k] = None THEN 0 ELSE objects[k].chapterCount)
       + (IF n.type = "MARK" THEN 1 ELSE 0)

\* A transaction that steps the objects of K and reports each step.
LEMMA StepsKeepEvents ==
  ASSUME IInv, BlockFollows, EventsFollow, NEW tx \in Arriving, Deliver(tx),
         NEW K \in SUBSET Txid, NEW n \in [K -> EventRecord],
         events' = events \cup {n[k] : k \in K},
         \A k \in K : IsEventOf(n[k], k, tx),
         \A k \in Txid \ K : objects'[k] = objects[k]
  PROVE  EventsFollow'
<1>1. /\ base' = base
      /\ tx.id \in Txid
      /\ tx.id # None
      /\ coins[tx.id] = Unseen
      /\ coins'[tx.id] # Unseen
      /\ \A o \in Txid : coins[o] # Unseen => coins'[o] # Unseen
  BY DeliverType, ReducerAssumption DEF Deliver, Unseen, Spent
<1>2. \A e \in events : e.predecessor \in Txid \cup {None}
                        /\ e.successor \in Txid \cup {None}
  BY DEF IInv, TypeOK, EventRecord
<1>3. \A k \in K : objects[k] # None =>
        /\ objects[k].currentOutpoint \in Txid
        /\ objects[k].currentOutpoint # None
        /\ coins[objects[k].currentOutpoint] # Unseen
  <2> SUFFICES ASSUME NEW k \in K, objects[k] # None
               PROVE  /\ objects[k].currentOutpoint \in Txid
                      /\ objects[k].currentOutpoint # None
                      /\ coins[objects[k].currentOutpoint] # Unseen
    OBVIOUS
  <2>1. IsActive(k)
    BY DEF IsEventOf
  <2>2. QED
    BY <2>1, ReducerAssumption
    DEF IInv, ActiveCarrierIsUnspent, TypeOK, ObjectRecord, Unseen
<1>4. \A e \in events' :
        /\ e.predecessor # None => coins'[e.predecessor] # Unseen
        /\ e.successor # None => coins'[e.successor] # Unseen
  <2>1. ASSUME NEW e \in events
        PROVE  /\ e.predecessor # None => coins'[e.predecessor] # Unseen
               /\ e.successor # None => coins'[e.successor] # Unseen
    BY <1>1, <1>2 DEF EventsFollow
  <2>2. ASSUME NEW k \in K
        PROVE  /\ n[k].predecessor # None => coins'[n[k].predecessor] # Unseen
               /\ n[k].successor # None => coins'[n[k].successor] # Unseen
    BY <1>1, <1>3 DEF IsEventOf
  <2>3. QED
    BY <2>1, <2>2
<1>5. ASSUME NEW k \in Txid
      PROVE  /\ IsFiniteSet(MarksOf(k))'
             /\ objects'[k] # None =>
                  objects'[k].chapterCount =
                    ChaptersBefore(k)' + Cardinality(MarksOf(k)')
             /\ IF EventsOf(k)' = {} THEN objects'[k] = base'[k]
                ELSE /\ objects'[k] # None
                     /\ \E e \in EventsOf(k)' : IsCurrentEvent(k, e)'
  <2>1. /\ IsFiniteSet(MarksOf(k))
        /\ objects[k] # None =>
             objects[k].chapterCount = ChaptersBefore(k) + Cardinality(MarksOf(k))
        /\ IF EventsOf(k) = {} THEN objects[k] = base[k]
           ELSE objects[k] # None /\ \E e \in EventsOf(k) : IsCurrentEvent(k, e)
    BY DEF EventsFollow
  <2>2. ChaptersBefore(k)' = ChaptersBefore(k)
    BY <1>1 DEF ChaptersBefore
  <2>3. CASE k \notin K
    <3>1. EventsOf(k)' = EventsOf(k) /\ objects'[k] = objects[k]
      BY <2>3 DEF EventsOf, IsEventOf
    <3>2. MarksOf(k)' = MarksOf(k)
      BY <3>1 DEF MarksOf
    <3>3. \A e : IsCurrentEvent(k, e)' <=> IsCurrentEvent(k, e)
      BY <3>1 DEF IsCurrentEvent
    <3>4. QED
      BY <1>1, <2>1, <2>2, <3>1, <3>2, <3>3
  <2>4. CASE k \in K
    <3>1. IsEventOf(n[k], k, tx)
      BY <2>4
    <3>2. EventsOf(k)' = EventsOf(k) \cup {n[k]}
      BY <2>4 DEF EventsOf, IsEventOf
    <3>3. MarksOf(k)' = IF n[k].type = "MARK" THEN MarksOf(k) \cup {n[k]}
                                              ELSE MarksOf(k)
      BY <3>2 DEF MarksOf
    <3>4. n[k].type = "MARK" => n[k] \notin MarksOf(k)
      BY <1>1, <3>1 DEF MarksOf, EventsOf, EventsFollow, IsEventOf
    <3>5. /\ IsFiniteSet(MarksOf(k)')
          /\ Cardinality(MarksOf(k)') =
               Cardinality(MarksOf(k)) + (IF n[k].type = "MARK" THEN 1 ELSE 0)
      <4>1. Cardinality(MarksOf(k)) \in Nat
        BY <2>1, FS_CardinalityType
      <4>2. QED
        BY <2>1, <3>3, <3>4, <4>1, FS_AddElement
    <3>6. objects[k] = None => /\ ChaptersBefore(k) = 0
                               /\ MarksOf(k) = {}
      BY <2>1 DEF ChaptersBefore, MarksOf, BlockFollows, ObjectsFollow, Working
    <3>7. objects'[k].chapterCount = ChaptersBefore(k) + Cardinality(MarksOf(k)')
      <4>1. /\ Cardinality(MarksOf(k)) \in Nat
            /\ ChaptersBefore(k) \in Nat
        BY <2>1, FS_CardinalityType
        DEF ChaptersBefore, IInv, TypeOK, ObjectRecord
      <4>2. CASE objects[k] = None
        <5>1. Cardinality(MarksOf(k)) = 0
          BY <3>6, <4>2, FS_EmptySet
        <5>2. QED
          BY <3>1, <3>5, <3>6, <4>2, <5>1 DEF IsEventOf
      <4>3. CASE objects[k] # None
        BY <2>1, <3>1, <3>5, <4>1, <4>3 DEF IsEventOf
      <4>4. QED
        BY <4>2, <4>3
    <3>8. IsCurrentEvent(k, n[k])'
      <4>1. /\ objects'[k].status = StatusAfter(n[k].type)
            /\ objects'[k].stateSequence = n[k].sequence
            /\ objects'[k].currentOutpoint = n[k].successor
        BY <3>1 DEF IsEventOf
      <4>2. ASSUME n[k].successor # None, NEW f \in EventsOf(k)'
            PROVE  f.predecessor # n[k].successor
        <5>1. n[k].successor = tx.id
          BY <3>1, <4>2 DEF IsEventOf
        <5>2. CASE f = n[k]
          BY <1>1, <1>3, <2>4, <3>1, <5>1, <5>2 DEF IsEventOf
        <5>3. CASE f \in EventsOf(k)
          BY <1>1, <5>1, <5>3 DEF EventsOf, EventsFollow
        <5>4. QED
          BY <3>2, <5>2, <5>3
      <4>3. ASSUME NEW f \in EventsOf(k)', f # n[k]
            PROVE  /\ f.successor # None
                   /\ \E g \in EventsOf(k)' : g.predecessor = f.successor
        <5>1. f \in EventsOf(k)
          BY <3>2, <4>3
        <5>2. PICK e \in EventsOf(k) : IsCurrentEvent(k, e)
          BY <2>1, <5>1
        <5>3. objects[k] # None
          BY <2>1, <5>1
        <5>4. CASE f = e
          BY <1>3, <2>4, <3>1, <3>2, <5>2, <5>3, <5>4
          DEF IsCurrentEvent, IsEventOf
        <5>5. CASE f # e
          BY <3>2, <5>1, <5>2, <5>5 DEF IsCurrentEvent
        <5>6. QED
          BY <5>4, <5>5
      <4>4. QED
        BY <4>1, <4>2, <4>3 DEF IsCurrentEvent
    <3>9. QED
      BY <2>2, <3>1, <3>2, <3>5, <3>7, <3>8 DEF IsEventOf
  <2>5. QED
    BY <2>3, <2>4
<1>6. QED
  BY <1>4, <1>5 DEF EventsFollow

\* Events are records of their type.
LEMMA EventType ==
  ASSUME TypeOK, NEW k \in Txid,
         NEW type \in {"CREATE", "MARK", "ROTATE", "CLOSE", "REFUND",
                       "EXITED_NONCANONICAL"},
         NEW sequence \in 0 .. MaxSequence, NEW successor \in Txid \cup {None}
  PROVE  LET e == Event(type, k, sequence, successor) IN
         /\ e \in EventRecord
         /\ e.type = type /\ e.key = k /\ e.sequence = sequence
         /\ e.successor = successor
         /\ e.predecessor = IF objects[k] = None THEN None
                            ELSE objects[k].currentOutpoint
<1>1. (IF objects[k] = None THEN None ELSE objects[k].currentOutpoint)
        \in Txid \cup {None}
  BY DEF TypeOK, ObjectRecord
<1>2. QED
  BY <1>1 DEF Event, EventRecord

\* One object steps and one event is reported.
LEMMA OneStepKeepsEvents ==
  ASSUME IInv, BlockFollows, EventsFollow, NEW tx \in Arriving, Deliver(tx),
         NEW k \in Txid, NEW e \in EventRecord, events' = events \cup {e},
         IsEventOf(e, k, tx), \A j \in Txid \ {k} : objects'[j] = objects[j]
  PROVE  EventsFollow'
<1> DEFINE K == {k}
           n == [j \in K |-> e]
<1>1. /\ K \in SUBSET Txid
      /\ n \in [K -> EventRecord]
      /\ events' = events \cup {n[j] : j \in K}
      /\ \A j \in K : IsEventOf(n[j], j, tx)
      /\ \A j \in Txid \ K : objects'[j] = objects[j]
  OBVIOUS
<1> HIDE DEF K, n
<1>2. QED
  BY <1>1, StepsKeepEvents

\* A CREATE reports the new object.
LEMMA CreateKeepsEvents ==
  ASSUME IInv, BlockFollows, EventsFollow, NEW tx \in Arriving,
         CreateObject(tx)
  PROVE  EventsFollow'
<1> DEFINE t == tx.id
           e == Event("CREATE", t, 0, t)
           created == [createHeight |-> height,
                       founding |-> height >= OpenHeight /\ height < CloseHeight,
                       status |-> "active", stateSequence |-> 0,
                       currentOutpoint |-> tx.id, currentHeight |-> height,
                       keys |-> tx.keys, terminalTxid |-> None,
                       chapterCount |-> 0]
<1>1. Deliver(tx) /\ t \in Txid /\ coins[t] = Unseen
  BY DeliverType DEF CreateObject, Classify
<1>2. objects[t] = None /\ 0 \in 0 .. MaxSequence /\ TypeOK
  BY <1>1, ReducerAssumption DEF IInv, UnseenTxidHasNoObject
<1>3. /\ e \in EventRecord
      /\ e.type = "CREATE" /\ e.key = t /\ e.sequence = 0 /\ e.successor = t
      /\ e.predecessor = None
  BY <1>1, <1>2, EventType
<1>4. objects'[t] = created /\ \A j \in Txid \ {t} : objects'[j] = objects[j]
  BY <1>1 DEF CreateObject, IInv, TypeOK
<1>5. created # None
  <2>1. created \in ObjectRecord
    <3>1. (height >= OpenHeight /\ height < CloseHeight) \in BOOLEAN
      OBVIOUS
    <3>2. QED
      BY <1>1, <1>2, <3>1, DeliverType DEF ObjectRecord, Status
  <2>2. QED
    BY <2>1, MarkerAssumption
<1>6. events' = events \cup {e}
  BY DEF CreateObject
<1>7. IsEventOf(e, t, tx)
  <2>1. /\ objects'[t] # None
        /\ objects'[t].status = "active"
        /\ objects'[t].stateSequence = 0
        /\ objects'[t].currentOutpoint = t
        /\ objects'[t].chapterCount = 0
    BY <1>4, <1>5
  <2> HIDE DEF e, created
  <2>2. QED
    BY <1>2, <1>3, <2>1 DEF IsEventOf, StatusAfter
<1> HIDE DEF e, created
<1>8. QED
  BY <1>1, <1>3, <1>4, <1>6, <1>7, OneStepKeepsEvents

\* What a moved record is.
LEMMA MovedFields ==
  ASSUME height \in Nat, NEW record \in ObjectRecord,
         NEW sequence \in 0 .. MaxSequence, NEW txid \in Txid,
         NEW keys \in KeyPair, NEW count \in Nat
  PROVE  LET moved == Moved(record, sequence, txid, keys, count) IN
         /\ moved # None
         /\ moved.status = record.status
         /\ moved.stateSequence = sequence
         /\ moved.currentOutpoint = txid
         /\ moved.chapterCount = count
<1>1. Moved(record, sequence, txid, keys, count) \in ObjectRecord
  BY DEF Moved, ObjectRecord
<1>2. Moved(record, sequence, txid, keys, count) # None
  BY <1>1, MarkerAssumption
<1>3. QED
  BY <1>2 DEF Moved, ObjectRecord

\* A MARK or a ROTATE reports the step to its output.
LEMMA MoveKeepsEvents ==
  ASSUME IInv, BlockFollows, EventsFollow, NEW tx \in Arriving,
         NEW k \in Txid, MarkObject(tx, k) \/ RotateObject(tx, k)
  PROVE  EventsFollow'
<1>1. /\ Deliver(tx) /\ Consumed(tx) = {k}
      /\ tx.sequence = objects[k].stateSequence + 1
      /\ objects[k].stateSequence # MaxSequence
  BY DEF MarkObject, RotateObject, MarkIsValid, RotateIsValid, StepIsValid,
         Classify
<1>2. k \in Consumed(tx)
  BY <1>1
<1>3. /\ objects[k] \in ObjectRecord /\ IsActive(k) /\ tx.id \in Txid
      /\ height \in Nat /\ tx.keys \in KeyPair
  BY <1>1, <1>2, ConsumedObjects, DeliverType
<1>4. /\ tx.sequence \in 0 .. MaxSequence
      /\ objects[k].keys \in KeyPair
      /\ objects[k].chapterCount \in Nat
  BY <1>1, <1>3, ReducerAssumption DEF ObjectRecord
<1>5. PICK keys \in KeyPair, count \in Nat, type \in {"MARK", "ROTATE"} :
        /\ Advance(k, tx, keys, count, type)
        /\ count = objects[k].chapterCount + (IF type = "MARK" THEN 1 ELSE 0)
  <2>1. CASE MarkObject(tx, k)
    <3>1. Advance(k, tx, objects[k].keys, objects[k].chapterCount + 1, "MARK")
      BY <2>1 DEF MarkObject
    <3>2. objects[k].chapterCount + 1 \in Nat
      BY <1>4
    <3>3. QED
      BY <1>4, <3>1, <3>2
  <2>2. CASE RotateObject(tx, k)
    <3>1. Advance(k, tx, tx.keys, objects[k].chapterCount, "ROTATE")
      BY <2>2 DEF RotateObject
    <3>2. objects[k].chapterCount
            = objects[k].chapterCount + (IF "ROTATE" = "MARK" THEN 1 ELSE 0)
      BY <1>4
    <3>3. QED
      BY <1>3, <1>4, <3>1, <3>2
  <2>3. QED
    BY <2>1, <2>2
<1> DEFINE e == Event(type, k, tx.sequence, tx.id)
<1>6. /\ objects'[k] = Moved(objects[k], tx.sequence, tx.id, keys, count)
      /\ \A j \in Txid \ {k} : objects'[j] = objects[j]
      /\ events' = events \cup {e}
  BY <1>5 DEF Advance, IInv, TypeOK
<1>7. /\ e \in EventRecord
      /\ e.type = type /\ e.key = k /\ e.sequence = tx.sequence
      /\ e.successor = tx.id
      /\ e.predecessor = IF objects[k] = None THEN None
                         ELSE objects[k].currentOutpoint
  BY <1>3, <1>4, EventType DEF IInv
<1> HIDE DEF e
<1>8. IsEventOf(e, k, tx)
  <2>1. /\ objects'[k] # None
        /\ objects'[k].status = objects[k].status
        /\ objects'[k].stateSequence = tx.sequence
        /\ objects'[k].currentOutpoint = tx.id
        /\ objects'[k].chapterCount = count
    BY <1>3, <1>4, <1>6, MovedFields
  <2>2. QED
    BY <1>3, <1>5, <1>7, <2>1 DEF IsEventOf, IsActive, StatusAfter
<1>9. QED
  BY <1>1, <1>6, <1>7, <1>8, OneStepKeepsEvents

\* The event of an ended object.
LEMMA EndingIsReported ==
  ASSUME IInv, NEW tx \in Arriving, Deliver(tx), NEW k \in Consumed(tx),
         NEW type \in {"CLOSE", "REFUND", "EXITED_NONCANONICAL"},
         NEW sequence \in 0 .. MaxSequence,
         objects'[k] = Terminated(objects[k], StatusAfter(type), sequence, tx.id)
  PROVE  /\ Event(type, k, sequence, None) \in EventRecord
         /\ IsEventOf(Event(type, k, sequence, None), k, tx)
<1>1. /\ k \in Txid /\ objects[k] \in ObjectRecord /\ IsActive(k)
      /\ tx.id \in Txid
  BY ConsumedObjects, DeliverType
<1>2. StatusAfter(type) \in Status \ {"active"}
  BY DEF StatusAfter, Status
<1> DEFINE e == Event(type, k, sequence, None)
<1>3. /\ e \in EventRecord
      /\ e.type = type /\ e.key = k /\ e.sequence = sequence
      /\ e.successor = None
      /\ e.predecessor = IF objects[k] = None THEN None
                         ELSE objects[k].currentOutpoint
  BY <1>1, EventType DEF IInv
<1> HIDE DEF e
<1>4. /\ objects'[k] # None
      /\ objects'[k].status = StatusAfter(type)
      /\ objects'[k].stateSequence = sequence
      /\ objects'[k].currentOutpoint = None
      /\ objects'[k].chapterCount = objects[k].chapterCount
  <2>1. objects'[k] # None /\ objects'[k].status = StatusAfter(type)
    BY <1>1, <1>2, TerminatedType
  <2>2. QED
    BY <1>1, <1>2, <2>1, TerminatedFields
<1>5. objects[k].chapterCount = objects[k].chapterCount + 0
  BY <1>1 DEF ObjectRecord
<1>6. QED
  BY <1>1, <1>3, <1>4, <1>5 DEF IsEventOf, IsActive, e

\* A CLOSE or a REFUND reports the end.
LEMMA EndKeepsEvents ==
  ASSUME IInv, BlockFollows, EventsFollow, NEW tx \in Arriving,
         NEW k \in Txid, CloseObject(tx, k) \/ RefundObject(tx, k)
  PROVE  EventsFollow'
<1>1. Deliver(tx) /\ Consumed(tx) = {k}
  BY DEF CloseObject, RefundObject, CloseIsValid, RefundIsValid, StepIsValid,
         Classify
<1>2. k \in Consumed(tx)
  BY <1>1
<1>3. objects[k] \in ObjectRecord
  BY <1>1, <1>2, ConsumedObjects
<1>4. PICK type \in {"CLOSE", "REFUND"}, sequence \in 0 .. MaxSequence :
        TerminateOne(k, tx, StatusAfter(type), sequence, type)
  <2>1. CASE CloseObject(tx, k)
    <3>1. tx.sequence \in 0 .. MaxSequence
      BY <1>3, <2>1, ReducerAssumption
      DEF CloseObject, CloseIsValid, StepIsValid, ObjectRecord
    <3>2. TerminateOne(k, tx, StatusAfter("CLOSE"), tx.sequence, "CLOSE")
      BY <2>1 DEF CloseObject, StatusAfter
    <3>3. QED
      BY <3>1, <3>2
  <2>2. CASE RefundObject(tx, k)
    <3>1. objects[k].stateSequence \in 0 .. MaxSequence
      BY <1>3 DEF ObjectRecord
    <3>2. TerminateOne(k, tx, StatusAfter("REFUND"), objects[k].stateSequence,
                       "REFUND")
      BY <2>2 DEF RefundObject, StatusAfter
    <3>3. QED
      BY <3>1, <3>2
  <2>3. QED
    BY <2>1, <2>2
<1>5. /\ objects'[k] = Terminated(objects[k], StatusAfter(type), sequence, tx.id)
      /\ \A j \in Txid \ {k} : objects'[j] = objects[j]
      /\ events' = events \cup {Event(type, k, sequence, None)}
  BY <1>4 DEF TerminateOne, IInv, TypeOK
<1>6. /\ Event(type, k, sequence, None) \in EventRecord
      /\ IsEventOf(Event(type, k, sequence, None), k, tx)
  BY <1>1, <1>2, <1>5, EndingIsReported
<1>7. QED
  BY <1>1, <1>5, <1>6, OneStepKeepsEvents

\* A noncanonical spend reports the end of every object it consumes.
LEMMA ExitKeepsEvents ==
  ASSUME IInv, BlockFollows, EventsFollow, NEW tx \in Arriving,
         ExitNoncanonical(tx)
  PROVE  EventsFollow'
<1> DEFINE K == Consumed(tx)
           n == [k \in K |-> Event("EXITED_NONCANONICAL", k,
                                   objects[k].stateSequence, None)]
<1>1. /\ Deliver(tx)
      /\ objects' = [k \in Txid |->
           IF k \in K
           THEN Terminated(objects[k], "exited_noncanonical",
                           objects[k].stateSequence, tx.id)
           ELSE objects[k]]
      /\ events' = events \cup
           {Event("EXITED_NONCANONICAL", k, objects[k].stateSequence, None) :
              k \in K}
  BY DEF ExitNoncanonical, Classify
<1>2. ASSUME NEW k \in K
      PROVE  /\ k \in Txid
             /\ n[k] \in EventRecord
             /\ IsEventOf(n[k], k, tx)
  <2>1. k \in Txid /\ objects[k] \in ObjectRecord
    BY <1>1, ConsumedObjects
  <2>2. objects[k].stateSequence \in 0 .. MaxSequence
    BY <2>1 DEF ObjectRecord
  <2>3. objects'[k] = Terminated(objects[k], StatusAfter("EXITED_NONCANONICAL"),
                                 objects[k].stateSequence, tx.id)
    BY <1>1, <2>1 DEF StatusAfter
  <2>4. n[k] = Event("EXITED_NONCANONICAL", k, objects[k].stateSequence, None)
    OBVIOUS
  <2> HIDE DEF n
  <2>5. QED
    BY <1>1, <2>1, <2>2, <2>3, <2>4, EndingIsReported
<1>3. /\ K \in SUBSET Txid
      /\ n \in [K -> EventRecord]
      /\ events' = events \cup {n[k] : k \in K}
      /\ \A k \in Txid \ K : objects'[k] = objects[k]
  <2>1. K \in SUBSET Txid
    BY <1>2
  <2>2. n \in [K -> EventRecord]
    BY <1>2
  <2>3. {n[k] : k \in K} =
          {Event("EXITED_NONCANONICAL", k, objects[k].stateSequence, None) :
             k \in K}
    OBVIOUS
  <2> HIDE DEF K, n
  <2>4. QED
    BY <1>1, <2>1, <2>2, <2>3
<1>4. \A k \in K : IsEventOf(n[k], k, tx)
  BY <1>2
<1> HIDE DEF K, n
<1>5. QED
  BY <1>1, <1>3, <1>4, StepsKeepEvents

\* Whatever a block brings, its events keep explaining the map.
LEMMA TransactionKeepsEvents ==
  ASSUME IInv, BlockFollows, EventsFollow, ReduceTransaction
  PROVE  EventsFollow'
<1>1. ASSUME NEW tx \in Arriving, CreateObject(tx) PROVE EventsFollow'
  BY <1>1, CreateKeepsEvents
<1>2. ASSUME NEW tx \in Arriving, NEW k \in Txid,
             MarkObject(tx, k) \/ RotateObject(tx, k)
      PROVE  EventsFollow'
  BY <1>2, MoveKeepsEvents
<1>3. ASSUME NEW tx \in Arriving, NEW k \in Txid,
             CloseObject(tx, k) \/ RefundObject(tx, k)
      PROVE  EventsFollow'
  BY <1>3, EndKeepsEvents
<1>4. ASSUME NEW tx \in Arriving, ExitNoncanonical(tx) PROVE EventsFollow'
  BY <1>4, ExitKeepsEvents
<1>5. ASSUME NEW tx \in Arriving, PassOver(tx) \/ SkipAfterFailedInit(tx)
      PROVE  EventsFollow'
  <2>1. /\ UNCHANGED <<objects, base, events>>
        /\ \A o \in Txid : coins[o] # Unseen => coins'[o] # Unseen
    BY <1>5, DeliverType
    DEF PassOver, SkipAfterFailedInit, Classify, Deliver, Unseen, Spent
  <2>2. \A e \in events : e.predecessor \in Txid \cup {None}
                          /\ e.successor \in Txid \cup {None}
    BY DEF IInv, TypeOK, EventRecord
  <2>3. \A k \in Txid :
          /\ EventsOf(k)' = EventsOf(k)
          /\ MarksOf(k)' = MarksOf(k)
          /\ ChaptersBefore(k)' = ChaptersBefore(k)
          /\ \A e : IsCurrentEvent(k, e)' <=> IsCurrentEvent(k, e)
    BY <2>1 DEF EventsOf, MarksOf, ChaptersBefore, IsCurrentEvent
  <2>4. QED
    BY <2>1, <2>2, <2>3 DEF EventsFollow
<1>6. QED
  BY <1>1, <1>2, <1>3, <1>4, <1>5 DEF ReduceTransaction

(***************************************************************************)
(* The events a reader sees explain the map, whatever the block brings and *)
(* however often an object is touched in it (EventsExplainObjects).        *)
(***************************************************************************)
THEOREM EventsExplain == Spec => []EventsExplainObjects
<1>1. Init => EventsFollow
  <2> SUFFICES ASSUME Init PROVE EventsFollow
    OBVIOUS
  <2>1. /\ \A k \in Txid : /\ objects[k] = None /\ base[k] = None
                           /\ EventsOf(k) = {} /\ MarksOf(k) = {}
        /\ events = {}
    BY DEF Init, NoRows, EventsOf, MarksOf
  <2>2. QED
    BY <2>1, FS_EmptySet DEF EventsFollow
<1>2. IInv /\ BlockFollows /\ EventsFollow /\ [Next]_vars => EventsFollow'
  <2> SUFFICES ASSUME IInv, BlockFollows, EventsFollow, [Next]_vars
               PROVE  EventsFollow'
    OBVIOUS
  <2>1. CASE BeginBlock
    <3>1. /\ \A k \in Txid :
               /\ objects'[k] = base'[k]
               /\ objects'[k] # None => objects'[k].chapterCount \in Nat
               /\ EventsOf(k)' = {} /\ MarksOf(k)' = {}
          /\ events' = {}
      BY <2>1 DEF BeginBlock, IInv, TypeOK, ObjectRecord, EventsOf, MarksOf
    <3>2. \A k \in Txid : objects'[k] # None =>
            objects'[k].chapterCount = ChaptersBefore(k)' + 0
      BY <3>1 DEF ChaptersBefore
    <3>3. QED
      BY <3>1, <3>2, FS_EmptySet DEF EventsFollow
  <2>2. CASE ReduceTransaction
    BY <2>2, TransactionKeepsEvents
  <2>3. CASE EndBlock \/ UNCHANGED vars
    <3>1. UNCHANGED <<coins, objects, base, events>>
      BY <2>3 DEF EndBlock, vars, work
    <3>2. QED
      BY <3>1
      DEF EventsFollow, EventsOf, MarksOf, ChaptersBefore, IsCurrentEvent
  <2>4. QED
    BY <2>1, <2>2, <2>3 DEF Next
<1>3. EventsFollow => EventsExplainObjects
  <2> SUFFICES ASSUME EventsFollow, NEW k \in Txid, EventsOf(k) # {}
               PROVE  LET E == EventsOf(k)
                          last == {e \in E : \A f \in E :
                                     \/ e.successor = None
                                     \/ f.predecessor # e.successor}
                      IN /\ objects[k] # None
                         /\ \E e \in last :
                              /\ \A f \in last : f = e
                              /\ objects[k].status = StatusAfter(e.type)
                              /\ objects[k].stateSequence = e.sequence
                              /\ objects[k].currentOutpoint = e.successor
                         /\ objects[k].chapterCount =
                              ChaptersBefore(k) + Cardinality(MarksOf(k))
    BY DEF EventsExplainObjects, EventsFollow, ChaptersBefore, MarksOf
  <2>1. PICK e \in EventsOf(k) : IsCurrentEvent(k, e)
    BY DEF EventsFollow
  <2>2. QED
    BY <2>1 DEF EventsFollow, IsCurrentEvent
<1>4. QED
  BY <1>1, <1>2, <1>3, BlockInvariant, PTL DEF Spec
=============================================================================
