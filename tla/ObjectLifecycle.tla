-------------------------- MODULE ObjectLifecycle --------------------------
(***************************************************************************)
(* What a Tandem object may do, as promised by the pure transition         *)
(* function applyStateTransition of src/protocol/state-engine.ts: it is    *)
(* created once, moves from carrier to carrier one sequence number at a    *)
(* time, and ends once.  An object key is derived from the txid of its     *)
(* CREATE and a carrier is always output 1 of the transaction that made    *)
(* it, so txids stand for object keys and for carrier outpoints alike.     *)
(***************************************************************************)
EXTENDS Naturals

CONSTANTS
  Txid,         \* transaction identifiers
  KeyPair,      \* the two holder keys of a carrier, as one value
  MaxSequence,  \* the largest state sequence (0xffffffff on the wire)
  None          \* an absent object, and the null of a nullable field

VARIABLE states \* the Map from object key to IndexedObjectState

Ended == {"closed", "refunded", "exited_noncanonical"}

IndexedObjectState ==
  [status : {"active"} \cup Ended,
   sequence : 0 .. MaxSequence,
   currentOutpoint : Txid \cup {None},
   keys : KeyPair,
   chapterCount : Nat,
   terminalTxid : Txid \cup {None}]

(***************************************************************************)
(* requireActive: the transition names the object's current carrier.       *)
(***************************************************************************)
RequireActive(k, predecessor) ==
  /\ states[k] # None
  /\ states[k].status = "active"
  /\ states[k].currentOutpoint = predecessor

Create(k, successor, keys) ==
  /\ states[k] = None
  /\ states' = [states EXCEPT ![k] =
       [status |-> "active", sequence |-> 0, currentOutpoint |-> successor,
        keys |-> keys, chapterCount |-> 0, terminalTxid |-> None]]

(***************************************************************************)
(* MARK (one more chapter, the keys it is given) and ROTATE.               *)
(***************************************************************************)
Moved(state, successor, keys, chapters) ==
  [state EXCEPT !.sequence = @ + 1, !.currentOutpoint = successor,
                !.keys = keys, !.chapterCount = @ + chapters]

Advance(k, predecessor, successor, keys, chapters) ==
  /\ RequireActive(k, predecessor)
  /\ states[k].sequence < MaxSequence
  /\ states' = [states EXCEPT ![k] = Moved(@, successor, keys, chapters)]

Terminal(state, status, sequence, txid) ==
  [state EXCEPT !.status = status, !.sequence = sequence,
                !.currentOutpoint = None, !.terminalTxid = txid]

Close(k, predecessor, txid) ==
  /\ RequireActive(k, predecessor)
  /\ states[k].sequence < MaxSequence
  /\ states' = [states EXCEPT ![k] =
                  Terminal(@, "closed", @.sequence + 1, txid)]

Refund(k, predecessor, txid) ==
  /\ RequireActive(k, predecessor)
  /\ states' = [states EXCEPT ![k] =
                  Terminal(@, "refunded", @.sequence, txid)]

(***************************************************************************)
(* EXITED_NONCANONICAL for every object whose carrier one transaction      *)
(* spends outside the rules: one transition per object, in one step.       *)
(***************************************************************************)
Exit(K, txid) ==
  /\ K # {}
  /\ \A k \in K : \E o \in Txid : RequireActive(k, o)
  /\ states' = [k \in Txid |->
       IF k \in K
       THEN Terminal(states[k], "exited_noncanonical", states[k].sequence, txid)
       ELSE states[k]]

Init == states = [k \in Txid |-> None]

Next ==
  \/ \E k, successor \in Txid, keys \in KeyPair : Create(k, successor, keys)
  \/ \E k, predecessor, successor \in Txid, keys \in KeyPair :
       \E chapters \in {0, 1} :
         Advance(k, predecessor, successor, keys, chapters)
  \/ \E k, predecessor, txid \in Txid :
       \/ Close(k, predecessor, txid)
       \/ Refund(k, predecessor, txid)
  \/ \E K \in SUBSET Txid, txid \in Txid : Exit(K, txid)

Spec == Init /\ [][Next]_states
=============================================================================
