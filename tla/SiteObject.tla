----------------------------- MODULE SiteObject -----------------------------
(***************************************************************************)
(* The state machine behind the walkthroughs of the documentation site:    *)
(* createObject and applyOperation of site/src/lib/tandem.ts, said to      *)
(* mirror applyStateTransition of src/protocol/state-engine.ts.  It is     *)
(* shown to implement ObjectLifecycle, which is that function's promise.   *)
(*                                                                         *)
(* A txid is a function of the operation and of the sequence number it is  *)
(* applied at, and so are the two keys of a rotation.  The history and the *)
(* texts for the reader are left out.                                      *)
(***************************************************************************)
EXTENDS Nullable, Naturals

CONSTANTS
  MaxSequence  \* bound: operations that advance the sequence

VARIABLE object  \* the TandemObject on the page

Operation == {"MARK", "ROTATE", "CLOSE", "REFUND", "BREAK"}

CreateTxid == <<"CREATE", 0>>

Txid == {CreateTxid} \cup Operation \X (0 .. MaxSequence - 1)

\* The output 1 of a txid is its only carrier: the txid stands for both.
TandemObject ==
  [status : {"active", "closed", "refunded", "exited_noncanonical"},
   sequence : 0 .. MaxSequence, chapterCount : 0 .. MaxSequence,
   keys : 0 .. MaxSequence, currentOutpoint : Txid \cup {None},
   terminalTxid : Txid \cup {None}]

ASSUME SiteAssumption == MaxSequence \in Nat /\ None \notin TandemObject \cup Txid

CreateObject ==
  /\ object = None
  /\ object' = [status |-> "active", sequence |-> 0, chapterCount |-> 0, keys |-> 0,
                currentOutpoint |-> CreateTxid, terminalTxid |-> None]

-----------------------------------------------------------------------------
(***************************************************************************)
(* applyOperation.                                                         *)
(***************************************************************************)
Marked(txid) ==
  [object EXCEPT !.sequence = @ + 1, !.chapterCount = @ + 1, !.currentOutpoint = txid]

Rotated(txid) ==
  [object EXCEPT !.sequence = @ + 1, !.keys = object.sequence + 1, !.currentOutpoint = txid]

Ended(status, txid) ==
  [object EXCEPT !.status = status, !.currentOutpoint = None, !.terminalTxid = txid]

\* Mutant: closing is not counted.
Closed_SameSequence(txid) == Ended("closed", txid)

Closed(txid) == [Ended("closed", txid) EXCEPT !.sequence = @ + 1]

Applied(operation) ==
  LET txid == <<operation, object.sequence>> IN
  CASE operation = "MARK" -> Marked(txid)
    [] operation = "ROTATE" -> Rotated(txid)
    [] operation = "CLOSE" -> Closed(txid)
    [] operation = "REFUND" -> Ended("refunded", txid)
    [] OTHER -> Ended("exited_noncanonical", txid)

\* A terminal object is returned as it is.
ApplyOperation(operation) ==
  /\ object # None
  /\ object.sequence < MaxSequence
  /\ object' = IF object.status # "active" THEN object ELSE Applied(operation)

SiteInit == object = None

SiteNext ==
  \/ CreateObject
  \/ \E operation \in Operation : ApplyOperation(operation)

SiteSpec == SiteInit /\ [][SiteNext]_object

-----------------------------------------------------------------------------
(* Properties *)

\* The object of the page, in the map of the state engine.
Lifecycle == INSTANCE ObjectLifecycle WITH
  KeyPair <- 0 .. MaxSequence,
  states <- [k \in Txid |-> IF k = CreateTxid THEN object ELSE None]

\* What the page shows an object do is what the state engine lets one do: every
\* step is a transition of applyStateTransition, named by the object's carrier,
\* or changes nothing.  ("Mirrors `applyStateTransition`", tandem.ts.)  This is
\* Lifecycle!Spec, for steps that change the object.
SiteMirrorsStateEngine ==
  Lifecycle!Init /\ [][object' # object => Lifecycle!Next]_object
=============================================================================
