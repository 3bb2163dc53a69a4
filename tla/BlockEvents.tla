----------------------------- MODULE BlockEvents -----------------------------
(***************************************************************************)
(* BlockEventsService (src/api/block-events.service.ts) and the readers    *)
(* that page through the events of one block with it.                      *)
(*                                                                         *)
(* A request probes readiness and then reads checkpoint, block and events  *)
(* in a REPEATABLE READ transaction.  Its cursor carries height and hash   *)
(* of the block and the position of the last event.  The order of events   *)
(* (tx_index, event_index, sub_index) is a position in the block; events   *)
(* of the INVALID class are not served and not counted.  The parsing of    *)
(* height, limit and cursor is left out: a reader asks for a height and    *)
(* then sends the cursors it was given.                                    *)
(***************************************************************************)
EXTENDS Readiness

CONSTANTS
  Events,  \* [Block -> Nat]: how many events of a block are served
  Limit    \* the limit of a request

ASSUME BlockEventsAssumption ==
  /\ Events \in [Block -> Nat]
  /\ Limit \in Nat \ {0}

VARIABLES
  request,  \* [Reader -> Request]: the request each reader waits for
  reader    \* [Reader -> ReaderState]: what it has got so far

vars == <<readinessVars, request, reader>>

\* The tables start at the INIT block, height 1; 0 is below, the last height
\* above everything.
Heights == 0..(MaxHeight + 1)

HashOrNull == (Branch \ {<<>>}) \cup {None}
NoCursor == [hash |-> None, position |-> 0]
IsCursor(c) == c = NoCursor \/ (c.hash \in Branch \ {<<>>} /\ c.position \in 1..Events[Last(c.hash)])

\* The events of the block with a hash, in order, each tagged with its block.
EventsOf(hash) == IF hash = None THEN <<>> ELSE [k \in 1..Events[Last(hash)] |-> <<hash, k>>]

\* blocks[0]?.hash ?? null
HashAt(branch, height) ==
  IF height \in 1..Len(branch) THEN SubSeq(branch, 1, height) ELSE None

NoRequest == [step |-> "none", seen |-> <<>>, blockHash |-> None]
NewReader == [height |-> 0, cursor |-> NoCursor, got |-> <<>>, blockHash |-> None,
              checkpoint |-> <<>>, status |-> "idle"]

\* Types and ranges of all variables: a cursor points at an event of its block.
TypeOK ==
  /\ ReadinessTypeOK
  /\ \A r \in Reader :
       /\ request[r].step \in {"none", "probe", "checkpoint", "block", "events"}
       /\ request[r].seen \in Branch
       /\ request[r].blockHash \in HashOrNull
       /\ reader[r].height \in Heights
       /\ IsCursor(reader[r].cursor)
       /\ reader[r].blockHash \in HashOrNull
       /\ reader[r].checkpoint \in Branch
       /\ reader[r].status \in {"idle", "paging", "complete", "not_indexed", "rejected"}

Init ==
  /\ ReadinessInit
  /\ request = [r \in Reader |-> NoRequest]
  /\ reader = [r \in Reader |-> NewReader]

-----------------------------------------------------------------------------

Send(r) ==
  /\ request' = [request EXCEPT ![r] = [NoRequest EXCEPT !.step = "probe"]]
  /\ probe' = [probe EXCEPT ![r] = NewProbe]
  /\ UNCHANGED sourceVars

\* A reader asks for the first page of a height.
AskBlock(r, h) ==
  /\ reader[r].status # "paging"
  /\ request[r].step = "none"
  /\ reader' = [reader EXCEPT ![r] = [NewReader EXCEPT !.height = h, !.status = "paging"]]
  /\ Send(r)

\* It sends the cursor it has, or its first request again after a 503.
AskNext(r) ==
  /\ reader[r].status = "paging"
  /\ request[r].step = "none"
  /\ Send(r)
  /\ UNCHANGED reader

RequestProbes(r) == request[r].step = "probe" /\ ProbeStep(r) /\ UNCHANGED <<request, reader>>

Ended(r) ==
  /\ request' = [request EXCEPT ![r] = NoRequest]
  /\ probe' = [probe EXCEPT ![r] = NoProbe]
  /\ UNCHANGED sourceVars

\* requireReady throws, or a statement of the transaction fails: 503 or 500.
RequestFails(r) ==
  /\ \/ request[r].step = "probe" /\ probe[r].pc = "unready"
     \/ request[r].step \in {"checkpoint", "block", "events"}
  /\ Ended(r)
  /\ UNCHANGED reader

\* The transaction starts.
Ready(r) ==
  /\ request[r].step = "probe" /\ probe[r].pc = "ready"
  /\ request' = [request EXCEPT ![r].step = "checkpoint"]
  /\ probe' = [probe EXCEPT ![r] = NoProbe]
  /\ UNCHANGED <<sourceVars, reader>>

\* 400: the reader drops what it has.
Reject(r) ==
  /\ Ended(r)
  /\ reader' = [reader EXCEPT ![r] = [NewReader EXCEPT !.status = "rejected"]]

\* Its first statement fixes what the transaction sees.
ReadCheckpoint(r) ==
  /\ request[r].step = "checkpoint" /\ tables # <<>>
  /\ IF Len(tables) >= reader[r].height
     THEN /\ request' = [request EXCEPT ![r].step = "block", ![r].seen = tables]
          /\ UNCHANGED <<readinessVars, reader>>
     ELSE IF reader[r].cursor # NoCursor THEN Reject(r)
     ELSE /\ Ended(r)
          /\ reader' = [reader EXCEPT ![r].status = "not_indexed", ![r].checkpoint = tables]

\* Mutant: the cursor is only checked for its height.
CursorFits_Height(cursor, blockHash) == cursor.hash # None => blockHash # None

\* A cursor must be for the block that is indexed at its height now.
CursorFits(cursor, blockHash) == cursor = NoCursor \/ cursor.hash = blockHash

\* Mutant: a later statement reads outside the transaction.
SeenBy_Latest(r) == tables

\* What a later statement of the transaction sees.
SeenBy(r) == request[r].seen

ReadBlock(r) ==
  /\ request[r].step = "block"
  /\ LET hash == HashAt(SeenBy(r), reader[r].height) IN
     IF CursorFits(reader[r].cursor, hash)
     THEN /\ request' = [request EXCEPT ![r].step = "events", ![r].blockHash = hash]
          /\ UNCHANGED <<readinessVars, reader>>
     ELSE Reject(r)

\* rows.length > limit, with one row more than the limit asked for
HasMore(rest) == Len(rest) > Limit

\* The page: events after the cursor, in order, at most Limit of them.
ReadEvents(r) ==
  /\ request[r].step = "events"
  /\ LET all == EventsOf(HashAt(SeenBy(r), reader[r].height))
         rest == SubSeq(all, reader[r].cursor.position + 1, Len(all))
         items == IF HasMore(rest) THEN SubSeq(rest, 1, Limit) ELSE rest
     IN reader' = [reader EXCEPT
          ![r].got = @ \o items,
          ![r].blockHash = request[r].blockHash,
          ![r].checkpoint = request[r].seen,
          ![r].cursor = IF HasMore(rest)
                        THEN [hash |-> request[r].blockHash, position |-> Last(items)[2]]
                        ELSE NoCursor,
          ![r].status = IF HasMore(rest) THEN "paging" ELSE "complete"]
  /\ Ended(r)

\* The process dies; readers keep what they have.
Restart ==
  /\ phase' = "awaiting_init"
  /\ probe' = [r \in Reader |-> NoProbe]
  /\ request' = [r \in Reader |-> NoRequest]
  /\ UNCHANGED <<node, left, reorgs, tables, reorgEpoch, reader>>

Serve(r) ==
  \/ RequestProbes(r) \/ RequestFails(r) \/ Ready(r)
  \/ ReadCheckpoint(r) \/ ReadBlock(r) \/ ReadEvents(r)

Next ==
  \/ SourcesMove /\ UNCHANGED <<probe, request, reader>>
  \/ \E r \in Reader :
       \/ \E h \in Heights : AskBlock(r, h)
       \/ AskNext(r)
       \/ Serve(r)
  \/ Restart

Spec == Init /\ [][Next]_vars

-----------------------------------------------------------------------------
(* Properties *)

\* What a reader has got is, in order and without gap or duplicate, the events of
\* the one block its cursor names; all of them when it is told "complete",
\* whatever rollbacks happened between its pages.  (blockEvents, cursor.)
EventsAreOfOneBlock ==
  \A r \in Reader :
    LET s == reader[r] IN
    /\ s.cursor # NoCursor => s.got = SubSeq(EventsOf(s.cursor.hash), 1, s.cursor.position)
    /\ s.status = "complete" => s.got = EventsOf(s.blockHash)

\* The block of a page and the checkpoint sent with it are of one branch, and
\* "not indexed" is said only when the checkpoint is below the height.
PageIsUnderItsCheckpoint ==
  \A r \in Reader :
    LET s == reader[r] IN
    /\ s.blockHash # None => IsPrefix(s.blockHash, s.checkpoint)
    /\ s.status = "complete" => s.blockHash = HashAt(s.checkpoint, s.height)
    /\ s.status = "not_indexed" => Len(s.checkpoint) < s.height
=============================================================================
