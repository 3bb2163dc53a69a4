------------------------------- MODULE Catalog -------------------------------
(***************************************************************************)
(* TandemCatalogService.page (src/api/tandem-catalog.service.ts) and the   *)
(* callers that follow its cursors.                                        *)
(*                                                                         *)
(* A page is work that runs through the gateway: a snapshot of the tables  *)
(* compared with the agreement, the rows after the cursor, the node's      *)
(* block hash, the second resolution.  The caller gets the work's result   *)
(* or the timer's 503, whichever is first; the work goes on, and holds one *)
(* of the two slots until it ends.                                         *)
(*                                                                         *)
(* Authorization, the parsing of limit and cursor and the MAC of a cursor  *)
(* are left out: a caller sends the cursor it was given, with the same     *)
(* limit.                                                                  *)
(***************************************************************************)
EXTENDS VerifiedGateway

CONSTANTS
  Client,   \* the callers
  Creates,  \* [Block -> Nat]: how many objects a block creates
  Limit     \* the limit all callers use

ASSUME CatalogAssumption ==
  /\ Creates \in [Block -> Nat]
  /\ Limit \in Nat \ {0}
  /\ None \notin Reader

VARIABLES
  work,      \* [Reader -> Work]: the pages being produced
  inFlight,  \* the service's counter of them
  client     \* [Client -> ClientState]

vars == <<gatewayVars, work, inFlight, client>>

MaxInFlight == 2

-----------------------------------------------------------------------------
(* The data *)

\* The rows of tandem_objects: where each is in the order of the catalog, and the
\* branch at which its columns have their values.
RowsAtHeight(branch, height) ==
  {[height |-> height, key |-> k, asOf |-> branch] : k \in 1..Creates[branch[height]]}

TandemObjects(branch) == UNION {RowsAtHeight(branch, h) : h \in 1..Len(branch)}

\* ORDER BY create_height DESC, object_key ASC
Precedes(x, y) == x.height > y.height \/ (x.height = y.height /\ x.key < y.key)

\* The row that is listed at i has i - 1 rows before it.
InOrder(rows) ==
  [i \in 1..Cardinality(rows) |->
     CHOOSE y \in rows : Cardinality({x \in rows : Precedes(x, y)}) = i - 1]

Rows(branch) == InOrder(TandemObjects(branch))

\* COUNT(*)
Total(branch) == Cardinality(TandemObjects(branch))

\* The digest of agreement, reorganization epoch and total.
SnapshotHash(branch, epoch) == [agreement |-> branch, reorgEpoch |-> epoch]

NoCursor == [snapshot |-> None, height |-> 0, key |-> 0, offset |-> 0]

\* WHERE (create_height < ? OR (create_height = ? AND object_key > ?))
AfterCursor(row, cursor) ==
  \/ cursor = NoCursor
  \/ row.height < cursor.height
  \/ row.height = cursor.height /\ row.key > cursor.key

RowsAfter(branch, cursor) ==
  InOrder({row \in TandemObjects(branch) : AfterCursor(row, cursor)})

FirstRows(rows) == SubSeq(rows, 1, IF Len(rows) < Limit THEN Len(rows) ELSE Limit)

PageOf(branch, cursor) ==
  [items |-> FirstRows(RowsAfter(branch, cursor)),
   hasMore |-> Len(RowsAfter(branch, cursor)) > Limit]

\* The check before the page leaves: not "catalog page is inconsistent".
PageIsConsistent(branch, cursor) ==
  LET page == PageOf(branch, cursor)
      end == cursor.offset + Len(page.items)
  IN /\ end <= Total(branch)
     /\ page.hasMore = (end < Total(branch))

\* Mutant: the last page has a cursor too.
CursorAfter_LastPage(page, snapshot, offset) ==
  IF page.items # <<>>
  THEN [snapshot |-> snapshot, height |-> Last(page.items).height,
        key |-> Last(page.items).key, offset |-> offset + Len(page.items)]
  ELSE NoCursor

\* nextCursor: after the page's last row, or none.
CursorAfter(page, snapshot, offset) ==
  IF page.hasMore /\ page.items # <<>>
  THEN [snapshot |-> snapshot, height |-> Last(page.items).height,
        key |-> Last(page.items).key, offset |-> offset + Len(page.items)]
  ELSE NoCursor

-----------------------------------------------------------------------------
(* State *)

\* step: what the work waits for inside the gateway's query; late: its
\* deadline has passed; seen: the tables as its transaction sees them.
NoWork == [step |-> "free", late |-> FALSE, cursor |-> NoCursor,
           snapshot |-> None, seen |-> <<>>, page |-> [items |-> <<>>, hasMore |-> FALSE]]

NewClient == [call |-> None, cursor |-> NoCursor, items |-> <<>>, agreement |-> None, done |-> FALSE]

Snapshots == [agreement : Branch \ {<<>>}, reorgEpoch : Nat]

IsCursor(c) ==
  \/ c = NoCursor
  \/ /\ c.snapshot \in Snapshots
     /\ c.height \in 1..Len(c.snapshot.agreement)
     /\ c.key \in 1..Creates[c.snapshot.agreement[c.height]]
     /\ c.offset \in 1..(Total(c.snapshot.agreement) - 1)

\* Types and ranges of all variables: in particular, a cursor in use names a row
\* of its snapshot and an offset below the total.
TypeOK ==
  /\ GatewayTypeOK
  /\ inFlight \in Nat
  /\ \A r \in Reader :
       /\ work[r].step \in {"free", "snapshot", "rows", "core", "recheck"}
       /\ work[r].late \in BOOLEAN
       /\ IsCursor(work[r].cursor)
       /\ work[r].snapshot \in Snapshots \cup {None}
       /\ work[r].seen \in Branch
  /\ \A c \in Client :
       /\ client[c].call \in Reader \cup {None}
       /\ IsCursor(client[c].cursor)
       /\ client[c].agreement \in TupleOrNull
       /\ client[c].done \in BOOLEAN

Init ==
  /\ GatewayInit
  /\ work = [r \in Reader |-> NoWork]
  /\ inFlight = 0
  /\ client = [c \in Client |-> NewClient]

Running(r) == work[r].step # "free"
Waiting(c) == client[c].call # None
CallersOf(r) == {c \in Client : client[c].call = r}

-----------------------------------------------------------------------------
(* One page *)

\* this.inFlight >= 2 is answered 503 "catalog is busy", and nothing changes.
Admits == inFlight < MaxInFlight

Ask(c, r) ==
  /\ ~Waiting(c) /\ ~client[c].done
  /\ ~Running(r)
  /\ Admits
  /\ inFlight' = inFlight + 1
  /\ work' = [work EXCEPT ![r] = [NoWork EXCEPT !.step = "snapshot", !.cursor = client[c].cursor]]
  /\ client' = [client EXCEPT ![c].call = r]
  /\ BeginGate(r)
  /\ UNCHANGED <<sourceVars, pipelineB>>

\* Mutant: a failed page keeps its slot.
SlotsAfter_Leak(failed) == IF failed THEN inFlight ELSE inFlight - 1

\* finally: this.inFlight--
SlotsAfter(failed) == inFlight - 1

End(r, failed) ==
  /\ inFlight' = SlotsAfter(failed)
  /\ work' = [work EXCEPT ![r] = NoWork]
  /\ gate' = [gate EXCEPT ![r] = NoGate]
  /\ probe' = [probe EXCEPT ![r] = NoProbe]
  /\ UNCHANGED <<sourceVars, pipelineB>>

\* 503: a caller that still waits may try the same page again.
Unavailable(r) ==
  /\ End(r, TRUE)
  /\ client' = [c \in Client |->
       IF client[c].call = r THEN [client[c] EXCEPT !.call = None] ELSE client[c]]

\* 409: it has to start again.
Conflict(r) ==
  /\ End(r, TRUE)
  /\ client' = [c \in Client |-> IF client[c].call = r THEN NewClient ELSE client[c]]

Fenced(r) == gate[r].stage = "query" /\ work[r].step \in {"snapshot", "rows", "core"}

\* Mutant: the hash of the tables' tip is not compared with the agreement.
SqlMatches_HeightOnly(agreement) == Len(tables) = Len(agreement)

\* Tip and roots of the tables are those of the agreement, and so are the counts.
SqlMatches(agreement) == tables = agreement

CursorFits(cursor, snapshot) ==
  \/ cursor = NoCursor
  \/ cursor.snapshot = snapshot /\ cursor.offset < Total(snapshot.agreement)

\* The first reads of the REPEATABLE READ transaction: tip, epoch and counts.
ReadSnapshot(r) ==
  /\ Fenced(r) /\ work[r].step = "snapshot" /\ ~work[r].late
  /\ LET snapshot == SnapshotHash(gate[r].before, reorgEpoch) IN
     IF ~SqlMatches(gate[r].before) THEN Unavailable(r)
     ELSE IF ~CursorFits(work[r].cursor, snapshot) THEN Conflict(r)
     ELSE /\ work' = [work EXCEPT ![r].step = "rows", ![r].snapshot = snapshot,
                                   ![r].seen = tables]
          /\ UNCHANGED <<gatewayVars, inFlight, client>>

\* Mutant: the rows are read outside the transaction.
SeenBy_Latest(r) == tables

\* What a later statement of the transaction sees: the tables of its first read.
SeenBy(r) == work[r].seen

ReadRows(r) ==
  /\ Fenced(r) /\ work[r].step = "rows" /\ ~work[r].late
  /\ IF PageIsConsistent(SeenBy(r), work[r].cursor)
     THEN /\ work' = [work EXCEPT ![r].step = "core", ![r].page = PageOf(SeenBy(r), work[r].cursor)]
          /\ UNCHANGED <<gatewayVars, inFlight, client>>
     ELSE Unavailable(r)

\* getBlockHash(verification.height) === verification.blockHash
CheckCore(r) ==
  /\ Fenced(r) /\ work[r].step = "core" /\ ~work[r].late
  /\ IF IsPrefix(gate[r].before, node)
     THEN /\ work' = [work EXCEPT ![r].step = "recheck"]
          /\ Recheck(r)
          /\ UNCHANGED <<sourceVars, pipelineB, inFlight, client>>
     ELSE Unavailable(r)

\* A SQL statement or the call to the node fails (the latter at the latest when
\* its timeout fires), or checkDeadline does.
PageFails(r) == Fenced(r) /\ Unavailable(r)

GateFails(r) == gate[r].stage \in {"refused", "withheld"} /\ Unavailable(r)

\* The response, for a caller that still waits.
Deliver(r) ==
  /\ gate[r].stage = "answered"
  /\ End(r, FALSE)
  /\ LET w == work[r]
         next == CursorAfter(w.page, w.snapshot, w.cursor.offset)
     IN client' = [c \in Client |->
          IF client[c].call = r
          THEN [call |-> None, cursor |-> next, items |-> client[c].items \o w.page.items,
                agreement |-> gate[r].before, done |-> next = NoCursor]
          ELSE client[c]]

DeadlinePasses(r) ==
  /\ Running(r) /\ ~work[r].late
  /\ work' = [work EXCEPT ![r].late = TRUE]
  /\ UNCHANGED <<gatewayVars, inFlight, client>>

\* Mutant: the timer answers only while the gateway resolves.
TimerCovers_Resolving(r) == Resolving(r)

\* The timer runs until the race is over.
TimerCovers(r) == TRUE

\* The 15 s timer wins the race.  The work keeps its slot.
TimerFires(r) ==
  /\ work[r].late /\ CallersOf(r) # {}
  /\ TimerCovers(r)
  /\ client' = [c \in Client |->
       IF client[c].call = r THEN [client[c] EXCEPT !.call = None] ELSE client[c]]
  /\ UNCHANGED <<gatewayVars, work, inFlight>>

\* A caller with a complete catalog begins another.
StartOver(c) ==
  /\ client[c].done
  /\ client' = [client EXCEPT ![c] = NewClient]
  /\ UNCHANGED <<gatewayVars, work, inFlight>>

\* The process dies; callers keep their cursors, which stay valid.
Restart ==
  /\ phase' = "awaiting_init"
  /\ probe' = [r \in Reader |-> NoProbe]
  /\ gate' = [r \in Reader |-> NoGate]
  /\ work' = [r \in Reader |-> NoWork]
  /\ inFlight' = 0
  /\ client' = [c \in Client |-> [client[c] EXCEPT !.call = None]]
  /\ UNCHANGED <<node, left, reorgs, tables, reorgEpoch, pipelineB>>

-----------------------------------------------------------------------------
(* Specifications *)

GateMoves(r) == GateStep(r) /\ UNCHANGED <<work, inFlight, client>>
BAnswers(r) == FetchB(r) /\ UNCHANGED <<work, inFlight, client>>

WorkStep(r) ==
  \/ GateMoves(r) \/ GateFails(r)
  \/ ReadSnapshot(r) \/ ReadRows(r) \/ CheckCore(r) \/ PageFails(r)
  \/ Deliver(r)

Next ==
  \/ WorldMoves /\ UNCHANGED <<work, inFlight, client>>
  \/ \E r \in Reader :
       \/ \E c \in Client : Ask(c, r)
       \/ WorkStep(r) \/ BAnswers(r)
       \/ DeadlinePasses(r) \/ TimerFires(r)
  \/ \E c \in Client : StartOver(c)
  \/ Restart

Spec == Init /\ [][Next]_vars

\* Timers are sure to fire, and nothing else is: no call has to be answered.
FairSpec ==
  /\ Spec
  /\ \A r \in Reader : WF_vars(DeadlinePasses(r)) /\ WF_vars(TimerFires(r))

\* Every call of the work but the one to pipeline B is answered or fails.
CallsEnd == \A r \in Reader : WF_vars(WorkStep(r))

-----------------------------------------------------------------------------
(* Properties *)

\* What a caller has put together from pages is, in order and without gap or
\* duplicate, the membership at the one agreement its cursor names: part of it
\* as long as there is a cursor, all of it when there is none left, whatever
\* blocks came and went between pages.  (readSnapshot and the cursor of page.)
CatalogIsOneSnapshot ==
  \A c \in Client :
    LET s == client[c] IN
    /\ s.cursor # NoCursor =>
         LET branch == s.cursor.snapshot.agreement IN
         /\ s.cursor.offset \in 1 .. (Total(branch) - 1)
         /\ s.items = SubSeq(Rows(branch), 1, s.cursor.offset)
    /\ s.done => s.items = Rows(s.agreement)

\* The row count, the offset in the cursor and the keyset never contradict each
\* other: the check that ends in "catalog page is inconsistent" does not fire.
PagesNeverInconsistent ==
  \A r \in Reader :
    work[r].step = "rows" => PageIsConsistent(SeenBy(r), work[r].cursor)

\* The counter is the number of pages being produced, also after failures,
\* timeouts and restarts, and they are never more than two.  (page, inFlight.)
SlotsAreExact ==
  /\ inFlight = Cardinality({r \in Reader : Running(r)})
  /\ inFlight <= MaxInFlight

\* Every caller is answered, even if no call the page waits for ever is.
CallerIsAnswered == \A c \in Client : Waiting(c) ~> ~Waiting(c)

\* Every page's work ends and gives its slot back if its calls end, even if
\* pipeline B never answers.  (fetchPipelineB aborts; page releases in finally.)
SlotIsReleased == CallsEnd => \A r \in Reader : Running(r) ~> ~Running(r)
=============================================================================
