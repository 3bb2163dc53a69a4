--------------------------- MODULE VerifiedQueries ---------------------------
(***************************************************************************)
(* The routes of VerifiedTandemController                                  *)
(* (src/api/verified-tandem.controller.ts): each runs a query of           *)
(* TandemQueryService (src/api/tandem-query.service.ts) through the        *)
(* gateway's execute.  A query is one or more SQL statements without a     *)
(* transaction around them.  What a statement reads is the branch the      *)
(* tables hold at that moment.                                             *)
(*                                                                         *)
(* The limits and texts that a request is refused for before any query     *)
(* runs (400) are left out, and so are the columns of a row.  The catalog  *)
(* has a module of its own.                                                *)
(***************************************************************************)
EXTENDS VerifiedGateway

VARIABLE query  \* [Reader -> Query]

vars == <<gatewayVars, query>>

Statement == {"object", "chapters", "transaction", "events", "rows",
              "objects", "transactions", "carriers"}

\* The statements of a query: one stage after the other, those of a stage in any
\* order (Promise.all).  "listing" stands for the queries with one statement
\* that is never "not found": objects, address, invalidEvents, mempool,
\* conflicts, reorgs and stats; status adds fields of the process to it, and what
\* a second statement counts in tandem_mempool, which holds nothing of a block.
ListingStages == <<{"rows"}>>
ObjectStages == <<{"object"}, {"chapters"}>>
TransactionStages == <<{"transaction"}, {"events"}>>
EventsStages == <<{"events"}, {"transaction"}>>
SearchStages == <<{"objects", "transactions", "carriers"}>>

Stages == [listing |-> ListingStages, object |-> ObjectStages,
           transaction |-> TransactionStages, events |-> EventsStages,
           search |-> SearchStages]

Route == DOMAIN Stages

\* The statement whose empty result is answered 404.
Required == [route \in Route |->
  CASE route = "object" -> {"object"}
    [] route \in {"transaction", "events"} -> {"transaction"}
    [] OTHER -> {}]

\* key: what is asked for, as the block that created it; seen: what each
\* statement saw; since: the reorganization epoch when the request came in.
Query == [route : Route, key : TupleOrNull,
          seen : [Statement -> Branch \cup {None}], since : Nat,
          status : {"none", "pending", "ok", "unavailable", "not_found", "failed"}]

NoQuery == [route |-> "listing", key |-> None, seen |-> [s \in Statement |-> None],
            since |-> 0, status |-> "none"]

\* Types and ranges of all variables.
TypeOK ==
  /\ GatewayTypeOK
  /\ query \in [Reader -> Query]

Init ==
  /\ GatewayInit
  /\ query = [r \in Reader |-> NoQuery]

\* What a request may ask for: something of the tables, or of their next block.
Keys ==
  {AtHeight(tables, n) : n \in 1..Len(tables)}
  \cup {b \in Branch : b # <<>> /\ AtHeight(b, Len(b) - 1) = tables}

Request(r) ==
  /\ query[r].status = "none"
  /\ BeginGate(r)
  /\ \E route \in Route, key \in Keys :
       query' = [query EXCEPT ![r] =
         [NoQuery EXCEPT !.route = route, !.key = key, !.since = reorgEpoch,
                         !.status = "pending"]]
  /\ UNCHANGED <<sourceVars, pipelineB>>

Finish(r, status) ==
  /\ query' = [query EXCEPT ![r].status = status]
  /\ UNCHANGED <<sourceVars, probe, pipelineB>>

Leave(r, status) ==
  /\ Finish(r, status)
  /\ gate' = [gate EXCEPT ![r] = NoGate]

\* Is it there?  A transaction has a row if and only if it has events.
Found(r) == IsPrefix(query[r].key, tables)

Unread(q, stage) == {s \in stage : q.seen[s] = None}

\* Events that were found need no transaction.
Skips(q, stage) ==
  q.route = "events" /\ stage = {"transaction"} /\ IsPrefix(q.key, q.seen["events"])

\* The statements that are still to run, the first stage of them only.
Due(q) ==
  LET stages == Stages[q.route]
      open == {i \in DOMAIN stages : Unread(q, stages[i]) # {}}
      next == CHOOSE i \in open : \A j \in open : i <= j
  IN IF open = {} \/ Skips(q, stages[next]) THEN {} ELSE Unread(q, stages[next])

\* legacyUnavailableRead: the query also runs when nothing is verified, so that
\* a missing object is still reported as missing.
Reads(r) == gate[r].stage \in {"query", "refused"}

\* One statement.  NotFoundException passes the gateway.
Read(r, s) ==
  /\ Reads(r) /\ s \in Due(query[r])
  /\ LET q == [query[r] EXCEPT !.seen[s] = tables] IN
     IF s \in Required[q.route] /\ ~Found(r) THEN Leave(r, "not_found")
     ELSE /\ query' = [query EXCEPT ![r] = q]
          /\ IF gate[r].stage = "query" /\ Due(q) = {} THEN Recheck(r)
             ELSE UNCHANGED <<probe, gate>>
          /\ UNCHANGED <<sourceVars, pipelineB>>

\* A statement fails: the error passes the gateway, too.
ReadFails(r) ==
  /\ Reads(r) /\ Due(query[r]) # {}
  /\ Leave(r, "failed")

\* The data of a query that ran unverified is thrown away.
LegacyRead(r) ==
  /\ gate[r].stage = "refused" /\ Due(query[r]) = {}
  /\ Leave(r, "unavailable")

Withhold(r) == gate[r].stage = "withheld" /\ Leave(r, "unavailable")

Release(r) ==
  /\ gate[r].stage = "answered" /\ query[r].status = "pending"
  /\ Finish(r, "ok")
  /\ UNCHANGED gate

\* The next request takes the place of one that has its response.
Forget(r) ==
  /\ query[r].status \in {"ok", "unavailable", "not_found", "failed"}
  /\ query' = [query EXCEPT ![r] = NoQuery]
  /\ gate' = [gate EXCEPT ![r] = NoGate]
  /\ UNCHANGED <<sourceVars, probe, pipelineB>>

\* The process dies: its requests with it, the tables stay.
Restart ==
  /\ phase' = "awaiting_init"
  /\ probe' = [r \in Reader |-> NoProbe]
  /\ gate' = [r \in Reader |-> NoGate]
  /\ query' = [r \in Reader |-> NoQuery]
  /\ UNCHANGED <<node, left, reorgs, tables, reorgEpoch, pipelineB>>

Next ==
  \/ WorldMoves /\ UNCHANGED query
  \/ \E r \in Reader :
       \/ Request(r)
       \/ (GateStep(r) \/ FetchB(r)) /\ UNCHANGED query
       \/ \E s \in Statement : Read(r, s)
       \/ ReadFails(r)
       \/ LegacyRead(r) \/ Withhold(r) \/ Release(r) \/ Forget(r)
  \/ Restart

Spec == Init /\ [][Next]_vars

-----------------------------------------------------------------------------
(* Properties *)

ReadUnder(r) == \A s \in Statement : query[r].seen[s] \in {None, gate[r].before}

\* Every statement of a verified response read the state its agreement is about,
\* however many blocks were appended meanwhile, unless the tables were rolled
\* back while the request ran.  (executeBound: the second resolution must see
\* the tip that the first one saw.)
VerifiedUnlessRolledBack ==
  \A r \in Reader :
    (query[r].status = "ok" /\ query[r].since = reorgEpoch) => ReadUnder(r)

\* docs/api.md: "If the authoritative height, roots, signer, or signed release
\* changed during the read, the response is withheld."  A height that changed
\* and changed back is released.
WithheldWhenStateChanged ==
  \A r \in Reader : query[r].status = "ok" => ReadUnder(r)
=============================================================================
