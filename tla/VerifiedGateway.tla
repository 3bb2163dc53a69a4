--------------------------- MODULE VerifiedGateway ---------------------------
(***************************************************************************)
(* VerifiedGatewayService (src/verification/verified-gateway.service.ts):  *)
(* executeBound resolves an agreement, runs a query, resolves again and    *)
(* releases the data only when both agreements are the same.               *)
(*                                                                         *)
(* A resolution is a readiness probe and then, concurrently, the signing   *)
(* of this pipeline's checkpoint at the probed height and the fetching of  *)
(* pipeline B's.  An agreement tuple is the block hash at its height: the  *)
(* roots and counts are functions of it.  Keys and releases are fixed.     *)
(*                                                                         *)
(* The queries that run inside are in VerifiedQueries and in Catalog.      *)
(***************************************************************************)
EXTENDS Readiness

VARIABLES
  pipelineB,  \* the branch that pipeline B holds
  gate        \* [Reader -> Gate]: where each executeBound stands

gatewayVars == <<node, left, reorgs, tables, reorgEpoch, phase, probe, pipelineB, gate>>

TupleOrNull == (Branch \ {<<>>}) \cup {None}

Gate == [stage : {"idle", "before", "refused", "query", "after", "withheld", "answered"},
         signedA : TupleOrNull,
         signedB : TupleOrNull,
         before : TupleOrNull]

GatewayTypeOK ==
  /\ ReadinessTypeOK
  /\ pipelineB \in Branch
  /\ gate \in [Reader -> Gate]

NoGate == [stage |-> "idle", signedA |-> None, signedB |-> None, before |-> None]

GatewayInit ==
  /\ ReadinessInit
  /\ pipelineB = <<>>
  /\ gate = [r \in Reader |-> NoGate]

\* Pipeline B follows the same network.
PipelineBMoves ==
  /\ pipelineB # node
  /\ pipelineB' = node
  /\ UNCHANGED <<node, left, reorgs, tables, reorgEpoch, phase, probe, gate>>

WorldMoves ==
  \/ SourcesMove /\ UNCHANGED <<probe, pipelineB, gate>>
  \/ PipelineBMoves

-----------------------------------------------------------------------------
(* resolve() of request r *)

Resolving(r) == gate[r].stage \in {"before", "after"}
Probed(r) == Resolving(r) /\ probe[r].pc = "ready"

GateProbes(r) == Resolving(r) /\ ProbeStep(r) /\ UNCHANGED <<pipelineB, gate>>

\* The first failure stops executeBound before the query, the second withholds
\* what the query read.
Failed(stage) == IF stage = "before" THEN "refused" ELSE "withheld"

Fail(r) ==
  /\ gate' = [gate EXCEPT ![r].stage = Failed(gate[r].stage),
                          ![r].signedA = None, ![r].signedB = None]
  /\ probe' = [probe EXCEPT ![r] = NoProbe]
  /\ UNCHANGED <<sourceVars, pipelineB>>

NotReady(r) == Resolving(r) /\ probe[r].pc = "unready" /\ Fail(r)

\* The checkpoint or agreement a pipeline has at a height.
AtHeight(branch, height) == SubSeq(branch, 1, height)

\* signedAt: NotFound when a rollback removed the checkpoint meanwhile.
SignA(r) ==
  /\ Probed(r) /\ gate[r].signedA = None
  /\ LET height == probe[r].canonicalHeight IN
     IF Len(tables) < height THEN Fail(r)
     ELSE /\ gate' = [gate EXCEPT ![r].signedA = AtHeight(tables, height)]
          /\ UNCHANGED <<sourceVars, probe, pipelineB>>

FetchB(r) ==
  /\ Probed(r) /\ gate[r].signedB = None
  /\ LET height == probe[r].canonicalHeight IN
     IF Len(pipelineB) < height THEN Fail(r)
     ELSE /\ gate' = [gate EXCEPT ![r].signedB = AtHeight(pipelineB, height)]
          /\ UNCHANGED <<sourceVars, probe, pipelineB>>

\* Mutant: no timer aborts the call.
FetchBTimesOut_Never(r) == FALSE

\* The abort timer of fetchPipelineB, or a refused connection.
FetchBTimesOut(r) == Probed(r) /\ gate[r].signedB = None /\ Fail(r)

\* A database call of signedAt fails.
SignAFails(r) == Probed(r) /\ gate[r].signedA = None /\ Fail(r)

-----------------------------------------------------------------------------
(* executeBound *)

BeginGate(r) ==
  /\ gate' = [gate EXCEPT ![r] = [NoGate EXCEPT !.stage = "before"]]
  /\ probe' = [probe EXCEPT ![r] = NewProbe]

\* Mutant: the second agreement is not compared with the first.
SameAgreement_Any(g) == TRUE

\* JSON.stringify(before) === JSON.stringify(after)
SameAgreement(g) == g.before = g.signedA

\* The nine semantic fields of both tuples are equal.
PipelinesAgree(g) == g.signedA = g.signedB

\* Both envelopes are here.
BothSigned(r) == Resolving(r) /\ gate[r].signedA # None /\ gate[r].signedB # None

\* An envelope is malformed, or its key or signature is not trusted.
EnvelopeRejected(r) == BothSigned(r) /\ Fail(r)

Agree(r) ==
  /\ BothSigned(r) /\ gate[r].stage = "before"
  /\ IF PipelinesAgree(gate[r])
     THEN /\ gate' = [gate EXCEPT ![r] = [NoGate EXCEPT !.stage = "query", !.before = gate[r].signedA]]
          /\ probe' = [probe EXCEPT ![r] = NoProbe]
          /\ UNCHANGED <<sourceVars, pipelineB>>
     ELSE Fail(r)

AgreeAgain(r) ==
  /\ BothSigned(r) /\ gate[r].stage = "after"
  /\ IF PipelinesAgree(gate[r]) /\ SameAgreement(gate[r])
     THEN /\ gate' = [gate EXCEPT ![r] = [NoGate EXCEPT !.stage = "answered", !.before = gate[r].signedA]]
          /\ probe' = [probe EXCEPT ![r] = NoProbe]
          /\ UNCHANGED <<sourceVars, pipelineB>>
     ELSE Fail(r)

\* The query has its data: resolve again.
Recheck(r) ==
  /\ gate' = [gate EXCEPT ![r].stage = "after"]
  /\ probe' = [probe EXCEPT ![r] = NewProbe]

\* What the gateway does by itself.  An answer of pipeline B is not among it:
\* it may never come.
GateStep(r) ==
  \/ GateProbes(r) \/ NotReady(r)
  \/ SignA(r) \/ SignAFails(r) \/ FetchBTimesOut(r)
  \/ EnvelopeRejected(r) \/ Agree(r) \/ AgreeAgain(r)
=============================================================================
