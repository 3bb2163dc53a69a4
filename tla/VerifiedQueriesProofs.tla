------------------------ MODULE VerifiedQueriesProofs ------------------------
(***************************************************************************)
(* Proof that a verified response whose request saw no rollback read one   *)
(* state in all its statements, the one its agreement is about, for any    *)
(* number of requests at a time.                                           *)
(***************************************************************************)
EXTENDS VerifiedQueries, GatewayProofs

-----------------------------------------------------------------------------
(***************************************************************************)
(* The inductive invariant.                                                *)
(***************************************************************************)

\* What the statements of a query saw lies between the first agreement and t.
SeenFits(q, g, t) ==
  \A s \in Statement : q.seen[s] # None =>
    IsPrefix(g.before, q.seen[s]) /\ IsPrefix(q.seen[s], t)

\* The second resolution is not below anything that was seen.
ResolvesAbove(q, g, p, t) ==
  /\ p.canonicalHeight # None =>
       \A s \in Statement : q.seen[s] # None => Len(q.seen[s]) <= p.canonicalHeight
  /\ g.signedA # None =>
       /\ IsPrefix(g.signedA, t)
       /\ \A s \in Statement : q.seen[s] # None => IsPrefix(q.seen[s], g.signedA)

\* How far a request is that saw no rollback, with t in the tables.
StageSound(q, g, p, t) ==
  /\ g.stage = "before" =>
       /\ \A s \in Statement : q.seen[s] = None
       /\ g.signedA # None => IsPrefix(g.signedA, t)
  /\ g.stage \in {"query", "after"} =>
       g.before # None /\ IsPrefix(g.before, t) /\ SeenFits(q, g, t)
  /\ g.stage = "query" => g.signedA = None
  /\ g.stage = "after" => ResolvesAbove(q, g, p, t)
  /\ g.stage = "answered" => \A s \in Statement : q.seen[s] \in {None, g.before}

\* A request with data has passed the gateway; nothing is claimed of one whose
\* request came in before the last rollback.
Sound(q, g, p) ==
  /\ q.since <= reorgEpoch
  /\ q.status = "ok" => g.stage = "answered"
  /\ q.status \in {"pending", "ok"} /\ q.since = reorgEpoch => StageSound(q, g, p, tables)

IInv ==
  /\ TypeOK
  /\ \A r \in Reader : ProbeSound(r) /\ Sound(query[r], gate[r], probe[r])

-----------------------------------------------------------------------------
(***************************************************************************)
(* What keeps a request sound.                                             *)
(***************************************************************************)

\* What a statement saw, the agreement and the tables, as branches.
LEMMA QueryIsTyped ==
  ASSUME NEW q \in Query, NEW g \in Gate
  PROVE  /\ \A s \in Statement : q.seen[s] # None => q.seen[s] \in Branch
         /\ g.before # None => g.before \in Branch
         /\ g.signedA # None => g.signedA \in Branch
BY DEF Query, Gate, TupleOrNull

\* Blocks appended to the tables leave a request sound.
LEMMA GrowthKeepsSound ==
  ASSUME NEW q \in Query, NEW g \in Gate, NEW p \in Probe,
         NEW t \in Branch, NEW u \in Branch, IsPrefix(t, u),
         StageSound(q, g, p, t)
  PROVE  StageSound(q, g, p, u)
<1>1. \A x \in Branch : IsPrefix(x, t) => IsPrefix(x, u)
  BY PrefixTransitive
<1>2. g.signedA # None /\ IsPrefix(g.signedA, t) => IsPrefix(g.signedA, u)
  BY <1>1, QueryIsTyped
<1>3. g.before # None /\ IsPrefix(g.before, t) => IsPrefix(g.before, u)
  BY <1>1, QueryIsTyped
<1>4. \A s \in Statement :
        q.seen[s] # None /\ IsPrefix(q.seen[s], t) => IsPrefix(q.seen[s], u)
  BY <1>1, QueryIsTyped
<1> QED
  BY <1>2, <1>3, <1>4 DEF StageSound, SeenFits, ResolvesAbove

\* The second resolution probes the tip: nothing that was seen is above it.
LEMMA ProbingKeepsSound ==
  ASSUME NEW q \in Query, NEW g \in Gate, NEW p \in Probe, NEW p1 \in Probe,
         NEW g1, NEW t \in Branch,
         StageSound(q, g, p, t), g1 = g,
         p1.canonicalHeight \in {p.canonicalHeight, TipHeight(t)}
  PROVE  StageSound(q, g1, p1, t)
<1>1. \A x \in Branch : IsPrefix(x, t) => Len(x) <= Len(t)
  BY PrefixIsCut
<1>2. ASSUME g.stage = "after", p1.canonicalHeight # None,
             NEW s \in Statement, q.seen[s] # None
      PROVE  Len(q.seen[s]) <= p1.canonicalHeight
  <2>1. CASE p1.canonicalHeight = p.canonicalHeight
    BY <1>2, <2>1 DEF StageSound, ResolvesAbove
  <2>2. CASE p1.canonicalHeight = TipHeight(t)
    <3>1. p1.canonicalHeight = Len(t)
      BY <1>2, <2>2, TipHeightIsTyped
    <3>2. q.seen[s] \in Branch /\ IsPrefix(q.seen[s], t)
      BY <1>2, QueryIsTyped DEF StageSound, SeenFits
    <3> QED
      BY <1>1, <3>1, <3>2
  <2> QED
    BY <2>1, <2>2
<1> QED
  BY <1>2 DEF StageSound, SeenFits, ResolvesAbove

\* What is signed at the probed height goes no further than the tables, and at
\* least as far as what was seen.
LEMMA SigningKeepsSound ==
  ASSUME NEW q \in Query, NEW g \in Gate, NEW p \in Probe,
         NEW g1 \in Gate, NEW t \in Branch,
         StageSound(q, g, p, t),
         g.stage \in {"before", "after"},
         p.canonicalHeight \in 1 .. Len(t),
         g1 = [g EXCEPT !.signedA = AtHeight(t, p.canonicalHeight)]
  PROVE  StageSound(q, g1, p, t)
<1> DEFINE h == p.canonicalHeight
           a == AtHeight(t, h)
<1>1. a \in Branch /\ Len(a) = h /\ h \in 0 .. Len(t) /\ a = SubSeq(t, 1, h)
  BY AtHeightIsTuple, BranchIsSeq DEF AtHeight
<1>2. /\ g1.signedA = a
      /\ g1.stage = g.stage /\ g1.before = g.before
  BY DEF Gate
<1>3. h # None
  BY <1>1, ReadinessAssumption
<1> HIDE DEF a, h
<1>4. IsPrefix(a, t)
  <2>1. \A x, y \in Branch : \A k \in 0 .. Len(y) : x = SubSeq(y, 1, k) => IsPrefix(x, y)
    BY PrefixIsCut
  <2> QED
    BY <1>1, <2>1
<1>5. ASSUME g.stage = "after", NEW s \in Statement, q.seen[s] # None
      PROVE  IsPrefix(q.seen[s], a)
  <2>1. q.seen[s] \in Branch /\ IsPrefix(q.seen[s], t)
    BY <1>5, QueryIsTyped DEF StageSound, SeenFits
  <2>2. Len(q.seen[s]) <= Len(a)
    BY <1>1, <1>3, <1>5 DEF StageSound, ResolvesAbove, h
  <2> QED
    BY <1>1, <1>4, <2>1, <2>2, PrefixesAreOrdered
<1> QED
  BY <1>2, <1>4, <1>5 DEF StageSound, SeenFits, ResolvesAbove

\* Of two equal agreements what was seen lies between: it is the same.
LEMMA AgreeingKeepsSound ==
  ASSUME NEW q \in Query, NEW g \in Gate, NEW p \in Probe,
         NEW g1 \in Gate, NEW p1 \in Probe, NEW t \in Branch,
         StageSound(q, g, p, t), Agrees(g, p, g1, p1)
  PROVE  StageSound(q, g1, p1, t)
<1>1. CASE g.stage = "before"
  <2>1. /\ g1.stage = "query" /\ g1.before = g.signedA /\ g1.signedA = None
        /\ g.signedA # None /\ IsPrefix(g.signedA, t)
    BY <1>1 DEF Agrees, NoGate, StageSound
  <2> QED
    BY <1>1, <2>1 DEF StageSound, SeenFits
<1>2. CASE g.stage = "after"
  <2>1. /\ g1.stage = "answered" /\ g1.before = g.signedA
        /\ g.signedA # None /\ g.before = g.signedA
    BY <1>2 DEF Agrees, NoGate
  <2>2. ASSUME NEW s \in Statement, q.seen[s] # None
        PROVE  q.seen[s] = g1.before
    <3>1. /\ q.seen[s] \in Branch /\ g.signedA \in Branch
          /\ IsPrefix(g.signedA, q.seen[s]) /\ IsPrefix(q.seen[s], g.signedA)
      BY <1>2, <2>1, <2>2, QueryIsTyped DEF StageSound, SeenFits, ResolvesAbove
    <3>2. Len(g.signedA) <= Len(q.seen[s])
      BY <3>1, PrefixIsCut
    <3> QED
      BY <2>1, <3>1, <3>2, PrefixAntisymmetric
  <2> QED
    BY <2>1, <2>2 DEF StageSound
<1> QED
  BY <1>1, <1>2 DEF Agrees

\* A step of the gateway leaves its request sound.
LEMMA GateKeepsSound ==
  ASSUME NEW q \in Query, NEW g \in Gate, NEW p \in Probe,
         NEW g1 \in Gate, NEW p1 \in Probe, tables \in Branch,
         StageSound(q, g, p, tables),
         \/ Probes(g, p, g1, p1) \/ Fails(g, p, g1, p1) \/ Signs(g, p, g1, p1)
         \/ Receives(g, p, g1, p1) \/ Agrees(g, p, g1, p1)
  PROVE  StageSound(q, g1, p1, tables)
<1>1. CASE Probes(g, p, g1, p1)
  BY <1>1, ProbingKeepsSound DEF Probes
<1>2. CASE Fails(g, p, g1, p1)
  <2>1. g1.stage \in {"refused", "withheld"}
    BY <1>2 DEF Fails, Failed
  <2> QED
    BY <2>1 DEF StageSound
<1>3. CASE Signs(g, p, g1, p1)
  BY <1>3, SigningKeepsSound DEF Signs
<1>4. CASE Receives(g, p, g1, p1)
  BY <1>4 DEF Receives, StageSound, SeenFits, ResolvesAbove
<1>5. CASE Agrees(g, p, g1, p1)
  BY <1>5, AgreeingKeepsSound
<1> QED
  BY <1>1, <1>2, <1>3, <1>4, <1>5

-----------------------------------------------------------------------------
(***************************************************************************)
(* The steps.                                                              *)
(***************************************************************************)

\* A step of the request r alone: the tables stay, and so do the others.
OfOne(r, q1, g1, p1) ==
  /\ query' = [query EXCEPT ![r] = q1]
  /\ gate' = [gate EXCEPT ![r] = g1]
  /\ probe' = [probe EXCEPT ![r] = p1]
  /\ UNCHANGED Outside

\* It keeps the invariant if it leaves its request sound.
LEMMA OneRequestMoves ==
  ASSUME IInv, NEW r \in Reader,
         NEW q1 \in Query, NEW g1 \in Gate, NEW p1 \in Probe,
         OfOne(r, q1, g1, p1),
         p1.pc = "ready" => p1.canonicalHeight # None,
         Sound(q1, g1, p1)
  PROVE  IInv'
<1>1. /\ query \in [Reader -> Query] /\ gate \in [Reader -> Gate]
      /\ probe \in [Reader -> Probe]
      /\ \A o \in Reader : ProbeSound(o) /\ Sound(query[o], gate[o], probe[o])
  BY DEF IInv, TypeOK, GatewayTypeOK, ReadinessTypeOK
<1>2. UNCHANGED <<node, left, reorgs, tables, reorgEpoch, phase, pipelineB>>
  BY DEF OfOne, Outside
<1>3. /\ query' \in [Reader -> Query] /\ gate' \in [Reader -> Gate]
      /\ probe' \in [Reader -> Probe]
      /\ query'[r] = q1 /\ gate'[r] = g1 /\ probe'[r] = p1
      /\ \A o \in Reader : o # r =>
           query'[o] = query[o] /\ gate'[o] = gate[o] /\ probe'[o] = probe[o]
  BY <1>1 DEF OfOne
<1>4. TypeOK'
  BY <1>2, <1>3 DEF IInv, TypeOK, GatewayTypeOK, ReadinessTypeOK
<1>5. ASSUME NEW o \in Reader
      PROVE  ProbeSound(o)' /\ Sound(query[o], gate[o], probe[o])'
  <2>1. CASE o = r
    BY <1>2, <1>3, <2>1 DEF ProbeSound, Sound
  <2>2. CASE o # r
    BY <1>1, <1>2, <1>3, <2>2 DEF ProbeSound, Sound
  <2> QED
    BY <2>1, <2>2
<1> QED
  BY <1>4, <1>5 DEF IInv

\* The types of request r.
LEMMA RequestIsTyped ==
  ASSUME IInv, NEW r \in Reader
  PROVE  /\ query \in [Reader -> Query] /\ query[r] \in Query
         /\ gate \in [Reader -> Gate] /\ gate[r] \in Gate
         /\ probe \in [Reader -> Probe] /\ probe[r] \in Probe
         /\ tables \in Branch /\ reorgEpoch \in Nat
         /\ ProbeSound(r) /\ Sound(query[r], gate[r], probe[r])
BY DEF IInv, TypeOK, GatewayTypeOK, ReadinessTypeOK

\* A request that is not there, or no longer.
LEMMA BlankIsTyped ==
  /\ NoQuery \in Query /\ NoQuery.status = "none" /\ NoQuery.since = 0
  /\ NoGate \in Gate /\ NoGate.stage = "idle"
BY DEF NoQuery, Query, Stages, Route, TupleOrNull, NoGate, Gate

\* The node and the sync loop.
LEMMA SourcesKeepInvariant ==
  ASSUME IInv, SourcesMove, UNCHANGED <<probe, pipelineB, gate, query>>
  PROVE  IInv'
<1>1. SourcesTypeOK
  BY DEF IInv, TypeOK, GatewayTypeOK, ReadinessTypeOK, SourcesTypeOK
<1>2. /\ SourcesTypeOK'
      /\ \/ reorgEpoch' = reorgEpoch /\ IsPrefix(tables, tables')
         \/ reorgEpoch' = reorgEpoch + 1
  BY <1>1, SourcesMoveIsTyped
<1>3. TypeOK'
  BY <1>2 DEF IInv, TypeOK, GatewayTypeOK, ReadinessTypeOK, SourcesTypeOK
<1>4. PICK t : t = tables'
  OBVIOUS
<1>5. t \in Branch
  BY <1>2, <1>4 DEF SourcesTypeOK
<1>6. ASSUME NEW r \in Reader
      PROVE  ProbeSound(r)' /\ Sound(query[r], gate[r], probe[r])'
  <2>1. /\ query[r] \in Query /\ gate[r] \in Gate /\ probe[r] \in Probe
        /\ tables \in Branch /\ reorgEpoch \in Nat
        /\ ProbeSound(r) /\ Sound(query[r], gate[r], probe[r])
    BY <1>6, RequestIsTyped
  <2>2. query[r].since \in Nat
    BY <2>1 DEF Query
  <2>3. CASE reorgEpoch' = reorgEpoch /\ IsPrefix(tables, tables')
    <3>1. IsPrefix(tables, t)
      BY <1>4, <2>3
    <3>2. StageSound(query[r], gate[r], probe[r], tables)
            => StageSound(query[r], gate[r], probe[r], t)
      BY <1>5, <2>1, <3>1, GrowthKeepsSound
    <3> QED
      BY <1>4, <2>1, <2>3, <3>2 DEF Sound, ProbeSound
  <2>4. CASE reorgEpoch' = reorgEpoch + 1
    BY <2>1, <2>2, <2>4 DEF Sound, ProbeSound
  <2> QED
    BY <1>2, <2>3, <2>4
<1> QED
  BY <1>3, <1>6 DEF IInv

\* A request comes in.
LEMMA RequestKeepsInvariant ==
  ASSUME IInv, NEW r \in Reader, Request(r)
  PROVE  IInv'
<1>1. PICK route \in Route, key \in Keys :
        query' = [query EXCEPT ![r] =
          [NoQuery EXCEPT !.route = route, !.key = key, !.since = reorgEpoch,
                          !.status = "pending"]]
  BY DEF Request
<1> DEFINE q1 == [NoQuery EXCEPT !.route = route, !.key = key, !.since = reorgEpoch,
                                 !.status = "pending"]
           g1 == [NoGate EXCEPT !.stage = "before"]
<1>2. tables \in Branch /\ reorgEpoch \in Nat
  BY RequestIsTyped
<1>3. key \in TupleOrNull
  BY <1>2, AtHeightIsTuple DEF Keys, TupleOrNull
<1>4. /\ q1 \in Query /\ q1.since = reorgEpoch /\ q1.status = "pending"
      /\ \A s \in Statement : q1.seen[s] = None
  BY <1>2, <1>3 DEF NoQuery, Query
<1>5. g1 \in Gate /\ g1.stage = "before" /\ g1.signedA = None
  BY DEF NoGate, Gate, TupleOrNull
<1>6. OfOne(r, q1, g1, NewProbe)
  BY <1>1 DEF Request, BeginGate, OfOne, Outside, sourceVars
<1> HIDE DEF q1, g1
<1>7. Sound(q1, g1, NewProbe)
  BY <1>2, <1>4, <1>5 DEF Sound, StageSound
<1> QED
  BY <1>4, <1>5, <1>6, <1>7, ProbesAreTyped, OneRequestMoves

\* The gateway resolves.
LEMMA GateKeepsInvariant ==
  ASSUME IInv, NEW r \in Reader, GateStep(r) \/ FetchB(r), UNCHANGED query
  PROVE  IInv'
<1>1. /\ query \in [Reader -> Query] /\ query[r] \in Query
      /\ gate[r] \in Gate /\ probe[r] \in Probe /\ tables \in Branch
      /\ ProbeSound(r) /\ Sound(query[r], gate[r], probe[r])
  BY RequestIsTyped
<1>2. PICK g1 \in Gate, p1 \in Probe :
        /\ GateBecomes(r, g1, p1)
        /\ \/ Probes(gate[r], probe[r], g1, p1)
           \/ Fails(gate[r], probe[r], g1, p1)
           \/ Signs(gate[r], probe[r], g1, p1)
           \/ Receives(gate[r], probe[r], g1, p1)
           \/ Agrees(gate[r], probe[r], g1, p1)
  BY GateStepCases DEF IInv, TypeOK
<1>3. OfOne(r, query[r], g1, p1)
  BY <1>1, <1>2 DEF GateBecomes, OfOne
<1>4. p1.pc = "ready" => p1.canonicalHeight # None
  BY <1>1, <1>2, ProbesAreTyped
  DEF Probes, Fails, Signs, Receives, Agrees, ProbeSound
<1>5. query[r].status = "ok" => g1.stage = "answered"
  BY <1>1, <1>2 DEF Probes, Fails, Signs, Receives, Agrees, Sound
<1>6. StageSound(query[r], gate[r], probe[r], tables)
        => StageSound(query[r], g1, p1, tables)
  BY <1>1, <1>2, GateKeepsSound
<1>7. Sound(query[r], g1, p1)
  BY <1>1, <1>5, <1>6 DEF Sound
<1> QED
  BY <1>1, <1>2, <1>3, <1>4, <1>7, OneRequestMoves

\* A request that is answered without data keeps the invariant.
LEMMA LeaveKeepsInvariant ==
  ASSUME IInv, NEW r \in Reader,
         NEW status \in {"unavailable", "not_found", "failed"}, Leave(r, status)
  PROVE  IInv'
<1> DEFINE q1 == [query[r] EXCEPT !.status = status]
<1>1. /\ query \in [Reader -> Query] /\ query[r] \in Query
      /\ probe \in [Reader -> Probe] /\ probe[r] \in Probe
      /\ ProbeSound(r) /\ Sound(query[r], gate[r], probe[r])
  BY RequestIsTyped
<1>2. q1 \in Query /\ q1.since = query[r].since /\ q1.status = status
  BY <1>1 DEF Query
<1>3. OfOne(r, q1, NoGate, probe[r])
  BY <1>1 DEF Leave, Finish, OfOne, Outside, sourceVars, Query
<1> HIDE DEF q1
<1>4. Sound(q1, NoGate, probe[r])
  BY <1>1, <1>2 DEF Sound
<1> QED
  BY <1>1, <1>2, <1>3, <1>4, BlankIsTyped, OneRequestMoves DEF ProbeSound

\* A statement reads the tables, between the two resolutions.
LEMMA ReadKeepsInvariant ==
  ASSUME IInv, NEW r \in Reader, NEW s \in Statement, Read(r, s)
  PROVE  IInv'
<1> DEFINE q1 == [query[r] EXCEPT !.seen[s] = tables]
           g1 == [gate[r] EXCEPT !.stage = "after"]
<1>1. /\ query \in [Reader -> Query] /\ query[r] \in Query
      /\ gate \in [Reader -> Gate] /\ gate[r] \in Gate
      /\ probe \in [Reader -> Probe] /\ probe[r] \in Probe
      /\ tables \in Branch
      /\ ProbeSound(r) /\ Sound(query[r], gate[r], probe[r])
  BY RequestIsTyped
<1>2. /\ q1 \in Query
      /\ q1.since = query[r].since /\ q1.status = query[r].status
      /\ q1.seen[s] = tables
      /\ \A o \in Statement : o # s => q1.seen[o] = query[r].seen[o]
  BY <1>1 DEF Query
<1>3. /\ g1 \in Gate /\ g1.stage = "after"
      /\ g1.before = gate[r].before /\ g1.signedA = gate[r].signedA
  BY <1>1 DEF Gate
<1>4. gate[r].stage \in {"query", "refused"}
  BY DEF Read, Reads
<1>5. IsPrefix(tables, tables)
  BY <1>1, PrefixReflexive
<1>6. CASE Leave(r, "not_found")
  BY <1>6, LeaveKeepsInvariant
<1>7. CASE OfOne(r, q1, g1, NewProbe) /\ gate[r].stage = "query"
  <2> HIDE DEF q1, g1
  <2>1. StageSound(query[r], gate[r], probe[r], tables) => StageSound(q1, g1, NewProbe, tables)
    BY <1>1, <1>2, <1>3, <1>5, <1>7, ProbesAreTyped DEF StageSound, SeenFits, ResolvesAbove
  <2>2. Sound(q1, g1, NewProbe)
    BY <1>1, <1>2, <1>3, <1>7, <2>1 DEF Sound
  <2> QED
    BY <1>2, <1>3, <1>7, <2>2, ProbesAreTyped, OneRequestMoves
<1>8. CASE OfOne(r, q1, gate[r], probe[r])
  <2> HIDE DEF q1, g1
  <2>1. StageSound(query[r], gate[r], probe[r], tables) => StageSound(q1, gate[r], probe[r], tables)
    BY <1>1, <1>2, <1>4, <1>5 DEF StageSound, SeenFits, ResolvesAbove
  <2>2. Sound(q1, gate[r], probe[r])
    BY <1>1, <1>2, <2>1 DEF Sound
  <2> QED
    BY <1>1, <1>2, <1>8, <2>2, OneRequestMoves DEF ProbeSound
<1>9. \/ Leave(r, "not_found")
      \/ OfOne(r, q1, g1, NewProbe) /\ gate[r].stage = "query"
      \/ OfOne(r, q1, gate[r], probe[r])
  <2>1. CASE s \in Required[q1.route] /\ ~Found(r)
    BY <2>1 DEF Read
  <2>2. CASE ~(s \in Required[q1.route] /\ ~Found(r))
    <3>1. /\ query' = [query EXCEPT ![r] = q1]
          /\ UNCHANGED <<sourceVars, pipelineB>>
          /\ \/ gate[r].stage = "query" /\ Recheck(r)
             \/ UNCHANGED <<probe, gate>>
      BY <2>2 DEF Read
    <3> HIDE DEF q1
    <3> QED
      BY <1>1, <3>1 DEF Recheck, OfOne, Outside, sourceVars, Gate
  <2> QED
    BY <2>1, <2>2
<1> QED
  BY <1>6, <1>7, <1>8, <1>9

\* A verified response goes out.
LEMMA ReleaseKeepsInvariant ==
  ASSUME IInv, NEW r \in Reader, Release(r)
  PROVE  IInv'
<1> DEFINE q1 == [query[r] EXCEPT !.status = "ok"]
<1>1. /\ query \in [Reader -> Query] /\ query[r] \in Query
      /\ gate \in [Reader -> Gate] /\ gate[r] \in Gate
      /\ probe \in [Reader -> Probe] /\ probe[r] \in Probe
      /\ ProbeSound(r) /\ Sound(query[r], gate[r], probe[r])
      /\ query[r].status = "pending" /\ gate[r].stage = "answered"
  BY RequestIsTyped DEF Release
<1>2. /\ q1 \in Query /\ q1.status = "ok"
      /\ q1.since = query[r].since /\ q1.seen = query[r].seen
  BY <1>1 DEF Query
<1>3. OfOne(r, q1, gate[r], probe[r])
  BY <1>1 DEF Release, Finish, OfOne, Outside, sourceVars, Query
<1> HIDE DEF q1
<1>4. StageSound(query[r], gate[r], probe[r], tables) => StageSound(q1, gate[r], probe[r], tables)
  BY <1>1, <1>2 DEF StageSound
<1>5. Sound(q1, gate[r], probe[r])
  BY <1>1, <1>2, <1>4 DEF Sound
<1> QED
  BY <1>1, <1>2, <1>3, <1>5, OneRequestMoves DEF ProbeSound

\* The next request takes its place.
LEMMA ForgetKeepsInvariant ==
  ASSUME IInv, NEW r \in Reader, Forget(r)
  PROVE  IInv'
<1>1. /\ probe \in [Reader -> Probe] /\ probe[r] \in Probe
      /\ reorgEpoch \in Nat /\ ProbeSound(r)
  BY RequestIsTyped
<1>2. OfOne(r, NoQuery, NoGate, probe[r])
  BY <1>1 DEF Forget, OfOne, Outside, sourceVars
<1>3. Sound(NoQuery, NoGate, probe[r])
  BY <1>1, BlankIsTyped DEF Sound
<1> QED
  BY <1>1, <1>2, <1>3, BlankIsTyped, OneRequestMoves DEF ProbeSound

\* Nobody asks.
LEMMA BlankIsSound ==
  ASSUME TypeOK, \A r \in Reader :
           probe[r] = NoProbe /\ gate[r] = NoGate /\ query[r] = NoQuery
  PROVE  IInv
BY BlankIsTyped, ProbesAreTyped
DEF IInv, TypeOK, GatewayTypeOK, ReadinessTypeOK, ProbeSound, Sound

\* The process dies and comes back.
LEMMA RestartKeepsInvariant ==
  ASSUME IInv, Restart
  PROVE  IInv'
<1>1. TypeOK'
  BY BlankIsTyped, ProbesAreTyped
  DEF IInv, Restart, TypeOK, GatewayTypeOK, ReadinessTypeOK
<1>2. \A r \in Reader : probe'[r] = NoProbe /\ gate'[r] = NoGate /\ query'[r] = NoQuery
  BY DEF Restart
<1>3. reorgEpoch' \in Nat
  BY <1>1 DEF TypeOK, GatewayTypeOK, ReadinessTypeOK
<1> QED
  BY <1>1, <1>2, <1>3, BlankIsTyped, ProbesAreTyped DEF IInv, ProbeSound, Sound

\* No request is there at the start.
LEMMA InitSound ==
  Init => IInv
<1> SUFFICES ASSUME Init PROVE IInv
  OBVIOUS
<1>1. ReadinessTypeOK
  BY SourcesStartTyped DEF Init, GatewayInit
<1>2. TypeOK
  BY <1>1, BlankIsTyped, EmptyIsBranch DEF Init, GatewayInit, TypeOK, GatewayTypeOK
<1>3. \A r \in Reader : probe[r] = NoProbe /\ gate[r] = NoGate /\ query[r] = NoQuery
  BY DEF Init, GatewayInit, ReadinessInit
<1> QED
  BY <1>2, <1>3, BlankIsSound

\* Every step keeps the invariant.
LEMMA NextKeepsInvariant ==
  IInv /\ [Next]_vars => IInv'
<1> SUFFICES ASSUME IInv, [Next]_vars PROVE IInv'
  OBVIOUS
<1>1. CASE SourcesMove /\ UNCHANGED <<probe, pipelineB, gate, query>>
  BY <1>1, SourcesKeepInvariant
<1>2. CASE PipelineBMoves /\ UNCHANGED query
  BY <1>2
  DEF PipelineBMoves, IInv, TypeOK, GatewayTypeOK, ReadinessTypeOK, ProbeSound, Sound
<1>3. ASSUME NEW r \in Reader, Request(r)
      PROVE  IInv'
  BY <1>3, RequestKeepsInvariant
<1>4. ASSUME NEW r \in Reader, GateStep(r) \/ FetchB(r), UNCHANGED query
      PROVE  IInv'
  BY <1>4, GateKeepsInvariant
<1>5. ASSUME NEW r \in Reader, NEW s \in Statement, Read(r, s)
      PROVE  IInv'
  BY <1>5, ReadKeepsInvariant
<1>6. ASSUME NEW r \in Reader, ReadFails(r) \/ LegacyRead(r) \/ Withhold(r)
      PROVE  IInv'
  BY <1>6, LeaveKeepsInvariant DEF ReadFails, LegacyRead, Withhold
<1>7. ASSUME NEW r \in Reader, Release(r)
      PROVE  IInv'
  BY <1>7, ReleaseKeepsInvariant
<1>8. ASSUME NEW r \in Reader, Forget(r)
      PROVE  IInv'
  BY <1>8, ForgetKeepsInvariant
<1>9. CASE Restart
  BY <1>9, RestartKeepsInvariant
<1>10. CASE UNCHANGED vars
  BY <1>10
  DEF vars, gatewayVars, IInv, TypeOK, GatewayTypeOK, ReadinessTypeOK, ProbeSound, Sound
<1> QED
  BY <1>1, <1>2, <1>3, <1>4, <1>5, <1>6, <1>7, <1>8, <1>9, <1>10 DEF Next, WorldMoves

-----------------------------------------------------------------------------
(***************************************************************************)
(* The tables that are read.                                               *)
(***************************************************************************)
\* Of the steps here, only those of the sync loop change the tables.
LEMMA TablesMoveWithSources ==
  ASSUME Next
  PROVE  SourcesMove \/ UNCHANGED tables
<1>1. ASSUME NEW r \in Reader, NEW status, Finish(r, status) \/ Leave(r, status)
      PROVE  UNCHANGED tables
  BY <1>1 DEF Finish, Leave, sourceVars
<1>2. CASE \E r \in Reader : Request(r)
  BY <1>2 DEF Request, sourceVars
<1>3. CASE \E r \in Reader : GateStep(r) \/ FetchB(r)
  BY <1>3, GateLeavesTables
<1>4. CASE \E r \in Reader, s \in Statement : Read(r, s)
  BY <1>1, <1>4 DEF Read, sourceVars
<1>5. CASE \E r \in Reader : ReadFails(r) \/ LegacyRead(r) \/ Withhold(r) \/ Release(r)
  BY <1>1, <1>5 DEF ReadFails, LegacyRead, Withhold, Release
<1>6. CASE \E r \in Reader : Forget(r)
  BY <1>6 DEF Forget, sourceVars
<1>7. CASE Restart
  BY <1>7 DEF Restart
<1> QED
  BY <1>2, <1>3, <1>4, <1>5, <1>6, <1>7, WorldMovesTables DEF Next

-----------------------------------------------------------------------------
(***************************************************************************)
(* The theorems.                                                           *)
(***************************************************************************)

\* The invariant holds in every state.
THEOREM QueriesInvariant == Spec => []IInv
<1>1. Init => IInv
  BY InitSound
<1>2. IInv /\ [Next]_vars => IInv'
  BY NextKeepsInvariant
<1> QED
  BY <1>1, <1>2, PTL DEF Spec

\* The routes of VerifiedTandemController keep their requests, the gateway's
\* resolutions and the probes within their types, whatever interleaves.
THEOREM QueriesTypeCorrect == Spec => []TypeOK
<1>1. IInv => TypeOK
  BY DEF IInv
<1> QED
  BY <1>1, QueriesInvariant, PTL

\* executeBound: every statement of a response that is released, of a request
\* during which no rollback was committed, read the state of its agreement.
THEOREM VerifiedReadsAreOfTheAgreement == Spec => []VerifiedUnlessRolledBack
<1>1. IInv => VerifiedUnlessRolledBack
  BY DEF IInv, Sound, StageSound, VerifiedUnlessRolledBack, ReadUnder
<1> QED
  BY <1>1, QueriesInvariant, PTL

\* The tables that the statements of TandemQueryService and signedAt see move as the
\* store promises.
THEOREM QueriesReadBlockStore == Spec => ReadsBlockStore
<1>1. Init => Store!Init
  BY SourcesStartAsStore DEF Init, GatewayInit
<1>2. IInv /\ [Next]_vars => [Store!Next]_(Store!storeVars)
  <2> SUFFICES ASSUME IInv, [Next]_vars
               PROVE  Store!Next \/ UNCHANGED Store!storeVars
    OBVIOUS
  <2>1. SourcesTypeOK
    BY DEF IInv, TypeOK, GatewayTypeOK, ReadinessTypeOK, SourcesTypeOK
  <2>2. SourcesMove \/ UNCHANGED tables
    BY TablesMoveWithSources DEF vars, gatewayVars
  <2> QED
    BY <2>1, <2>2, SourcesMoveAsStore
<1> QED
  BY <1>1, <1>2, QueriesInvariant, PTL DEF Spec, ReadsBlockStore, Store!Spec
=============================================================================
