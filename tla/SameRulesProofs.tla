--------------------------- MODULE SameRulesProofs ---------------------------
(***************************************************************************)
(* Theorems about the rules that the repository states in several places:  *)
(* the agreement envelope, the heights of an INIT and the object of the    *)
(* site, for every value of the constants and any number of changes.       *)
(***************************************************************************)
EXTENDS AgreementEnvelope, InitDeployment, SiteObject,
        SequenceTheorems, FiniteSetTheorems, WellFoundedInduction, TLAPS

-----------------------------------------------------------------------------
(***************************************************************************)
(* Checks in order.                                                        *)
(***************************************************************************)

\* The names a check may have.
Name == {
  "envelope shape", "tuple shape", "tuple schema", "height is unsafe",
  "release commit", "envelope schema", "key_id", "signature",
  "schema", "protocol_id", "height", "block_hash", "event_root",
  "object_state_root", "chained_root", "founding_created", "all_objects",
  "active_objects", "parser_commit", "indexer_commit", "parser_binary_sha256",
  "indexer_binary_sha256"}

NamedCheck == [name : Name, holds : BOOLEAN]

AllHold(checks) == \A i \in 1 .. Len(checks) : checks[i].holds

\* A set of numbers up to n has a smallest one.
LEMMA SmallestExists ==
  ASSUME NEW n \in Nat, NEW S \in SUBSET (1 .. n), S # {}
  PROVE  \E m \in S : \A k \in S : m <= k
<1> DEFINE T == {1 .. k : k \in S}
<1>1. \A k \in S : k \in Nat /\ 1 <= k /\ k <= n
  OBVIOUS
<1>2. \A k \in S : 1 .. k \subseteq 1 .. n /\ IsFiniteSet(1 .. k)
  BY <1>1, FS_Interval
<1>3. T \subseteq FiniteSubsetsOf(1 .. n) /\ T # {}
  BY <1>2 DEF FiniteSubsetsOf
<1>4. PICK x \in T : \A y \in T : <<y, x>> \notin StrictSubsetOrdering(1 .. n)
  BY <1>3, FS_StrictSubsetOrderingWellFounded, WFMin
<1>5. PICK m \in S : x = 1 .. m
  OBVIOUS
<1>6. ASSUME NEW k \in S, k < m
      PROVE  FALSE
  <2>1. 1 .. k \in T /\ 1 .. k \subseteq 1 .. m /\ m \in 1 .. m /\ m \notin 1 .. k
    BY <1>1, <1>6
  <2>2. <<1 .. k, 1 .. m>> \in StrictSubsetOrdering(1 .. n)
    BY <1>2, <2>1 DEF StrictSubsetOrdering
  <2> QED
    BY <1>4, <1>5, <2>1, <2>2
<1> QED
  BY <1>1, <1>6

\* Nothing fails just when every check holds.
LEMMA NothingFails ==
  ASSUME NEW checks \in Seq(NamedCheck)
  PROVE  FirstFailure(checks) = "none" <=> AllHold(checks)
<1> DEFINE failing == {i \in DOMAIN checks : ~checks[i].holds}
<1>1. /\ DOMAIN checks = 1 .. Len(checks) /\ Len(checks) \in Nat
      /\ \A i \in 1 .. Len(checks) : checks[i] \in NamedCheck
  BY LenProperties, ElementOfSeq
<1>2. failing = {} <=> AllHold(checks)
  BY <1>1 DEF AllHold
<1>3. ASSUME failing # {}
      PROVE  FirstFailure(checks) # "none"
  <2>1. failing \in SUBSET (1 .. Len(checks)) /\ Len(checks) \in Nat
    BY <1>1
  <2>2. \E i \in failing : \A j \in failing : i <= j
    <3> HIDE DEF failing
    <3> QED
      BY <1>3, <2>1, SmallestExists
  <2> DEFINE first == CHOOSE i \in failing : \A j \in failing : i <= j
  <2>3. first \in failing
    <3> HIDE DEF failing
    <3> QED
      BY <2>2
  <2>4. first \in 1 .. Len(checks)
    BY <1>1, <2>3
  <2>5. FirstFailure(checks) = checks[first].name
    BY <1>3 DEF FirstFailure
  <2> HIDE DEF first
  <2> QED
    BY <1>1, <2>4, <2>5 DEF NamedCheck, Name
<1>4. failing = {} => FirstFailure(checks) = "none"
  BY DEF FirstFailure
<1> QED
  BY <1>2, <1>3, <1>4

\* Checks after checks.
LEMMA ChecksJoin ==
  ASSUME NEW a \in Seq(NamedCheck), NEW b \in Seq(NamedCheck)
  PROVE  /\ a \o b \in Seq(NamedCheck)
         /\ AllHold(a \o b) <=> AllHold(a) /\ AllHold(b)
<1>1. /\ a \o b \in Seq(NamedCheck)
      /\ Len(a \o b) = Len(a) + Len(b)
      /\ \A i \in 1 .. Len(a) + Len(b) :
           (a \o b)[i] = IF i <= Len(a) THEN a[i] ELSE b[i - Len(a)]
  BY ConcatProperties
<1>2. Len(a) \in Nat /\ Len(b) \in Nat
  BY LenProperties
<1>3. ASSUME AllHold(a), AllHold(b), NEW i \in 1 .. Len(a \o b)
      PROVE  (a \o b)[i].holds
  <2>1. CASE i <= Len(a)
    BY <1>1, <1>2, <1>3, <2>1 DEF AllHold
  <2>2. CASE ~(i <= Len(a))
    <3> DEFINE k == i - Len(a)
    <3>1. k \in 1 .. Len(b) /\ (a \o b)[i] = b[k]
      BY <1>1, <1>2, <1>3, <2>2
    <3> HIDE DEF k
    <3> QED
      BY <1>3, <3>1 DEF AllHold
  <2> QED
    BY <2>1, <2>2
<1>4. ASSUME AllHold(a \o b)
      PROVE  AllHold(a) /\ AllHold(b)
  <2>1. ASSUME NEW i \in 1 .. Len(a)
        PROVE  a[i].holds
    <3>1. i \in 1 .. Len(a \o b) /\ (a \o b)[i] = a[i]
      BY <1>1, <1>2, <2>1
    <3> QED
      BY <1>4, <3>1 DEF AllHold
  <2>2. ASSUME NEW i \in 1 .. Len(b)
        PROVE  b[i].holds
    <3> DEFINE k == Len(a) + i
    <3>1. k \in 1 .. Len(a \o b) /\ ~(k <= Len(a)) /\ k - Len(a) = i
      BY <1>1, <1>2, <2>2
    <3>2. (a \o b)[k] = b[i]
      BY <1>1, <3>1
    <3> HIDE DEF k
    <3> QED
      BY <1>4, <3>1, <3>2 DEF AllHold
  <2> QED
    BY <2>1, <2>2 DEF AllHold
<1> QED
  BY <1>1, <1>3, <1>4 DEF AllHold

\* A check of each field of a list.
LEMMA ChecksOfFields ==
  ASSUME NEW fields \in Seq(Name), NEW H \in [1 .. Len(fields) -> BOOLEAN],
         NEW checks, checks = [i \in DOMAIN fields |-> Check(fields[i], H[i])]
  PROVE  /\ checks \in Seq(NamedCheck)
         /\ AllHold(checks) <=> \A i \in 1 .. Len(fields) : H[i]
<1>1. /\ Len(fields) \in Nat /\ DOMAIN fields = 1 .. Len(fields)
      /\ \A i \in 1 .. Len(fields) : fields[i] \in Name
  BY LenProperties, ElementOfSeq
<1>2. checks \in [1 .. Len(fields) -> NamedCheck]
  BY <1>1 DEF Check, NamedCheck
<1>3. checks \in Seq(NamedCheck)
  BY <1>1, <1>2, SeqDef
<1>4. \A s \in Seq(NamedCheck) : s \in [1 .. Len(fields) -> NamedCheck] => Len(s) = Len(fields)
  <2>1. \A s \in Seq(NamedCheck) : Len(s) \in Nat /\ DOMAIN s = 1 .. Len(s)
    BY LenProperties
  <2> QED
    BY <1>1, <2>1
<1>5. Len(checks) = Len(fields)
  BY <1>2, <1>3, <1>4
<1>6. \A i \in 1 .. Len(fields) : checks[i].holds = H[i]
  BY <1>1 DEF Check
<1> QED
  BY <1>3, <1>5, <1>6 DEF AllHold

-----------------------------------------------------------------------------
(***************************************************************************)
(* What the three judges of an envelope ask for.                           *)
(***************************************************************************)

\* The lists of fields, one by one.
LEMMA FieldLists ==
  /\ Counters \in Seq(Name) /\ Len(Counters) = 4 /\ DOMAIN Counters = 1 .. 4
  /\ Hashes \in Seq(Name) /\ Len(Hashes) = 6 /\ DOMAIN Hashes = 1 .. 6
  /\ Commits \in Seq(Name) /\ Len(Commits) = 2 /\ DOMAIN Commits = 1 .. 2
  /\ TupleKeys \in Seq(Name) /\ Len(TupleKeys) = 14 /\ DOMAIN TupleKeys = 1 .. 14
  /\ TupleRules \in Seq(Name) /\ Len(TupleRules) = 13 /\ DOMAIN TupleRules = 1 .. 13
<1>1. /\ Counters \in Seq(Name) /\ Len(Counters) = 4 /\ DOMAIN Counters = 1 .. 4
  BY DEF Counters, Name
<1>2. /\ Hashes \in Seq(Name) /\ Len(Hashes) = 6 /\ DOMAIN Hashes = 1 .. 6
  BY DEF Hashes, Name
<1>3. /\ Commits \in Seq(Name) /\ Len(Commits) = 2 /\ DOMAIN Commits = 1 .. 2
  BY DEF Commits, Name
<1>4. /\ TupleKeys \in Seq(Name) /\ Len(TupleKeys) = 14 /\ DOMAIN TupleKeys = 1 .. 14
  BY DEF TupleKeys, Name
<1>5. /\ TupleRules \in Seq(Name) /\ Len(TupleRules) = 13 /\ DOMAIN TupleRules = 1 .. 13
  BY DEF TupleRules, Name
<1> QED
  BY <1>1, <1>2, <1>3, <1>4, <1>5

\* Every form there is.
AllForms(t) ==
  /\ HasForm("protocol_id", t["protocol_id"])
  /\ \A i \in 1 .. 4 : HasForm(Counters[i], t[Counters[i]])
  /\ \A i \in 1 .. 6 : HasForm(Hashes[i], t[Hashes[i]])
  /\ \A i \in 1 .. 2 : HasForm(Commits[i], t[Commits[i]])

\* The site lists the fields of a tuple in another order.
LEMMA RulesAreForms ==
  ASSUME NEW t
  PROVE  AllForms(t) <=> \A i \in 1 .. 13 : HasForm(TupleRules[i], t[TupleRules[i]])
<1> DEFINE F(f) == HasForm(f, t[f])
<1>1. (\A i \in 1 .. 4 : F(Counters[i])) <=>
        F("height") /\ F("founding_created") /\ F("all_objects") /\ F("active_objects")
  <2> HIDE DEF F
  <2>1. /\ Counters[1] = "height" /\ Counters[2] = "founding_created"
        /\ Counters[3] = "all_objects" /\ Counters[4] = "active_objects"
    BY DEF Counters
  <2> QED
    BY <2>1
<1>2. (\A i \in 1 .. 6 : F(Hashes[i])) <=>
        /\ F("block_hash") /\ F("event_root") /\ F("object_state_root")
        /\ F("chained_root") /\ F("parser_binary_sha256") /\ F("indexer_binary_sha256")
  <2> HIDE DEF F
  <2>1. /\ Hashes[1] = "block_hash" /\ Hashes[2] = "event_root"
        /\ Hashes[3] = "object_state_root" /\ Hashes[4] = "chained_root"
        /\ Hashes[5] = "parser_binary_sha256" /\ Hashes[6] = "indexer_binary_sha256"
    BY DEF Hashes
  <2> QED
    BY <2>1
<1>3. (\A i \in 1 .. 2 : F(Commits[i])) <=> F("parser_commit") /\ F("indexer_commit")
  <2> HIDE DEF F
  <2>1. Commits[1] = "parser_commit" /\ Commits[2] = "indexer_commit"
    BY DEF Commits
  <2> QED
    BY <2>1
<1>4. (\A i \in 1 .. 13 : F(TupleRules[i])) <=>
        /\ F("protocol_id") /\ F("height") /\ F("block_hash") /\ F("event_root")
        /\ F("object_state_root") /\ F("chained_root") /\ F("founding_created")
        /\ F("all_objects") /\ F("active_objects") /\ F("parser_commit")
        /\ F("indexer_commit") /\ F("parser_binary_sha256") /\ F("indexer_binary_sha256")
  <2> HIDE DEF F
  <2>1. /\ TupleRules[1] = "protocol_id" /\ TupleRules[2] = "height"
        /\ TupleRules[3] = "block_hash" /\ TupleRules[4] = "event_root"
        /\ TupleRules[5] = "object_state_root" /\ TupleRules[6] = "chained_root"
        /\ TupleRules[7] = "founding_created" /\ TupleRules[8] = "all_objects"
        /\ TupleRules[9] = "active_objects" /\ TupleRules[10] = "parser_commit"
        /\ TupleRules[11] = "indexer_commit" /\ TupleRules[12] = "parser_binary_sha256"
        /\ TupleRules[13] = "indexer_binary_sha256"
    BY DEF TupleRules
  <2> QED
    BY <2>1
<1>5. AllForms(t) <=>
        /\ F("protocol_id")
        /\ \A i \in 1 .. 4 : F(Counters[i])
        /\ \A i \in 1 .. 6 : F(Hashes[i])
        /\ \A i \in 1 .. 2 : F(Commits[i])
  BY DEF AllForms
<1>6. (\A i \in 1 .. 13 : HasForm(TupleRules[i], t[TupleRules[i]]))
        <=> \A i \in 1 .. 13 : F(TupleRules[i])
  OBVIOUS
<1> HIDE DEF F
<1> QED
  BY <1>1, <1>2, <1>3, <1>4, <1>5, <1>6

\* One check after another.
LEMMA CheckAlone ==
  ASSUME NEW name \in Name, NEW holds \in BOOLEAN
  PROVE  /\ <<Check(name, holds)>> \in Seq(NamedCheck)
         /\ AllHold(<<Check(name, holds)>>) <=> holds
<1>1. Check(name, holds) \in NamedCheck /\ Check(name, holds).holds = holds
  BY DEF Check, NamedCheck
<1> HIDE DEF Check
<1>2. \A c \in NamedCheck :
        /\ <<c>> \in Seq(NamedCheck) /\ Len(<<c>>) = 1 /\ <<c>>[1] = c
  OBVIOUS
<1> QED
  BY <1>1, <1>2 DEF AllHold

\* Of two.
LEMMA ChecksOfTwo ==
  ASSUME NEW a \in Name, NEW A \in BOOLEAN, NEW b \in Name, NEW B \in BOOLEAN
  PROVE  /\ <<Check(a, A), Check(b, B)>> \in Seq(NamedCheck)
         /\ AllHold(<<Check(a, A), Check(b, B)>>) <=> A /\ B
<1>1. /\ Check(a, A) \in NamedCheck /\ Check(a, A).holds = A
      /\ Check(b, B) \in NamedCheck /\ Check(b, B).holds = B
  BY DEF Check, NamedCheck
<1>2. \A c, d \in NamedCheck :
        /\ <<c, d>> \in Seq(NamedCheck) /\ Len(<<c, d>>) = 2
        /\ <<c, d>>[1] = c /\ <<c, d>>[2] = d
  OBVIOUS
<1> QED
  BY <1>1, <1>2 DEF AllHold

\* HasForm and the other conditions are true or false.
LEMMA FormIsBoolean ==
  \A f, text : HasForm(f, text) \in BOOLEAN
BY DEF HasForm

\* A check of the form of each field of a list.
LEMMA FormsOfFields ==
  ASSUME NEW fields \in Seq(Name), NEW t
  PROVE  /\ FormChecks(t, fields) \in Seq(NamedCheck)
         /\ AllHold(FormChecks(t, fields))
              <=> \A i \in 1 .. Len(fields) : HasForm(fields[i], t[fields[i]])
<1> DEFINE H == [i \in 1 .. Len(fields) |-> HasForm(fields[i], t[fields[i]])]
<1>1. DOMAIN fields = 1 .. Len(fields)
  BY LenProperties
<1>2. H \in [1 .. Len(fields) -> BOOLEAN]
  BY FormIsBoolean
<1>3. \A i \in 1 .. Len(fields) : H[i] = HasForm(fields[i], t[fields[i]])
  OBVIOUS
<1> HIDE DEF H
<1>4. FormChecks(t, fields) = [i \in DOMAIN fields |-> Check(fields[i], H[i])]
  <2>1. \A i \in DOMAIN fields :
          Check(fields[i], HasForm(fields[i], t[fields[i]])) = Check(fields[i], H[i])
    BY <1>1, <1>3
  <2> QED
    BY <2>1 DEF FormChecks
<1>5. /\ FormChecks(t, fields) \in Seq(NamedCheck)
      /\ AllHold(FormChecks(t, fields)) <=> \A i \in 1 .. Len(fields) : H[i]
  BY <1>2, <1>4, ChecksOfFields
<1> QED
  BY <1>3, <1>5

\* assertAgreementTuple.
LEMMA TupleJudged ==
  ASSUME NEW t
  PROVE  /\ AssertAgreementTuple(t) \in Seq(NamedCheck)
         /\ AllHold(AssertAgreementTuple(t)) <=>
              t["schema"] = "one" /\ AllForms(t) /\ t["height"] # "unsafe"
<1> DEFINE A == <<Check("tuple schema", t["schema"] = "one"),
                  Check("protocol_id", HasForm("protocol_id", t["protocol_id"]))>>
           B == FormChecks(t, Counters)
           C == <<Check("height is unsafe", t["height"] # "unsafe")>>
           D == FormChecks(t, Hashes)
           commits == \A i \in DOMAIN Commits : HasForm(Commits[i], t[Commits[i]])
           E == <<Check("release commit", commits)>>
<1>1. /\ A \in Seq(NamedCheck)
      /\ AllHold(A) <=> t["schema"] = "one" /\ HasForm("protocol_id", t["protocol_id"])
  <2> DEFINE schema == t["schema"] = "one"
             form == HasForm("protocol_id", t["protocol_id"])
  <2>1. /\ "tuple schema" \in Name /\ "protocol_id" \in Name
        /\ schema \in BOOLEAN /\ form \in BOOLEAN
    BY FormIsBoolean DEF Name
  <2> HIDE DEF schema, form
  <2>2. /\ <<Check("tuple schema", schema), Check("protocol_id", form)>> \in Seq(NamedCheck)
        /\ AllHold(<<Check("tuple schema", schema), Check("protocol_id", form)>>) <=> schema /\ form
    BY <2>1, ChecksOfTwo
  <2> QED
    BY <2>2 DEF schema, form
<1>2. /\ B \in Seq(NamedCheck)
      /\ AllHold(B) <=> \A i \in 1 .. 4 : HasForm(Counters[i], t[Counters[i]])
  <2>1. /\ B \in Seq(NamedCheck)
        /\ AllHold(B) <=> \A i \in 1 .. Len(Counters) : HasForm(Counters[i], t[Counters[i]])
    BY FieldLists, FormsOfFields
  <2> HIDE DEF B
  <2> QED
    BY <2>1, FieldLists
<1>3. /\ C \in Seq(NamedCheck)
      /\ AllHold(C) <=> t["height"] # "unsafe"
  <2> DEFINE safe == t["height"] # "unsafe"
  <2>1. "height is unsafe" \in Name /\ safe \in BOOLEAN
    BY DEF Name
  <2> HIDE DEF safe
  <2>2. /\ <<Check("height is unsafe", safe)>> \in Seq(NamedCheck)
        /\ AllHold(<<Check("height is unsafe", safe)>>) <=> safe
    BY <2>1, CheckAlone
  <2> QED
    BY <2>2 DEF safe
<1>4. /\ D \in Seq(NamedCheck)
      /\ AllHold(D) <=> \A i \in 1 .. 6 : HasForm(Hashes[i], t[Hashes[i]])
  <2>1. /\ D \in Seq(NamedCheck)
        /\ AllHold(D) <=> \A i \in 1 .. Len(Hashes) : HasForm(Hashes[i], t[Hashes[i]])
    BY FieldLists, FormsOfFields
  <2> HIDE DEF D
  <2> QED
    BY <2>1, FieldLists
<1>5. /\ E \in Seq(NamedCheck)
      /\ AllHold(E) <=> \A i \in 1 .. 2 : HasForm(Commits[i], t[Commits[i]])
  <2>1. commits \in BOOLEAN /\ "release commit" \in Name
    BY DEF Name
  <2>2. commits <=> \A i \in 1 .. 2 : HasForm(Commits[i], t[Commits[i]])
    BY FieldLists
  <2> HIDE DEF commits
  <2>3. E \in Seq(NamedCheck) /\ (AllHold(E) <=> commits)
    BY <2>1, CheckAlone
  <2> QED
    BY <2>2, <2>3
<1>6. AssertAgreementTuple(t) = A \o B \o C \o D \o E
  BY DEF AssertAgreementTuple
<1> HIDE DEF A, B, C, D, E
<1>7. /\ A \o B \o C \o D \o E \in Seq(NamedCheck)
      /\ AllHold(A \o B \o C \o D \o E) <=>
           AllHold(A) /\ AllHold(B) /\ AllHold(C) /\ AllHold(D) /\ AllHold(E)
  <2>1. \A a, b \in Seq(NamedCheck) :
          /\ a \o b \in Seq(NamedCheck)
          /\ AllHold(a \o b) <=> AllHold(a) /\ AllHold(b)
    BY ChecksJoin
  <2>2. A \o B \in Seq(NamedCheck) /\ (AllHold(A \o B) <=> AllHold(A) /\ AllHold(B))
    BY <1>1, <1>2, <2>1, Zenon
  <2>3. /\ A \o B \o C \in Seq(NamedCheck)
        /\ AllHold(A \o B \o C) <=> AllHold(A \o B) /\ AllHold(C)
    BY <1>3, <2>1, <2>2, Zenon
  <2>4. /\ A \o B \o C \o D \in Seq(NamedCheck)
        /\ AllHold(A \o B \o C \o D) <=> AllHold(A \o B \o C) /\ AllHold(D)
    BY <1>4, <2>1, <2>3, Zenon
  <2>5. /\ A \o B \o C \o D \o E \in Seq(NamedCheck)
        /\ AllHold(A \o B \o C \o D \o E) <=> AllHold(A \o B \o C \o D) /\ AllHold(E)
    BY <1>5, <2>1, <2>4, Zenon
  <2> QED
    BY <2>2, <2>3, <2>4, <2>5, Zenon
<1> QED
  BY <1>1, <1>2, <1>3, <1>4, <1>5, <1>6, <1>7 DEF AllForms

\* Every field of the tuple is a JSON string.
AllStrings(e) == \A i \in 1 .. 14 : e.tuple[TupleKeys[i]].string

\* What both parsers check first.
LEMMA ShapesJudged ==
  ASSUME NEW e \in Envelope,
         NEW A, A = <<Check("envelope shape", e.shape), Check("tuple shape", e.tupleShape)>>,
         NEW B, B = [i \in DOMAIN TupleKeys |->
                       Check(TupleKeys[i], e.tuple[TupleKeys[i]].string)]
  PROVE  /\ A \in Seq(NamedCheck) /\ (AllHold(A) <=> e.shape /\ e.tupleShape)
         /\ B \in Seq(NamedCheck) /\ (AllHold(B) <=> AllStrings(e))
<1>1. e.shape \in BOOLEAN /\ e.tupleShape \in BOOLEAN
  BY DEF Envelope
<1>2. "envelope shape" \in Name /\ "tuple shape" \in Name
  BY DEF Name
<1>3. A \in Seq(NamedCheck) /\ (AllHold(A) <=> e.shape /\ e.tupleShape)
  BY <1>1, <1>2, ChecksOfTwo
<1> DEFINE H == [i \in 1 .. Len(TupleKeys) |-> e.tuple[TupleKeys[i]].string]
<1>4. \A i \in 1 .. Len(TupleKeys) : TupleKeys[i] \in TupleField
  BY FieldLists DEF TupleField
<1>5. H \in [1 .. Len(TupleKeys) -> BOOLEAN]
  <2>1. \A f \in TupleField : e.tuple[f].string \in BOOLEAN
    BY DEF Envelope, Value
  <2> QED
    BY <1>4, <2>1
<1>6. \A i \in 1 .. Len(TupleKeys) : H[i] = e.tuple[TupleKeys[i]].string
  OBVIOUS
<1> HIDE DEF H
<1>7. B = [i \in DOMAIN TupleKeys |-> Check(TupleKeys[i], H[i])]
  BY <1>6, FieldLists
<1>8. /\ B \in Seq(NamedCheck)
      /\ AllHold(B) <=> \A i \in 1 .. Len(TupleKeys) : H[i]
  BY <1>5, <1>7, FieldLists, ChecksOfFields
<1>9. AllHold(B) <=> AllStrings(e)
  BY <1>6, <1>8, FieldLists DEF AllStrings
<1> QED
  BY <1>3, <1>8, <1>9

\* The key id, the schema and the signature are JSON strings.
AllFieldStrings(e) ==
  e.field["schema"].string /\ e.field["key_id"].string /\ e.field["signature"].string

\* parseAgreementEnvelope.
LEMMA EnvelopeParsed ==
  ASSUME NEW e \in Envelope
  PROVE  FirstFailure(ParseAgreementEnvelope(e)) = "none" <=>
           /\ e.shape /\ e.tupleShape /\ AllStrings(e)
           /\ AllHold(AssertAgreementTuple(Texts(e)))
           /\ AllFieldStrings(e)
<1> DEFINE A == <<Check("envelope shape", e.shape), Check("tuple shape", e.tupleShape)>>
           B == [i \in DOMAIN TupleKeys |->
                   Check(TupleKeys[i], e.tuple[TupleKeys[i]].string)]
           C == AssertAgreementTuple(Texts(e))
           D == <<TextField(e, "schema"), TextField(e, "key_id"), TextField(e, "signature")>>
<1>1. /\ A \in Seq(NamedCheck) /\ (AllHold(A) <=> e.shape /\ e.tupleShape)
      /\ B \in Seq(NamedCheck) /\ (AllHold(B) <=> AllStrings(e))
  BY ShapesJudged
<1>2. C \in Seq(NamedCheck)
  BY TupleJudged
<1>3. D \in Seq(NamedCheck) /\ (AllHold(D) <=> AllFieldStrings(e))
  <2>1. /\ e.field["schema"].string \in BOOLEAN
        /\ e.field["key_id"].string \in BOOLEAN
        /\ e.field["signature"].string \in BOOLEAN
    BY DEF Envelope, Value
  <2>2. /\ TextField(e, "schema") \in NamedCheck
        /\ TextField(e, "schema").holds = e.field["schema"].string
        /\ TextField(e, "key_id") \in NamedCheck
        /\ TextField(e, "key_id").holds = e.field["key_id"].string
        /\ TextField(e, "signature") \in NamedCheck
        /\ TextField(e, "signature").holds = e.field["signature"].string
    BY <2>1 DEF TextField, Check, NamedCheck, Name
  <2>3. \A c, d, f \in NamedCheck :
          /\ <<c, d, f>> \in Seq(NamedCheck) /\ Len(<<c, d, f>>) = 3
          /\ <<c, d, f>>[1] = c /\ <<c, d, f>>[2] = d /\ <<c, d, f>>[3] = f
    OBVIOUS
  <2>4. D \in Seq(NamedCheck) /\ (AllHold(D) <=> D[1].holds /\ D[2].holds /\ D[3].holds)
    BY <2>2, <2>3 DEF AllHold
  <2>5. D[1].holds = e.field["schema"].string /\ D[2].holds = e.field["key_id"].string
        /\ D[3].holds = e.field["signature"].string
    BY <2>2
  <2> QED
    BY <2>4, <2>5 DEF AllFieldStrings
<1>4. ParseAgreementEnvelope(e) = A \o B \o C \o D
  BY DEF ParseAgreementEnvelope
<1> HIDE DEF A, B, C, D
<1>5. \A a, b \in Seq(NamedCheck) :
        /\ a \o b \in Seq(NamedCheck)
        /\ AllHold(a \o b) <=> AllHold(a) /\ AllHold(b)
  BY ChecksJoin
<1>6. A \o B \in Seq(NamedCheck) /\ (AllHold(A \o B) <=> AllHold(A) /\ AllHold(B))
  BY <1>1, <1>5, Zenon
<1>7. A \o B \o C \in Seq(NamedCheck) /\ (AllHold(A \o B \o C) <=> AllHold(A \o B) /\ AllHold(C))
  BY <1>2, <1>5, <1>6, Zenon
<1>8. /\ A \o B \o C \o D \in Seq(NamedCheck)
      /\ AllHold(A \o B \o C \o D) <=> AllHold(A \o B \o C) /\ AllHold(D)
  BY <1>3, <1>5, <1>7, Zenon
<1>9. FirstFailure(A \o B \o C \o D) = "none" <=> AllHold(A \o B \o C \o D)
  BY <1>8, NothingFails
<1>10. AllHold(C) <=> AllHold(AssertAgreementTuple(Texts(e)))
  BY DEF C
<1> QED
  BY <1>1, <1>3, <1>4, <1>6, <1>7, <1>8, <1>9, <1>10

\* inspectEnvelope, of the site.
LEMMA EnvelopeInspected ==
  ASSUME NEW e \in Envelope
  PROVE  ~InspectorRejects(e) <=>
           /\ e.shape /\ e.tupleShape /\ AllStrings(e)
           /\ AllHold(AssertAgreementTuple(Texts(e)))
           /\ e.field["schema"] = String("one")
           /\ HasForm("key_id", e.field["key_id"].text)
           /\ HasForm("signature", e.field["signature"].text)
<1> DEFINE t == Texts(e)
           A == <<Check("envelope shape", e.shape), Check("tuple shape", e.tupleShape)>>
           B == [i \in DOMAIN TupleKeys |->
                   Check(TupleKeys[i], e.tuple[TupleKeys[i]].string)]
           C == <<Check("tuple schema", t["schema"] = "one")>>
           D == FormChecks(t, TupleRules)
           safe == t["height"] # "unsafe"
           schema == e.field["schema"] = String("one")
           keyId == HasForm("key_id", e.field["key_id"].text)
           signature == HasForm("signature", e.field["signature"].text)
           E == <<Check("height is unsafe", safe), Check("envelope schema", schema),
                  Check("key_id", keyId), Check("signature", signature)>>
<1>1. /\ A \in Seq(NamedCheck) /\ (AllHold(A) <=> e.shape /\ e.tupleShape)
      /\ B \in Seq(NamedCheck) /\ (AllHold(B) <=> AllStrings(e))
  BY ShapesJudged
<1>2. C \in Seq(NamedCheck) /\ (AllHold(C) <=> t["schema"] = "one")
  <2> DEFINE one == t["schema"] = "one"
  <2>1. one \in BOOLEAN /\ "tuple schema" \in Name
    BY DEF Name
  <2> HIDE DEF one
  <2>2. /\ <<Check("tuple schema", one)>> \in Seq(NamedCheck)
        /\ AllHold(<<Check("tuple schema", one)>>) <=> one
    BY <2>1, CheckAlone
  <2> QED
    BY <2>2 DEF one
<1>3. D \in Seq(NamedCheck) /\ (AllHold(D) <=> AllForms(t))
  <2>1. /\ D \in Seq(NamedCheck)
        /\ AllHold(D)
             <=> \A i \in 1 .. Len(TupleRules) : HasForm(TupleRules[i], t[TupleRules[i]])
    BY FieldLists, FormsOfFields
  <2>2. AllForms(t) <=> \A i \in 1 .. 13 : HasForm(TupleRules[i], t[TupleRules[i]])
    BY RulesAreForms
  <2> HIDE DEF D, t
  <2> QED
    BY <2>1, <2>2, FieldLists
<1>4. E \in Seq(NamedCheck) /\ (AllHold(E) <=> safe /\ schema /\ keyId /\ signature)
  <2>1. safe \in BOOLEAN /\ schema \in BOOLEAN /\ keyId \in BOOLEAN /\ signature \in BOOLEAN
    BY FormIsBoolean
  <2>2. /\ "height is unsafe" \in Name /\ "envelope schema" \in Name
        /\ "key_id" \in Name /\ "signature" \in Name
    BY DEF Name
  <2> DEFINE a == Check("height is unsafe", safe)
             b == Check("envelope schema", schema)
             c == Check("key_id", keyId)
             d == Check("signature", signature)
  <2> HIDE DEF safe, schema, keyId, signature
  <2>3. /\ a \in NamedCheck /\ a.holds = safe
        /\ b \in NamedCheck /\ b.holds = schema
        /\ c \in NamedCheck /\ c.holds = keyId
        /\ d \in NamedCheck /\ d.holds = signature
    BY <2>1, <2>2 DEF Check, NamedCheck
  <2>4. \A u, v, x, y \in NamedCheck :
          /\ <<u, v, x, y>> \in Seq(NamedCheck) /\ Len(<<u, v, x, y>>) = 4
          /\ <<u, v, x, y>>[1] = u /\ <<u, v, x, y>>[2] = v
          /\ <<u, v, x, y>>[3] = x /\ <<u, v, x, y>>[4] = y
    OBVIOUS
  <2>5. E = <<a, b, c, d>>
    OBVIOUS
  <2> HIDE DEF a, b, c, d, E
  <2> QED
    BY <2>3, <2>4, <2>5 DEF AllHold
<1>5. InspectEnvelope(e) = A \o B \o C \o D \o E
  BY DEF InspectEnvelope
<1>6. /\ schema <=> e.field["schema"] = String("one")
      /\ keyId <=> HasForm("key_id", e.field["key_id"].text)
      /\ signature <=> HasForm("signature", e.field["signature"].text)
      /\ safe <=> t["height"] # "unsafe"
  OBVIOUS
<1>7. AllHold(AssertAgreementTuple(Texts(e))) <=>
        t["schema"] = "one" /\ AllForms(t) /\ t["height"] # "unsafe"
  BY TupleJudged
<1> HIDE DEF A, B, C, D, E, t, safe, schema, keyId, signature
<1>8. \A a, b \in Seq(NamedCheck) :
        /\ a \o b \in Seq(NamedCheck)
        /\ AllHold(a \o b) <=> AllHold(a) /\ AllHold(b)
  BY ChecksJoin
<1>9. A \o B \in Seq(NamedCheck) /\ (AllHold(A \o B) <=> AllHold(A) /\ AllHold(B))
  BY <1>1, <1>8, Zenon
<1>10. A \o B \o C \in Seq(NamedCheck) /\ (AllHold(A \o B \o C) <=> AllHold(A \o B) /\ AllHold(C))
  BY <1>2, <1>8, <1>9, Zenon
<1>11. /\ A \o B \o C \o D \in Seq(NamedCheck)
       /\ AllHold(A \o B \o C \o D) <=> AllHold(A \o B \o C) /\ AllHold(D)
  BY <1>3, <1>8, <1>10, Zenon
<1>12. /\ A \o B \o C \o D \o E \in Seq(NamedCheck)
       /\ AllHold(A \o B \o C \o D \o E) <=> AllHold(A \o B \o C \o D) /\ AllHold(E)
  BY <1>4, <1>8, <1>11, Zenon
<1>13. FirstFailure(A \o B \o C \o D \o E) = "none" <=> AllHold(A \o B \o C \o D \o E)
  BY <1>12, NothingFails
<1>14. InspectorRejects(e) <=> FirstFailure(A \o B \o C \o D \o E) # "none"
  BY <1>5 DEF InspectorRejects
<1> QED
  BY <1>1, <1>2, <1>3, <1>4, <1>6, <1>7, <1>9, <1>10, <1>11, <1>12, <1>13, <1>14

\* A JSON string is told by its text.
LEMMA StringValue ==
  ASSUME NEW v \in Value, v.string, NEW text
  PROVE  v = String(text) <=> v.text = text
<1>1. v = [string |-> v.string, text |-> v.text] /\ v.string \in BOOLEAN
  BY DEF Value
<1>2. v.string = TRUE
  BY <1>1
<1>3. v = [string |-> TRUE, text |-> v.text]
  BY <1>1, <1>2
<1>4. String(text).text = text
  BY DEF String
<1> QED
  BY <1>3, <1>4 DEF String

\* The inspector and the gateway ask for the same form.
LEMMA JudgesAgree ==
  ASSUME NEW e \in Envelope, OnlyStrings(e)
  PROVE  InspectorRejects(e) <=> GatewayRejectsForm(e)
<1>1. AllFieldStrings(e)
  BY DEF OnlyStrings, Envelope, AllFieldStrings
<1>2. e.field["schema"] = String("one") <=> e.field["schema"].text = "one"
  <2>1. e.field["schema"] \in Value /\ e.field["schema"].string
    BY <1>1 DEF Envelope, AllFieldStrings
  <2> QED
    BY <2>1, StringValue
<1>3. FirstFailure(ParseAgreementEnvelope(e)) = "none" <=>
        /\ e.shape /\ e.tupleShape /\ AllStrings(e)
        /\ AllHold(AssertAgreementTuple(Texts(e)))
        /\ AllFieldStrings(e)
  BY EnvelopeParsed
<1>4. ~InspectorRejects(e) <=>
        /\ e.shape /\ e.tupleShape /\ AllStrings(e)
        /\ AllHold(AssertAgreementTuple(Texts(e)))
        /\ e.field["schema"] = String("one")
        /\ HasForm("key_id", e.field["key_id"].text)
        /\ HasForm("signature", e.field["signature"].text)
  BY EnvelopeInspected
<1> QED
  BY <1>1, <1>2, <1>3, <1>4 DEF GatewayRejectsForm

-----------------------------------------------------------------------------
(***************************************************************************)
(* Envelopes as they are signed, changed and judged.                       *)
(***************************************************************************)

\* Only the pipelines' own signatures are as they were made.
EnvelopeSound(e) ==
  e \in Envelope /\ (e.signedBy # None => e.field["signature"] = String("one"))

\* What was verified before the read, of envelopes that were signed as they are.
AgreementSound ==
  agreement # None =>
    \E a, b \in Envelope :
      /\ a.signedOver = Texts(a) /\ b.signedOver = Texts(b)
      /\ agreement.metadata = Metadata(a, b)
      /\ agreement.tuples = [p \in Pipeline |-> IF p = "A" THEN Texts(a) ELSE Texts(b)]

AgreementIInv ==
  /\ trusted \in [Pipeline -> TrustMap]
  /\ DOMAIN envelope = Pipeline
  /\ \A p \in Pipeline : envelope[p] # None => EnvelopeSound(envelope[p])
  /\ AgreementSound

\* An envelope as a pipeline signs it.
LEMMA SignedIsSound ==
  ASSUME NEW key \in Key, NEW id \in KeyId, NEW t \in [TupleField -> Text]
  PROVE  EnvelopeSound(SignAgreementTuple(key, id, t))
<1> DEFINE e == SignAgreementTuple(key, id, t)
           fields == [f \in {"schema", "key_id", "signature"} |->
                        IF f = "key_id" THEN String(id) ELSE String("one")]
           tuple == [f \in TupleField |-> String(t[f])]
<1>1. e = [shape |-> TRUE, tupleShape |-> TRUE, field |-> fields, tuple |-> tuple,
           signedBy |-> key, signedOver |-> t]
  BY DEF SignAgreementTuple, CanonicalBytes
<1>2. /\ String("one") \in Value /\ String(id) \in Value
      /\ \A f \in TupleField : String(t[f]) \in Value
  BY DEF String, Value, Text, KeyId
<1>3. /\ fields \in [{"schema", "key_id", "signature"} -> Value]
      /\ tuple \in [TupleField -> Value]
      /\ fields["signature"] = String("one")
  BY <1>2
<1> HIDE DEF e, fields, tuple
<1> QED
  BY <1>1, <1>3 DEF EnvelopeSound, Envelope, e

\* What is verified was signed as it is, with the key that the trust map has for
\* the id it names.
LEMMA VerifiedIsSigned ==
  ASSUME NEW keys, NEW e, EnvelopeSound(e), VerifyTrustedEnvelope(e, keys)
  PROVE  /\ e \in Envelope /\ e.signedOver = Texts(e)
         /\ \E id \in KeyId :
              /\ keys[id] # None /\ e.signedBy = keys[id]
              /\ e = SignAgreementTuple(keys[id], id, Texts(e))
<1>1. /\ e \in Envelope
      /\ e.signedBy # None => e.field["signature"] = String("one")
  BY DEF EnvelopeSound
<1>2. PICK id \in KeyId :
        /\ keys[id] # None /\ e.signedBy = keys[id] /\ e.signedOver = Texts(e)
        /\ e.field["schema"].text = "one" /\ e.field["key_id"].text = id
  BY DEF VerifyTrustedEnvelope, VerifyAgreementEnvelope, CanonicalBytes
<1>3. e.shape /\ e.tupleShape /\ AllStrings(e) /\ AllFieldStrings(e)
  BY <1>1, EnvelopeParsed DEF VerifyTrustedEnvelope
<1>4. e.field = [f \in {"schema", "key_id", "signature"} |->
                   IF f = "key_id" THEN String(id) ELSE String("one")]
  <2>1. e.field \in [{"schema", "key_id", "signature"} -> Value]
    BY <1>1 DEF Envelope
  <2>2. e.field["schema"] = String("one")
    BY <1>2, <1>3, <2>1, StringValue DEF AllFieldStrings
  <2>3. e.field["key_id"] = String(id)
    BY <1>2, <1>3, <2>1, StringValue DEF AllFieldStrings
  <2>4. e.field["signature"] = String("one")
    BY <1>1, <1>2
  <2> HIDE DEF Value
  <2> QED
    BY <2>1, <2>2, <2>3, <2>4
<1>5. e.tuple = [f \in TupleField |-> String(Texts(e)[f])]
  <2>1. e.tuple \in [TupleField -> Value]
    BY <1>1 DEF Envelope
  <2>2. ASSUME NEW f \in TupleField
        PROVE  e.tuple[f] = String(Texts(e)[f])
    <3>1. PICK i \in 1 .. 14 : f = TupleKeys[i]
      BY FieldLists DEF TupleField
    <3>2. e.tuple[f] \in Value /\ e.tuple[f].string
      BY <1>3, <2>1, <3>1 DEF AllStrings
    <3>3. Texts(e)[f] = e.tuple[f].text
      BY DEF Texts
    <3> QED
      BY <3>2, <3>3, StringValue
  <2> QED
    BY <2>1, <2>2
<1>6. e.shape = TRUE /\ e.tupleShape = TRUE
  BY <1>1, <1>3 DEF Envelope
<1>7. e = [shape |-> e.shape, tupleShape |-> e.tupleShape, field |-> e.field,
           tuple |-> e.tuple, signedBy |-> e.signedBy, signedOver |-> e.signedOver]
  BY <1>1 DEF Envelope
<1>8. SignAgreementTuple(keys[id], id, Texts(e)) =
        [shape |-> TRUE, tupleShape |-> TRUE, field |-> e.field,
         tuple |-> e.tuple, signedBy |-> keys[id], signedOver |-> Texts(e)]
  BY <1>4, <1>5 DEF SignAgreementTuple, CanonicalBytes
<1>9. e = [shape |-> TRUE, tupleShape |-> TRUE, field |-> e.field,
           tuple |-> e.tuple, signedBy |-> keys[id], signedOver |-> Texts(e)]
  BY <1>2, <1>6, <1>7
<1> QED
  BY <1>1, <1>2, <1>8, <1>9

\* A change of one envelope.
LEMMA EditKeepsInvariant ==
  ASSUME AgreementIInv, NEW p \in Pipeline, NEW e, EnvelopeSound(e), Edit(p, e)
  PROVE  AgreementIInv'
<1>1. /\ envelope' = [envelope EXCEPT ![p] = e]
      /\ agreement' = agreement /\ trusted' = trusted
  BY DEF Edit
<1>2. /\ DOMAIN envelope' = Pipeline
      /\ \A q \in Pipeline : envelope'[q] # None => EnvelopeSound(envelope'[q])
  BY <1>1 DEF AgreementIInv
<1>3. AgreementSound'
  BY <1>1 DEF AgreementIInv, AgreementSound, Metadata, PipelineIdentity, Texts
<1> QED
  BY <1>1, <1>2, <1>3 DEF AgreementIInv, EnvelopeSound, String

\* Every step of the agreement part keeps its invariant.
LEMMA AgreementNextKeepsInvariant ==
  AgreementIInv /\ [AgreementNext]_agreementVars => AgreementIInv'
<1> SUFFICES ASSUME AgreementIInv, [AgreementNext]_agreementVars PROVE AgreementIInv'
  OBVIOUS
<1>1. ASSUME NEW p \in Pipeline, NEW key \in Key, NEW id \in SignIds,
             NEW tuple \in StoredTuple, Sign(p, key, id, tuple)
      PROVE  AgreementIInv'
  <2>1. tuple \in [TupleField -> Text]
    BY DEF StoredTuple, Text
  <2>2. EnvelopeSound(SignAgreementTuple(key, id, tuple))
    BY <2>1, SignedIsSound, AgreementAssumption
  <2>3. PICK e : e = SignAgreementTuple(key, id, tuple)
    OBVIOUS
  <2>4. /\ envelope' = [envelope EXCEPT ![p] = e]
        /\ agreement' = agreement /\ trusted' = trusted
    BY <1>1, <2>3 DEF Sign
  <2>5. /\ DOMAIN envelope' = Pipeline
        /\ \A q \in Pipeline : envelope'[q] # None => EnvelopeSound(envelope'[q])
    BY <2>2, <2>3, <2>4 DEF AgreementIInv
  <2>6. AgreementSound'
    BY <2>4 DEF AgreementIInv, AgreementSound, Metadata, PipelineIdentity, Texts
  <2> QED
    BY <2>4, <2>5, <2>6 DEF AgreementIInv, EnvelopeSound, String
<1>2. ASSUME NEW p \in Pipeline, LoseKeys(p)
      PROVE  AgreementIInv'
  <2>1. EnvelopeSound(envelope[p])
    BY <1>2 DEF LoseKeys, AgreementIInv
  <2>2. /\ EnvelopeSound([envelope[p] EXCEPT !.shape = FALSE])
        /\ EnvelopeSound([envelope[p] EXCEPT !.tupleShape = FALSE])
    BY <2>1 DEF EnvelopeSound, Envelope
  <2> QED
    BY <1>2, <2>2, EditKeepsInvariant DEF LoseKeys
<1>3. ASSUME NEW p \in Pipeline, NEW v \in Value, NEW f \in TupleField, ChangeTuple(p, f, v)
      PROVE  AgreementIInv'
  <2>1. EnvelopeSound(envelope[p])
    BY <1>3 DEF ChangeTuple, AgreementIInv
  <2>2. EnvelopeSound([envelope[p] EXCEPT !.tuple[f] = v])
    BY <2>1 DEF EnvelopeSound, Envelope
  <2> QED
    BY <1>3, <2>2, EditKeepsInvariant DEF ChangeTuple
<1>4. ASSUME NEW p \in Pipeline, NEW v \in Value,
             NEW f \in {"schema", "key_id", "signature"}, ChangeField(p, f, v)
      PROVE  AgreementIInv'
  <2>1. EnvelopeSound(envelope[p])
    BY <1>4 DEF ChangeField, AgreementIInv
  <2> DEFINE e == [envelope[p] EXCEPT !.field[f] = v,
                     !.signedBy = IF f = "signature" THEN None ELSE @]
  <2>2. e \in Envelope
    BY <2>1 DEF EnvelopeSound, Envelope
  <2>3. e.signedBy # None => e.field["signature"] = String("one")
    BY <2>1 DEF EnvelopeSound, Envelope
  <2>4. EnvelopeSound(e)
    BY <2>2, <2>3 DEF EnvelopeSound
  <2>5. Edit(p, e)
    BY <1>4 DEF ChangeField
  <2> QED
    BY <2>4, <2>5, EditKeepsInvariant
<1>5. CASE Echo
  <2>1. "A" \in Pipeline /\ "B" \in Pipeline
    BY DEF Pipeline
  <2>2. EnvelopeSound(envelope["A"])
    BY <1>5, <2>1 DEF Echo, AgreementIInv
  <2> QED
    BY <1>5, <2>1, <2>2, EditKeepsInvariant DEF Echo
<1>6. CASE VerifyBefore
  <2>1. "A" \in Pipeline /\ "B" \in Pipeline
    BY DEF Pipeline
  <2>2. PICK a, b : a = envelope["A"] /\ b = envelope["B"]
    OBVIOUS
  <2>3. /\ a \in Envelope /\ a.signedOver = Texts(a)
        /\ b \in Envelope /\ b.signedOver = Texts(b)
    BY <1>6, <2>1, <2>2, VerifiedIsSigned DEF VerifyBefore, Verified, AgreementIInv
  <2>4. /\ agreement' = [metadata |-> Metadata(a, b),
                         tuples |-> [p \in Pipeline |-> Texts(envelope[p])]]
        /\ envelope' = [p \in Pipeline |-> None] /\ trusted' = trusted
    BY <1>6, <2>2 DEF VerifyBefore
  <2>5. [p \in Pipeline |-> Texts(envelope[p])]
          = [p \in Pipeline |-> IF p = "A" THEN Texts(a) ELSE Texts(b)]
    BY <2>2 DEF Pipeline
  <2>6. /\ agreement'.metadata = Metadata(a, b)
        /\ agreement'.tuples = [p \in Pipeline |-> IF p = "A" THEN Texts(a) ELSE Texts(b)]
    BY <2>4, <2>5
  <2>7. AgreementSound'
    BY <2>3, <2>6 DEF AgreementSound, Metadata, PipelineIdentity, Texts
  <2>8. DOMAIN envelope' = Pipeline /\ \A p \in Pipeline : envelope'[p] = None
    BY <2>4
  <2> QED
    BY <2>4, <2>7, <2>8 DEF AgreementIInv
<1>7. CASE UNCHANGED agreementVars
  BY <1>7 DEF agreementVars, AgreementIInv, AgreementSound, EnvelopeSound, String,
              Metadata, PipelineIdentity, Texts
<1> QED
  BY <1>1, <1>2, <1>3, <1>4, <1>5, <1>6, <1>7 DEF AgreementNext

\* The invariant holds in every state of the agreement part.
THEOREM AgreementInvariant == AgreementSpec => []AgreementIInv
<1>1. AgreementInit => AgreementIInv
  BY DEF AgreementInit, AgreementIInv, AgreementSound
<1>2. AgreementIInv /\ [AgreementNext]_agreementVars => AgreementIInv'
  BY AgreementNextKeepsInvariant
<1> QED
  BY <1>1, <1>2, PTL DEF AgreementSpec

\* inspectEnvelope of the site and parseAgreementEnvelope with the checks behind
\* it accept the same envelopes, whatever is wrong with one, if its key id,
\* schema and signature are JSON strings.
THEOREM InspectorReachesTheVerdict == AgreementSpec => []SameVerdictOnStrings
<1>1. AgreementIInv => SameVerdictOnStrings
  BY JudgesAgree DEF AgreementIInv, EnvelopeSound, SameVerdictOnStrings
<1> QED
  BY <1>1, AgreementInvariant, PTL

\* verifyTrustedEnvelope: whatever the two trust maps are and however often the
\* envelopes were changed, a verification is of tuples that were signed as they are
\* with keys of the maps; and by two pipelines, if the maps are separate.
THEOREM OnlySignedIsVerified == AgreementSpec => []VerifiedMeansSigned
<1>1. ASSUME AgreementIInv, Verified, NEW p \in Pipeline
      PROVE  /\ envelope[p].signedOver = Texts(envelope[p])
             /\ \E id \in KeyId :
                  /\ trusted[p][id] # None /\ envelope[p].signedBy = trusted[p][id]
                  /\ envelope[p] = SignAgreementTuple(trusted[p][id], id, Texts(envelope[p]))
             /\ \A f \in SemanticFields : Texts(envelope[p])[f] = Texts(envelope["A"])[f]
  <2>1. EnvelopeSound(envelope[p]) /\ VerifyTrustedEnvelope(envelope[p], trusted[p])
    BY <1>1 DEF Verified, AgreementIInv
  <2>2. \A f \in SemanticFields : f \in TupleField
    <3>1. \A i \in 1 .. 14 : TupleKeys[i] \in TupleField
      BY FieldLists DEF TupleField
    <3>2. /\ TupleKeys[2] = "protocol_id" /\ TupleKeys[3] = "height"
          /\ TupleKeys[4] = "block_hash" /\ TupleKeys[5] = "event_root"
          /\ TupleKeys[6] = "object_state_root" /\ TupleKeys[7] = "chained_root"
          /\ TupleKeys[8] = "founding_created" /\ TupleKeys[9] = "all_objects"
          /\ TupleKeys[10] = "active_objects"
      BY DEF TupleKeys
    <3> QED
      BY <3>1, <3>2 DEF SemanticFields
  <2>3. \A f \in SemanticFields : Texts(envelope[p])[f] = Texts(envelope["A"])[f]
    BY <1>1, <2>2 DEF Verified, SemanticallyEqual, Texts, Pipeline
  <2>4. PICK keys, e : keys = trusted[p] /\ e = envelope[p]
    OBVIOUS
  <2>5. /\ e.signedOver = Texts(e)
        /\ \E id \in KeyId :
             /\ keys[id] # None /\ e.signedBy = keys[id]
             /\ e = SignAgreementTuple(keys[id], id, Texts(e))
    BY <2>1, <2>4, VerifiedIsSigned
  <2> QED
    BY <2>3, <2>4, <2>5
<1>2. ASSUME AgreementIInv, Verified, MapsAreSeparate
      PROVE  Holder(envelope["A"].signedBy) # Holder(envelope["B"].signedBy)
  <2>1. \A p \in Pipeline : \E id \in KeyId :
          trusted[p][id] # None /\ envelope[p].signedBy = trusted[p][id]
    BY <1>1, <1>2
  <2>2. PICK a \in KeyId : trusted["A"][a] # None /\ envelope["A"].signedBy = trusted["A"][a]
    BY <2>1 DEF Pipeline
  <2>3. PICK b \in KeyId : trusted["B"][b] # None /\ envelope["B"].signedBy = trusted["B"][b]
    BY <2>1 DEF Pipeline
  <2> QED
    BY <1>2, <2>2, <2>3 DEF MapsAreSeparate
<1>3. AgreementIInv => VerifiedMeansSigned
  BY <1>1, <1>2 DEF VerifiedMeansSigned
<1> QED
  BY <1>3, AgreementInvariant, PTL

\* executeBound compares metadata: if it is equal before and after a read, so are
\* both pipelines' tuples, the release fields included.
THEOREM EqualMetadataEqualTuples == AgreementSpec => []SameMetadataSameTuples
<1>1. ASSUME AgreementIInv, Verified, agreement # None,
             Metadata(envelope["A"], envelope["B"]) = agreement.metadata,
             NEW p \in Pipeline
      PROVE  Texts(envelope[p]) = agreement.tuples[p]
  <2>1. PICK a, b \in Envelope :
          /\ a.signedOver = Texts(a) /\ b.signedOver = Texts(b)
          /\ agreement.metadata = Metadata(a, b)
          /\ agreement.tuples = [q \in Pipeline |-> IF q = "A" THEN Texts(a) ELSE Texts(b)]
    BY <1>1 DEF AgreementIInv, AgreementSound
  <2>2. \A q \in Pipeline : envelope[q].signedOver = Texts(envelope[q])
    BY <1>1, VerifiedIsSigned DEF Verified, AgreementIInv
  <2>3. \A x, y : /\ Metadata(x, y).pipelineA.signature[2] = x.signedOver
                  /\ Metadata(x, y).pipelineB.signature[2] = y.signedOver
    BY DEF Metadata, PipelineIdentity
  <2>4. envelope["A"].signedOver = a.signedOver /\ envelope["B"].signedOver = b.signedOver
    BY <1>1, <2>1, <2>3
  <2> QED
    BY <2>1, <2>2, <2>4 DEF Pipeline
<1>2. AgreementIInv => SameMetadataSameTuples
  BY <1>1 DEF SameMetadataSameTuples
<1> QED
  BY <1>2, AgreementInvariant, PTL

-----------------------------------------------------------------------------
(***************************************************************************)
(* The INIT of a deployment.                                               *)
(***************************************************************************)

\* The chain, the INIT and the configuration: a service that runs has settings
\* that loadConfiguration accepted.
DeploymentTypes ==
  /\ blocks \in Height /\ reorgs \in Nat /\ born \in [Height -> Nat]
  /\ parent \in Height \cup {None}
  /\ init \in InitTransaction \cup {None}
  /\ settings = None \/ (settings \in Settings /\ LoadConfiguration(settings))

\* No block is younger than the last disconnection, and the INIT is in no block
\* before its parent.
ChainIsRight ==
  /\ \A height \in Height : born[height] <= reorgs
  /\ parent # None => parent <= blocks
  /\ Confirmed => init.at <= blocks /\ parent # None /\ parent <= init.at

Block == [height : Height, born : Nat, parent : Height \cup {None}]

\* A block that had the INIT in it: it never comes back once it is disconnected,
\* and as long as it is in the chain so are the INIT and its parent, at its heights.
HadInit(block) ==
  /\ block \in Block /\ block.parent # None /\ block.parent <= block.height
  /\ block.born <= reorgs
  /\ block.height > blocks => block.born < reorgs
  /\ InChain(block) => Confirmed /\ init.at = block.height /\ parent = block.parent

StaleIsRight ==
  /\ stale.init # None => HadInit(stale.init)
  /\ stale.parent \in Block \cup {None}

\* All that the validator requires of the INIT but its parent, at a height.
GoodApartFromParent(tx, height) ==
  /\ tx.markers = "init" /\ tx.spec /\ tx.early /\ tx.late
  /\ HeightsAreRight(tx.open, tx.close, height)

ToolRun ==
  [step : {"start", "transaction", "header", "block", "parent", "parentHeader", "done"},
   tip : Nat, began : Nat, place : Block \cup {None}, parentPlace : Block \cup {None},
   prevout : Height \cup {None}, confirmed : BOOLEAN, valid : BOOLEAN,
   exit : {None, 0, 1, 2, 3, 4}]

\* What an answer of the tool says of an INIT.
Answer(t, tx) ==
  LET activation == Activation(tx, t.prevout, EvaluatedHeight(t)) IN
  t.valid = activation.valid /\ t.exit = ExitCode(t.confirmed, activation)

\* Where the tool is, what it was told holds, of the INIT's block while it is in the
\* chain; and it answers by the rules of the validator for what it was told.
RightTool(t) ==
  /\ t \in ToolRun
  /\ t.began <= reorgs
  /\ t.place # None => HadInit(t.place)
  /\ t.step = "header" => t.place # None
  /\ t.step = "parentHeader" => t.parentPlace # None
  /\ t.step \in {"header", "block", "parent", "parentHeader"} => init # None
  /\ t.step = "block" => t.confirmed
  /\ t.confirmed => t.place # None /\ t.step \in {"block", "done"}
  /\ t.confirmed /\ reorgs = t.began => InChain(t.place)
  /\ t.step = "done" /\ t.exit \in {0, 2, 3} =>
       /\ init # None /\ Answer(t, init)
       /\ t.confirmed => t.prevout = t.place.parent

ToolIsRight == RightTool(tool)

DeploymentIInv == DeploymentTypes /\ ChainIsRight /\ StaleIsRight /\ ToolIsRight

\* The verdict of the validator in one sentence.
LEMMA ReasonIsValid ==
  ASSUME NEW tx \in InitTransaction, NEW prevout, NEW height
  PROVE  /\ Reason(tx, prevout, height) = "valid"
              <=> GoodApartFromParent(tx, height) /\ ParentIsEarlier(prevout, height)
         /\ GoodApartFromParent(tx, height) /\ Reason(tx, prevout, height) # "valid"
              => Reason(tx, prevout, height) = "parent"
<1> HIDE DEF ParentIsEarlier, HeightsAreRight
<1> QED
  BY DEF Reason, GoodApartFromParent, InitTransaction

\* What is broadcast is a transaction that waits in the mempool.
LEMMA BroadcastsWait ==
  ASSUME NEW tx \in Broadcasts
  PROVE  tx \in InitTransaction /\ tx.at = None
<1> DEFINE Waiting == {i \in InitTransaction : i.at = None}
           Numbers == {[Perfect EXCEPT !.open = h[1], !.close = h[2]] : h \in MarkerHeight \X MarkerHeight}
           Outputs == {[Perfect EXCEPT !.open = MaxU32 - FoundingWindow, !.close = MaxU32,
                                       !.markers = m] : m \in {"none", "two", "unreadable"}}
           Flaws == {[Perfect EXCEPT !.open = MaxU32 - FoundingWindow, !.close = MaxU32,
                                     ![f] = FALSE] : f \in {"spec", "early", "late"}}
<1>1. MaxU32 - FoundingWindow \in MarkerHeight /\ MaxU32 \in MarkerHeight /\ 0 \in MarkerHeight
  BY DeploymentAssumption DEF MarkerHeight
<1>2. Perfect \in Waiting
  BY <1>1 DEF Perfect, InitTransaction
<1>3. \A h \in MarkerHeight \X MarkerHeight :
        [Perfect EXCEPT !.open = h[1], !.close = h[2]] \in Waiting
  BY <1>2 DEF InitTransaction
<1>4. \A m \in {"none", "two", "unreadable"} :
        [Perfect EXCEPT !.open = MaxU32 - FoundingWindow, !.close = MaxU32, !.markers = m]
          \in Waiting
  BY <1>1, <1>2 DEF InitTransaction
<1>5. \A f \in {"spec", "early", "late"} :
        [Perfect EXCEPT !.open = MaxU32 - FoundingWindow, !.close = MaxU32, ![f] = FALSE]
          \in Waiting
  BY <1>1, <1>2 DEF InitTransaction
<1>6. Broadcasts = Numbers \cup Outputs \cup Flaws
  BY DEF Broadcasts
<1>7. tx \in Waiting
  <2> HIDE DEF Waiting
  <2>1. Numbers \subseteq Waiting
    BY <1>3, Zenon
  <2>2. Outputs \subseteq Waiting
    BY <1>4, Zenon
  <2>3. Flaws \subseteq Waiting
    BY <1>5, Zenon
  <2> HIDE DEF Numbers, Outputs, Flaws
  <2> QED
    BY <1>6, <2>1, <2>2, <2>3
<1> HIDE DEF Numbers, Outputs, Flaws
<1> QED
  BY <1>7

\* The INIT's place in the chain is all that the chain changes of it.
LEMMA OnlyItsHeightChanges ==
  ASSUME NEW tx \in InitTransaction, NEW h \in Height \cup {None}
  PROVE  /\ [tx EXCEPT !.at = h] \in InitTransaction
         /\ [tx EXCEPT !.at = h].at = h
         /\ \A t : Answer(t, [tx EXCEPT !.at = h]) = Answer(t, tx)
<1>1. [tx EXCEPT !.at = h] \in InitTransaction /\ [tx EXCEPT !.at = h].at = h
  BY DEF InitTransaction
<1>2. PICK ty : ty = [tx EXCEPT !.at = h]
  OBVIOUS
<1>3. /\ ty.markers = tx.markers /\ ty.open = tx.open /\ ty.close = tx.close
      /\ ty.spec = tx.spec /\ ty.early = tx.early /\ ty.late = tx.late
  BY <1>2 DEF InitTransaction
<1>4. ASSUME NEW t
      PROVE  Answer(t, ty) = Answer(t, tx)
  <2>1. \A prevout, height : Reason(ty, prevout, height) = Reason(tx, prevout, height)
    BY <1>3 DEF Reason
  <2>2. InitHeights(ty) = InitHeights(tx)
    BY <1>3 DEF InitHeights
  <2>3. \A prevout, height : Activation(ty, prevout, height) = Activation(tx, prevout, height)
    BY <2>1, <2>2 DEF Activation
  <2> QED
    BY <2>3 DEF Answer
<1> QED
  BY <1>1, <1>2, <1>4

\* No block, no INIT and no answer of the tool.
LEMMA DeploymentStarts == DeploymentInit => DeploymentIInv
<1> SUFFICES ASSUME DeploymentInit PROVE DeploymentIInv
  OBVIOUS
<1>1. DeploymentTypes /\ ChainIsRight /\ StaleIsRight
  BY DeploymentAssumption
     DEF DeploymentInit, DeploymentTypes, ChainIsRight, StaleIsRight, Confirmed, Height
<1>2. ToolIsRight
  BY DeploymentAssumption DEF DeploymentInit, ToolIsRight, RightTool, ToolRun, NoTool
<1> QED
  BY <1>1, <1>2 DEF DeploymentIInv

\* The block of a confirmed INIT had it.
LEMMA BlockOfInit ==
  ASSUME DeploymentTypes, ChainIsRight, Confirmed
  PROVE  HadInit(BlockAt(init.at)) /\ InChain(BlockAt(init.at))
<1>1. /\ init.at \in Height /\ init.at <= blocks /\ parent \in Height /\ parent <= init.at
      /\ parent # None
  BY DEF DeploymentTypes, ChainIsRight, Confirmed, InitTransaction
<1>2. PICK b : b = BlockAt(init.at)
  OBVIOUS
<1>3. b.height = init.at /\ b.born = born[init.at] /\ b.parent = parent
  BY <1>2 DEF BlockAt
<1>4. b \in Block
  BY <1>1, <1>2 DEF BlockAt, Block, DeploymentTypes
<1>5. b.born <= reorgs /\ ~(b.height > blocks)
  BY <1>1, <1>3 DEF ChainIsRight, DeploymentTypes, Height
<1>6. InChain(b)
  BY <1>1, <1>3 DEF InChain
<1> QED
  BY <1>1, <1>2, <1>3, <1>4, <1>5, <1>6 DEF HadInit

\* What the node was asked for stays as it was answered, or is stale for good.
LEMMA BlocksStayKnown ==
  ASSUME DeploymentTypes, ChainIsRight, Mine \/ Disconnect, NEW b, HadInit(b)
  PROVE  HadInit(b)' /\ (reorgs' = reorgs /\ InChain(b) => InChain(b)')
<1> USE DeploymentAssumption
<1>1. /\ b \in Block /\ b.parent # None /\ b.parent <= b.height /\ b.born <= reorgs
      /\ b.height > blocks => b.born < reorgs
      /\ InChain(b) => Confirmed /\ init.at = b.height /\ parent = b.parent
  BY DEF HadInit
<1>2. /\ b.height \in Nat /\ b.born \in Nat /\ b.parent \in Nat /\ b.height \in Height
      /\ blocks \in Nat /\ reorgs \in Nat
  BY <1>1 DEF Block, Height, DeploymentTypes
<1>3. CASE Mine
  <2>1. /\ blocks' = blocks + 1 /\ reorgs' = reorgs
        /\ born' = [born EXCEPT ![blocks + 1] = reorgs]
        /\ parent # None => parent' = parent
        /\ Confirmed => init' = init
    BY <1>3 DEF Mine, Confirmed
  <2>2. blocks + 1 \in Height
    BY <1>2, <1>3 DEF Mine, Height
  <2>3. InChain(b)' <=> InChain(b)
    BY <1>1, <1>2, <2>1, <2>2 DEF InChain, DeploymentTypes
  <2>4. InChain(b) => Confirmed' /\ init'.at = b.height /\ parent' = b.parent
    BY <1>1, <2>1 DEF Confirmed
  <2> QED
    BY <1>1, <1>2, <2>1, <2>3, <2>4 DEF HadInit
<1>4. CASE Disconnect
  <2>1. blocks' = blocks - 1 /\ reorgs' = reorgs + 1 /\ born' = born
    BY <1>4 DEF Disconnect
  <2>2. InChain(b)' => InChain(b) /\ b.height < blocks
    BY <1>2, <2>1 DEF InChain
  <2>3. InChain(b)' => init' = init /\ parent' = parent
    BY <1>1, <1>2, <1>4, <2>2 DEF Disconnect
  <2>4. InChain(b)' => Confirmed' /\ init'.at = b.height /\ parent' = b.parent
    BY <1>1, <2>2, <2>3 DEF Confirmed
  <2> QED
    BY <1>1, <1>2, <2>1, <2>4 DEF HadInit
<1> QED
  BY <1>3, <1>4

\* Blocks come and go.
LEMMA ChainKeepsDeployment ==
  ASSUME DeploymentIInv, Mine \/ Disconnect
  PROVE  DeploymentIInv'
<1> USE DeploymentAssumption
<1>1. /\ DeploymentTypes /\ ChainIsRight /\ StaleIsRight /\ ToolIsRight
      /\ blocks \in Nat /\ reorgs \in Nat
      /\ settings' = settings /\ tool' = tool
  BY DEF DeploymentIInv, Mine, Disconnect, DeploymentTypes, Height
<1>2. /\ init' = init \/ (init # None /\ \E h \in Height \cup {None} : init' = [init EXCEPT !.at = h])
      /\ DeploymentTypes' /\ ChainIsRight'
  <2>1. PICK s : s = settings /\ s = settings'
    BY <1>1
  <2>2. LoadConfiguration(settings') = LoadConfiguration(settings)
    BY <2>1
  <2>3. settings' = None \/ (settings' \in Settings /\ LoadConfiguration(settings'))
    BY <1>1, <2>2 DEF DeploymentTypes
  <2>4. init # None => init \in InitTransaction /\ init.at \in Height \cup {None}
    BY <1>1 DEF DeploymentTypes, InitTransaction
  <2>5. CASE Mine
    <3>1. /\ blocks + 1 \in Height /\ blocks' = blocks + 1 /\ reorgs' = reorgs
          /\ born' = [born EXCEPT ![blocks + 1] = reorgs]
      BY <1>1, <2>5 DEF Mine, Height
    <3>2. parent' = parent \/ (parent = None /\ parent' = blocks + 1)
      BY <2>5 DEF Mine
    <3>3. \/ init' = init
          \/ /\ init # None /\ init.at = None /\ parent' # None
             /\ init' = [init EXCEPT !.at = blocks + 1]
      BY <2>5 DEF Mine
    <3>4. init' # init => init' \in InitTransaction /\ init'.at = blocks + 1
      BY <2>4, <3>1, <3>3, OnlyItsHeightChanges
    <3>5. DeploymentTypes'
      BY <1>1, <2>3, <3>1, <3>2, <3>3, <3>4 DEF DeploymentTypes
    <3>6. ChainIsRight'
      <4>1. \A height \in Height : born'[height] <= reorgs'
        BY <1>1, <3>1 DEF ChainIsRight, DeploymentTypes
      <4>2. parent' # None => parent' \in Nat /\ parent' <= blocks'
        BY <1>1, <3>1, <3>2 DEF ChainIsRight, DeploymentTypes, Height
      <4>3. Confirmed' => init'.at <= blocks' /\ parent' # None /\ parent' <= init'.at
        <5>1. CASE init' = init
          BY <1>1, <2>4, <3>1, <3>2, <5>1 DEF ChainIsRight, Confirmed, Height
        <5>2. CASE init' # init
          BY <1>1, <3>1, <3>3, <3>4, <4>2, <5>2
        <5> QED
          BY <5>1, <5>2
      <4> QED
        BY <4>1, <4>2, <4>3 DEF ChainIsRight
    <3> QED
      BY <3>1, <3>3, <3>5, <3>6
  <2>6. CASE Disconnect
    <3>1. /\ blocks - 1 \in Height /\ blocks' = blocks - 1 /\ reorgs' = reorgs + 1 /\ born' = born
      BY <1>1, <2>6 DEF Disconnect, DeploymentTypes, Height
    <3>2. parent' = IF parent = blocks THEN None ELSE parent
      BY <2>6 DEF Disconnect
    <3>3. init' = IF init # None /\ init.at = blocks THEN [init EXCEPT !.at = None] ELSE init
      BY <2>6 DEF Disconnect
    <3>4. init' # init => init' \in InitTransaction /\ init'.at = None
      BY <2>4, <3>3, OnlyItsHeightChanges
    <3>5. DeploymentTypes'
      BY <1>1, <2>3, <3>1, <3>2, <3>3, <3>4 DEF DeploymentTypes
    <3>6. ChainIsRight'
      <4>1. \A height \in Height : born'[height] <= reorgs'
        BY <1>1, <3>1 DEF ChainIsRight, DeploymentTypes
      <4>2. parent' # None => parent' \in Nat /\ parent' <= blocks'
        BY <1>1, <3>1, <3>2 DEF ChainIsRight, DeploymentTypes, Height
      <4>3. Confirmed' => init'.at <= blocks' /\ parent' # None /\ parent' <= init'.at
        <5>1. CASE init' = init
          BY <1>1, <2>4, <3>1, <3>2, <3>3, <5>1 DEF ChainIsRight, Confirmed, DeploymentTypes, Height
        <5>2. CASE init' # init
          BY <3>4, <5>2 DEF Confirmed
        <5> QED
          BY <5>1, <5>2
      <4> QED
        BY <4>1, <4>2, <4>3 DEF ChainIsRight
    <3> QED
      BY <3>3, <3>5, <3>6
  <2> QED
    BY <2>5, <2>6
<1>3. StaleIsRight'
  <2>1. CASE Mine
    <3>1. PICK s : s = stale /\ s = stale'
      BY <2>1 DEF Mine
    <3>2. s.init # None => HadInit(s.init)'
      BY <1>1, <2>1, <3>1, BlocksStayKnown DEF StaleIsRight
    <3> QED
      BY <1>1, <3>1, <3>2 DEF StaleIsRight
  <2>2. CASE Disconnect
    <3> DEFINE initLeaves == init # None /\ init.at = blocks
               parentLeaves == parent = blocks
    <3>1. /\ stale' = [init |-> IF initLeaves THEN BlockAt(blocks) ELSE stale.init,
                       parent |-> IF parentLeaves THEN BlockAt(blocks) ELSE stale.parent]
          /\ reorgs' = reorgs + 1 /\ blocks' = blocks - 1
      BY <2>2 DEF Disconnect
    <3>2. PICK a, b : a = stale.init /\ b = BlockAt(blocks)
      OBVIOUS
    <3>3. b \in Block /\ b.height = blocks /\ b.born = born[blocks]
      BY <1>1, <3>2 DEF BlockAt, Block, DeploymentTypes
    <3>4. a # None => HadInit(a)'
      BY <1>1, <2>2, <3>2, BlocksStayKnown DEF StaleIsRight
    <3>5. initLeaves => HadInit(b)'
      <4>1. SUFFICES ASSUME initLeaves PROVE HadInit(b)'
        OBVIOUS
      <4>2. Confirmed /\ BlockAt(init.at) = b
        BY <1>1, <3>2, <4>1 DEF Confirmed, Height
      <4>3. HadInit(b)
        BY <1>1, <4>2, BlockOfInit
      <4> QED
        BY <1>1, <2>2, <4>3, BlocksStayKnown
    <3>6. stale'.init = (IF initLeaves THEN b ELSE a)
      BY <3>1, <3>2
    <3>7. stale'.parent = b \/ stale'.parent = stale.parent
      BY <3>1, <3>2
    <3>8. stale.parent \in Block \cup {None}
      BY <1>1 DEF StaleIsRight
    <3>9. stale'.parent \in Block \cup {None}
      BY <3>3, <3>7, <3>8
    <3>10. PICK c : c = stale'.init
      OBVIOUS
    <3>11. c # None => HadInit(c)'
      BY <3>4, <3>5, <3>6, <3>10
    <3> QED
      BY <3>9, <3>10, <3>11 DEF StaleIsRight
  <2> QED
    BY <2>1, <2>2
<1>4. ToolIsRight'
  <2>1. PICK t : t = tool /\ t = tool'
    BY <1>1
  <2>2. reorgs' >= reorgs
    BY <1>1 DEF Mine, Disconnect
  <2>3. t.place # None => HadInit(t.place)' /\ (reorgs' = reorgs /\ InChain(t.place) => InChain(t.place)')
    <3>1. PICK b : b = t.place
      OBVIOUS
    <3>2. b # None => HadInit(b)' /\ (reorgs' = reorgs /\ InChain(b) => InChain(b)')
      BY <1>1, <2>1, <3>1, BlocksStayKnown DEF ToolIsRight, RightTool
    <3> QED
      BY <3>1, <3>2
  <2>4. t.began \in Nat /\ t.began <= reorgs
    BY <1>1, <2>1 DEF ToolIsRight, RightTool, ToolRun
  <2>5. t.confirmed /\ reorgs' = t.began => InChain(t.place)'
    <3>1. reorgs' = t.began => reorgs' = reorgs
      BY <1>1, <1>2, <2>2, <2>4 DEF DeploymentTypes
    <3> QED
      BY <1>1, <2>1, <2>3, <3>1 DEF ToolIsRight, RightTool
  <2>6. init # None => init' # None /\ Answer(t, init') = Answer(t, init)
    <3> SUFFICES ASSUME init # None PROVE init' # None /\ Answer(t, init') = Answer(t, init)
      OBVIOUS
    <3>1. CASE init' = init
      BY <3>1
    <3>2. CASE \E h \in Height \cup {None} : init' = [init EXCEPT !.at = h]
      <4>1. PICK h \in Height \cup {None} : init' = [init EXCEPT !.at = h]
        BY <3>2
      <4>2. init \in InitTransaction
        BY <1>1 DEF DeploymentTypes
      <4> QED
        BY <4>1, <4>2, OnlyItsHeightChanges
    <3> QED
      BY <1>2, <3>1, <3>2
  <2>7. reorgs' \in Nat /\ t.began <= reorgs'
    BY <1>1, <1>2, <2>2, <2>4 DEF DeploymentTypes
  <2>8. PICK i, j : i = init /\ j = init'
    OBVIOUS
  <2>9. /\ t.step \in {"header", "block", "parent", "parentHeader"} => j # None
        /\ t.step = "done" /\ t.exit \in {0, 2, 3} =>
             /\ j # None /\ Answer(t, j)
             /\ t.confirmed => t.prevout = t.place.parent
    BY <1>1, <2>1, <2>6, <2>8 DEF ToolIsRight, RightTool
  <2>10. /\ t \in ToolRun
         /\ t.step = "header" => t.place # None
         /\ t.step = "parentHeader" => t.parentPlace # None
         /\ t.step = "block" => t.confirmed
         /\ t.confirmed => t.place # None /\ t.step \in {"block", "done"}
    BY <1>1, <2>1 DEF ToolIsRight, RightTool
  <2> HIDE DEF HadInit, InChain, Answer, ToolRun
  <2>11. ToolIsRight'
    BY <2>1, <2>3, <2>5, <2>7, <2>8, <2>9, <2>10 DEF ToolIsRight, RightTool
  <2> QED
    BY <2>11
<1> QED
  BY <1>2, <1>3, <1>4 DEF DeploymentIInv

\* A question to the node changes nothing but the tool.
LEMMA QuestionsChangeNothing ==
  ASSUME DeploymentTypes, ChainIsRight, StaleIsRight, ToolStep
  PROVE  /\ DeploymentTypes' /\ ChainIsRight' /\ StaleIsRight'
         /\ \A t : RightTool(t)' <=> RightTool(t)
<1>1. /\ blocks' = blocks /\ reorgs' = reorgs /\ born' = born /\ parent' = parent
      /\ init' = init /\ stale' = stale /\ settings' = settings
  BY DEF ToolStep
<1>2. PICK s, i, z : s = settings /\ s = settings' /\ i = init /\ i = init' /\ z = stale /\ z = stale'
  BY <1>1
<1>3. DeploymentTypes' /\ ChainIsRight'
  BY <1>1, <1>2 DEF DeploymentTypes, ChainIsRight, Confirmed
<1>4. \A b : (InChain(b)' <=> InChain(b)) /\ (HadInit(b)' <=> HadInit(b))
  BY <1>1 DEF InChain, HadInit, Confirmed
<1>5. StaleIsRight'
  BY <1>2, <1>4 DEF StaleIsRight
<1>6. \A t : RightTool(t)' <=> RightTool(t)
  <2> SUFFICES ASSUME NEW t PROVE RightTool(t)' <=> RightTool(t)
    OBVIOUS
  <2>1. PICK b : b = t.place
    OBVIOUS
  <2>2. (InChain(b)' <=> InChain(b)) /\ (HadInit(b)' <=> HadInit(b))
    BY <1>4
  <2> HIDE DEF InChain, HadInit, Answer
  <2> QED
    BY <1>1, <1>2, <2>1, <2>2 DEF RightTool
<1> QED
  BY <1>3, <1>5, <1>6

\* What the tool makes of what it was told.
LEMMA EvaluatedIsRight ==
  ASSUME NEW t, RightTool(t), init # None, t.step \in {"block", "parent", "parentHeader"},
         NEW prevout \in Height \cup {None}, t.confirmed => prevout = t.place.parent
  PROVE  RightTool(Evaluated(t, prevout))
<1> DEFINE activation == Activation(init, prevout, EvaluatedHeight(t))
           code == ExitCode(t.confirmed, activation)
<1>1. t \in ToolRun
  BY DEF RightTool
<1>2. activation.valid \in BOOLEAN /\ code \in {0, 2, 3}
  BY DEF Activation, ExitCode
<1>3. PICK u : u = Evaluated(t, prevout)
  OBVIOUS
<1>4. u = [t EXCEPT !.step = "done", !.prevout = prevout, !.valid = activation.valid, !.exit = code]
  BY <1>3 DEF Evaluated
<1> HIDE DEF activation, code
<1>5. /\ u.step = "done" /\ u.prevout = prevout /\ u.valid = activation.valid /\ u.exit = code
      /\ u.tip = t.tip /\ u.began = t.began /\ u.place = t.place /\ u.confirmed = t.confirmed
      /\ u.parentPlace = t.parentPlace
  BY <1>1, <1>4 DEF ToolRun
<1>6. u \in ToolRun
  BY <1>1, <1>2, <1>4 DEF ToolRun
<1>7. Answer(u, init)
  <2>1. EvaluatedHeight(u) = EvaluatedHeight(t)
    BY <1>5 DEF EvaluatedHeight
  <2>2. Activation(init, u.prevout, EvaluatedHeight(u)) = activation
    BY <1>5, <2>1 DEF activation
  <2> QED
    BY <1>5, <2>2 DEF Answer, code
<1> HIDE DEF HadInit, InChain, Answer
<1> QED
  BY <1>3, <1>5, <1>6, <1>7 DEF RightTool

\* validate-init asks its questions and answers.
LEMMA ToolKeepsDeployment ==
  ASSUME DeploymentIInv,
         \/ AskInfo \/ AskTransaction \/ AskHeader \/ AskBlock \/ AskParent \/ AskParentHeader
         \/ CallFails \/ RunAgain
  PROVE  DeploymentIInv'
<1> USE DeploymentAssumption
<1>1. ToolStep
  BY DEF AskInfo, AskTransaction, AskHeader, AskBlock, AskParent, AskParentHeader, CallFails, RunAgain
<1>2. /\ DeploymentTypes /\ ChainIsRight /\ StaleIsRight /\ RightTool(tool)
  BY DEF DeploymentIInv, ToolIsRight
<1>3. /\ DeploymentTypes' /\ ChainIsRight' /\ StaleIsRight'
      /\ \A t : RightTool(t)' <=> RightTool(t)
  BY <1>1, <1>2, QuestionsChangeNothing
<1>4. SUFFICES RightTool(tool')
  <2>1. PICK u : u = tool'
    OBVIOUS
  <2>2. RightTool(u)' <=> RightTool(u)
    BY <1>3
  <2>3. RightTool(u)' => ToolIsRight'
    BY <2>1 DEF ToolIsRight
  <2> QED
    BY <1>3, <1>4, <2>1, <2>2, <2>3 DEF DeploymentIInv
<1>5. PICK t, u : t = tool /\ u = tool'
  OBVIOUS
<1>6. RightTool(t) /\ t \in ToolRun
  BY <1>2, <1>5 DEF RightTool
<1>7. /\ blocks \in Nat /\ reorgs \in Nat
      /\ parent \in Height \cup {None}
  BY <1>2 DEF DeploymentTypes, Height
<1>8. NoTool \in ToolRun /\ NoTool.step = "start" /\ ~NoTool.confirmed /\ NoTool.place = None
      /\ NoTool.began = 0
  BY DEF NoTool, ToolRun
<1> HIDE DEF HadInit, InChain, Answer
<1>9. CASE AskInfo
  <2>1. u = [NoTool EXCEPT !.step = "transaction", !.tip = blocks, !.began = reorgs]
    BY <1>5, <1>9 DEF AskInfo
  <2>2. /\ u \in ToolRun /\ u.step = "transaction" /\ u.began = reorgs
        /\ u.place = None /\ ~u.confirmed
    BY <1>7, <1>8, <2>1 DEF ToolRun
  <2> QED
    BY <1>5, <1>7, <2>2 DEF RightTool
<1>10. CASE RunAgain
  BY <1>5, <1>7, <1>8, <1>10 DEF RunAgain, RightTool
<1>11. CASE CallFails
  <2>1. PICK code : /\ u = [t EXCEPT !.step = "done", !.exit = code] /\ code \in {1, 4}
                    /\ t.step # "done"
    BY <1>5, <1>11 DEF CallFails, Unfinished
  <2>2. /\ u \in ToolRun /\ u.step = "done" /\ u.exit \in {1, 4}
        /\ u.began = t.began /\ u.place = t.place /\ u.confirmed = t.confirmed
    BY <1>6, <2>1 DEF ToolRun
  <2> QED
    BY <1>5, <1>6, <2>2 DEF RightTool
<1>12. CASE AskTransaction
  <2>1. CASE init = None
    <3>1. u = [t EXCEPT !.step = "done", !.exit = 4]
      BY <1>5, <1>12, <2>1 DEF AskTransaction
    <3>2. /\ u \in ToolRun /\ u.step = "done" /\ u.exit = 4
          /\ u.began = t.began /\ u.place = t.place /\ u.confirmed = t.confirmed
      BY <1>6, <3>1 DEF ToolRun
    <3> QED
      BY <1>5, <1>6, <3>2 DEF RightTool
  <2>2. CASE init # None
    <3>1. PICK place \in Located(init.at, stale.init) :
            u = [t EXCEPT !.step = IF place = None THEN "parent" ELSE "header", !.place = place]
      BY <1>5, <1>12, <2>2 DEF AskTransaction
    <3>2. place # None => HadInit(place)
      BY <1>2, <2>2, <3>1, BlockOfInit DEF Located, StaleIsRight, Confirmed
    <3>3. place \in Block \cup {None}
      BY <3>2 DEF HadInit
    <3>4. t.step = "transaction" /\ ~t.confirmed
      BY <1>5, <1>6, <1>12 DEF AskTransaction, RightTool
    <3>5. /\ u \in ToolRun /\ u.step \in {"parent", "header"} /\ u.place = place
          /\ u.step = "header" => place # None
          /\ u.began = t.began /\ u.confirmed = t.confirmed
      BY <1>6, <3>1, <3>3 DEF ToolRun
    <3> QED
      BY <1>5, <1>6, <2>2, <3>2, <3>4, <3>5 DEF RightTool
  <2> QED
    BY <2>1, <2>2
<1>13. CASE AskHeader
  <2>1. t.step = "header" /\ t.place # None /\ init # None /\ ~t.confirmed
    BY <1>5, <1>6, <1>13 DEF AskHeader, RightTool
  <2>2. CASE InChain(t.place)
    <3>1. u = [t EXCEPT !.step = "block", !.confirmed = TRUE]
      BY <1>5, <1>13, <2>2 DEF AskHeader
    <3>2. /\ u \in ToolRun /\ u.step = "block" /\ u.confirmed
          /\ u.began = t.began /\ u.place = t.place
      BY <1>6, <3>1 DEF ToolRun
    <3> QED
      BY <1>5, <1>6, <2>1, <2>2, <3>2 DEF RightTool
  <2>3. CASE ~InChain(t.place)
    <3>1. u = [t EXCEPT !.step = "parent"]
      BY <1>5, <1>13, <2>3 DEF AskHeader
    <3>2. /\ u \in ToolRun /\ u.step = "parent" /\ u.confirmed = t.confirmed
          /\ u.began = t.began /\ u.place = t.place
      BY <1>6, <3>1 DEF ToolRun
    <3> QED
      BY <1>5, <1>6, <2>1, <3>2 DEF RightTool
  <2> QED
    BY <2>2, <2>3
<1>14. CASE AskBlock
  <2>1. t.step = "block" /\ t.place # None /\ init # None
    BY <1>5, <1>6, <1>14 DEF AskBlock, RightTool
  <2>2. t.place.parent \in Height \cup {None}
    BY <1>6, <2>1 DEF ToolRun, Block
  <2>3. u = Evaluated(t, t.place.parent)
    BY <1>5, <1>14 DEF AskBlock
  <2> QED
    BY <1>5, <1>6, <2>1, <2>2, <2>3, EvaluatedIsRight
<1>15. CASE AskParent
  <2>1. t.step = "parent" /\ init # None /\ ~t.confirmed
    BY <1>5, <1>6, <1>15 DEF AskParent, RightTool
  <2>2. PICK place \in Located(parent, stale.parent) :
          u = IF place = None THEN Evaluated(t, None)
              ELSE [t EXCEPT !.step = "parentHeader", !.parentPlace = place]
    BY <1>5, <1>15 DEF AskParent
  <2>3. CASE place = None
    <3>1. u = Evaluated(t, None)
      BY <2>2, <2>3
    <3> QED
      BY <1>5, <1>6, <2>1, <3>1, EvaluatedIsRight
  <2>4. CASE place # None
    <3>1. place \in Block
      <4>1. parent # None => BlockAt(parent) \in Block
        BY <1>2 DEF BlockAt, Block, DeploymentTypes
      <4> QED
        BY <1>2, <2>2, <2>4, <4>1 DEF Located, StaleIsRight
    <3>2. u = [t EXCEPT !.step = "parentHeader", !.parentPlace = place]
      BY <2>2, <2>4
    <3>3. /\ u \in ToolRun /\ u.step = "parentHeader" /\ u.confirmed = t.confirmed
          /\ u.began = t.began /\ u.place = t.place /\ u.parentPlace # None
      BY <1>6, <2>4, <3>1, <3>2 DEF ToolRun
    <3> QED
      BY <1>5, <1>6, <2>1, <3>3 DEF RightTool
  <2> QED
    BY <2>3, <2>4
<1>16. CASE AskParentHeader
  <2>1. t.step = "parentHeader" /\ t.parentPlace # None /\ init # None /\ ~t.confirmed
    BY <1>5, <1>6, <1>16 DEF AskParentHeader, RightTool
  <2>2. PICK prevout : prevout = IF InChain(t.parentPlace) THEN t.parentPlace.height ELSE None
    OBVIOUS
  <2>3. prevout \in Height \cup {None}
    BY <1>6, <2>1, <2>2 DEF ToolRun, Block
  <2>4. u = Evaluated(t, prevout)
    BY <1>5, <1>16, <2>2 DEF AskParentHeader
  <2> QED
    BY <1>5, <1>6, <2>1, <2>3, <2>4, EvaluatedIsRight
<1> QED
  BY <1>9, <1>10, <1>11, <1>12, <1>13, <1>14, <1>15, <1>16

\* The start of the service changes nothing that the tool's answer rests on.
LEMMA OnlySettingsChange ==
  ASSUME ChainIsRight, StaleIsRight, ToolIsRight,
         blocks' = blocks, reorgs' = reorgs, born' = born, parent' = parent,
         init' = init, stale' = stale, tool' = tool
  PROVE  ChainIsRight' /\ StaleIsRight' /\ ToolIsRight'
<1>1. PICK i, z, t : i = init /\ i = init' /\ z = stale /\ z = stale' /\ t = tool /\ t = tool'
  OBVIOUS
<1>2. ChainIsRight'
  BY <1>1 DEF ChainIsRight, Confirmed
<1>3. \A b : (InChain(b)' <=> InChain(b)) /\ (HadInit(b)' <=> HadInit(b))
  BY <1>1 DEF InChain, HadInit, Confirmed
<1>4. StaleIsRight'
  BY <1>1, <1>3 DEF StaleIsRight
<1>5. RightTool(t)'
  <2>1. RightTool(t)
    BY <1>1 DEF ToolIsRight
  <2>2. PICK b : b = t.place
    OBVIOUS
  <2>3. (InChain(b)' <=> InChain(b)) /\ (HadInit(b)' <=> HadInit(b))
    BY <1>3
  <2> HIDE DEF InChain, HadInit, Answer
  <2> QED
    BY <1>1, <2>1, <2>2, <2>3 DEF RightTool
<1> QED
  BY <1>1, <1>2, <1>4, <1>5 DEF ToolIsRight

\* The chain, the operator and the tool keep what the answer rests on.
LEMMA DeploymentContinues ==
  ASSUME DeploymentIInv, [DeploymentNext]_deploymentVars
  PROVE  DeploymentIInv'
<1>1. ASSUME NEW tx \in Broadcasts, Broadcast(tx)
      PROVE  DeploymentIInv'
  <2>1. tx \in InitTransaction /\ tx.at = None
    BY BroadcastsWait
  <2>2. PICK s, z, t : s = settings /\ s = settings' /\ z = stale /\ z = stale' /\ t = tool /\ t = tool'
    BY <1>1 DEF Broadcast
  <2>3. init = None /\ init' = tx
    BY <1>1 DEF Broadcast
  <2>4. blocks' = blocks /\ reorgs' = reorgs /\ born' = born /\ parent' = parent
    BY <1>1 DEF Broadcast
  <2>5. DeploymentTypes'
    BY <2>1, <2>2, <2>3, <2>4 DEF DeploymentIInv, DeploymentTypes
  <2>6. ~Confirmed /\ ~Confirmed'
    BY <2>1, <2>3 DEF Confirmed
  <2>7. ChainIsRight'
    BY <2>4, <2>6 DEF DeploymentIInv, ChainIsRight
  <2>8. \A b : (InChain(b)' <=> InChain(b)) /\ (HadInit(b) => HadInit(b)')
    BY <2>4, <2>6 DEF InChain, HadInit
  <2>9. StaleIsRight'
    BY <2>2, <2>8 DEF DeploymentIInv, StaleIsRight
  <2>10. RightTool(t)'
    <3>1. RightTool(t)
      BY <2>2 DEF DeploymentIInv, ToolIsRight
    <3>2. PICK b : b = t.place
      OBVIOUS
    <3>3. (InChain(b)' <=> InChain(b)) /\ (HadInit(b) => HadInit(b)')
      BY <2>8
    <3>4. init' # None
      BY <2>1, <2>3, DeploymentAssumption
    <3> HIDE DEF InChain, HadInit, Answer
    <3> QED
      BY <2>3, <2>4, <3>1, <3>2, <3>3, <3>4 DEF RightTool
  <2> QED
    BY <2>2, <2>5, <2>7, <2>9, <2>10 DEF DeploymentIInv, ToolIsRight
<1>2. CASE Start
  <2>1. /\ blocks' = blocks /\ reorgs' = reorgs /\ born' = born /\ parent' = parent
        /\ init' = init /\ stale' = stale /\ tool' = tool
        /\ settings' \in Settings /\ LoadConfiguration(settings')
    BY <1>2 DEF Start, Accepted
  <2>2. DeploymentTypes'
    BY <2>1 DEF DeploymentIInv, DeploymentTypes
  <2> QED
    BY <2>1, <2>2, OnlySettingsChange DEF DeploymentIInv
<1>3. CASE UNCHANGED deploymentVars
  <2>1. /\ blocks' = blocks /\ reorgs' = reorgs /\ born' = born /\ parent' = parent
        /\ init' = init /\ stale' = stale /\ tool' = tool /\ settings' = settings
    BY <1>3 DEF deploymentVars
  <2>2. PICK s : s = settings /\ s = settings'
    BY <2>1
  <2>3. DeploymentTypes'
    BY <2>1, <2>2 DEF DeploymentIInv, DeploymentTypes
  <2> QED
    BY <2>1, <2>3, OnlySettingsChange DEF DeploymentIInv
<1> QED
  BY <1>1, <1>2, <1>3, ChainKeepsDeployment, ToolKeepsDeployment DEF DeploymentNext

\* The invariant holds in every state: a block that the tool was told of is the one
\* it was told of or stale for good, and its answer follows by the validator's rules
\* from what it was told.
THEOREM DeploymentInvariant == DeploymentSpec => []DeploymentIInv
<1> QED
  BY DeploymentStarts, DeploymentContinues, PTL DEF DeploymentSpec

\* validate-init foresees the activation, in a chain of any length, however often
\* blocks are disconnected and wherever that falls between its questions.
THEOREM ToolForeseesActivation == DeploymentSpec => []ToolForesees
<1>1. DeploymentIInv => ToolForesees
  <2> SUFFICES ASSUME DeploymentIInv, tool.step = "done", tool.exit \in {0, 2, 3}
               PROVE  /\ Confirmed /\ ForeseenValid => ActivationNow.valid
                      /\ Confirmed /\ ForeseenInvalid => ~ActivationNow.valid
                      /\ tool.confirmed /\ reorgs = tool.began => InChain(tool.place)
                      /\ tool.confirmed /\ InChain(tool.place)
                           => Confirmed /\ (tool.exit = 0 <=> ActivationNow.valid)
    BY DEF ToolForesees
  <2> DEFINE height == EvaluatedHeight(tool)
             answer == Activation(init, tool.prevout, height)
  <2>1. /\ tool \in ToolRun /\ init \in InitTransaction
        /\ tool.valid = answer.valid /\ tool.exit = ExitCode(tool.confirmed, answer)
        /\ tool.confirmed => tool.place # None /\ tool.prevout = tool.place.parent
        /\ tool.confirmed /\ reorgs = tool.began => InChain(tool.place)
        /\ tool.confirmed => HadInit(tool.place)
    <3>1. RightTool(tool) /\ DeploymentTypes
      BY DEF DeploymentIInv, ToolIsRight
    <3> QED
      BY <3>1 DEF RightTool, DeploymentTypes, Answer
  <2>2. /\ height = (IF tool.confirmed THEN tool.place.height ELSE tool.tip + 1)
        /\ height \in Nat
    <3>1. tool.confirmed => tool.place.height \in Nat
      BY <2>1 DEF ToolRun, Block, Height
    <3> QED
      BY <2>1, <3>1 DEF EvaluatedHeight, ToolRun
  <2>3. /\ answer.valid <=> /\ GoodApartFromParent(init, height)
                            /\ ParentIsEarlier(tool.prevout, height)
        /\ ~answer.valid /\ answer.reason # "parent" => ~GoodApartFromParent(init, height)
    BY <2>1, ReasonIsValid DEF Activation
  <2>4. Confirmed =>
          /\ init.at \in Nat
          /\ ActivationNow.valid <=> /\ GoodApartFromParent(init, init.at)
                                     /\ ParentIsEarlier(parent, init.at)
    <3>1. Confirmed => init.at \in Nat
      BY <2>1 DEF Confirmed, InitTransaction, Height
    <3> QED
      BY <2>1, <3>1, ReasonIsValid DEF ActivationNow, Activation
  <2> HIDE DEF height, answer
  <2>5. \A a, b \in Nat : a <= b /\ GoodApartFromParent(init, b) => GoodApartFromParent(init, a)
    BY <2>1, DeploymentAssumption
       DEF GoodApartFromParent, HeightsAreRight, InitTransaction, MarkerHeight
  <2>6. Confirmed /\ ForeseenValid => ActivationNow.valid
    <3> SUFFICES ASSUME Confirmed, ForeseenValid PROVE ActivationNow.valid
      OBVIOUS
    <3>1. /\ tool.valid /\ init.at <= height
          /\ ParentIsEarlier(parent, init.at) \/ (init.at = height /\ parent = tool.prevout)
      BY <2>2 DEF ForeseenValid
    <3>2. GoodApartFromParent(init, init.at)
      BY <2>1, <2>2, <2>3, <2>4, <2>5, <3>1
    <3> QED
      BY <2>1, <2>3, <2>4, <3>1, <3>2
  <2>7. Confirmed /\ ForeseenInvalid => ~ActivationNow.valid
    <3> SUFFICES ASSUME Confirmed, ForeseenInvalid PROVE ~ActivationNow.valid
      OBVIOUS
    <3>1. /\ ~answer.valid /\ answer.reason # "parent"
      BY <2>1 DEF ForeseenInvalid, ExitCode
    <3>2. height = tool.tip + 1 /\ init.at > tool.tip /\ tool.tip \in Nat
      BY <2>1, <2>2 DEF ForeseenInvalid, ToolRun
    <3>3. height <= init.at
      BY <2>4, <3>2
    <3> QED
      BY <2>2, <2>3, <2>4, <2>5, <3>1, <3>3
  <2>8. tool.confirmed /\ InChain(tool.place) => Confirmed /\ (tool.exit = 0 <=> ActivationNow.valid)
    <3> SUFFICES ASSUME tool.confirmed, InChain(tool.place)
                 PROVE  Confirmed /\ (tool.exit = 0 <=> ActivationNow.valid)
      OBVIOUS
    <3>1. Confirmed /\ init.at = height /\ parent = tool.prevout
      BY <2>1, <2>2 DEF HadInit
    <3>2. tool.exit = 0 <=> answer.valid
      BY <2>1 DEF ExitCode
    <3> QED
      BY <2>3, <2>4, <3>1, <3>2
  <2> QED
    BY <2>1, <2>6, <2>7, <2>8
<1> QED
  BY <1>1, DeploymentInvariant, PTL

\* The three heights of the configuration mean the same to loadConfiguration, to
\* checkConfiguredHeights, to inspectTransaction and to the validator.
THEOREM AssertedHeightsAgree == DeploymentSpec => []AssertionsHold
<1>1. DeploymentIInv => AssertionsHold
  <2> SUFFICES ASSUME DeploymentIInv, Asserted, Confirmed
               PROVE  AssertedIsRight /\ CandidateActivates
    BY DEF AssertionsHold
  <2>1. init \in InitTransaction /\ init.at \in Nat
    BY DeploymentAssumption DEF Confirmed, DeploymentIInv, DeploymentTypes, InitTransaction, Height
  <2>2. /\ settings \in Settings /\ LoadConfiguration(settings)
        /\ settings.open # None /\ settings.close # None /\ settings.txid = "init"
    BY DEF Asserted, DeploymentIInv, DeploymentTypes, LoadConfiguration, HeightsAreConsistent
  <2>3. /\ settings.open \in Nat /\ settings.close = settings.open + FoundingWindow
        /\ settings.height # None =>
             settings.height \in Nat /\ settings.open - settings.height >= InitLead
    BY <2>2, DeploymentAssumption
       DEF Settings, LoadConfiguration, HeightsAreConsistent, IsOptionalInteger, Height, MarkerHeight
  <2>4. /\ "open" \notin Denied => settings.open = InitHeights(init).open
        /\ "close" \notin Denied => settings.close = InitHeights(init).close
        /\ "height" \notin Denied /\ settings.height # None => settings.height = init.at
        /\ settings.open = InitHeights(init).open => "open" \notin Denied
        /\ settings.close = InitHeights(init).close => "close" \notin Denied
    BY <2>2 DEF Denied, CheckConfiguredHeights, ActivationNow, Activation
  <2>5. CASE init.markers = "init"
    <3>1. InitHeights(init).open = init.open /\ InitHeights(init).close = init.close
      BY <2>5 DEF InitHeights, Heights
    <3>2. AssertedIsRight
      <4> SUFFICES ASSUME settings.height # None, Denied = {}
                   PROVE  HeightsAreRight(init.open, init.close, init.at)
        <5>1. HeightsAreRight(init.open, init.close, init.at)
                => Reason(init, parent, init.at) # "heights"
          BY DEF Reason
        <5> QED
          BY <5>1 DEF AssertedIsRight, ActivationNow, Activation
      <4>1. settings.open = init.open /\ settings.close = init.close /\ settings.height = init.at
        BY <2>4, <3>1
      <4> QED
        BY <2>1, <2>3, <4>1, DeploymentAssumption
           DEF HeightsAreRight, InitTransaction, MarkerHeight
    <3>3. CandidateActivates
      <4>1. InspectTransaction(settings, init) = "candidate"
              <=> init.open = settings.open /\ init.close = settings.close /\ init.spec
        BY <2>2, <2>5 DEF InspectTransaction
      <4>2. ActivationNow.valid => init.spec
        BY <2>1, ReasonIsValid DEF ActivationNow, Activation, GoodApartFromParent
      <4> QED
        BY <2>4, <3>1, <4>1, <4>2 DEF CandidateActivates, Denied, CheckConfiguredHeights
    <3> QED
      BY <3>2, <3>3
  <2>6. CASE init.markers # "init"
    <3>1. Reason(init, parent, init.at) = "marker" /\ ~ActivationNow.valid
      BY <2>6 DEF Reason, ActivationNow, Activation
    <3>2. InspectTransaction(settings, init) # "candidate"
      BY <2>1, <2>6 DEF InspectTransaction, InitTransaction
    <3> QED
      BY <3>1, <3>2 DEF AssertedIsRight, CandidateActivates, ActivationNow, Activation
  <2> QED
    BY <2>5, <2>6
<1> QED
  BY <1>1, DeploymentInvariant, PTL

-----------------------------------------------------------------------------
(***************************************************************************)
(* The object of the site implements the life cycle of the state engine.   *)
(***************************************************************************)

\* An object on the page has a carrier as long as it is active, and no more
\* chapters than operations.
SiteIInv ==
  object # None =>
    /\ object \in TandemObject
    /\ object.chapterCount <= object.sequence
    /\ object.status = "active" => object.currentOutpoint \in Txid

\* The txid of an operation that is applied.
LEMMA NextTxid ==
  ASSUME SiteIInv, object # None, object.sequence < MaxSequence, NEW operation \in Operation
  PROVE  /\ object \in TandemObject
         /\ object.sequence \in 0 .. (MaxSequence - 1)
         /\ <<operation, object.sequence>> \in Txid
BY SiteAssumption DEF SiteIInv, TandemObject, Txid

\* applyOperation keeps the types of the object's fields.
LEMMA AppliedIsObject ==
  ASSUME SiteIInv, object # None, object.sequence < MaxSequence, NEW operation \in Operation
  PROVE  /\ Applied(operation) \in TandemObject
         /\ Applied(operation).chapterCount <= Applied(operation).sequence
         /\ Applied(operation).status = "active" => Applied(operation).currentOutpoint \in Txid
<1> DEFINE txid == <<operation, object.sequence>>
<1>1. /\ object \in TandemObject /\ object.sequence \in 0 .. (MaxSequence - 1)
      /\ object.chapterCount \in Nat /\ object.chapterCount <= object.sequence
      /\ txid \in Txid
  BY NextTxid DEF SiteIInv, TandemObject
<1>2. object.sequence + 1 \in 0 .. MaxSequence
  BY <1>1, SiteAssumption
<1>3. Applied(operation) =
        CASE operation = "MARK" -> Marked(txid)
          [] operation = "ROTATE" -> Rotated(txid)
          [] operation = "CLOSE" -> Closed(txid)
          [] operation = "REFUND" -> Ended("refunded", txid)
          [] OTHER -> Ended("exited_noncanonical", txid)
  BY DEF Applied
<1> HIDE DEF txid
<1>4. CASE operation = "MARK"
  <2>1. Applied(operation) = Marked(txid)
    BY <1>3, <1>4
  <2>2. object.chapterCount + 1 \in 0 .. MaxSequence
    BY <1>1, SiteAssumption
  <2>3. Marked(txid) \in TandemObject
    BY <1>1, <1>2, <2>2 DEF Marked, TandemObject
  <2>4. /\ Marked(txid).chapterCount = object.chapterCount + 1
        /\ Marked(txid).sequence = object.sequence + 1
        /\ Marked(txid).currentOutpoint = txid
    BY <1>1 DEF Marked, TandemObject
  <2>5. object.chapterCount + 1 <= object.sequence + 1
    BY <1>1
  <2> QED
    BY <1>1, <2>1, <2>3, <2>4, <2>5
<1>5. CASE operation = "ROTATE"
  <2>1. Applied(operation) = Rotated(txid)
    BY <1>3, <1>5
  <2>2. Rotated(txid) \in TandemObject
    BY <1>1, <1>2 DEF Rotated, TandemObject
  <2>3. /\ Rotated(txid).chapterCount = object.chapterCount
        /\ Rotated(txid).sequence = object.sequence + 1
        /\ Rotated(txid).currentOutpoint = txid
    BY <1>1 DEF Rotated, TandemObject
  <2>4. object.chapterCount <= object.sequence + 1
    BY <1>1
  <2> QED
    BY <1>1, <2>1, <2>2, <2>3, <2>4
<1>6. \A status \in {"closed", "refunded", "exited_noncanonical"} :
        /\ Ended(status, txid) \in TandemObject
        /\ Ended(status, txid).chapterCount = object.chapterCount
        /\ Ended(status, txid).sequence = object.sequence
        /\ Ended(status, txid).status # "active"
  BY <1>1 DEF Ended, TandemObject
<1>7. CASE operation = "CLOSE"
  <2>1. Applied(operation) = Closed(txid)
    BY <1>3, <1>7
  <2>2. PICK o \in TandemObject : o = Ended("closed", txid)
    BY <1>6
  <2>3. Closed(txid) = [o EXCEPT !.sequence = object.sequence + 1]
    BY <1>6, <2>2 DEF Closed
  <2>4. [o EXCEPT !.sequence = object.sequence + 1] \in TandemObject
    BY <1>2 DEF TandemObject
  <2>5. /\ Closed(txid).chapterCount = object.chapterCount
        /\ Closed(txid).sequence = object.sequence + 1
        /\ Closed(txid).status # "active"
    BY <1>6, <2>2, <2>3 DEF TandemObject
  <2>6. object.chapterCount <= object.sequence + 1
    BY <1>1
  <2> QED
    BY <2>1, <2>3, <2>4, <2>5, <2>6
<1>8. CASE operation \in {"REFUND", "BREAK"}
  <2>1. \E status \in {"refunded", "exited_noncanonical"} : Applied(operation) = Ended(status, txid)
    BY <1>3, <1>8
  <2> QED
    BY <1>1, <1>6, <2>1
<1> QED
  BY <1>4, <1>5, <1>7, <1>8 DEF Operation

\* The page starts without an object.
LEMMA SiteStarts == SiteInit => SiteIInv
BY DEF SiteInit, SiteIInv

\* Every button of the page keeps the shape of its object.
LEMMA SiteContinues ==
  ASSUME SiteIInv, [SiteNext]_object
  PROVE  SiteIInv'
<1>1. CASE CreateObject
  BY <1>1, SiteAssumption DEF CreateObject, SiteIInv, TandemObject, Txid
<1>2. ASSUME NEW operation \in Operation, ApplyOperation(operation)
      PROVE  SiteIInv'
  <2>1. CASE object.status = "active"
    <3>1. object' = Applied(operation) /\ object # None /\ object.sequence < MaxSequence
      BY <1>2, <2>1 DEF ApplyOperation
    <3> QED
      BY <3>1, AppliedIsObject DEF SiteIInv
  <2>2. CASE object.status # "active"
    <3>1. object' = object
      BY <1>2, <2>2 DEF ApplyOperation
    <3> QED
      BY <3>1 DEF SiteIInv
  <2> QED
    BY <2>1, <2>2
<1>3. CASE UNCHANGED object
  BY <1>3 DEF SiteIInv
<1> QED
  BY <1>1, <1>2, <1>3 DEF SiteNext

\* createObject and applyOperation keep an object whose carrier, sequence and
\* chapters agree with its status, for a page of any length of use.
THEOREM SiteInvariant == SiteSpec => []SiteIInv
<1> QED
  BY SiteStarts, SiteContinues, PTL DEF SiteSpec

\* The map of the state engine that the object of the page stands for.
SiteStates == [k \in Txid |-> IF k = CreateTxid THEN object ELSE None]

\* Every operation that changes the object is a transition of the state engine.
LEMMA SiteStepIsTransition ==
  ASSUME SiteIInv, SiteNext, object' # object
  PROVE  Lifecycle!Next
<1>1. /\ SiteStates[CreateTxid] = object
      /\ CreateTxid \in Txid
  BY DEF SiteStates, Txid
<1>2. ASSUME CreateObject
      PROVE  Lifecycle!Next
  <2> DEFINE new == [status |-> "active", sequence |-> 0, currentOutpoint |-> CreateTxid,
                     keys |-> 0, chapterCount |-> 0, terminalTxid |-> None]
  <2>1. object = None /\ object' = new
    BY <1>2 DEF CreateObject
  <2> HIDE DEF new
  <2>2. SiteStates' = [SiteStates EXCEPT ![CreateTxid] = new]
    BY <2>1 DEF SiteStates
  <2>3. Lifecycle!Create(CreateTxid, CreateTxid, 0)
    BY <1>1, <2>1, <2>2 DEF Lifecycle!Create, SiteStates, new
  <2>4. 0 \in 0 .. MaxSequence
    BY SiteAssumption
  <2> QED
    BY <1>1, <2>3, <2>4 DEF Lifecycle!Next
<1>3. ASSUME NEW operation \in Operation, ApplyOperation(operation)
      PROVE  Lifecycle!Next
  <2>0. PICK tx, carrier : tx = <<operation, object.sequence>> /\ carrier = object.currentOutpoint
    OBVIOUS
  <2>1. /\ object # None /\ object.sequence < MaxSequence
        /\ object.status = "active" /\ object' = Applied(operation)
    BY <1>3 DEF ApplyOperation
  <2>2. /\ object \in TandemObject /\ carrier \in Txid /\ tx \in Txid
        /\ object.sequence \in 0 .. (MaxSequence - 1)
    BY <2>0, <2>1, NextTxid DEF SiteIInv
  <2>3. Lifecycle!RequireActive(CreateTxid, carrier)
    BY <1>1, <2>0, <2>1 DEF Lifecycle!RequireActive, SiteStates
  <2>4. SiteStates' = [SiteStates EXCEPT ![CreateTxid] = Applied(operation)]
    BY <2>1 DEF SiteStates
  <2>5. Applied(operation) =
          CASE operation = "MARK" -> Marked(tx)
            [] operation = "ROTATE" -> Rotated(tx)
            [] operation = "CLOSE" -> Closed(tx)
            [] operation = "REFUND" -> Ended("refunded", tx)
            [] OTHER -> Ended("exited_noncanonical", tx)
    BY <2>0 DEF Applied
  <2>6. CASE operation = "MARK"
    <3>1. object.keys \in 0 .. MaxSequence
      BY <2>2 DEF TandemObject
    <3>2. Applied(operation) = Lifecycle!Moved(object, tx, object.keys, 1)
      <4>1. Applied(operation) = Marked(tx)
        BY <2>5, <2>6
      <4>2. Marked(tx) = Lifecycle!Moved(object, tx, object.keys, 1)
        BY <2>2 DEF Marked, Lifecycle!Moved, TandemObject
      <4> QED
        BY <4>1, <4>2
    <3>3. Lifecycle!Advance(CreateTxid, carrier, tx, object.keys, 1)
      BY <1>1, <2>1, <2>3, <2>4, <3>2 DEF Lifecycle!Advance, SiteStates
    <3> QED
      BY <1>1, <2>2, <3>1, <3>3 DEF Lifecycle!Next
  <2>7. CASE operation = "ROTATE"
    <3>1. object.sequence + 1 \in 0 .. MaxSequence
      BY <2>2, SiteAssumption
    <3>2. Applied(operation) = Lifecycle!Moved(object, tx, object.sequence + 1, 0)
      <4>1. Applied(operation) = Rotated(tx)
        BY <2>5, <2>7
      <4>2. object.chapterCount + 0 = object.chapterCount
        BY <2>2 DEF TandemObject
      <4>3. Rotated(tx) = Lifecycle!Moved(object, tx, object.sequence + 1, 0)
        BY <2>2, <4>2 DEF Rotated, Lifecycle!Moved, TandemObject
      <4> QED
        BY <4>1, <4>3
    <3>3. Lifecycle!Advance(CreateTxid, carrier, tx, object.sequence + 1, 0)
      BY <1>1, <2>1, <2>3, <2>4, <3>2 DEF Lifecycle!Advance, SiteStates
    <3> QED
      BY <1>1, <2>2, <3>1, <3>3 DEF Lifecycle!Next
  <2>8. CASE operation = "CLOSE"
    <3>1. Applied(operation) = Lifecycle!Terminal(object, "closed", object.sequence + 1, tx)
      BY <2>2, <2>5, <2>8 DEF Closed, Ended, Lifecycle!Terminal, TandemObject
    <3>2. Lifecycle!Close(CreateTxid, carrier, tx)
      BY <1>1, <2>1, <2>3, <2>4, <3>1 DEF Lifecycle!Close, SiteStates
    <3>3. \E k, p, t \in Txid : Lifecycle!Close(k, p, t) \/ Lifecycle!Refund(k, p, t)
      BY <1>1, <2>2, <3>2
    <3> QED
      BY <3>3 DEF Lifecycle!Next
  <2>9. CASE operation = "REFUND"
    <3>1. Applied(operation) = Lifecycle!Terminal(object, "refunded", object.sequence, tx)
      BY <2>2, <2>5, <2>9 DEF Ended, Lifecycle!Terminal, TandemObject
    <3>2. Lifecycle!Refund(CreateTxid, carrier, tx)
      BY <1>1, <2>1, <2>3, <2>4, <3>1 DEF Lifecycle!Refund, SiteStates
    <3>3. \E k, p, t \in Txid : Lifecycle!Close(k, p, t) \/ Lifecycle!Refund(k, p, t)
      BY <1>1, <2>2, <3>2
    <3> QED
      BY <3>3 DEF Lifecycle!Next
  <2>10. CASE operation = "BREAK"
    <3>1. Applied(operation)
            = Lifecycle!Terminal(object, "exited_noncanonical", object.sequence, tx)
      BY <2>2, <2>5, <2>10 DEF Ended, Lifecycle!Terminal, TandemObject
    <3>2. SiteStates' =
            [k \in Txid |->
               IF k \in {CreateTxid}
               THEN Lifecycle!Terminal(SiteStates[k], "exited_noncanonical",
                                       SiteStates[k].sequence, tx)
               ELSE SiteStates[k]]
      BY <1>1, <2>1, <3>1 DEF SiteStates
    <3>3. Lifecycle!Exit({CreateTxid}, tx)
      BY <1>1, <2>2, <2>3, <3>2 DEF Lifecycle!Exit, SiteStates
    <3>4. \E K \in SUBSET Txid, t \in Txid : Lifecycle!Exit(K, t)
      BY <1>1, <2>2, <3>3
    <3> QED
      BY <3>4 DEF Lifecycle!Next
  <2> QED
    BY <2>6, <2>7, <2>8, <2>9, <2>10 DEF Operation
<1> QED
  BY <1>2, <1>3 DEF SiteNext

\* applyOperation of the site implements applyStateTransition of the service, for
\* walkthroughs of any length.
THEOREM SiteImplementsLifecycle == SiteSpec => SiteMirrorsStateEngine
<1>1. SiteInit => Lifecycle!Init
  BY DEF SiteInit, Lifecycle!Init
<1>2. SiteIInv /\ [SiteNext]_object => [object' # object => Lifecycle!Next]_object
  BY SiteStepIsTransition
<1> QED
  BY <1>1, <1>2, SiteInvariant, PTL DEF SiteSpec, SiteMirrorsStateEngine
=============================================================================
