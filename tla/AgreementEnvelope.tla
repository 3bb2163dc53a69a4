-------------------------- MODULE AgreementEnvelope --------------------------
(***************************************************************************)
(* The agreement envelope, and the three places that judge one:            *)
(*   - src/agreement/agreement.service.ts signs and verifies it,           *)
(*   - src/verification/verified-gateway.service.ts parses the envelopes   *)
(*     of both pipelines and makes one verification of them,               *)
(*   - site/src/lib/agreement.ts is a port of the gateway's checks for the *)
(*     inspector of the documentation site.                                *)
(*                                                                         *)
(* What a field holds is told apart only by what a check can tell: whether *)
(* it is a JSON string, and whether its text has the field's form.  A      *)
(* signature is what it was made with and made over.  The trust maps are   *)
(* whatever the operator wrote into them: nothing checks that an id stands *)
(* for a key of the right pipeline, or that no key is in both maps.        *)
(***************************************************************************)
EXTENDS Nullable, Integers, Sequences, FiniteSets

CONSTANTS
  MaxKeys,  \* bound: key pairs of a pipeline
  SignIds,  \* bound: key ids that signers are configured with
  MaxEdits  \* bound: changes made to an envelope after it was signed

VARIABLES
  trusted,    \* the trust map of each pipeline, as configured
  envelope,   \* [Pipeline -> Envelope], or None
  edits,      \* changes made so far
  agreement   \* the verification before the read, or None

agreementVars == <<trusted, envelope, edits, agreement>>

Pipeline == {"A", "B"}

TupleKeys == <<"schema", "protocol_id", "height", "block_hash", "event_root",
  "object_state_root", "chained_root", "founding_created", "all_objects",
  "active_objects", "parser_commit", "indexer_commit", "parser_binary_sha256",
  "indexer_binary_sha256">>

TupleField == {TupleKeys[i] : i \in DOMAIN TupleKeys}

SemanticFields == {"protocol_id", "height", "block_hash", "event_root",
  "object_state_root", "chained_root", "founding_created", "all_objects",
  "active_objects"}

ReleaseFields == {"parser_commit", "indexer_commit", "parser_binary_sha256",
  "indexer_binary_sha256"}

Counters == <<"height", "founding_created", "all_objects", "active_objects">>

Hashes == <<"block_hash", "event_root", "object_state_root", "chained_root",
  "parser_binary_sha256", "indexer_binary_sha256">>

Commits == <<"parser_commit", "indexer_commit">>

\* "one" and "other" have the form of their field, "unsafe" is a decimal beyond
\* the safe integers, "bad" has no field's form.  A schema has one right text.
Text == {"one", "other", "unsafe", "bad"}

\* A JSON value: string tells its type, text is what String() makes of it.
Value == [string : BOOLEAN, text : Text]

HasForm(field, text) ==
  \/ text = "one"
  \/ text = "other" /\ field # "schema"
  \/ text = "unsafe" /\ \E i \in DOMAIN Counters : Counters[i] = field

\* A key pair, and the pipeline whose operator holds it.
Key == Pipeline \X (1 .. MaxKeys)

Holder(key) == key[1]

\* Two well-formed key ids.
KeyId == {text \in Text : HasForm("key_id", text)}

\* trustedKeys of the configuration: any JSON object of well-formed ids and keys.
TrustMap == [KeyId -> Key \cup {None}]

\* shape and tupleShape: whether the envelope and its tuple are objects with
\* exactly their keys.  signedBy, signedOver: what the signature's bytes are.
Envelope == [shape : BOOLEAN, tupleShape : BOOLEAN,
             field : [{"schema", "key_id", "signature"} -> Value],
             tuple : [TupleField -> Value],
             signedBy : Key \cup {None},
             signedOver : [TupleField -> Text]]

String(text) == [string |-> TRUE, text |-> text]

Texts(e) == [f \in TupleField |-> e.tuple[f].text]

-----------------------------------------------------------------------------
(***************************************************************************)
(* Checks in the order the code makes them.                                *)
(***************************************************************************)
Check(name, holds) == [name |-> name, holds |-> holds]

\* The one that throws, or "none".
FirstFailure(checks) ==
  LET failing == {i \in DOMAIN checks : ~checks[i].holds} IN
  IF failing = {} THEN "none"
  ELSE checks[CHOOSE i \in failing : \A j \in failing : i <= j].name

FormChecks(tuple, fields) ==
  [i \in DOMAIN fields |-> Check(fields[i], HasForm(fields[i], tuple[fields[i]]))]

AssertAgreementTuple(tuple) ==
  <<Check("tuple schema", tuple["schema"] = "one"),
    Check("protocol_id", HasForm("protocol_id", tuple["protocol_id"]))>>
  \o FormChecks(tuple, Counters)
  \o <<Check("height is unsafe", tuple["height"] # "unsafe")>>
  \o FormChecks(tuple, Hashes)
  \o <<Check("release commit", \A i \in DOMAIN Commits :
                                 HasForm(Commits[i], tuple[Commits[i]]))>>

TextField(e, f) == Check(f, e.field[f].string)

ParseAgreementEnvelope(e) ==
  <<Check("envelope shape", e.shape), Check("tuple shape", e.tupleShape)>>
  \o [i \in DOMAIN TupleKeys |-> Check(TupleKeys[i], e.tuple[TupleKeys[i]].string)]
  \o AssertAgreementTuple(Texts(e))
  \o <<TextField(e, "schema"), TextField(e, "key_id"), TextField(e, "signature")>>

-----------------------------------------------------------------------------
(***************************************************************************)
(* agreement.service.ts: signing and verifying.                            *)
(***************************************************************************)
\* Mutant: the release fields are left out of the signed bytes.
CanonicalBytes_Semantic(tuple) ==
  [f \in TupleField |-> IF f \in ReleaseFields THEN "one" ELSE tuple[f]]

\* canonicalAgreementBytes, for a tuple that passes assertAgreementTuple.
CanonicalBytes(tuple) == tuple

\* The key id is put into the envelope; the signature does not cover it.
SignAgreementTuple(key, id, tuple) ==
  [shape |-> TRUE, tupleShape |-> TRUE,
   field |-> [f \in {"schema", "key_id", "signature"} |->
                IF f = "key_id" THEN String(id) ELSE String("one")],
   tuple |-> [f \in TupleField |-> String(tuple[f])],
   signedBy |-> key, signedOver |-> CanonicalBytes(tuple)]

VerifyAgreementEnvelope(e, publicKey) ==
  /\ e.field["schema"].text = "one"
  /\ HasForm("key_id", e.field["key_id"].text)
  /\ HasForm("signature", e.field["signature"].text)
  /\ FirstFailure(AssertAgreementTuple(Texts(e))) = "none"
  /\ e.signedBy = publicKey /\ e.signedOver = CanonicalBytes(Texts(e))

-----------------------------------------------------------------------------
(***************************************************************************)
(* verified-gateway.service.ts: one verification out of two envelopes.     *)
(***************************************************************************)
VerifyTrustedEnvelope(e, keys) ==
  /\ FirstFailure(ParseAgreementEnvelope(e)) = "none"
  /\ e.field["schema"].text = "one"
  /\ \E id \in KeyId :
       /\ e.field["key_id"].text = id /\ keys[id] # None
       /\ VerifyAgreementEnvelope(e, keys[id])

\* The gateway refuses it before it looks at keys and signatures.
GatewayRejectsForm(e) ==
  \/ FirstFailure(ParseAgreementEnvelope(e)) # "none"
  \/ e.field["schema"].text # "one"
  \/ ~HasForm("key_id", e.field["key_id"].text)
  \/ ~HasForm("signature", e.field["signature"].text)

SemanticallyEqual(a, b) ==
  \A f \in SemanticFields : a.tuple[f].text = b.tuple[f].text

Verified ==
  /\ \A p \in Pipeline : envelope[p] # None
  /\ \A p \in Pipeline : VerifyTrustedEnvelope(envelope[p], trusted[p])
  /\ SemanticallyEqual(envelope["A"], envelope["B"])

\* Mutant: what is kept of a pipeline does not tell its signature and release.
PipelineIdentity_KeyOnly(e) == e.field["key_id"].text

PipelineIdentity(e) ==
  [keyId |-> e.field["key_id"].text,
   signature |-> <<e.signedBy, e.signedOver>>,
   release |-> [f \in ReleaseFields |-> e.tuple[f].text]]

\* The metadata that executeBound compares as JSON before and after a read.
Metadata(a, b) ==
  [semantic |-> [f \in SemanticFields |-> a.tuple[f].text],
   pipelineA |-> PipelineIdentity(a),
   pipelineB |-> PipelineIdentity(b)]

-----------------------------------------------------------------------------
(***************************************************************************)
(* agreement.ts of the site: inspectEnvelope.                              *)
(***************************************************************************)
TupleRules == <<"protocol_id", "height", "block_hash", "event_root",
  "object_state_root", "chained_root", "founding_created", "all_objects",
  "active_objects", "parser_commit", "indexer_commit", "parser_binary_sha256",
  "indexer_binary_sha256">>

\* Mutant: the height may be any decimal.
InspectEnvelope_AnyHeight(e) ==
  <<Check("envelope shape", e.shape), Check("tuple shape", e.tupleShape)>>
  \o [i \in DOMAIN TupleKeys |-> Check(TupleKeys[i], e.tuple[TupleKeys[i]].string)]
  \o <<Check("tuple schema", Texts(e)["schema"] = "one")>>
  \o FormChecks(Texts(e), TupleRules)
  \o <<Check("envelope schema", e.field["schema"] = String("one")),
       Check("key_id", HasForm("key_id", e.field["key_id"].text)),
       Check("signature", HasForm("signature", e.field["signature"].text))>>

\* The key id and the signature are judged by what String() makes of them.
InspectEnvelope(e) ==
  <<Check("envelope shape", e.shape), Check("tuple shape", e.tupleShape)>>
  \o [i \in DOMAIN TupleKeys |-> Check(TupleKeys[i], e.tuple[TupleKeys[i]].string)]
  \o <<Check("tuple schema", Texts(e)["schema"] = "one")>>
  \o FormChecks(Texts(e), TupleRules)
  \o <<Check("height is unsafe", Texts(e)["height"] # "unsafe"),
       Check("envelope schema", e.field["schema"] = String("one")),
       Check("key_id", HasForm("key_id", e.field["key_id"].text)),
       Check("signature", HasForm("signature", e.field["signature"].text))>>

InspectorRejects(e) == FirstFailure(InspectEnvelope(e)) # "none"

-----------------------------------------------------------------------------
(***************************************************************************)
(* Pipelines sign; an envelope may be changed before it is judged.         *)
(***************************************************************************)
\* signedAt takes a tuple from the tables.  Any one field may differ from what
\* the other pipeline has, or from what the same pipeline had before.
StoredTuple ==
  {[[f \in TupleField |-> "one"] EXCEPT ![g] = "other"] : g \in TupleField \ {"schema"}}
  \cup {[f \in TupleField |-> "one"]}

\* Both maps are frozen when the service starts.
AgreementInit ==
  /\ trusted \in [Pipeline -> TrustMap]
  /\ envelope = [p \in Pipeline |-> None]
  /\ edits = 0
  /\ agreement = None

\* The signer of a pipeline is configured with one of its keys, under some id.
Sign(p, key, id, tuple) ==
  /\ envelope[p] = None
  /\ Holder(key) = p
  /\ FirstFailure(AssertAgreementTuple(tuple)) = "none"
  /\ envelope' = [envelope EXCEPT ![p] = SignAgreementTuple(key, id, tuple)]
  /\ UNCHANGED <<trusted, edits, agreement>>

Edit(p, changed) ==
  /\ agreement = None
  /\ edits < MaxEdits
  /\ envelope' = [envelope EXCEPT ![p] = changed]
  /\ edits' = edits + 1
  /\ UNCHANGED <<trusted, agreement>>

LoseKeys(p) ==
  /\ envelope[p] # None
  /\ \/ Edit(p, [envelope[p] EXCEPT !.shape = FALSE])
     \/ Edit(p, [envelope[p] EXCEPT !.tupleShape = FALSE])

ChangeTuple(p, f, v) ==
  /\ envelope[p] # None
  /\ v # envelope[p].tuple[f]
  /\ Edit(p, [envelope[p] EXCEPT !.tuple[f] = v])

ChangeField(p, f, v) ==
  /\ envelope[p] # None
  /\ v # envelope[p].field[f]
  /\ Edit(p, [envelope[p] EXCEPT
       !.field[f] = v,
       !.signedBy = IF f = "signature" THEN None ELSE @])

\* PIPELINE_B_BASE_URL leads back to this pipeline.
Echo ==
  /\ envelope["A"] # None /\ envelope["B"] # envelope["A"]
  /\ Edit("B", envelope["A"])

\* The first resolution ends and the second begins.
VerifyBefore ==
  /\ agreement = None
  /\ Verified
  /\ agreement' = [metadata |-> Metadata(envelope["A"], envelope["B"]),
                   tuples |-> [p \in Pipeline |-> Texts(envelope[p])]]
  /\ envelope' = [p \in Pipeline |-> None]
  /\ edits' = 0
  /\ UNCHANGED trusted

AgreementNext ==
  \/ \E p \in Pipeline :
       \/ \E key \in Key, id \in SignIds, tuple \in StoredTuple : Sign(p, key, id, tuple)
       \/ LoseKeys(p)
       \/ \E v \in Value :
            \/ \E f \in TupleField : ChangeTuple(p, f, v)
            \/ \E f \in {"schema", "key_id", "signature"} : ChangeField(p, f, v)
  \/ Echo
  \/ VerifyBefore

\* AGREEMENT_KEY_ID passes the same pattern as the ids of the maps.
ASSUME AgreementAssumption == SignIds \subseteq KeyId

AgreementSpec == AgreementInit /\ [][AgreementNext]_agreementVars

-----------------------------------------------------------------------------
(* Properties *)

OnlyStrings(e) == \A f \in DOMAIN e.field : e.field[f].string

\* The site's inspector and the gateway judge the form of an envelope alike
\* (site/src/lib/agreement.ts: "so the inspector on this site reaches the same
\* verdict the service would"), whatever single thing is wrong with it, as far
\* as its key id, signature and schema are JSON strings.
SameVerdictOnStrings ==
  \A p \in Pipeline :
    envelope[p] # None /\ OnlyStrings(envelope[p]) =>
      (InspectorRejects(envelope[p]) <=> GatewayRejectsForm(envelope[p]))

\* The same of any JSON value.
SameVerdict ==
  \A p \in Pipeline :
    envelope[p] # None =>
      (InspectorRejects(envelope[p]) <=> GatewayRejectsForm(envelope[p]))

\* No pipeline holds keys of both maps.  The service cannot check it: "keeping
\* them separate is the operator's job" (docs/configuration.md).
MapsAreSeparate ==
  \A a, b \in KeyId :
    trusted["A"][a] # None /\ trusted["B"][b] # None
      => Holder(trusted["A"][a]) # Holder(trusted["B"][b])

\* Whatever the trust maps are, what is verified was signed as it is, every field
\* of the tuple, with the key that the map of its pipeline has for the id the
\* envelope names, and nothing around the tuple was changed but, at most, that id
\* to another of the same key; both say the same of the chain.  If the maps are
\* separate, two pipelines said it: an own envelope that comes back as pipeline
\* B's is refused.  (verifyTrustedEnvelope, establishVerifiedAgreement.)
VerifiedMeansSigned ==
  Verified =>
    /\ \A p \in Pipeline :
         /\ envelope[p].signedOver = Texts(envelope[p])
         /\ \E id \in KeyId :
              envelope[p] = SignAgreementTuple(trusted[p][id], id, Texts(envelope[p]))
         /\ \A f \in SemanticFields : Texts(envelope[p])[f] = Texts(envelope["A"])[f]
    /\ MapsAreSeparate =>
         Holder(envelope["A"].signedBy) # Holder(envelope["B"].signedBy)

\* Two verifications that compare equal are about the same tuples of both
\* pipelines, release fields included, so no change during a read goes
\* unnoticed that is still there at its end.
SameMetadataSameTuples ==
  Verified /\ agreement # None
    /\ Metadata(envelope["A"], envelope["B"]) = agreement.metadata
  => \A p \in Pipeline : Texts(envelope[p]) = agreement.tuples[p]
=============================================================================
