----------------------------- MODULE MCSameRules -----------------------------
(***************************************************************************)
(* Four modules about rules that the repository states in several places,  *)
(* for one run of TLC.  They share nothing: part says which of them moves. *)
(***************************************************************************)
EXTENDS AgreementEnvelope, CarrierAddress, InitDeployment, SiteObject

VARIABLE part

vars == <<part, agreementVars, addressVars, deploymentVars, object>>

\* Its address ends in the character before which bech32 cannot see a "q".
MCPrograms == {[i \in 1..32 |-> IF i = 32 THEN 2 ELSE 255]}

Map(one, other) ==
  [id \in KeyId |-> IF id = "one" THEN one ELSE other]

KeyA == <<"A", 1>>
KeyB == <<"B", 1>>

\* One id or two for A's key, and a map of B that trusts B alone, or pipeline A
\* under the id that A signs with and B under the other.
MCTrust ==
  {[p \in Pipeline |-> IF p = "A" THEN a ELSE b] :
     a \in {Map(KeyA, None), Map(KeyA, KeyA)},
     b \in {Map(KeyB, None), Map(KeyA, KeyB)}}

Init ==
  /\ part \in {"agreement", "address", "init", "site"}
  /\ AgreementInit /\ AddressInit /\ DeploymentInit /\ SiteInit
  /\ IF part = "agreement" THEN trusted \in MCTrust
     ELSE trusted = [p \in Pipeline |-> Map(None, None)]

AgreementMoves ==
  part = "agreement" /\ AgreementNext /\ UNCHANGED <<part, addressVars, deploymentVars, object>>

AddressMoves ==
  part = "address" /\ AddressNext /\ UNCHANGED <<part, agreementVars, deploymentVars, object>>

DeploymentMoves ==
  part = "init" /\ DeploymentNext /\ UNCHANGED <<part, agreementVars, addressVars, object>>

SiteMoves ==
  part = "site" /\ SiteNext /\ UNCHANGED <<part, agreementVars, addressVars, deploymentVars>>

Next == AgreementMoves \/ AddressMoves \/ DeploymentMoves \/ SiteMoves

Spec == Init /\ [][Next]_vars
=============================================================================
