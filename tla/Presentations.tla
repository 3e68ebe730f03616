---------------------------- MODULE Presentations ---------------------------
(***************************************************************************)
(* What an operator issues and a holder presents: a `bvp/1` bundle with    *)
(* the request it is presented for (integrations/mpp-payments/src/issue.ts *)
(* and tiers.ts, sdk/src/identity.ts).  Proofs, hashes and signatures are  *)
(* ideal: a commitment is the tuple it commits to and a signature is who   *)
(* signed what.  What no field can show, a part that does not parse or a   *)
(* proof that does not verify, is a member of `flaws`.                     *)
(***************************************************************************)
EXTENDS Naturals, Sequences, FiniteSets

CONSTANT None

-----------------------------------------------------------------------------
(* Tiers.  A tier stands for its capability token.                         *)

Tiers == <<"small", "medium", "unlimited">>

\* The smallest tier that covers an amount, and the bound it authorizes.
RequiredTier(amount) ==
    CASE amount < 100 -> "small"
      [] amount >= 100 /\ amount < 10000 -> "medium"
      [] amount >= 10000 -> "unlimited"

WithinCeiling(amount, tier) ==
    \/ tier = "small" /\ amount < 100
    \/ tier = "medium" /\ amount < 10000
    \/ tier = "unlimited"

CumulativeCapabilities(tier) ==
    {Tiers[i] : i \in 1 .. CHOOSE i \in DOMAIN Tiers : Tiers[i] = tier}

\* MPP_CAPABILITY_MAP: every tier names the permissions of the tiers below it.
MppCapabilityMap ==
    [small |-> {"SMALL"}, medium |-> {"SMALL", "MEDIUM"}, unlimited |-> {"SMALL", "MEDIUM", "UNLIMITED"}]

ValidCumulative(permissions) ==
    /\ "UNLIMITED" \in permissions => {"SMALL", "MEDIUM"} \subseteq permissions
    /\ "MEDIUM" \in permissions => "SMALL" \in permissions

-----------------------------------------------------------------------------
(* Issuance.                                                               *)

\* `subject` stands for agent_name, project_key and program; `scope` is the
\* scopeCommitment of the proof, the credential it was made for; a mandate
\* carries placeholders for a proof and for the signals a proof would have.
MintPresentation(operator, binding, permissions, nullifier) ==
    [flaws |-> {"agentProof"},
     model |-> binding.model, operator |-> operator, permissions |-> permissions,
     expiry |-> binding.expiry,
     scope |-> <<binding.model, operator, permissions, binding.expiry>>,
     root |-> "placeholder", nullifier |-> nullifier, session |-> "placeholder",
     human |-> None, delegation |-> <<>>,
     binding |-> binding,
     signature |-> [by |-> operator, over |-> binding]]

IssueMandate(operator, subject, model, tier, expiry, nullifier) ==
    MintPresentation(operator,
        [subject |-> subject, model |-> model, capabilities |-> CumulativeCapabilities(tier),
         expiry |-> expiry],
        MppCapabilityMap[tier], nullifier)

\* The operator's key verifies the signature over exactly this binding.
SignedBinding(p) == p.signature = [by |-> p.operator, over |-> p.binding]

\* scopeCommitment, recomputed from the revealed credential.
Scope(p) == <<p.model, p.operator, p.permissions, p.expiry>>

\* The checks of a cascade that only ask for the absence of a flaw.
Unflawed(p, checks) == [i \in DOMAIN checks |-> <<checks[i][1] \notin p.flaws, checks[i][2]>>]
=============================================================================
