----------------------------- MODULE McpVerify ------------------------------
(***************************************************************************)
(* verifyBundle and checkToolPolicy (integrations/mcp/src/verify.ts).  The *)
(* nonce is marked between two halves of the verification, so each half is *)
(* an operator: what refuses a bundle before the mark, and what it is      *)
(* worth after it.  Proofs are ideal: a bundle says what its proofs prove. *)
(***************************************************************************)
EXTENDS Integers, Sequences, FiniteSets, Verdicts

CONSTANTS
    MaxProofAge,   \* config.maxProofAge
    Policies,      \* config.toolPolicy: [name -> [require, minScore, maxDepth]]
    None           \* no credential

MAX_DELEGATION_HOPS == 3
ReadWrite == {"read", "write"}

\* Hops whose numbers parse: the walk of a development chain ends at the first
\* that does not.
Walked(hops) ==
    LET bad == {i \in DOMAIN hops : ~hops[i].decimal}
    IN  IF bad = {} THEN hops
        ELSE SubSeq(hops, 1, (CHOOSE i \in bad : \A j \in bad : i <= j) - 1)

Leaf(root, hops) == IF hops = <<>> THEN root ELSE hops[Len(hops)].scope

\* A hop is genuine when its proof extends the one before it in this session
\* and commits to the scope, delegatee and expiry the hop states. The time it
\* has not expired at is the prover's own.
ChainOk(hops) == \A i \in DOMAIN hops : hops[i].decimal /\ hops[i].genuine /\ hops[i].ts < hops[i].expiry

-----------------------------------------------------------------------------
(* Before the nonce is marked.                                             *)

TooDeep(b) == Len(b.hops) > MAX_DELEGATION_HOPS
DevChecks(b) ==
    <<<<b.dev, "non_dev_bundle">>,
      <<b.form # "notDecimal", "notDecimal">>,
      <<~TooDeep(b), "too_deep">>>>

ChecksBeforeMark(b, credential) ==
    <<<<~b.dev, "dev_bundle">>,
      <<b.form = "ok", b.form>>,
      <<credential # None, "no_credential">>,
      <<b.verifies # "throws", "verification_threw">>,
      <<b.rootsKnown, "unknown_roots">>>>

RefusalBeforeMark(devMode, b, credential) ==
    FirstRefusal(IF devMode THEN DevChecks(b) ELSE ChecksBeforeMark(b, credential), "ok")

-----------------------------------------------------------------------------
(* After it.                                                               *)

Points(holds, points) == IF holds THEN points ELSE 0

NonceFresh(b, now) == now - b.stamp \in 0 .. MaxProofAge - 1

\* 40 for the proofs, 20 for a credential that has not expired, 20 for a basic
\* permission, 10 for a recent nonce and 10 for a scope commitment, which no
\* proof leaves zero.
Score(b, now, leaf, valid, unexpired) ==
    Points(valid, 40) + Points(unexpired, 20) + Points(leaf \cap ReadWrite # {}, 20)
    + Points(NonceFresh(b, now), 10) + 10

Context(verified, score, permissions, depth) ==
    [verified |-> verified, score |-> score, permissions |-> permissions, depth |-> depth]
Failed == Context(FALSE, 0, {}, 0)

DevContext(b, now, minScore) ==
    LET hops == Walked(b.hops)
        leaf == Leaf(b.claimed, hops)
        score == Score(b, now, leaf, TRUE, TRUE)
    IN  Context(score >= minScore, score, leaf, Len(hops))

ProductionContext(b, now, minScore, credential) ==
    LET valid == b.verifies = "valid"
        leaf == Leaf(credential.mask, b.hops)
        score == Score(b, now, leaf, valid, credential.expiry > now)
    IN  IF b.proves # credential \/ TooDeep(b) THEN Failed
        ELSE Context(valid /\ ChainOk(b.hops) /\ score >= minScore, score, leaf, Len(b.hops))

\* checkToolPolicy: a tool without a policy asks for no more than the rest.
PolicyAllows(tool, context) ==
    tool \in DOMAIN Policies =>
        LET policy == Policies[tool]
        IN  /\ policy.require \subseteq context.permissions
            /\ context.score >= policy.minScore
            /\ context.depth <= policy.maxDepth
=============================================================================
