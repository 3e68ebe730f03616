----------------------------- MODULE HostedPort -----------------------------
(***************************************************************************)
(* The classical port of the External Verifier algorithm behind            *)
(* POST /v1/verify (integrations/hosted-verify/src/verify): the checks     *)
(* that need no registry, as a cascade of refusals in the order of the     *)
(* code.  It verifies no proof: what it trusts is the operator's           *)
(* signature.                                                              *)
(***************************************************************************)
EXTENDS Presentations, Verdicts

CONSTANTS
    HostedCapabilityMap,     \* CAPABILITY_MAP over the default: [token -> permissions]
    MaxRetentionSeconds      \* MAX_NONCE_RETENTION_SECONDS

HostedRequest ==
    <<<<"requestShape", "malformed_input">>, <<"requestVersion", "unsupported_version">>>>

HostedDecode == <<<<"undecodable", "invalid_bundle">>, <<"bvp", "unsupported_version">>>>

HostedAgentSlot ==
    <<<<"agentSlot", "invalid_bundle">>, <<"agentEnvelope", "invalid_proof">>,
      <<"credential", "invalid_bundle">>>>

HostedZkSlots ==
    <<<<"humanSlot", "invalid_bundle">>, <<"humanEnvelope", "invalid_proof">>,
      <<"delegationSlot", "invalid_bundle">>, <<"hopEnvelope", "invalid_proof">>,
      <<"leaf", "delegation_invalid">>>>

HostedBinding ==
    <<<<"binding", "invalid_bundle">>, <<"bindingV1", "unsupported_version">>, <<"sig", "invalid_bundle">>>>

HostedParse(p) == Unflawed(p, HostedDecode \o HostedAgentSlot \o HostedZkSlots \o HostedBinding)

HostedTrust(p, trusted) ==
    <<<<"operatorNumber" \notin p.flaws, "internal_error">>,
      <<p.operator \in trusted, "untrusted_root">>>>

HostedSignature(p) ==
    <<<<"sigNumber" \notin p.flaws, "internal_error">>,
      <<SignedBinding(p), "invalid_signature">>,
      <<p.binding.expiry = p.expiry, "invalid_bundle">>>>

\* checkRequestBinding and checkModelBinding.
HostedMatch(p, asked) ==
    <<<<asked.subject = p.binding.subject /\ asked.model = p.binding.model, "request_mismatch">>,
      <<asked.capabilities \subseteq p.binding.capabilities, "request_mismatch">>,
      <<"modelNumber" \notin p.flaws, "internal_error">>,
      <<p.model = asked.model, "model_mismatch">>>>

\* assertScopeAnchored, requiredBits, assertSubset.
HostedScope(p, asked) ==
    LET required == UNION {HostedCapabilityMap[c] :
                              c \in asked.capabilities \cap DOMAIN HostedCapabilityMap}
    IN  <<<<p.scope = Scope(p), "invalid_proof">>,
          <<asked.capabilities \subseteq DOMAIN HostedCapabilityMap, "unknown_capability">>,
          <<ValidCumulative(p.permissions) /\ ValidCumulative(required), "internal_error">>,
          <<required \subseteq p.permissions, "scope_exceeded">>>>

HostedVerdictUnanchored(p, asked, trusted, now) ==
    FirstRefusal(
        Unflawed(p, HostedRequest) \o <<<<"kind" \notin p.flaws, "invalid_proof">>>> \o HostedParse(p)
            \o <<<<p.human = None /\ p.delegation = <<>>, "invalid_proof">>>>
            \o HostedTrust(p, trusted) \o HostedSignature(p) \o HostedScope(p, asked)
            \o HostedMatch(p, asked)
            \o <<<<now < p.expiry, "expired">>, <<p.nullifier # None, "nonce_missing">>>>,
        "allow")
\* verifyClassical: `asked` is the request's context and `now` its now_unix.
HostedVerdict(p, asked, trusted, now) ==
    FirstRefusal(
        Unflawed(p, HostedRequest) \o <<<<"kind" \notin p.flaws, "invalid_proof">>>> \o HostedParse(p)
            \o <<<<p.human = None /\ p.delegation = <<>>, "invalid_proof">>>>
            \o HostedTrust(p, trusted) \o HostedSignature(p) \o HostedMatch(p, asked)
            \o HostedScope(p, asked)
            \o <<<<now < p.expiry, "expired">>, <<p.nullifier # None, "nonce_missing">>>>,
        "allow")

HostedRetainUntil(p, now) ==
    IF p.expiry < now + MaxRetentionSeconds THEN p.expiry ELSE now + MaxRetentionSeconds
HostedNonces(p, now) ==
    {[issuer |-> p.operator, nonce |-> <<"agent", p.nullifier>>,
      retain_until |-> HostedRetainUntil(p, now)]}
=============================================================================
