---------------------------- MODULE InProcessPort ---------------------------
(***************************************************************************)
(* The classical port the payment gate runs in its own process             *)
(* (integrations/mpp-payments/src/classical.ts, bundle.ts, tiers.ts), as a *)
(* cascade of refusals in the order of the code.  The gate builds its      *)
(* request itself, so there is no request to validate; the mandates it     *)
(* accepts are standing authorizations, so it consumes no nonce.           *)
(***************************************************************************)
EXTENDS Presentations, Verdicts

InProcessDecode == <<<<"undecodable", "invalid_bundle">>, <<"bvp", "unsupported_version">>>>

InProcessAgentSlot ==
    <<<<"agentSlot", "invalid_bundle">>, <<"agentEnvelope", "invalid_proof">>,
      <<"credential", "invalid_bundle">>>>

InProcessBinding ==
    <<<<"binding", "invalid_bundle">>, <<"bindingV1", "unsupported_version">>, <<"sig", "invalid_bundle">>>>

\* parseBundle only notes that a zk slot is there, without looking into it.
InProcessParse(p) ==
    Unflawed(p, InProcessDecode \o InProcessAgentSlot \o InProcessBinding)
        \o <<<<p.human = None /\ p.delegation = <<>>, "invalid_proof">>>>

InProcessTrust(p, trusted) ==
    <<<<"operatorNumber" \notin p.flaws, "invalid_bundle">>,
      <<trusted # {}, "internal_error">>,
      <<p.operator \in trusted, "untrusted_root">>>>

InProcessSignature(p) ==
    <<<<"sigNumber" \notin p.flaws, "invalid_bundle">>,
      <<SignedBinding(p), "invalid_signature">>>>

InProcessExpiryUnbound(p) == <<<<TRUE, "invalid_bundle">>>>
InProcessExpiry(p) == <<<<p.binding.expiry = p.expiry, "invalid_bundle">>>>

InProcessMatch(p, asked) ==
    <<<<asked.subject = p.binding.subject /\ asked.model = p.binding.model, "request_mismatch">>,
      <<asked.capabilities \subseteq p.binding.capabilities, "request_mismatch">>,
      <<"modelNumber" \notin p.flaws, "invalid_bundle">>,
      <<p.model = asked.model, "model_mismatch">>>>

\* requiredPermissionBits.
RequiredPermissions(capabilities) ==
    UNION {MppCapabilityMap[c] : c \in capabilities \cap DOMAIN MppCapabilityMap}

InProcessScope(p, asked) ==
    LET required == RequiredPermissions(asked.capabilities)
    IN  <<<<p.scope = Scope(p), "invalid_proof">>,
          <<asked.capabilities \subseteq DOMAIN MppCapabilityMap, "unknown_capability">>,
          <<ValidCumulative(p.permissions) /\ ValidCumulative(required), "invalid_bundle">>,
          <<required \subseteq p.permissions, "scope_exceeded">>>>

InProcessVerdict(p, asked, trusted, now) ==
    FirstRefusal(
        InProcessParse(p) \o InProcessTrust(p, trusted) \o InProcessSignature(p) \o InProcessExpiry(p)
            \o InProcessMatch(p, asked) \o InProcessScope(p, asked)
            \o <<<<now < p.expiry, "expired">>>>,
        "allow")
=============================================================================
