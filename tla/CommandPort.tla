----------------------------- MODULE CommandPort ----------------------------
(***************************************************************************)
(* The algorithm of `bolyra verify --nonce-mode host`                      *)
(* (integrations/cli/src/verify), as a cascade of refusals in the order of *)
(* the code.  It verifies the Groth16 proofs against local keys, trusts    *)
(* Merkle roots and narrows the authority along a delegation chain.  What  *)
(* local mode does to its replay store is in VerifyCommand.                *)
(***************************************************************************)
EXTENDS Presentations, Verdicts

CONSTANTS
    CommandCapabilityMap,    \* --capability-map over the default
    MaxNonceTtl,             \* MAX_NONCE_TTL
    MaxHops                  \* MAX_HOPS

\* A trust configuration: whether the verification keys resolve, whether a root
\* source is configured, and the roots trusted for each tree, any-tree roots in all.

CommandRequest ==
    <<<<"requestShape", "malformed_input">>, <<"requestVersion", "unsupported_version">>>>

CommandDecode == <<<<"undecodable", "invalid_bundle">>, <<"bvp", "unsupported_version">>>>

CommandAgentSlot ==
    <<<<"agentSlot", "invalid_bundle">>, <<"agentEnvelope", "invalid_proof">>,
      <<"credential", "invalid_bundle">>>>

CommandZkSlots ==
    <<<<"humanSlot", "invalid_bundle">>, <<"humanEnvelope", "invalid_proof">>,
      <<"delegationSlot", "invalid_bundle">>, <<"hopEnvelope", "invalid_proof">>,
      <<"leaf", "delegation_invalid">>>>

CommandBinding ==
    <<<<"binding", "invalid_bundle">>, <<"bindingV1", "unsupported_version">>, <<"sig", "invalid_bundle">>>>

CommandParse(p) ==
    Unflawed(p, CommandRequest \o CommandDecode \o CommandAgentSlot \o CommandZkSlots \o CommandBinding)

\* Groth16 with the key pinned by its hash; the agent's proof, then the human's.
CommandProofs(p, trust) ==
    <<<<trust.keys, "internal_error">>,
      <<"agentProof" \notin p.flaws, "invalid_proof">>,
      <<"humanProof" \notin p.flaws, "invalid_proof">>,
      <<"operatorNumber" \notin p.flaws, "internal_error">>>>

TrustedRoot(trust, tree, root) == root \in trust.roots[tree]

CommandRoots(p, trust) ==
    <<<<trust.configured, "internal_error">>,
      <<TrustedRoot(trust, "agent", p.root), "untrusted_root">>>>

CommandHuman(p, trust) ==
    IF p.human = None THEN <<>>
    ELSE <<<<TrustedRoot(trust, "human", p.human.root), "untrusted_root">>,
           <<p.human.session = p.session, "invalid_proof">>,
           <<p.human.scope = 1, "invalid_proof">>>>

CommandSignature(p) ==
    <<<<"modelNumber" \notin p.flaws, "internal_error">>,
      <<p.scope = Scope(p), "invalid_proof">>,
      <<"sigNumber" \notin p.flaws, "internal_error">>,
      <<SignedBinding(p), "invalid_signature">>,
      <<p.binding.expiry = p.expiry, "invalid_bundle">>>>

\* The credential at the end of the chain.
Leaf(p) == p.delegation[Len(p.delegation)].leaf

\* A hop is what its proof shows: the commitments it links, its session and its
\* delegatee's tree.  The last one reveals the leaf behind its commitment.
CommandDelegation(p, trust) ==
    LET hops == p.delegation
        Previous(i) == IF i = 1 THEN p.scope ELSE hops[i - 1].next
        Links(i) == hops[i].good /\ hops[i].previous = Previous(i) /\ hops[i].session = p.session
        \* Two checks a hop: that it links, that its root is trusted.
        HopChecks == [j \in 1 .. 2 * Len(hops) |->
            LET i == (j + 1) \div 2
            IN  IF j % 2 = 1 THEN <<Links(i), "delegation_invalid">>
                ELSE <<TrustedRoot(trust, "delegatee", hops[i].root), "untrusted_root">>]
    IN  <<<<Len(hops) <= MaxHops, "delegation_invalid">>>>
        \o HopChecks
        \o (IF hops = <<>> THEN <<>>
            ELSE <<<<hops[Len(hops)].next = <<Leaf(p).permissions, Leaf(p).expiry>>, "delegation_invalid">>>>)

\* The authority and the lifetime that remain at the end of the chain.
EffectiveScope(p) == IF p.delegation = <<>> THEN p.permissions ELSE Leaf(p).permissions
EffectiveExpiry(p) ==
    IF p.delegation = <<>> \/ p.expiry < Leaf(p).expiry THEN p.expiry
    ELSE Leaf(p).expiry

CommandMatch(p, asked) ==
    <<<<asked.subject = p.binding.subject /\ asked.model = p.binding.model, "request_mismatch">>,
      <<asked.capabilities \subseteq p.binding.capabilities, "request_mismatch">>,
      <<p.model = asked.model, "model_mismatch">>>>

CommandScope(p, asked) ==
    LET required == UNION {CommandCapabilityMap[c] :
                              c \in asked.capabilities \cap DOMAIN CommandCapabilityMap}
    IN  <<<<asked.capabilities \subseteq DOMAIN CommandCapabilityMap, "unknown_capability">>,
          <<ValidCumulative(EffectiveScope(p)) /\ ValidCumulative(required), "internal_error">>,
          <<required \subseteq EffectiveScope(p), "scope_exceeded">>>>

CommandVerdict(p, asked, trust, now) ==
    FirstRefusal(
        CommandParse(p) \o CommandProofs(p, trust) \o CommandRoots(p, trust) \o CommandHuman(p, trust)
            \o CommandSignature(p) \o CommandDelegation(p, trust) \o CommandMatch(p, asked)
            \o CommandScope(p, asked)
            \o <<<<now < EffectiveExpiry(p), "expired">>, <<p.nullifier # None, "nonce_missing">>>>,
        "allow")

CommandRetainUntil(p, now) ==
    IF EffectiveExpiry(p) < now + MaxNonceTtl THEN EffectiveExpiry(p) ELSE now + MaxNonceTtl
\* consumeNonces: a prefix keeps the human's nullifier apart from the agent's.
CommandNonces(p, now) ==
    {[issuer |-> p.operator, nonce |-> n, retain_until |-> CommandRetainUntil(p, now)] :
        n \in {<<"agent", p.nullifier>>}
                \cup IF p.human = None THEN {} ELSE {<<"human", p.human.nullifier>>}}
=============================================================================
