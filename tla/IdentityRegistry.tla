-------------------------- MODULE IdentityRegistry --------------------------
(***************************************************************************)
(* The on-chain registry (contracts/contracts/IdentityRegistry.sol): two   *)
(* Merkle trees with a ring buffer of recent roots each, mutual handshakes *)
(* bound to a nonce, and delegation chains that extend a handshake.        *)
(*                                                                         *)
(* A transaction is one action; a call that reverts changes nothing and is *)
(* no step, so an action's guard is the conjunction of the checks its      *)
(* function passes.  Poseidon and Groth16 are idealised: a commitment is   *)
(* the record it hashes, a root is the sequence of leaves (and, as in      *)
(* LeanIMT, the leaf itself for a tree of one), and a proof is accepted by *)
(* its verifier contract exactly when the statement of its circuit holds   *)
(* of the public signals.                                                  *)
(***************************************************************************)
EXTENDS Integers, Sequences, FiniteSets

CONSTANTS
    Humans,                \* identity commitments
    Agents,                \* credential commitments
    PermissionsOf,         \* [Agents -> SUBSET Permissions], hashed in the commitment
    ExpiryOf,              \* [Agents -> Nat], likewise
    Permissions,           \* the bits of a permission mask
    Requires,              \* pairs <<bit, lower bit>> of the cumulative encoding
    Scopes,                \* human-side scopes (external nullifiers)
    Nonces,                \* session nonces
    Zero,                  \* the field element 0: a cleared leaf, an empty slot
    ROOT_HISTORY_SIZE,     \* 30
    MAX_DELEGATION_HOPS,   \* 3
    SKEW,                  \* DELEGATION_TIMESTAMP_SKEW
    MaxTime,               \* bound: block timestamps explored
    MaxUpdates             \* bound: root updates of each tree explored

ASSUME RegistryAssumption ==
    /\ ROOT_HISTORY_SIZE \in Nat \ {0}
    /\ MAX_DELEGATION_HOPS \in Nat
    /\ SKEW \in Nat /\ MaxTime \in Nat /\ MaxUpdates \in Nat
    /\ PermissionsOf \in [Agents -> SUBSET Permissions]
    /\ ExpiryOf \in [Agents -> Nat]
    /\ Zero \notin Humans \cup Agents
    /\ \A leaf \in Humans \cup Agents \cup {Zero} :
           leaf \notin Seq(Humans \cup Agents \cup {Zero})   \* a leaf is no inner node

VARIABLES
    humanTree, agentTree,      \* leaves, history, index and the exists mapping
    humanRevocations,          \* nullifiers
    usedNonces,
    usedDelegationNullifiers,
    delegationHopCount,
    lastScopeCommitment,
    now,                       \* block.timestamp
    roots,                     \* every root recorded, per tree: the enrolment events
    accepted                   \* per nonce, the handshake and delegation events

trees == <<humanTree, agentTree, roots>>
sessions == <<usedNonces, usedDelegationNullifiers, delegationHopCount,
              lastScopeCommitment, accepted>>
vars == <<trees, sessions, humanRevocations, now>>

Times == 0 .. MaxTime

-----------------------------------------------------------------------------
(* LeanIMT, and the ring buffer of roots *)

Elements(s) == {s[i] : i \in DOMAIN s}

RootOf(leaves) == IF Len(leaves) = 1 THEN leaves[1] ELSE leaves
Leaves == Humans \cup Agents \cup {Zero}
LeavesOf(root) == IF root \in Leaves THEN {root} ELSE Elements(root)

EmptyTree == [leaves |-> <<>>, history |-> [i \in 0 .. ROOT_HISTORY_SIZE - 1 |-> Zero],
              index |-> 0, exists |-> {}]

RecordRootWithoutEviction(tree, root) ==
    [tree EXCEPT !.exists = @ \cup {root}, !.history = [@ EXCEPT ![tree.index] = root],
                 !.index = (@ + 1) % ROOT_HISTORY_SIZE]

\* The two recorders _recordHumanRoot and _recordAgentRoot do the same.
RecordRoot(tree, root) ==
    LET old == tree.history[tree.index]
    IN  [tree EXCEPT !.exists = (IF old # Zero THEN @ \ {old} ELSE @) \cup {root},
                     !.history = [@ EXCEPT ![tree.index] = root],
                     !.index = (@ + 1) % ROOT_HISTORY_SIZE]

SetLeaves(tree, leaves) == RecordRoot([tree EXCEPT !.leaves = leaves], RootOf(leaves))
Insert(tree, leaf) == SetLeaves(tree, Append(tree.leaves, leaf))
Clear(tree, leaf) ==
    SetLeaves(tree, [i \in DOMAIN tree.leaves |->
                        IF tree.leaves[i] = leaf THEN Zero ELSE tree.leaves[i]])

EnrolHumans(tree) ==
    /\ humanTree' = tree
    /\ UNCHANGED <<agentTree, sessions, humanRevocations, now>>

EnrolAgents(tree) ==
    /\ agentTree' = tree
    /\ UNCHANGED <<humanTree, sessions, humanRevocations, now>>

\* A leaf must be new to its tree; a batch is as many insertions in one step.
FreshLeaves(tree, leaves) ==
    /\ \A i \in DOMAIN leaves : leaves[i] \notin Elements(tree.leaves)
    /\ \A i, j \in DOMAIN leaves : leaves[i] = leaves[j] => i = j

Bounded(recorded, n) == Len(recorded) + n <= MaxUpdates

EnrollHuman(h) ==
    /\ Bounded(roots.human, 1)
    /\ FreshLeaves(humanTree, <<h>>)
    /\ EnrolHumans(Insert(humanTree, h))
    /\ roots' = [roots EXCEPT !.human = Append(@, RootOf(humanTree'.leaves))]

EnrollAgent(a) ==
    /\ Bounded(roots.agent, 1)
    /\ FreshLeaves(agentTree, <<a>>)
    /\ EnrolAgents(Insert(agentTree, a))
    /\ roots' = [roots EXCEPT !.agent = Append(@, RootOf(agentTree'.leaves))]

EnrollHumanBatch(h, g) ==
    LET first == Insert(humanTree, h)
    IN  /\ Bounded(roots.human, 2)
        /\ FreshLeaves(humanTree, <<h, g>>)
        /\ EnrolHumans(Insert(first, g))
        /\ roots' = [roots EXCEPT !.human = @ \o <<RootOf(first.leaves), RootOf(humanTree'.leaves)>>]

EnrollAgentBatch(a, b) ==
    LET first == Insert(agentTree, a)
    IN  /\ Bounded(roots.agent, 2)
        /\ FreshLeaves(agentTree, <<a, b>>)
        /\ EnrolAgents(Insert(first, b))
        /\ roots' = [roots EXCEPT !.agent = @ \o <<RootOf(first.leaves), RootOf(agentTree'.leaves)>>]

RevokeAgent(a) ==
    /\ Bounded(roots.agent, 1)
    /\ a \in Elements(agentTree.leaves)
    /\ EnrolAgents(Clear(agentTree, a))
    /\ roots' = [roots EXCEPT !.agent = Append(@, RootOf(agentTree'.leaves))]

HumanNullifier(h, scope) == <<h, scope>>

RevokeHuman(nullifier) ==
    /\ humanRevocations' = humanRevocations \cup {nullifier}
    /\ UNCHANGED <<trees, sessions, now>>

-----------------------------------------------------------------------------
(* What the three circuits prove of their public signals *)

Cumulative(scope) == \A pair \in Requires : pair[1] \in scope => pair[2] \in scope
Holds(a) == [scope |-> PermissionsOf[a], cred |-> a, expiry |-> ExpiryOf[a]]

\* HumanUniqueness: the prover is a leaf under the root.
HumanProof(p) == p.human \in LeavesOf(p.root)

\* AgentPolicy: an unexpired credential that is a leaf under the root.
AgentProof(p) ==
    /\ p.agent \in LeavesOf(p.root)
    /\ Cumulative(PermissionsOf[p.agent])
    /\ p.time < ExpiryOf[p.agent]

\* Delegation: the delegator's credential, recomputed from the scope and the
\* expiry of the previous commitment, hands a subset on, no longer than its own.
DelegationProof(p) ==
    /\ p.previous = Holds(p.previous.cred)
    /\ p.next.scope \subseteq p.previous.scope
    /\ Cumulative(p.next.scope)
    /\ p.next.expiry <= p.previous.expiry
    /\ p.time < p.next.expiry
    /\ p.next.cred \in LeavesOf(p.root)

DelegationNullifier(p) == <<p.previous, p.next, p.nonce>>

-----------------------------------------------------------------------------
(* The proofs clients may submit: against any root ever current, for any    *)
(* nonce, and delegations that continue any commitment ever accepted.       *)

HumanProofs == [human : Humans, scope : Scopes, root : Elements(roots.human), nonce : Nonces]
AgentProofs == [agent : Agents, root : Elements(roots.agent), time : Times, nonce : Nonces]

Commitments == UNION {{e.to : e \in Elements(accepted[n])} : n \in Nonces}
Delegations(previous) ==
    [previous : {previous}, next : [scope : SUBSET Permissions, cred : Agents, expiry : Times],
     root : Elements(roots.agent), nonce : Nonces, time : Times]

-----------------------------------------------------------------------------
(* The checks of the two verification functions *)

FreshEnough(time) == time <= now + SKEW
Fresh(time) == time + SKEW >= now /\ time <= now + SKEW

AnyRoot(tree, root) == TRUE
KnownRoot(tree, root) == root \in tree.exists

BoundToNothing(p, nonce) == TRUE
BoundTo(p, nonce) == p.nonce = nonce

\* Before the chain state was kept on chain the caller supplied the previous hop.
ExtendsAny(previous, nonce) == TRUE
ExtendsChain(previous, nonce) == previous = lastScopeCommitment[nonce]

HopLeft(nonce) == delegationHopCount[nonce] + 1 <= MAX_DELEGATION_HOPS

\* verifyHandshake(human, agent, nonce)
VerifyHandshake(nonce) ==
    /\ nonce \notin usedNonces
    /\ \E human \in HumanProofs, agent \in AgentProofs :
        /\ BoundTo(human, nonce) /\ BoundTo(agent, nonce)
        /\ HumanNullifier(human.human, human.scope) \notin humanRevocations
        /\ KnownRoot(humanTree, human.root) /\ KnownRoot(agentTree, agent.root)
        /\ HumanProof(human)
        /\ AgentProof(agent)
        /\ Fresh(agent.time)
        /\ lastScopeCommitment' = [lastScopeCommitment EXCEPT ![nonce] = Holds(agent.agent)]
        /\ accepted' = [accepted EXCEPT ![nonce] = Append(@,
               [at |-> now, to |-> Holds(agent.agent), proofs |-> <<human, agent>>])]
    /\ usedNonces' = usedNonces \cup {nonce}
    /\ UNCHANGED <<trees, humanRevocations, usedDelegationNullifiers, delegationHopCount, now>>

\* verifyDelegation(previous, p, nonce)
VerifyDelegation(nonce) ==
    /\ nonce \in usedNonces
    /\ HopLeft(nonce)
    /\ \E previous \in Commitments :
        /\ ExtendsChain(previous, nonce)
        /\ \E p \in Delegations(previous) :
            /\ BoundTo(p, nonce)
            /\ Fresh(p.time)
            /\ KnownRoot(agentTree, p.root)
            /\ DelegationNullifier(p) \notin usedDelegationNullifiers
            /\ DelegationProof(p)
            /\ usedDelegationNullifiers' = usedDelegationNullifiers \cup {DelegationNullifier(p)}
            /\ lastScopeCommitment' = [lastScopeCommitment EXCEPT ![nonce] = p.next]
            /\ accepted' = [accepted EXCEPT ![nonce] =
                   Append(@, [at |-> now, to |-> p.next, proofs |-> <<p>>])]
    /\ delegationHopCount' = [delegationHopCount EXCEPT ![nonce] = @ + 1]
    /\ UNCHANGED <<trees, humanRevocations, usedNonces, now>>

\* The next block.
Tick == now < MaxTime /\ now' = now + 1 /\ UNCHANGED <<trees, sessions, humanRevocations>>

-----------------------------------------------------------------------------
Init ==
    /\ humanTree = EmptyTree /\ agentTree = EmptyTree
    /\ roots = [human |-> <<>>, agent |-> <<>>]
    /\ humanRevocations = {}
    /\ usedNonces = {}
    /\ usedDelegationNullifiers = {}
    /\ delegationHopCount = [n \in Nonces |-> 0]
    /\ lastScopeCommitment = [n \in Nonces |-> Zero]
    /\ accepted = [n \in Nonces |-> <<>>]
    /\ now = 0

Next ==
    \/ \E h \in Humans : EnrollHuman(h) \/ \E g \in Humans : EnrollHumanBatch(h, g)
    \/ \E a \in Agents : EnrollAgent(a) \/ RevokeAgent(a) \/ \E b \in Agents : EnrollAgentBatch(a, b)
    \/ \E h \in Humans, scope \in Scopes : RevokeHuman(HumanNullifier(h, scope))
    \/ \E nonce \in Nonces : VerifyHandshake(nonce) \/ VerifyDelegation(nonce)
    \/ Tick

Spec == Init /\ [][Next]_vars

-----------------------------------------------------------------------------
(* Properties *)

\* What the contract remembers of a session is what happened in it: the nonce
\* is used exactly when a handshake was accepted, the hop count is the number
\* of delegations since and never exceeds its limit, and the stored scope
\* commitment is the one of the last hop, which the next hop has to extend.
SessionStateConsistent ==
    \A n \in Nonces :
        LET hops == Len(accepted[n]) - 1
        IN  IF n \in usedNonces
            THEN /\ hops \in 0 .. MAX_DELEGATION_HOPS
                 /\ delegationHopCount[n] = hops
                 /\ lastScopeCommitment[n] = accepted[n][hops + 1].to
            ELSE accepted[n] = <<>> /\ delegationHopCount[n] = 0

\* Permissions and lifetimes only narrow along a session's chain, all the way
\* back to the credential of its handshake and not only from hop to hop.
ChainNarrows ==
    \A n \in Nonces : \A j \in DOMAIN accepted[n] : \A i \in 1 .. j - 1 :
        /\ accepted[n][j].to.scope \subseteq accepted[n][i].to.scope
        /\ accepted[n][j].to.expiry <= accepted[n][i].to.expiry

\* No proof is accepted twice, neither in the session it was made for nor in
\* another one.
NoProofReplayed ==
    \A n, m \in Nonces : \A i \in DOMAIN accepted[n], j \in DOMAIN accepted[m] :
        Elements(accepted[n][i].proofs) \cap Elements(accepted[m][j].proofs) # {}
            => n = m /\ i = j

\* The roots a proof may be made against are, in both trees, the last
\* ROOT_HISTORY_SIZE that were current: the flag of a root is cleared when its
\* slot is reused and not before.  Only the zero root escapes the eviction:
\* isValidAgentRoot(0) stays true after a tree whose only leaf was cleared.
LastRoots(recorded) ==
    {recorded[i] : i \in {j \in DOMAIN recorded : j > Len(recorded) - ROOT_HISTORY_SIZE}}

RootWindow ==
    /\ humanTree.exists \ {Zero} = LastRoots(roots.human) \ {Zero}
    /\ agentTree.exists \ {Zero} = LastRoots(roots.agent) \ {Zero}

\* Only what is in force is accepted. Revocation takes hold: once
\* ROOT_HISTORY_SIZE roots without an agent have been recorded, no handshake of
\* that agent and no delegation to it is accepted, in a new session or in one that
\* is open. So does expiry: the prover chooses the time a proof speaks about, still
\* nothing is accepted once its credential or delegation has been expired for SKEW.
AcceptedInForce ==
    [][\A n \in Nonces : Len(accepted'[n]) > Len(accepted[n]) =>
          LET last == accepted'[n][Len(accepted'[n])]
          IN  /\ \E root \in LastRoots(roots.agent) : last.to.cred \in LeavesOf(root)
              /\ last.at < last.to.expiry + SKEW]_vars

\* circuits/FORMAL-PROPERTIES.md, C3.1: a valid proof exists for every
\* delegation that narrows the delegator's scope and expiry and goes to an
\* enrolled agent.  The code refuses one whose delegator was itself narrowed.
DelegationComplete ==
    \A previous \in Commitments : \A p \in Delegations(previous) :
        /\ p.next.scope \subseteq p.previous.scope
        /\ Cumulative(p.next.scope)
        /\ p.next.expiry <= p.previous.expiry
        /\ p.time < p.next.expiry
        /\ p.next.cred \in LeavesOf(p.root)
        => DelegationProof(p)

\* A session's chain is what was accepted in it and only narrows, whichever other
\* sessions are extended in between (verifyDelegation).
ChainsKept == SessionStateConsistent /\ ChainNarrows
=============================================================================
