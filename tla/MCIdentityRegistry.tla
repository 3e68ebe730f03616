------------------------- MODULE MCIdentityRegistry -------------------------
EXTENDS IdentityRegistry, TLC

CONSTANTS read, write, a1, a2, h1, h2

MCPermissions == {read, write}
MCRequires == {<<write, read>>}
MCAgents == {a1, a2}
MCPermissionsOf == a1 :> {read, write} @@ a2 :> {read}
MCExpiryOf == [a \in Agents |-> 2]
MCExpiryOne == [a \in Agents |-> 1]
NonceSymmetry == Permutations(Nonces)

\* What is explored: rings of roots, with a handshake and a hop of one moment made
\* against them, and the chains of two sessions of one human over all times, with
\* few roots.
OneHuman == h2 \notin Elements(humanTree.leaves) /\ \A s \in Scopes : HumanNullifier(h2, s) \notin humanRevocations
ShortRings == Len(roots.human) <= 2 /\ Len(roots.agent) <= 2
OneMoment ==
    /\ now = 0 /\ humanRevocations = {}
    /\ Cardinality(usedNonces) <= 1 /\ \A n \in Nonces : Len(accepted[n]) <= 2
Explored == (OneHuman /\ ShortRings) \/ OneMoment
=============================================================================
