\* Rings of roots that wrap around twice, and the chains of two sessions up to
\* and past every expiry.
SPECIFICATION Spec
CONSTANTS
    read = read
    write = write
    a1 = a1
    a2 = a2
    h1 = h1
    h2 = h2
    Agents <- MCAgents
    Permissions <- MCPermissions
    Requires <- MCRequires
    PermissionsOf <- MCPermissionsOf
    ExpiryOf <- MCExpiryOne
    Scopes = {s1}
    Zero = Zero
    Humans = {h1, h2}
    Nonces = {n1, n2}
    ROOT_HISTORY_SIZE = 2
    MAX_DELEGATION_HOPS = 2
    SKEW = 1
    MaxTime = 2
    MaxUpdates = 5
SYMMETRY NonceSymmetry
CONSTRAINT Explored
INVARIANTS
    RootWindow
    ChainsKept
    NoProofReplayed
PROPERTIES
    AcceptedInForce
