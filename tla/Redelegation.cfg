\* C3.1 against a delegator that holds less than its credential.
SPECIFICATION Spec
CONSTANTS
    read = read
    write = write
    a1 = a1
    a2 = a2
    h1 = h1
    h2 = h2
    Agents <- MCAgents
    Permissions <- MCPermissions
    Requires <- MCRequires
    PermissionsOf <- MCPermissionsOf
    ExpiryOf <- MCExpiryOf
    Scopes = {s1}
    Zero = Zero
    Humans = {h1}
    Nonces = {n1}
    ROOT_HISTORY_SIZE = 2
    MAX_DELEGATION_HOPS = 2
    SKEW = 1
    MaxTime = 2
    MaxUpdates = 2
INVARIANTS
    DelegationComplete
