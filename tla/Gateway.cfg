\* Three requests of two runs of a gateway, in five deployments.
SPECIFICATION Spec
CONSTANTS
    n0 = n0
    n1 = n1
    n01 = n01
    s0 = s0
    s1 = s1
    k1 = k1
    k2 = k2
    q1 = q1
    q2 = q2
    q3 = q3
    None = None
    Instances = {g1}
    Requests = {q1, q2, q3}
    Nonces = {n0, n1, n01}
    Credentials <- MCCredentials
    Configs <- MCConfigs
    Policies <- MCPolicies
    Implies <- MCImplies
    MaxProofAge = 2
    MaxTime = 3
    MaxRuns = 2
VIEW View
SYMMETRY CallerSymmetry

CHECK_DEADLOCK FALSE
INVARIANTS
    LogTruthful
    ReplayBounded
    ForwardedWithinGrant
