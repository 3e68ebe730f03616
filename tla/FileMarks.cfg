\* Overlapping verifications through the expiry of what they mark, with prunes,
\* failures and kills.
SPECIFICATION VSpec
CONSTANTS
    v1 = v1
    v2 = v2
    v3 = v3
    agent = agent
    human = human
    hop = hop
    None = None
    Verifications = {v1, v2, v3}
    Workloads <- MCWorkloads
    Marks <- MCMarks
    Keys = {agent, human, hop}
    TTLs = {1, 2}
    Cap = 2
    MaxTime = 2
VIEW View
SYMMETRY VerificationSymmetry
CHECK_DEADLOCK FALSE
INVARIANTS
    OverlapOnlyIfLost
    AllowedAgainOnlyPastExpiry
    NullifiersAccounted
