\* Five overlapping calls on one batch; one verification of what issuers and
\* holders signed; four calls of the health route.
SPECIFICATION LSpec
CONSTANTS
    s1 = s1
    s2 = s2
    s3 = s3
    s4 = s4
    s5 = s5
    Sessions <- MCSessions
    Zero = Zero
    None = None
    Verifications = {v1}
    Scenarios <- MCScenarios
    Table <- MCTable
    SKEW = 1
    KB_MAX_AGE = 0
    LIST_BYTES = 2
    MaxPresented = 1
    MaxLists = 1
    Undefined = Undefined
    MaxCalls = 4
    HEALTH_PROBE_TTL = 3
    REGISTRY_DEADLINE = 1
    MaxInstant = 5
VIEW View
CHECK_DEADLOCK FALSE
INVARIANTS
    AnswersAccounted
    ReceiptsHonoured
    HealthAccounted
