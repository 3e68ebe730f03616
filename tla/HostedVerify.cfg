\* Three overlapping requests about one credential.
SPECIFICATION HSpec
CONSTANTS
    Ids = {i1}
    ForeignIds = {}
    Bindings = {b1}
    Requests = {q1, q2, q3}
    LegacyRequest = Legacy
    Absent = Absent
    Null = Null
    Times <- TwoTimes
    MaxActive = 1
    BindingOf <- MCBindingOf
    ExpiryOf <- MCExpiryOf
    Configs <- MCConfigs
VIEW View
SYMMETRY RequestSymmetry
INVARIANTS
    NoActiveAnswerAfterRevocation
    AcknowledgedWritesStored
    VerdictMatchesRegistry
