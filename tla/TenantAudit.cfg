\* One id through every failure, eviction, repair and out-of-band row, under
\* callers whose clocks disagree.
SPECIFICATION FairSpec
CONSTANTS
    Ids = {i1}
    ForeignIds = {i1}
    Bindings = {b1, b2}
    Requests = {q1, q2}
    LegacyRequest = Legacy
    Absent = Absent
    Null = Null
    Times <- ThreeTimes
    MaxActive = 1
INVARIANTS
    TypeOK
    AuditOwedOrWritten
    HistoryConsistent
    RepliesTruthful
PROPERTIES
    RevocationTerminal
    OwedNeverForgotten
    NewerLayoutUntouched
    ImplementsLedger
    OwedEventuallyWritten
