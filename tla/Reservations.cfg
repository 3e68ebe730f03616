\* Reservations that lapse, are refreshed and fill the store, with instants out
\* of order and a cursor that visits one entry a call.
SPECIFICATION NFairSpec
CONSTANTS
    k1 = k1
    k2 = k2
    k3 = k3
    Keys <- MCKeys
    EntryLists <- MCEntryLists
    MaxEntries = 2
    MaxRetention = 2
    SWEEP_BUDGET = 1
    LAG = 1
    MaxTime = 2
    Unset = Unset
    None = None
PROPERTIES
    ImplementsGuard
    ElapsedReclaimed
