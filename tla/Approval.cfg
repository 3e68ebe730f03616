\* Attempts in two processes at what two approvals allow.
SPECIFICATION Spec
CONSTANTS
    c1 = c1
    c2 = c2
    t1 = t1
    t2 = t2
    t3 = t3
    v1 = v1
    v2 = v2
    OutOfDomain = OutOfDomain
    Contexts = {c1, c2}
    Texts <- MCTexts
    ValueOf <- MCValueOf
    Inputs <- MCInputs
    Signers = {s1, s2}
    Trusted = s1
    Observers = {o1}
    Attempts = {a1, a2}
    Times <- ThreeTimes
    NoReading = NoReading
    MaxReceipts = 2
    None = None
VIEW View
SYMMETRY AttemptSymmetry
CHECK_DEADLOCK FALSE
INVARIANTS
    OnceDispatchedOnce
    DispatchedAsApproved
    SpentForACause
    LinkedIffExecuted
