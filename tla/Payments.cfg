\* Overlapping MPP gate invocations and x402 attempts that share mandates, quotes
\* and a nonce store, with slow verifiers, a full store, and signers that fail.
SPECIFICATION MCSpec
CONSTANTS
    k1 = k1
    k2 = k2
    Keys <- MCKeys
    EntryLists <- MCEntryLists
    MaxEntries = 3
    MaxRetention = 4
    SWEEP_BUDGET = 1
    LAG = 2
    MaxTime = 2
    Unset = Unset
    None = None
    Invocations = {q1, q2, q3}
    Captured = {c1}
    Retentions = {1, 5}
    ENFORCE = "payment"
    Attempts = {a1, a2}
    Headers <- MCHeaders
    Contexts <- MCContexts
    Mandates <- MCMandates
    AUDIENCE = "merchant"
    MAX_SECONDS = 1
    MAX_ACCEPTANCE = 5
    Issuers <- MCIssuers
    SKEW = 2
    MAX_ACCEPTANCE_WINDOW = 5
    MAX_LOCAL_SECONDS = 2
    Currencies = {"USD", "EUR"}
    MAX_USD = 3
VIEW View
SYMMETRY Symmetry
CHECK_DEADLOCK FALSE
INVARIANTS
    NonceSpentOnce
    DenialsTruthful
    AuditedAndPaidOnce
    QuoteSpentOnce
    AllowedAsBound
