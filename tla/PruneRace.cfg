\* Overlapping marks of one key through its expiry, with prunes, failures and
\* kills.
SPECIFICATION Spec
CONSTANTS
    Marks = {m1, m2, m3}
    Keys = {k1}
    TTLs = {1, 2}
    MaxTime = 2
    None = None
SYMMETRY MarkSymmetry
CHECK_DEADLOCK FALSE
INVARIANTS
    OneTruePerRetention
