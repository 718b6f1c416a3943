\* What the ADR says of clustering, against a board that lists one job twice
\* (same company, title and place, two pages).
CONSTANTS
    A = A  B = B  a1 = a1  a2 = a2  b1 = b1  k1 = k1
    Sources = {A}
    Listings <- WithinSource
    Keys = {k1}
    Workers = {w1}
    SourceOf <- MCSourceOf
    KeyOf <- MCKeyOf
    Contents = {c1, c2}
    Scores = {1, 2}
    MaxRuns = 2
    Rejected = Rejected
    Unusable = Unusable
    Unavailable = Unavailable
    Gone = Gone
    NoJob = NoJob
    NoPosting = NoPosting
    NoKey = NoKey
    NoSource = NoSource
SPECIFICATION Spec
INVARIANT PersistSucceedsAlone
CHECK_DEADLOCK FALSE
