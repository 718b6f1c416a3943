\* What the docs say of manual postings, against a fetched job that is
\* clustered into one and then disappears from its board.
CONSTANTS
    A = A  B = B  a1 = a1  a2 = a2  b1 = b1  k1 = k1
    Sources = {A, B}
    Listings <- AcrossSources
    Keys = {k1}
    Workers = {w1}
    SourceOf <- MCSourceOf
    KeyOf <- MCKeyOf
    Contents = {c1, c2}
    Scores = {1, 2}
    MaxRuns = 2
    Rejected = Rejected
    Unusable = Unusable
    Unavailable = Unavailable
    Gone = Gone
    NoJob = NoJob
    NoPosting = NoPosting
    NoKey = NoKey
    NoSource = NoSource
SPECIFICATION Spec
INVARIANT ManualIsNeverPruned
CHECK_DEADLOCK FALSE
