\* One job on the boards of two sources, two workers, and the user: whose
\* posting it is, what it is ranked by, and what is pruned.
CONSTANTS
    A = A  B = B  a1 = a1  a2 = a2  b1 = b1  k1 = k1
    Sources = {A, B}
    Listings <- AcrossSources
    Keys = {k1}
    Workers = {w1, w2}
    SourceOf <- MCSourceOf
    KeyOf <- MCKeyOf
    Contents = {c1, c2}
    Scores = {1, 2}
    MaxRuns = 3
    Rejected = Rejected
    Unusable = Unusable
    Unavailable = Unavailable
    Gone = Gone
    NoJob = NoJob
    NoPosting = NoPosting
    NoKey = NoKey
    NoSource = NoSource
SPECIFICATION Spec
INVARIANTS RowsAreSound JobsAreShown
PROPERTIES CompleteRunTidies ManualIsLeftAlone
SYMMETRY Interchangeable
CHECK_DEADLOCK FALSE
