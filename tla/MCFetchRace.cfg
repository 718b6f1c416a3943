\* What the docs say of a source in error, against two fetches that record
\* their outcomes at once.
CONSTANTS
    Sources = {s}
    Workers = {w1, w2}
    Messages = {m1, m2}
    MaxFailures = 2
    NoSource = NoSource
    NoMessage = NoMessage
SPECIFICATION SafetySpec
PROPERTIES ErrorMeansStreak
CHECK_DEADLOCK FALSE
