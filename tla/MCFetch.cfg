\* One source, one message at a time that two workers may both hold: the
\* failure count and the status under overlapping and repeated fetches, pause,
\* resume and removal, and every due source picked up.
CONSTANTS
    Sources = {s}
    Workers = {w1, w2}
    Messages = {m1}
    MaxFailures = 2
    NoSource = NoSource
    NoMessage = NoMessage
SPECIFICATION Spec
INVARIANTS TypeOK CounterIsExact
PROPERTIES ErrorOnlyAfterStreak UserDecidesActive DueIsPickedUp
CHECK_DEADLOCK FALSE
