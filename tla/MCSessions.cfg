\* Two sessions, of one user or of two, two requests at a time, one time unit more
\* than a session lives.
CONSTANTS
    Sessions = {s1, s2}
    Users = {u1, u2}
    Requests = {r1, r2}
    Ttl = 2
    RefreshAfter = 1
    MaxTime = 2
    Gone = Gone
    Nobody = Nobody
SPECIFICATION Spec
SYMMETRY Symmetry
CHECK_DEADLOCK FALSE
INVARIANTS TypeOK
PROPERTIES SignedOutForGood RevocationHolds ImplementsSessionLife UseExtends UnreadableIsOver
