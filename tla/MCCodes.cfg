\* Two codes of up to three wrong tries, one browser, two requests at a time.
CONSTANTS
    Browsers = {b1}
    Requests = {r1, r2}
    MaxCodes = 2
    MaxAttempts = 3
    NoItem = NoItem
    NoBrowser = NoBrowser
SPECIFICATION Spec
SYMMETRY Symmetry
CHECK_DEADLOCK FALSE
INVARIANTS ItemsAreSound CodeWorksOnce AttemptsAreExact NewestCodeIsThere
PROPERTIES ImplementsCodeLife SignedInHasUser
