\* One version, a poll loop and a Lambda: what the task, its redeliveries and
\* the user's edits may do to it.
CONSTANTS
    Versions = {v}
    Editors = {e}
    Pollers = {p}
    Lambdas = {l}
    MaxReceive = 2
    BatchSize = 1
    NoMsg = NoMsg
    NoOwner = NoOwner
SPECIFICATION Spec
INVARIANTS VersionsAreSound StallsOnlyThroughRaces
PROPERTIES CompletedIsLeftAlone EveryVersionSettles
CHECK_DEADLOCK FALSE
