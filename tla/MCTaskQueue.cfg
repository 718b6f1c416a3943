\* A task beside a poison message, in batches of both, a poll loop and a Lambda.
CONSTANTS
    m1 = m1  m2 = m2  k1 = k1  k2 = k2
    Messages = {m1, m2}
    Keys = {k1, k2}
    KeyOf <- MCKeyOf
    Known = {m1}
    Pollers = {p}
    Lambdas = {l}
    MaxReceive = 3
    BatchSize = 2
    NoMsg = NoMsg
    NoOwner = NoOwner
SPECIFICATION Spec
INVARIANTS TypeOK RetiredOnlyAfterRun RerunOnlyThroughGap
PROPERTIES EverySubmissionSettles ImplementsTaskDelivery
CHECK_DEADLOCK FALSE
