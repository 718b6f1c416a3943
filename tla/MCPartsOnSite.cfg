\* The parts again, for what the rules make of a job that is on site.
CONSTANTS
    Callers = {c1, c2}
    Hosts = {h}
    MinInterval = 1
    CrawlDelay = 2
    Ttl = 2
    MaxRedirects = 1
    NoHost = NoHost
    NoEntry = NoEntry
    Resting = Resting
    Unset = Unset
    NoRow = NoRow
    NoDocument = NoDocument
    Nothing = Nothing
    Employer = Employer
    BoardPage = BoardPage
    Unavailable = Unavailable
SPECIFICATION PartsSpec
CHECK_DEADLOCK FALSE
INVARIANTS OnSiteIsDropped
