\* Two fetches of one host whose Crawl-delay is longer than the default; two hits of
\* one limited key over three windows; two saves of one user; one user's rows under
\* every migration; one source of two postings at a time with two scored at once.
CONSTANTS
    Callers = {c1, c2}
    Hosts = {h}
    MinInterval = 1
    CrawlDelay = 2
    Ttl = 2
    MaxRedirects = 1
    NoHost = NoHost
    NoEntry = NoEntry
    Resting = Resting
    Unset = Unset
    NoRow = NoRow
    NoDocument = NoDocument
    Nothing = Nothing
    Employer = Employer
    BoardPage = BoardPage
    Unavailable = Unavailable
SPECIFICATION PartsSpec
CHECK_DEADLOCK FALSE
INVARIANTS TypesOK LimitHolds MigrationsRun KeptSuits
PROPERTIES FetchesAreSpaced RobotsAreObeyed EveryFetchEnds SavesAreWhole DeletesStayInBounds PruningIsGrounded
