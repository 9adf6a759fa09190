\* Two sessions are enough for one to take over from the other while either's
\* operations are outstanding; three would only repeat it.
CONSTANTS
    Sessions = {s1, s2}
    NoSession = NoSession
    RebindDelay = 5000
    MaxQueue = 2
    MaxChunk = 2
SPECIFICATION FairSpec
INVARIANTS
    AuthorizedIsLive
    BooksAgree
    LastEventTells
PROPERTIES
    ClosedIsDestroyed
