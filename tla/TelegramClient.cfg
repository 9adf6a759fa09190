\* Two updates can come in one answer or in two, two messages can overtake a
\* poll one by one or together, and two timer handlers can be due at once.
CONSTANTS
    RetryDelay = 5000
    MaxUpdates = 2
    MaxMessages = 2
    MaxDue = 2
SPECIFICATION FairSpec
INVARIANTS
    TypeOK
    BusyWithRequest
    UpdatesInOrder
    NeverStalls
PROPERTIES
    OnlyPollsGiveWay
    KeepsAsking
