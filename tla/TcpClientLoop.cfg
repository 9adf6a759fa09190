\* Two buffers may wait in the write queue, so that a write is followed by
\* another one, and by a send() while it is under way.
CONSTANTS
    Messages = {m1, m2}
    Lengths = {0, 1}
SPECIFICATION FairSpec
INVARIANTS
    TypeOK
    IoCountExact
    WriteQueueDriven
    QuietWhenDisconnected
PROPERTIES
    WritesInOrder
    KeepsContract
    DisconnectCompletes
    AttemptEnds
