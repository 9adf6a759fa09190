\* Two buffers, so that one waits while another is written, and two due timer
\* handlers: the one a send() cancels and the one that has expired.
CONSTANTS
    MaxQueue = 2
    MaxDue = 2
SPECIFICATION FairSpec
INVARIANTS
    TypeOK
    IoCountExact
    QueueIsServed
    QuietWhenDisconnected
    StandsOnTcp
PROPERTIES
    KeepsContract
    EndingEnds
