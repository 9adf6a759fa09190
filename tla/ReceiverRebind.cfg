\* The port is taken when the program starts, and is free later.
CONSTANTS
    Sessions = {s1}
    NoSession = NoSession
    RebindDelay = 5000
    MaxQueue = 1
    MaxChunk = 1
SPECIFICATION FairSpec
PROPERTIES
    Rebinds
