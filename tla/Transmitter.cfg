\* One message of the device may wait to be written, the server may be two
\* commands or answers ahead, and two timer handlers may be due at once: the
\* cancelled heartbeat and the reconnect.
CONSTANTS
    ReconnectDelay = 5000
    BufferLimit = 3
    MaxQueue = 1
    MaxIncoming = 4
    MaxDue = 2
SPECIFICATION FairSpec
INVARIANTS
    NoStaleAuthorization
    NothingBeforeGrant
    KeepaliveNeverLost
    NothingLeftUnparsed
PROPERTIES
    Reconnects
    OwnsTcpClient
\* The server may deny access, and then the transmitter stops.
CHECK_DEADLOCK FALSE
