\* transmitter.reconnect_delay is not set: the log says "(no auto-reconnect)".
CONSTANTS
    ReconnectDelay = 0
    BufferLimit = 3
    MaxQueue = 1
    MaxIncoming = 2
    MaxDue = 2
SPECIFICATION Spec
PROPERTIES
    NoAutoReconnect
\* Without a delay the transmitter stops where the connection is lost.
CHECK_DEADLOCK FALSE
