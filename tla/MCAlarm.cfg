SPECIFICATION Spec
CONSTANTS
    Users = {u1, u2}
    Modes = {"alert"}
    Keywords = {"connect", "help me"}
    Quiet = {"connect"}
    MaxInbox = 2
    MaxFaults = 1
SYMMETRY Symmetry
INVARIANTS
    TypeOK
    OnlyOwnersAlerted
    DisarmedStaysQuiet
    AlertsFollowMode
    CrashIsInvisible
PROPERTIES
    SaveRepairs
