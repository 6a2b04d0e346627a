\* In service: no unload.  The safety properties of the client.
SPECIFICATION Spec
CONSTANTS
    Messages = {m1, m2}
    Pings = {p1}
    Frames = {f1}
    Timers = {t1, t2}
    NoTimer = NoTimer
    NoMessage = NoMessage
    MaxRetries = 3
    UrlValid = TRUE
    MayUnload = FALSE
    MaxCloses = 2
    MaxRecv = 1
INVARIANTS
    TypeOK
    NoMessageLost
    OneHeartBeat
    ConnectedIsCurrent
    ReconnectNotSuppressed
    RestartAfterFailures
PROPERTIES
    NestingUnwindsAtEndOnly
    DowntimeIsBounded
SYMMETRY Symmetry
CHECK_DEADLOCK FALSE
