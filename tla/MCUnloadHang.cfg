\* SDK_OnUnload may wait for ever.
SPECIFICATION Spec
CONSTANTS
    Messages = {m1}
    Pings = {p1}
    Frames = {f1}
    Timers = {t1, t2}
    NoTimer = NoTimer
    NoMessage = NoMessage
    MaxRetries = 3
    UrlValid = TRUE
    MayUnload = TRUE
    MaxCloses = 2
    MaxRecv = 1
PROPERTY UnloadCompletes
CHECK_DEADLOCK FALSE
