\* A URL that get_connection refuses.
SPECIFICATION Spec
CONSTANTS
    Messages = {m1, m2, m3}
    Pings = {p1}
    Frames = {f1}
    Timers = {t1, t2}
    NoTimer = NoTimer
    NoMessage = NoMessage
    MaxRetries = 3
    UrlValid = FALSE
    MayUnload = TRUE
    MaxCloses = 1
    MaxRecv = 1
PROPERTY BadUrlEndsThread
CHECK_DEADLOCK FALSE
