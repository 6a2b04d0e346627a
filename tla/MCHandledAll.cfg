\* PushQueue reports an empty queue after it gave up.
SPECIFICATION Spec
CONSTANTS
    Messages = {m1}
    Pings = {p1}
    Frames = {f1}
    Timers = {t1, t2}
    NoTimer = NoTimer
    NoMessage = NoMessage
    MaxRetries = 3
    UrlValid = TRUE
    MayUnload = TRUE
    MaxCloses = 1
    MaxRecv = 1
PROPERTY HandledAllMessages
CHECK_DEADLOCK FALSE
