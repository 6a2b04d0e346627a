\* OnGameFrame against the websocket thread, in service and unloading.
SPECIFICATION ExtSpec
CONSTANTS
    Messages = {m1}
    Pings = {}
    Frames = {f1, f2, junk, poison}
    Parsable = {f1, f2}
    Poison = {poison}
    NoFrame = NoFrame
    Timers = {t1, t2}
    NoTimer = NoTimer
    NoMessage = NoMessage
    MaxRetries = 2
    UrlValid = TRUE
    MayUnload = TRUE
    MaxCloses = 1
    MaxRecv = 2
INVARIANTS
    ExtTypeOK
    NoConnectionForgotten
PROPERTIES
    MailboxKept
    MessagesAreDelivered
    ConnectionsAreAnnounced
    RestartIsCommanded
    QueueFollowsTraffic
CHECK_DEADLOCK FALSE
