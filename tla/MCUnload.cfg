\* Unload at any moment: SDK_OnUnload against the handlers of the thread.
SPECIFICATION Spec
CONSTANTS
    Messages = {m1}
    Pings = {p1}
    Frames = {f1}
    Timers = {t1, t2}
    NoTimer = NoTimer
    NoMessage = NoMessage
    MaxRetries = 3
    UrlValid = TRUE
    MayUnload = TRUE
    MaxCloses = 2
    MaxRecv = 1
INVARIANTS
    KillsLiveTimersOnly
    ShutdownLeavesNoTimer
PROPERTIES
    Reconnects
    UnloadCompletesOutsideLoss
    UnloadCrashesWhileDownOnly
    UnloadAdvances
    PhasesKept
CHECK_DEADLOCK FALSE
