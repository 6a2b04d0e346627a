\* Two plugins and the messages they create, receive and clone.
SPECIFICATION Spec
CONSTANTS
    p1 = p1
    p2 = p2
    Plugins = {p1, p2}
    NoPlugin = NoPlugin
    MaxMade = 5
INVARIANTS
    TypeOK
    NoUseAfterFree
    OnlyFailedHandlesLeak
    ReceivedIsTransient
PROPERTY
    OwnersDecide
SYMMETRY Perms
CHECK_DEADLOCK FALSE
