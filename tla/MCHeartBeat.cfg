CONSTANTS
    absent = absent
    nan = nan
    Configs <- MCConfigs
    Absent <- absent
    NaN <- nan
    LowTenths = 20
    HighTenths = 39
    DefaultTenths = 20
    Undefined <- MCUndefined
    MaxGap = 2
    Steps <- MCSteps
    Start = 3
    MaxTime = 8
    MaxJumps = 1
SPECIFICATION Spec
INVARIANTS TypeOK SilenceBounded
PROPERTIES PingsSpaced
