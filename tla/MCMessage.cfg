\* One message under any sequence of natives.
SPECIFICATION Spec
CONSTANTS
    Width = 3
    MaxInt = 3
    MaxShort = 1
    MaxWrites = 2
    MaxPlaces = 4
    Keys = {"", "a"}
    EmptyKey = ""
    Cut <- Uncut
    Received <- ServerData
    Inputs <- MapInputs
    Jumps <- MCJumps
INVARIANTS
    TypeOK
    CursorOnArray
PROPERTIES
    IterationVisitsAll
    ReadsBackWrites
    ImplementsMap
CHECK_DEADLOCK FALSE
