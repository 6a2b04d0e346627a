\* A key that m_ArrayKey does not hold.
SPECIFICATION Spec
CONSTANTS
    Width = 3
    MaxInt = 3
    MaxShort = 1
    MaxWrites = 2
    MaxPlaces = 4
    Keys = {"", "a", "longer"}
    EmptyKey = ""
    Cut <- CutLong
    Received <- LongData
    Inputs <- MapInputs
    Jumps <- MCJumps
INVARIANT
    CursorOnArray
CHECK_DEADLOCK FALSE
