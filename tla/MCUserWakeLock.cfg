CONSTANTS
    Names <- MCNames
    Timeouts <- MCTimeouts
    JiffyNs = 3
    U64Max = 127
    LongMax = 7
SPECIFICATION UwlSpec
INVARIANTS TreeExact LocksAsAsked TimeoutsKept
