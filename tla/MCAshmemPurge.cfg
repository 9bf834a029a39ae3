CONSTANTS
    a1 = a1
    Areas = {a1}
    Sizes <- MCSizes
    MaxSize = 3
    MaxScan = 2
    MaxEmpty = 1
SPECIFICATION AshSpec
INVARIANT PinTellsOfPurge
