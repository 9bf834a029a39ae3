CONSTANTS
    w1 = w1
    w2 = w2
    r1 = r1
    r2 = r2
    Flusher = Flusher
    NoOne = NoOne
    Writers = {w1}
    Readers = {r1, r2}
    Size = 8
    LenBase = 2
    MaxPayload = 2
    Iovs <- LongIov
    LongHalf = 64
    MaxWrites = 3
SPECIFICATION LogSpec
INVARIANTS IntactUnlessBroken
PROPERTIES NoSilentLoss SleepersReturn
CHECK_DEADLOCK FALSE
