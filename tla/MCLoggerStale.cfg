CONSTANTS
    w1 = w1
    w2 = w2
    r1 = r1
    r2 = r2
    Flusher = Flusher
    NoOne = NoOne
    Writers = {w1, w2}
    Readers = {r1}
    Size = 8
    LenBase = 2
    MaxPayload = 2
    Iovs <- TwoIovs
    LongHalf = 64
    MaxWrites = 3
SPECIFICATION LogSpec
INVARIANT UnreadIntact
CHECK_DEADLOCK FALSE
