SPECIFICATION FbSpec
CONSTANTS
    w1 = w1
    w2 = w2
    Watchers <- MCWatchers
INVARIANTS
    NoDrawingWhenOff
    ResumeNotOverwritten
PROPERTY
    FbLive
