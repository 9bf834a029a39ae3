CONSTANTS
    d1 = d1
    fb = fb
    u1 = u1
    u2 = u2
    main_wake_lock = main
    sys_sync_wake_lock = sys_sync
    unknown_wakeup = unknown
    DriverLocks = {}
    IdleLocks = {}
    Timeouts = {1}
    UnknownTimeout = 1
    MaxTimeout = 1
    Handlers = {fb}
    Level <- MCLevel
    SuspendCb = {fb}
    ResumeCb = {fb}
    Users = {u1, u2}
SPECIFICATION SPSpec
INVARIANTS SPTypeOK ReturnsUnwound Nested AsleepWithAllTaken
PROPERTIES ImplementsEarlySuspend AttemptsEnd WaitersReleased RequestsHonoured
