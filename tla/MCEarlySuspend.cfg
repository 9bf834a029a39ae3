CONSTANTS
    d1 = d1
    screen = screen
    fb = fb
    u1 = u1
    u2 = u2
    main_wake_lock = main
    sys_sync_wake_lock = sys_sync
    unknown_wakeup = unknown
    DriverLocks = {d1}
    IdleLocks = {}
    Timeouts = {1}
    UnknownTimeout = 1
    MaxTimeout = 1
    Handlers = {screen, fb}
    Level <- MCLevel
    SuspendCb = {screen, fb}
    ResumeCb = {screen, fb}
    Users = {u1, u2}
SPECIFICATION ESSpec
SYMMETRY Sym
INVARIANTS ESTypeOK MainLockGuardsHandlers HandlersFollowState CompletionsBalance SleepsOnlyWhenSuspended
PROPERTY ImplementsWakeLock
