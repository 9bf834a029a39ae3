CONSTANTS
    d1 = d1
    d2 = d2
    i1 = i1
    main_wake_lock = main
    sys_sync_wake_lock = sys_sync
    unknown_wakeup = unknown
    DriverLocks = {d1, d2, i1}
    IdleLocks = {i1}
    Timeouts = {0, 1, 2}
    UnknownTimeout = 1
    MaxTimeout = 2
SPECIFICATION WLSpec
INVARIANTS WLTypeOK SleepRespectsLocks NoLostSuspend TimerCoversTimeouts
PROPERTY SuspendRetried
