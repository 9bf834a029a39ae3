SPECIFICATION DevSpec
CONSTANTS
    Types <- MCTypes
INVARIANTS
    AlarmKeepsAwake
    NoAlarmLost
    NothingLeftBehind
PROPERTY
    WaiterTold
