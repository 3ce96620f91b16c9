SPECIFICATION FairSpec
CONSTANTS
    DEBUG_MESG = debug
    NDP_CONFIRM = ndp
    TX_PAUSE = txPause
    RADAR = radar
    NULL = null
    Registered <- MCRegistered
    Unregistered <- MCUnregistered
    Unknown = {}
    Immediate = {txPause}
    Direct = {ready}
    WMI_UNIFIED_MAX_EVENT = 4
    RADAR_WMI_EVENT_PENDING_MAX = 2
    Malformed = {radar, txPause}
    SuspendFails = TRUE
    MaxEvents = 3
INVARIANTS
    QueueIsServed
    NeverAnotherHandler
    NoUseAfterDetach
    CallsRegisteredHandler
    RadarsCounted
    SuspendStopsWork
PROPERTIES
    EventsAreServed
