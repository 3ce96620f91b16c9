SPECIFICATION FairSpec
CONSTANTS
    Wrappers = {w1, w2}
    Pkts = {k1}
    McQueues <- MCMcQueues
    RxQueue = "tlshimRxQueue"
    Posters = {p1}
    None = None
INVARIANTS
    OneOwner
    NoMessageForgotten
    NoThreadAfterClose
    SuspendedIsParked
    ParkedHasResumer
PROPERTIES
    CloseReturns
CHECK_DEADLOCK FALSE
