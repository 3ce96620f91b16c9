SPECIFICATION Spec
CONSTANTS
    Wrappers = {w1, w2}
    Pkts = {k1}
    McQueues <- MCMcQueues
    RxQueue = "tlshimRxQueue"
    Posters = {p1}
    None = None
INVARIANT
    AllThreadsWoken
CHECK_DEADLOCK FALSE
