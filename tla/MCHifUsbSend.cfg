SPECIFICATION FairSpec
CONSTANTS
    RxUrbs = {r1}
    TxUrbs = {t1}
    Packets = {p1, p2}
    None = none
    PrestartUrbs = 1
    Headroom = 1
    MaxMsgs = 0
    MaxFailures = 2
INVARIANTS
    OnlyRefusalsLeaveContext
PROPERTIES
    StopCompletes
