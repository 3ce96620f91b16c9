SPECIFICATION Spec
CONSTANTS
    RxUrbs = {r1, r2}
    TxUrbs = {}
    Packets = {}
    None = none
    PrestartUrbs = 2
    Headroom = 1
    MaxMsgs = 3
    MaxFailures = 2
SYMMETRY UrbSymmetry
INVARIANTS
    UrbInOnePlace
    NoUrbLeak
    DeliveredInOrder
    NoBufferStranded
    PrestartCounted
    ReceiveSurvives
    NoCallbackAfterDetach
