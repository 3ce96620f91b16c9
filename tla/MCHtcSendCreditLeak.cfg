SPECIFICATION Spec
CONSTANTS
    p1 = p1
    p2 = p2
    p3 = p3
    Packets = {p1, p2, p3}
    Senders = {s1, s2}
    RxThread = rx
    CompThread = comp
    NoThread = none
    TransferLength <- MCTransferLength
    Fragments <- MCFragments
    TxCreditSize = 4
    TotalCredits = 3
    TxCreditsPerMaxMsg = 2
    TxCreditFlowEnabled = TRUE
    IsEndpoint0 = FALSE
    MaxTxQueueDepth = 1
    SendFullActions = {}
    EnableBundle = FALSE
    MaxMsgPerBundle = 4
    BundleResources = 2
    UrbAlloc = 3
    HifMayFail = TRUE
INVARIANTS
    CreditsConserved
