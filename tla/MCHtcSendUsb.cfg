SPECIFICATION Spec
CONSTANTS
    p1 = p1
    p2 = p2
    p3 = p3
    Packets = {p1, p2, p3}
    Senders = {s1, s2}
    RxThread = rx
    CompThread = comp
    NoThread = none
    TransferLength <- MCTransferLength
    Fragments <- MCFragments
    TxCreditSize = 4
    TotalCredits = 3
    TxCreditsPerMaxMsg = 2
    TxCreditFlowEnabled = FALSE
    IsEndpoint0 = FALSE
    MaxTxQueueDepth = 1
    SendFullActions = {"HTC_SEND_FULL_KEEP", "HTC_SEND_FULL_DROP"}
    EnableBundle = TRUE
    MaxMsgPerBundle = 4
    BundleResources = 2
    UrbAlloc = 1
    HifMayFail = TRUE
PROPERTIES
    ImplementsPipe
