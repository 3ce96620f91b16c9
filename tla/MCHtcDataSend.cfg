SPECIFICATION DataSpec
CONSTANTS
    p1 = p1
    p2 = p2
    p3 = p3
    Packets = {p1, p2, p3}
    Senders = {s1, s2}
    DataSenders = {s1}
    MoreData = {FALSE, TRUE}
    RxThread = rx
    CompThread = comp
    NoThread = none
    TransferLength <- MCTransferLength
    Fragments <- MCFragments
    TxCreditSize = 4
    TotalCredits = 0
    TxCreditsPerMaxMsg = 1
    TxCreditFlowEnabled = FALSE
    IsEndpoint0 = FALSE
    MaxTxQueueDepth = 1
    SendFullActions = {"HTC_SEND_FULL_DROP"}
    EnableBundle = TRUE
    MaxMsgPerBundle = 2
    BundleResources = 4
    UrbAlloc = 1
    HifMayFail = TRUE
CONSTRAINT NotDerailed
INVARIANTS
    BusyHasDrainer
    PacketOwnership
    CompletionsAreFound
