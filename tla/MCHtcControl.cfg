SPECIFICATION FairSpec
CONSTANTS
    HTT_DATA_MSG_SVC = htt
    HTT_DATA2_MSG_SVC = htt2
    WMI_CONTROL_SVC = wmi
    HTC_CTRL_RSVD_SVC = ctrl
    NoService = noService
    Services <- MCServices
    Optional = {htt2}
    ENDPOINT_MAX = 4
    Assignment <- MCAssignment
    CreditCount = 258
    QCA_TX_HTT2_SUPPORT = TRUE
    LateAnswers = FALSE
INVARIANTS
    AnswersItsRequest
    ServiceOnItsEndpoint
    TimeoutMeansHang
PROPERTIES
    BringUpEnds
