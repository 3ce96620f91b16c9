----------------------------- MODULE HtcControl -----------------------------
(***************************************************************************)
(* The HTC control endpoint while the driver comes up: HTCWaitTarget, one  *)
(* HTCConnectService per service and HTCStart (htc.c, htc_services.c) on   *)
(* one side, the control branch of HTCRxCompletionHandler (htc_recv.c) on  *)
(* the other.  The two meet in CtrlResponseBuffer, CtrlResponseProcessing  *)
(* and the kernel completion CtrlResponseValid; a caller waits at most     *)
(* HTC_CONTROL_RX_TIMEOUT for an answer.                                   *)
(*                                                                         *)
(* The target is external: it announces itself with one READY message and  *)
(* answers connect requests in order, unless it hangs.                     *)
(***************************************************************************)
EXTENDS Integers, Sequences

CONSTANTS
    Services,       \* the services the driver connects, in this order
    Optional,       \* services the driver can do without (HTT_DATA2_MSG_SVC)
    WMI_CONTROL_SVC,
    HTC_CTRL_RSVD_SVC,
    NoService,      \* ServiceID 0: the endpoint is free
    ENDPOINT_MAX,   \* number of endpoints
    Assignment,     \* service -> the endpoint the target gives it
    CreditCount,    \* credits the READY message announces
    QCA_TX_HTT2_SUPPORT,
    LateAnswers     \* an answer may be slower than HTC_CONTROL_RX_TIMEOUT

ServiceSet == {Services[i] : i \in 1..Len(Services)}
EndpointIds == 0..(ENDPOINT_MAX - 1)

ASSUME ServiceAssumption ==
    /\ Services \in Seq(ServiceSet)
    /\ \A i, j \in 1..Len(Services) : Services[i] = Services[j] => i = j
    /\ Optional \subseteq ServiceSet
    /\ {NoService, HTC_CTRL_RSVD_SVC} \cap ServiceSet = {}
    /\ NoService # HTC_CTRL_RSVD_SVC

ASSUME TargetAssumption ==
    /\ ENDPOINT_MAX \in Nat \ {0}
    /\ Assignment \in [ServiceSet -> EndpointIds \ {0}]
    /\ \A s, u \in ServiceSet : Assignment[s] = Assignment[u] => s = u
    /\ CreditCount \in 0..(2^16 - 1)
    /\ QCA_TX_HTT2_SUPPORT \in BOOLEAN /\ LateAnswers \in BOOLEAN

Ready == [id |-> "HTC_MSG_READY_ID", credits |-> CreditCount]
ConnectMsg(s, alloc) ==
    [id |-> "HTC_MSG_CONNECT_SERVICE_ID", service |-> s, alloc |-> alloc]
SetupComplete == [id |-> "HTC_MSG_SETUP_COMPLETE_EX_ID"]
Response(s, ok) ==
    [id |-> "HTC_MSG_CONNECT_SERVICE_RESPONSE_ID", service |-> s,
     success |-> ok, endpoint |-> Assignment[s]]
NoMessage == [id |-> "none"]

Answers == {Response(s, ok) : s \in ServiceSet, ok \in BOOLEAN}

VARIABLES
    pc,                     \* where the thread that brings HTC up is
    cur,                    \* 0: the READY message; i: service i
    response,               \* the fields read from CtrlResponseBuffer
    CtrlResponseValid,      \* count of the kernel completion
    CtrlResponseBuffer,
    CtrlResponseProcessing,
    credits,                \* TotalTransmitCredits
    EndPoint,               \* ServiceID and TxCredits of each endpoint
    rxPc, rxMsg,            \* HTCRxCompletionHandler on endpoint 0
    bug,                    \* VOS_BUG was reached
    timedOut,               \* auxiliary: some wait timed out
    toTarget, toHost,       \* control messages on the bus, oldest first
    targetAlloc,            \* credits the target was asked to reserve
    targetState             \* "booting", "up", "started" or "hung"

hostVars == <<pc, cur, response, credits, EndPoint, timedOut>>
ctrlVars == <<CtrlResponseValid, CtrlResponseBuffer, CtrlResponseProcessing>>
rxVars == <<rxPc, rxMsg, bug>>
targetVars == <<toTarget, toHost, targetAlloc, targetState>>
vars == <<pc, cur, response, credits, EndPoint, timedOut, CtrlResponseValid,
          CtrlResponseBuffer, CtrlResponseProcessing, rxPc, rxMsg, bug,
          toTarget, toHost, targetAlloc, targetState>>

Init ==
    /\ pc = "HIFStart" /\ cur = 0 /\ response = NoMessage
    /\ CtrlResponseValid = 0 /\ CtrlResponseBuffer = NoMessage
    /\ CtrlResponseProcessing = FALSE
    /\ credits = 0
    /\ EndPoint = [e \in EndpointIds |->
                      [ServiceID |-> NoService, TxCredits |-> 0]]
    /\ rxPc = "idle" /\ rxMsg = NoMessage /\ bug = FALSE
    /\ timedOut = FALSE
    /\ toTarget = <<>> /\ toHost = <<>>
    /\ targetAlloc = [s \in ServiceSet |-> 0]
    /\ targetState = "booting"

-----------------------------------------------------------------------------
(* HTCSetupTargetBufferAssignments and HTCGetCreditAllocation: all credits *)
(* go to WMI, in an 8 bit field.                                           *)
HTCGetCreditAllocation(s) ==
    IF s = WMI_CONTROL_SVC THEN credits % 256 ELSE 0

(* Mutant: the completion stays done for every later wait.                 *)
MutantStaysDone == CtrlResponseValid

(* wait_for_completion_timeout takes one completion off the count.         *)
TakeCompletion == CtrlResponseValid - 1

(* Mutant: the completion itself is re-initialized, not a copy of it.      *)
MutantReInit == 0

(* adf_os_re_init_completion takes the structure by value: it              *)
(* re-initializes a copy and leaves CtrlResponseValid as it is.            *)
ReInitCompletion == CtrlResponseValid

(* Mutant: the processing flag is left set.                                *)
MutantKeepsFlag == CtrlResponseProcessing

(* "done processing response buffer"                                       *)
DoneProcessing == FALSE

(* "target should not be sending unsolicited messages on the endpoint 0"   *)
StillProcessing == CtrlResponseProcessing

(* What the caller of HTCConnectService does with an error: the driver     *)
(* goes on without an optional service and gives up without another.       *)
Failed ==
    IF cur > 0 /\ Services[cur] \in Optional
    THEN /\ pc' = "connect" /\ cur' = cur + 1
    ELSE /\ pc' = "failed" /\ UNCHANGED cur

(* HTCWaitTarget starts the HIF: from now on the target can be heard.      *)
HIFStart ==
    /\ pc = "HIFStart"
    /\ pc' \in {"reinit", "failed"}
    /\ UNCHANGED <<cur, response, credits, EndPoint, timedOut, ctrlVars,
                   rxVars, targetVars>>

(* Mutant: the request does not say how many credits the service has.      *)
MutantNoAllocation(s) == ConnectMsg(s, 0)

(* The connect request for service s.                                      *)
ConnectRequest(s) == ConnectMsg(s, HTCGetCreditAllocation(s))

(* HTCSendPkt on endpoint 0; nobody reads what is sent to a hung target.   *)
SendControl(msg) ==
    toTarget' = IF targetState = "hung" THEN <<>> ELSE Append(toTarget, msg)

(* HTCConnectService sends the request of the next service.                *)
HTCConnectService ==
    /\ pc = "connect"
    /\ cur <= Len(Services)
    /\ \/ /\ SendControl(ConnectRequest(Services[cur]))
          /\ pc' = "reinit"
          /\ UNCHANGED cur
       \/ /\ Failed                     \* no packet, or HTCSendPkt failed
          /\ UNCHANGED toTarget
    /\ UNCHANGED <<response, credits, EndPoint, timedOut, ctrlVars, rxVars,
                   toHost, targetAlloc, targetState>>

(* HTCWaitRecvCtrlMessage: re-initialize the completion, ...               *)
ReInit ==
    /\ pc = "reinit"
    /\ CtrlResponseValid' = ReInitCompletion
    /\ pc' = "wait"
    /\ UNCHANGED <<cur, response, credits, EndPoint, timedOut,
                   CtrlResponseBuffer, CtrlResponseProcessing, rxVars,
                   targetVars>>

(* ... wait for it, ...                                                    *)
WaitDone ==
    /\ pc = "wait"
    /\ CtrlResponseValid > 0
    /\ CtrlResponseValid' = TakeCompletion
    /\ pc' = "read"
    /\ UNCHANGED <<cur, response, credits, EndPoint, timedOut,
                   CtrlResponseBuffer, CtrlResponseProcessing, rxVars,
                   targetVars>>

NothingOnTheWay ==
    /\ targetState # "booting"
    /\ toTarget = <<>> /\ toHost = <<>> /\ rxPc = "idle"

(* ... at most HTC_CONTROL_RX_TIMEOUT.                                     *)
WaitTimeout ==
    /\ pc = "wait"
    /\ CtrlResponseValid = 0
    /\ LateAnswers \/ NothingOnTheWay
    /\ timedOut' = TRUE
    /\ Failed
    /\ UNCHANGED <<response, credits, EndPoint, ctrlVars, rxVars, targetVars>>

(* HTCWaitTarget reads the READY message and connects the pseudo control   *)
(* service to endpoint 0.  On an error the flag stays set.                 *)
ReadReady ==
    /\ pc = "read" /\ cur = 0
    /\ IF CtrlResponseBuffer.id = "HTC_MSG_READY_ID"
          /\ CtrlResponseBuffer.credits # 0
       THEN /\ credits' = CtrlResponseBuffer.credits
            /\ CtrlResponseProcessing' = DoneProcessing
            /\ EndPoint' = [EndPoint EXCEPT ![0].ServiceID =
                                               HTC_CTRL_RSVD_SVC]
            /\ cur' = 1 /\ pc' = "connect"
       ELSE /\ Failed
            /\ UNCHANGED <<credits, CtrlResponseProcessing, EndPoint>>
    /\ UNCHANGED <<response, timedOut, CtrlResponseValid, CtrlResponseBuffer,
                   rxVars, targetVars>>

(* HTCConnectService reads the response's fields.  The id of the message   *)
(* and its status are checked, the service it answers is not.              *)
ReadResponse ==
    /\ pc = "read" /\ cur > 0
    /\ IF CtrlResponseBuffer.id # "HTC_MSG_CONNECT_SERVICE_RESPONSE_ID"
       THEN Failed /\ UNCHANGED <<response, CtrlResponseProcessing>>
       ELSE IF ~CtrlResponseBuffer.success
       THEN /\ Failed
            /\ CtrlResponseProcessing' =
                  IF QCA_TX_HTT2_SUPPORT THEN DoneProcessing
                  ELSE CtrlResponseProcessing
            /\ UNCHANGED response
       ELSE /\ response' = CtrlResponseBuffer
            /\ CtrlResponseProcessing' = DoneProcessing
            /\ pc' = "setup"
            /\ UNCHANGED cur
    /\ UNCHANGED <<credits, EndPoint, timedOut, CtrlResponseValid,
                   CtrlResponseBuffer, rxVars, targetVars>>

(* "the rest of these are parameter checks", then the endpoint is set up.  *)
(* HIFMapServiceToPipe may fail after that, with the endpoint in use.      *)
SetupEndpoint ==
    /\ pc = "setup"
    /\ LET e == response.endpoint
           s == Services[cur]
       IN  IF e >= ENDPOINT_MAX \/ EndPoint[e].ServiceID # NoService
           THEN Failed /\ UNCHANGED EndPoint
           ELSE /\ EndPoint' = [EndPoint EXCEPT ![e] =
                      [ServiceID |-> s,
                       TxCredits |-> HTCGetCreditAllocation(s)]]
                /\ \/ pc' = "connect" /\ cur' = cur + 1
                   \/ Failed
    /\ UNCHANGED <<response, credits, timedOut, ctrlVars, rxVars, targetVars>>

(* HTCStart: "called after all services are connected"                     *)
HTCStart ==
    /\ pc = "connect"
    /\ cur = Len(Services) + 1
    /\ \/ /\ SendControl(SetupComplete)
          /\ pc' = "started"
       \/ /\ pc' = "failed"
          /\ UNCHANGED toTarget
    /\ UNCHANGED <<cur, response, credits, EndPoint, timedOut, ctrlVars,
                   rxVars, toHost, targetAlloc, targetState>>

-----------------------------------------------------------------------------
(* HTCRxCompletionHandler, a control message: look at the flag, ...        *)
RxCheck ==
    /\ rxPc = "idle"
    /\ toHost # <<>>
    /\ toHost' = Tail(toHost)
    /\ IF StillProcessing
       THEN bug' = TRUE /\ UNCHANGED <<rxPc, rxMsg>>
       ELSE rxPc' = "copy" /\ rxMsg' = Head(toHost) /\ UNCHANGED bug
    /\ UNCHANGED <<hostVars, ctrlVars, toTarget, targetAlloc, targetState>>

(* ... copy the message under the lock ("Requester will clear this flag"), *)
RxCopy ==
    /\ rxPc = "copy"
    /\ CtrlResponseBuffer' = rxMsg
    /\ CtrlResponseProcessing' = TRUE
    /\ rxPc' = "complete"
    /\ UNCHANGED <<hostVars, CtrlResponseValid, rxMsg, bug, targetVars>>

(* ... and wake the requester.                                             *)
RxComplete ==
    /\ rxPc = "complete"
    /\ CtrlResponseValid' = CtrlResponseValid + 1
    /\ rxPc' = "idle" /\ rxMsg' = NoMessage
    /\ UNCHANGED <<hostVars, CtrlResponseBuffer, CtrlResponseProcessing, bug,
                   targetVars>>

-----------------------------------------------------------------------------
(* External: the firmware.                                                 *)
TargetReady ==
    /\ targetState = "booting"
    /\ pc # "HIFStart"
    /\ targetState' = "up"
    /\ toHost' = Append(toHost, Ready)
    /\ UNCHANGED <<hostVars, ctrlVars, rxVars, toTarget, targetAlloc>>

TargetAnswers(ok) ==
    /\ targetState = "up"
    /\ toTarget # <<>>
    /\ toTarget' = Tail(toTarget)
    /\ LET msg == Head(toTarget)
       IN  IF msg.id = "HTC_MSG_CONNECT_SERVICE_ID"
           THEN /\ toHost' = Append(toHost, Response(msg.service, ok))
                /\ targetAlloc' = [targetAlloc EXCEPT
                                      ![msg.service] = msg.alloc]
                /\ UNCHANGED targetState
           ELSE /\ targetState' = "started"
                /\ UNCHANGED <<toHost, targetAlloc>>
    /\ UNCHANGED <<hostVars, ctrlVars, rxVars>>

TargetHangs ==
    /\ targetState \in {"booting", "up"}
    /\ targetState' = "hung"
    /\ toTarget' = <<>>
    /\ UNCHANGED <<hostVars, ctrlVars, rxVars, toHost, targetAlloc>>

(* The driver is up or has given up, or the kernel stopped.                *)
Over ==
    /\ pc \in {"started", "failed"} \/ bug
    /\ UNCHANGED vars

HostStep ==
    \/ HIFStart \/ HTCConnectService \/ ReInit \/ WaitDone \/ WaitTimeout
    \/ ReadReady \/ ReadResponse \/ SetupEndpoint \/ HTCStart
RxStep == RxCheck \/ RxCopy \/ RxComplete
TargetStep == TargetReady \/ (\E ok \in BOOLEAN : TargetAnswers(ok))

Next ==
    \/ ~bug /\ HostStep
    \/ ~bug /\ RxStep
    \/ TargetStep \/ TargetHangs
    \/ Over

Spec == Init /\ [][Next]_vars

(* The kernel schedules the thread that brings HTC up, its timeout and the *)
(* receive context; the target works until it hangs.                       *)
FairSpec ==
    /\ Spec
    /\ WF_vars(~bug /\ HostStep) /\ WF_vars(~bug /\ RxStep)
    /\ WF_vars(TargetStep)

-----------------------------------------------------------------------------
(* Properties.                                                             *)

Messages == {Ready, NoMessage} \cup Answers

Connected(s) == \E e \in EndpointIds : EndPoint[e].ServiceID = s

(* "wait for response": what a caller of HTCWaitRecvCtrlMessage finds in   *)
(* CtrlResponseBuffer is the answer to its own request, not one to an      *)
(* earlier request.                                                        *)
AnswersItsRequest ==
    pc = "read" =>
        IF cur = 0 THEN CtrlResponseBuffer = Ready
        ELSE /\ CtrlResponseBuffer \in Answers
             /\ CtrlResponseBuffer.service = Services[cur]

(* A service is on the endpoint the target assigned to it, with as many    *)
(* credits as the target was asked to reserve for it.                      *)
ServiceOnItsEndpoint ==
    \A e \in EndpointIds : \A s \in ServiceSet :
        EndPoint[e].ServiceID = s
            => e = Assignment[s] /\ EndPoint[e].TxCredits = targetAlloc[s]

(* No answer is lost between the request and the wait: only a target that  *)
(* hangs makes a wait time out.                                            *)
TimeoutMeansHang == timedOut => targetState = "hung"

(* Bringing HTC up ends, with a working or with a hung target, and without *)
(* the VOS_BUG of "HTC Rx Ctrl still processing".                          *)
BringUpEnds == <>(pc \in {"started", "failed"})
=============================================================================
