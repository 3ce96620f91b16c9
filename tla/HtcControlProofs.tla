-------------------------- MODULE HtcControlProofs --------------------------
(***************************************************************************)
(* Proofs about HtcControl: a control message in flight is the answer to   *)
(* the one request that is outstanding, for every list of services, every  *)
(* endpoint assignment and every credit count.                             *)
(*                                                                         *)
(* HTCWaitRecvCtrlMessage does not look at which request an answer         *)
(* belongs to, so the argument is a count: between two requests nothing is *)
(* on the bus, in the receive handler or in the completion (Quiet), and a  *)
(* request puts one message into that pipeline, which is in exactly one of *)
(* its stages (Asked, OnTheBus, Received, Completed) or lost with the      *)
(* target.  A timeout that fires while the message is still in a stage     *)
(* breaks the count: LateAnswers /\ timedOut is the only way out.          *)
(***************************************************************************)
EXTENDS HtcControl, TLAPS

(* No control message is anywhere between the two sides.                   *)
Quiet ==
    /\ toTarget = <<>> /\ toHost = <<>>
    /\ rxPc = "idle" /\ CtrlResponseValid = 0

(* m is what the target says to request i.                                 *)
AnswerTo(m, i) ==
    IF i = 0 THEN m = Ready
    ELSE \E ok \in BOOLEAN : m = Response(Services[i], ok)

(* The target has reserved for request i what the driver will use.         *)
Reserved(i) ==
    i > 0 => targetAlloc[Services[i]] = HTCGetCreditAllocation(Services[i])

Heard == targetState \in {"up", "hung"}

(* The stages of the one message of request cur.                           *)
Asked ==
    /\ toHost = <<>> /\ rxPc = "idle" /\ CtrlResponseValid = 0
    /\ IF cur = 0
       THEN toTarget = <<>> /\ targetState = "booting"
       ELSE /\ toTarget = <<ConnectRequest(Services[cur])>>
            /\ targetState = "up"

OnTheBus ==
    /\ toTarget = <<>> /\ rxPc = "idle" /\ CtrlResponseValid = 0 /\ Heard
    /\ \E m \in Messages : toHost = <<m>> /\ AnswerTo(m, cur)
    /\ Reserved(cur)

Received ==
    /\ toTarget = <<>> /\ toHost = <<>> /\ CtrlResponseValid = 0 /\ Heard
    /\ rxPc \in {"copy", "complete"}
    /\ AnswerTo(rxMsg, cur)
    /\ rxPc = "complete" => CtrlResponseBuffer = rxMsg
    /\ Reserved(cur)

Completed ==
    /\ toTarget = <<>> /\ toHost = <<>> /\ rxPc = "idle" /\ Heard
    /\ CtrlResponseValid = 1
    /\ AnswerTo(CtrlResponseBuffer, cur)
    /\ Reserved(cur)

Lost == Quiet /\ Heard /\ (targetState = "hung" \/ bug)

(* What each step of bringing HTC up finds.                                *)
StartInv == pc = "HIFStart" =>
    cur = 0 /\ Quiet /\ targetState \in {"booting", "hung"}
ConnectInv == pc = "connect" => cur > 0 /\ Quiet /\ Heard
WaitInv == pc \in {"reinit", "wait"} =>
    /\ cur <= Len(Services)
    /\ Asked \/ OnTheBus \/ Received \/ Completed \/ Lost
ReadInv == pc = "read" =>
    /\ cur <= Len(Services) /\ Quiet /\ Heard
    /\ AnswerTo(CtrlResponseBuffer, cur) /\ Reserved(cur)
SetupInv == pc = "setup" =>
    /\ cur \in 1..Len(Services) /\ Quiet /\ Heard
    /\ response = Response(Services[cur], TRUE) /\ Reserved(cur)
EndInv ==
    /\ pc = "failed" => toTarget = <<>>
    /\ pc = "started" => toTarget \in {<<>>, <<SetupComplete>>}

Types ==
    /\ pc \in {"HIFStart", "connect", "reinit", "wait", "read", "setup",
               "started", "failed"}
    /\ cur \in 0..(Len(Services) + 1)
    /\ credits \in Nat
    /\ EndPoint \in [EndpointIds -> [
           ServiceID : ServiceSet \cup {NoService, HTC_CTRL_RSVD_SVC},
           TxCredits : Nat]]
    /\ targetAlloc \in [ServiceSet -> Nat]

(* Endpoints carry only services that are past, so that a request in       *)
(* progress changes no reservation an endpoint relies on.                  *)
EndpointInv ==
    \A e \in EndpointIds : \A i \in 1..Len(Services) :
        EndPoint[e].ServiceID = Services[i] =>
            /\ e = Assignment[Services[i]]
            /\ EndPoint[e].TxCredits = targetAlloc[Services[i]]
            /\ i < cur \/ pc = "failed"

Protocol ==
    /\ StartInv /\ ConnectInv /\ WaitInv /\ ReadInv /\ SetupInv /\ EndInv

HangInv == ~LateAnswers => TimeoutMeansHang

IInv == Types /\ Protocol /\ EndpointInv

-----------------------------------------------------------------------------
(* Facts about the data.                                                   *)

(* What the fields of the control messages are.                            *)
LEMMA Fields ==
    /\ Ready.id = "HTC_MSG_READY_ID" /\ Ready.credits = CreditCount
    /\ \A s, a : /\ ConnectMsg(s, a).id = "HTC_MSG_CONNECT_SERVICE_ID"
                 /\ ConnectMsg(s, a).service = s
                 /\ ConnectMsg(s, a).alloc = a
    /\ \A s : \A ok \in BOOLEAN :
          /\ Response(s, ok).id = "HTC_MSG_CONNECT_SERVICE_RESPONSE_ID"
          /\ Response(s, ok).service = s
          /\ Response(s, ok).success = ok
          /\ Response(s, ok).endpoint = Assignment[s]
    /\ SetupComplete.id = "HTC_MSG_SETUP_COMPLETE_EX_ID"
BY DEF Ready, ConnectMsg, Response, SetupComplete

(* A bus with one message on it.                                           *)
LEMMA OneMessage ==
    /\ \A m : /\ Append(<<>>, m) = <<m>>
              /\ <<m>> # <<>> /\ Head(<<m>>) = m /\ Tail(<<m>>) = <<>>
    /\ \A m, n : <<m>> = <<n>> => m = n
OBVIOUS

(* The services are distinct members of ServiceSet.                        *)
LEMMA ServiceIndex ==
    /\ Len(Services) \in Nat
    /\ \A i \in 1..Len(Services) :
          /\ Services[i] \in ServiceSet
          /\ Services[i] # NoService /\ Services[i] # HTC_CTRL_RSVD_SVC
          /\ Assignment[Services[i]] \in EndpointIds
          /\ Assignment[Services[i]] # 0
    /\ \A i, j \in 1..Len(Services) : Services[i] = Services[j] => i = j
    /\ \A s \in ServiceSet : \E i \in 1..Len(Services) : s = Services[i]
<1>1. Len(Services) \in Nat
  BY ServiceAssumption DEF ServiceAssumption
<1>2. \A i \in 1..Len(Services) : Services[i] \in ServiceSet
  BY DEF ServiceSet
<1>3. \A s \in ServiceSet : \E i \in 1..Len(Services) : s = Services[i]
  BY DEF ServiceSet
<1>4. \A s \in ServiceSet : s # NoService /\ s # HTC_CTRL_RSVD_SVC
  BY ServiceAssumption DEF ServiceAssumption
<1>5. \A s \in ServiceSet : /\ Assignment[s] \in EndpointIds
                            /\ Assignment[s] # 0
  BY TargetAssumption DEF TargetAssumption
<1>6. \A i, j \in 1..Len(Services) : Services[i] = Services[j] => i = j
  BY ServiceAssumption DEF ServiceAssumption
<1> QED
  BY <1>1, <1>2, <1>3, <1>4, <1>5, <1>6

LEMMA EndpointZero == 0 \in EndpointIds /\ \A e \in EndpointIds :
    e \in Nat /\ ~(e >= ENDPOINT_MAX)
BY TargetAssumption DEF TargetAssumption, EndpointIds

(* An answer is one of the messages the host can see.                      *)
LEMMA AnswerIsMessage ==
    ASSUME NEW i \in 0..Len(Services), NEW m, AnswerTo(m, i)
    PROVE  m \in Messages
BY ServiceIndex DEF AnswerTo, Messages, Answers

LEMMA AllocationType ==
    ASSUME credits \in Nat, NEW s
    PROVE  HTCGetCreditAllocation(s) \in Nat
BY DEF HTCGetCreditAllocation

LEMMA CreditsType == CreditCount \in Nat
BY TargetAssumption DEF TargetAssumption

-----------------------------------------------------------------------------
(* The first state.                                                        *)
LEMMA InitIInv == Init => IInv
<1> SUFFICES ASSUME Init PROVE IInv
  OBVIOUS
<1>1. Types
  BY ServiceIndex DEF Init, Types
<1>2. Protocol
  BY DEF Init, Protocol, StartInv, ConnectInv, WaitInv, ReadInv, SetupInv,
         EndInv, Quiet
<1>3. EndpointInv
  BY ServiceIndex DEF Init, EndpointInv
<1> QED
  BY <1>1, <1>2, <1>3 DEF IInv

(* A request that is given up with nothing under way leaves nothing behind *)
(* for the next one.                                                       *)
LEMMA GivenUp ==
    ASSUME Failed, Quiet, Heard, cur \in Nat,
           UNCHANGED <<toTarget, toHost, rxPc, CtrlResponseValid, targetState>>
    PROVE  Protocol'
<1> USE DEF Quiet, Heard
<1>1. CASE pc' = "connect" /\ cur' = cur + 1
  <2>1. ConnectInv'
    BY <1>1 DEF ConnectInv
  <2> QED
    BY <1>1, <2>1 DEF Protocol, StartInv, WaitInv, ReadInv, SetupInv, EndInv
<1>2. CASE pc' = "failed"
  BY <1>2 DEF Protocol, StartInv, ConnectInv, WaitInv, ReadInv, SetupInv,
     EndInv
<1> QED
  BY <1>1, <1>2 DEF Failed

(* What the target finds on the bus is the outstanding request, or the     *)
(* last message of HTCStart.                                               *)
LEMMA TargetFinds ==
    ASSUME IInv, targetState = "up", toTarget # <<>>
    PROVE  \/ pc \in {"reinit", "wait"} /\ Asked /\ cur \in 1..Len(Services)
           \/ pc = "started" /\ toTarget = <<SetupComplete>>
<1> USE DEF IInv, Protocol
<1>1. CASE pc \in {"reinit", "wait"}
  <2>1. Asked /\ cur <= Len(Services) /\ cur # 0
    BY <1>1 DEF WaitInv, Asked, OnTheBus, Received, Completed, Lost, Quiet
  <2> QED
    BY <1>1, <2>1, ServiceIndex DEF Types
<1>2. CASE pc \notin {"reinit", "wait"}
  BY <1>2 DEF Types, StartInv, ConnectInv, ReadInv, SetupInv, EndInv, Quiet
<1> QED
  BY <1>1, <1>2

(* The pipeline invariants, step by step.  A step of the host is one of    *)
(* its pc values; the other side moves the message one stage on.           *)
LEMMA ProtocolStep ==
    ASSUME IInv, [Next]_vars, ~(LateAnswers /\ timedOut')
    PROVE  Protocol'
<1> USE DEF StartInv, ConnectInv, WaitInv, ReadInv, SetupInv, EndInv, Quiet,
            Heard
<1>0. Types /\ Protocol
  BY DEF IInv
<1>1. CASE HIFStart
  BY <1>0, <1>1 DEF HIFStart, Protocol, Types, Asked, Lost, targetVars,
     ctrlVars, rxVars
<1>2. CASE HTCConnectService
  <2> USE DEF HTCConnectService, ctrlVars, rxVars
  <2>1. /\ pc = "connect" /\ cur > 0 /\ Quiet /\ Heard
        /\ cur \in 1..Len(Services)
    BY <1>0, <1>2, ServiceIndex DEF Protocol, Types
  <2>2. CASE Failed /\ UNCHANGED toTarget
    BY <1>2, <2>1, <2>2, GivenUp
  <2>3. CASE /\ SendControl(ConnectRequest(Services[cur]))
             /\ pc' = "reinit" /\ UNCHANGED cur
    <3>1. CASE targetState = "hung"
      BY <1>2, <2>1, <2>3, <3>1 DEF SendControl, Protocol, Lost
    <3>2. CASE targetState = "up"
      <4>1. toTarget' = <<ConnectRequest(Services[cur])>>
        BY <2>1, <2>3, <3>2, OneMessage DEF SendControl
      <4>2. ConnectRequest(Services[cur])' = ConnectRequest(Services[cur])
        BY <1>2, <2>3 DEF ConnectRequest, HTCGetCreditAllocation
      <4>3. Asked'
        BY <1>2, <2>1, <2>3, <3>2, <4>1, <4>2 DEF Asked
      <4> QED
        BY <1>2, <2>1, <2>3, <3>2, <4>3 DEF Protocol
    <3> QED
      BY <2>1, <3>1, <3>2
  <2> QED
    BY <1>2, <2>2, <2>3
<1>3. CASE ReInit
  BY <1>0, <1>3 DEF ReInit, ReInitCompletion, Protocol, rxVars, targetVars,
     Asked, OnTheBus, Received, Completed, Lost, Reserved, ConnectRequest,
     HTCGetCreditAllocation
<1>4. CASE WaitDone
  <2>1. Completed /\ cur <= Len(Services) /\ pc = "wait"
    BY <1>0, <1>4 DEF WaitDone, Protocol, Asked, OnTheBus, Received, Lost
  <2> QED
    BY <1>4, <2>1 DEF WaitDone, TakeCompletion, Protocol, rxVars, targetVars,
       Completed, Reserved, HTCGetCreditAllocation
<1>5. CASE ~bug /\ WaitTimeout
  <2>1. ~LateAnswers /\ NothingOnTheWay
    BY <1>5 DEF WaitTimeout
  <2>2. Lost /\ cur <= Len(Services) /\ pc = "wait"
    BY <1>0, <1>5, <2>1, OneMessage
    DEF WaitTimeout, NothingOnTheWay, Protocol, Asked, OnTheBus, Received,
        Completed
  <2> QED
    BY <1>0, <1>5, <2>2, ServiceIndex, GivenUp
    DEF WaitTimeout, Types, Lost, ctrlVars, rxVars, targetVars
<1>6. CASE ReadReady
  <2>1. /\ Quiet /\ Heard /\ cur = 0
        /\ UNCHANGED <<toTarget, toHost, rxPc, CtrlResponseValid,
                       targetState>>
    BY <1>0, <1>6 DEF ReadReady, Protocol, rxVars, targetVars
  <2>2. CASE Failed
    BY <2>1, <2>2, GivenUp
  <2>3. CASE cur' = 1 /\ pc' = "connect"
    BY <2>1, <2>3 DEF Protocol
  <2> QED
    BY <1>6, <2>2, <2>3 DEF ReadReady
<1>7. CASE ReadResponse
  <2>1. /\ pc = "read" /\ cur \in 1..Len(Services) /\ Quiet /\ Heard
        /\ AnswerTo(CtrlResponseBuffer, cur) /\ Reserved(cur)
    BY <1>0, <1>7, ServiceIndex DEF ReadResponse, Protocol, Types
  <2>2. PICK ok \in BOOLEAN :
             CtrlResponseBuffer = Response(Services[cur], ok)
    BY <2>1 DEF AnswerTo
  <2>3. CASE ok = FALSE
    <3>1. Failed
      BY <1>7, <2>2, <2>3, Fields DEF ReadResponse
    <3> QED
      BY <1>7, <2>1, <3>1, ServiceIndex, GivenUp
      DEF ReadResponse, rxVars, targetVars
  <2>4. CASE ok = TRUE
    <3>1. response' = CtrlResponseBuffer /\ pc' = "setup" /\ UNCHANGED cur
      BY <1>7, <2>2, <2>4, Fields DEF ReadResponse
    <3> QED
      BY <1>7, <2>1, <2>2, <2>4, <3>1
      DEF ReadResponse, Protocol, Reserved, HTCGetCreditAllocation, rxVars,
          targetVars
  <2> QED
    BY <2>3, <2>4
<1>8. CASE SetupEndpoint
  <2>1. pc = "setup" /\ cur \in 1..Len(Services) /\ Quiet /\ Heard
    BY <1>0, <1>8 DEF SetupEndpoint, Protocol
  <2>2. Failed \/ (pc' = "connect" /\ cur' = cur + 1)
    BY <1>8 DEF SetupEndpoint
  <2>3. UNCHANGED <<ctrlVars, rxVars, targetVars>>
    BY <1>8 DEF SetupEndpoint
  <2>4. cur \in Nat
    BY <2>1, ServiceIndex
  <2>5. CASE Failed
    BY <2>1, <2>3, <2>4, <2>5, GivenUp DEF ctrlVars, rxVars, targetVars
  <2>6. CASE pc' = "connect" /\ cur' = cur + 1
    BY <2>1, <2>3, <2>4, <2>6 DEF Protocol, ctrlVars, rxVars, targetVars
  <2> QED
    BY <2>2, <2>5, <2>6
<1>9. CASE HTCStart
  <2>1. Quiet /\ pc = "connect"
    BY <1>0, <1>9 DEF HTCStart, Protocol
  <2>2. CASE SendControl(SetupComplete) /\ pc' = "started"
    <3>1. toTarget' \in {<<>>, <<SetupComplete>>}
      BY <2>1, <2>2, OneMessage DEF SendControl
    <3> QED
      BY <2>2, <3>1 DEF Protocol
  <2>3. CASE pc' = "failed" /\ UNCHANGED toTarget
    BY <2>1, <2>3 DEF Protocol
  <2> QED
    BY <1>9, <2>2, <2>3 DEF HTCStart
<1>10. CASE ~bug /\ RxCheck
  <2> USE DEF RxCheck, hostVars, ctrlVars
  <2>1. CASE pc \in {"reinit", "wait"}
    <3>1. OnTheBus /\ cur \in 0..Len(Services)
      BY <1>0, <1>10, <2>1, ServiceIndex
      DEF Protocol, Types, Asked, Received, Completed, Lost
    <3>2. PICK m \in Messages : toHost = <<m>> /\ AnswerTo(m, cur)
      BY <3>1 DEF OnTheBus
    <3>3. toHost' = <<>> /\ Head(toHost) = m
      BY <1>10, <3>2, OneMessage
    <3>4. Reserved(cur)'
      BY <1>10, <3>1 DEF OnTheBus, Reserved, HTCGetCreditAllocation
    <3>5. AnswerTo(m, cur)'
      BY <1>10, <3>2 DEF AnswerTo
    <3>8. cur <= Len(Services)
      BY <3>1, ServiceIndex
    <3>6. CASE StillProcessing
      <4>1. Lost'
        BY <1>10, <3>1, <3>3, <3>6 DEF OnTheBus, Lost
      <4> QED
        BY <1>10, <2>1, <3>8, <4>1 DEF Protocol
    <3>7. CASE ~StillProcessing
      <4>1. Received'
        BY <1>10, <3>1, <3>3, <3>4, <3>5, <3>7 DEF OnTheBus, Received
      <4> QED
        BY <1>10, <2>1, <3>8, <4>1 DEF Protocol
    <3> QED
      BY <3>6, <3>7
  <2>2. CASE pc \notin {"reinit", "wait"}
    BY <1>0, <1>10, <2>2 DEF Protocol
  <2> QED
    BY <2>1, <2>2
<1>11. CASE RxCopy
  <2> USE DEF RxCopy, hostVars, targetVars
  <2>1. CASE pc \in {"reinit", "wait"}
    <3>1. Received /\ cur <= Len(Services)
      BY <1>0, <1>11, <2>1
      DEF Protocol, Asked, OnTheBus, Completed, Lost
    <3>2. Received'
      BY <1>11, <3>1
      DEF Received, Reserved, AnswerTo, HTCGetCreditAllocation
    <3> QED
      BY <1>11, <2>1, <3>1, <3>2 DEF Protocol
  <2>2. CASE pc \notin {"reinit", "wait"}
    BY <1>0, <1>11, <2>2 DEF Protocol
  <2> QED
    BY <2>1, <2>2
<1>12. CASE RxComplete
  <2> USE DEF RxComplete, hostVars, targetVars
  <2>1. CASE pc \in {"reinit", "wait"}
    <3>1. Received /\ cur <= Len(Services)
      BY <1>0, <1>12, <2>1
      DEF Protocol, Asked, OnTheBus, Completed, Lost
    <3>2. Completed'
      BY <1>12, <3>1
      DEF Received, Completed, Reserved, AnswerTo, HTCGetCreditAllocation
    <3> QED
      BY <1>12, <2>1, <3>1, <3>2 DEF Protocol
  <2>2. CASE pc \notin {"reinit", "wait"}
    BY <1>0, <1>12, <2>2 DEF Protocol
  <2> QED
    BY <2>1, <2>2
<1>13. CASE TargetReady
  <2> USE DEF TargetReady, hostVars, ctrlVars, rxVars
  <2>1. CASE pc \in {"reinit", "wait"}
    <3>1. Asked /\ cur = 0
      BY <1>0, <1>13, <2>1
      DEF Protocol, Asked, OnTheBus, Received, Completed, Lost
    <3>2. toHost' = <<Ready>> /\ Ready \in Messages
      BY <1>13, <3>1, OneMessage DEF Asked, Messages
    <3>3. OnTheBus'
      BY <1>13, <3>1, <3>2 DEF Asked, OnTheBus, AnswerTo, Reserved
    <3> QED
      BY <1>13, <2>1, <3>1, <3>3, ServiceIndex DEF Protocol
  <2>2. CASE pc \notin {"reinit", "wait"}
    BY <1>0, <1>13, <2>2 DEF Protocol
  <2> QED
    BY <2>1, <2>2
<1>14. ASSUME NEW ok \in BOOLEAN, TargetAnswers(ok) PROVE Protocol'
  <2> USE DEF TargetAnswers, hostVars, ctrlVars, rxVars
  <2>1. CASE pc \in {"reinit", "wait"}
    <3>1. Asked /\ cur \in 1..Len(Services)
      BY <1>14, <2>1, TargetFinds
    <3> DEFINE s == Services[cur]
    <3>2. s \in ServiceSet
      BY <3>1, ServiceIndex
    <3>3. /\ toTarget' = <<>>
          /\ Head(toTarget) = ConnectMsg(s, HTCGetCreditAllocation(s))
      BY <1>14, <3>1, OneMessage DEF Asked, ConnectRequest
    <3>4. /\ toHost' = <<Response(s, ok)>>
          /\ targetAlloc' = [targetAlloc EXCEPT
                                ![s] = HTCGetCreditAllocation(s)]
          /\ UNCHANGED targetState
      BY <1>14, <3>1, <3>3, Fields, OneMessage DEF Asked
    <3>5. AnswerTo(Response(s, ok), cur)'
      BY <1>14, <3>1 DEF AnswerTo
    <3>6. Response(s, ok) \in Messages
      BY <3>2 DEF Messages, Answers
    <3>7. targetAlloc'[s] = HTCGetCreditAllocation(s)
      BY <1>0, <3>2, <3>4 DEF Types
    <3>8. Reserved(cur)'
      BY <1>14, <3>7 DEF Reserved, HTCGetCreditAllocation
    <3>9. OnTheBus'
      BY <1>14, <3>1, <3>3, <3>4, <3>5, <3>6, <3>8 DEF Asked, OnTheBus
    <3>10. cur <= Len(Services)
      BY <3>1, ServiceIndex
    <3> QED
      BY <1>14, <2>1, <3>9, <3>10 DEF Protocol
  <2>2. CASE pc \notin {"reinit", "wait"}
    <3>1. pc = "started" /\ toTarget = <<SetupComplete>>
      BY <1>14, <2>2, TargetFinds
    <3> QED
      BY <1>14, <3>1, OneMessage DEF Protocol
  <2> QED
    BY <2>1, <2>2
<1>15. CASE TargetHangs
  <2> USE DEF TargetHangs, hostVars, ctrlVars, rxVars
  <2>1. CASE pc \in {"reinit", "wait"}
    <3>1. Asked => Lost'
      BY <1>15 DEF Asked, Lost
    <3>2. (OnTheBus => OnTheBus') /\ (Received => Received')
      BY <1>15 DEF OnTheBus, Received, Reserved, AnswerTo,
         HTCGetCreditAllocation
    <3>3. (Completed => Completed') /\ (Lost => Lost')
      BY <1>15 DEF Completed, Lost, Reserved, AnswerTo,
         HTCGetCreditAllocation
    <3> QED
      BY <1>0, <1>15, <2>1, <3>1, <3>2, <3>3 DEF Protocol
  <2>2. CASE pc \notin {"reinit", "wait"}
    BY <1>0, <1>15, <2>2 DEF Protocol, Reserved, AnswerTo,
       HTCGetCreditAllocation
  <2> QED
    BY <2>1, <2>2
<1>16. CASE UNCHANGED vars
  BY <1>0, <1>16 DEF vars, Protocol, Asked, OnTheBus, Received, Completed,
     Lost, Reserved, HTCGetCreditAllocation, ConnectRequest
<1> QED
  BY <1>1, <1>2, <1>3, <1>4, <1>5, <1>6, <1>7, <1>8, <1>9, <1>10, <1>11,
     <1>12, <1>13, <1>14, <1>15, <1>16
  DEF Next, HostStep, RxStep, TargetStep, Over

(* Types.  The endpoint an answer names and the credits of the message are *)
(* in range because the answer is the target's.                            *)
LEMMA TypesStep ==
    ASSUME IInv, [Next]_vars
    PROVE  Types'
<1> USE DEF Types
<1>0. Types /\ Protocol
  BY DEF IInv
<1>1. CASE Failed /\ UNCHANGED <<credits, EndPoint, targetAlloc>>
           /\ cur <= Len(Services)
  BY <1>0, <1>1, ServiceIndex DEF Failed
<1>2. CASE UNCHANGED <<credits, EndPoint, targetAlloc, cur>>
           /\ pc' \in {"HIFStart", "connect", "reinit", "wait", "read",
                      "setup", "started", "failed"}
  BY <1>0, <1>2
<1>3. CASE HIFStart \/ ReInit \/ WaitDone \/ HTCStart \/ TargetHangs
           \/ RxCheck \/ RxCopy \/ RxComplete \/ TargetReady
           \/ UNCHANGED vars
  BY <1>0, <1>2, <1>3
  DEF HIFStart, ReInit, WaitDone, HTCStart, TargetHangs, RxCheck, RxCopy,
      RxComplete, TargetReady, vars, hostVars, targetVars
<1>4. CASE HTCConnectService
  BY <1>1, <1>2, <1>4 DEF HTCConnectService
<1>5. CASE WaitTimeout
  <2>1. cur <= Len(Services)
    BY <1>0, <1>5 DEF WaitTimeout, Protocol, WaitInv
  <2> QED
    BY <1>1, <1>5, <2>1 DEF WaitTimeout, targetVars
<1>6. CASE ReadReady
  <2>1. cur <= Len(Services) /\ cur = 0 /\ CtrlResponseBuffer = Ready
        /\ UNCHANGED targetAlloc
    BY <1>0, <1>6 DEF ReadReady, Protocol, ReadInv, AnswerTo, targetVars
  <2>2. CASE Failed /\ UNCHANGED <<credits, EndPoint>>
    BY <1>1, <2>1, <2>2
  <2>3. CASE /\ credits' = CtrlResponseBuffer.credits
             /\ EndPoint' = [EndPoint EXCEPT ![0].ServiceID =
                                                HTC_CTRL_RSVD_SVC]
             /\ cur' = 1 /\ pc' = "connect"
    <3>1. credits' \in Nat
      BY <2>1, <2>3, Fields, CreditsType
    <3>2. EndPoint' \in [EndpointIds -> [
              ServiceID : ServiceSet \cup {NoService, HTC_CTRL_RSVD_SVC},
              TxCredits : Nat]]
      BY <1>0, <2>3, EndpointZero
    <3> QED
      BY <1>0, <2>1, <2>3, <3>1, <3>2, ServiceIndex
  <2> QED
    BY <1>6, <2>2, <2>3 DEF ReadReady
<1>7. CASE ReadResponse
  <2>1. cur <= Len(Services)
    BY <1>0, <1>7 DEF ReadResponse, Protocol, ReadInv
  <2> QED
    BY <1>1, <1>2, <1>7, <2>1 DEF ReadResponse, targetVars
<1>8. CASE SetupEndpoint
  <2> DEFINE s == Services[cur]
             e == Assignment[s]
  <2>1. /\ cur \in 1..Len(Services) /\ s \in ServiceSet
        /\ e \in EndpointIds /\ response.endpoint = e
    <3>1. cur \in 1..Len(Services) /\ response = Response(s, TRUE)
      BY <1>0, <1>8 DEF SetupEndpoint, Protocol, SetupInv
    <3>2. Response(s, TRUE).endpoint = e
      BY Fields
    <3> QED
      BY <3>1, <3>2, ServiceIndex
  <2>2. UNCHANGED <<credits, targetAlloc>>
    BY <1>8 DEF SetupEndpoint, targetVars
  <2>3. \/ Failed \/ (pc' = "connect" /\ cur' = cur + 1)
    BY <1>8 DEF SetupEndpoint
  <2>4. cur' \in 0..(Len(Services) + 1) /\ pc' \in {"connect", "failed"}
    BY <2>1, <2>3, ServiceIndex DEF Failed
  <2>5. HTCGetCreditAllocation(s) \in Nat
    BY <1>0, AllocationType
  <2>6. \/ UNCHANGED EndPoint
        \/ EndPoint' = [EndPoint EXCEPT ![e] =
              [ServiceID |-> s, TxCredits |-> HTCGetCreditAllocation(s)]]
    BY <1>8, <2>1 DEF SetupEndpoint
  <2>7. EndPoint' \in [EndpointIds -> [
            ServiceID : ServiceSet \cup {NoService, HTC_CTRL_RSVD_SVC},
            TxCredits : Nat]]
    BY <1>0, <2>1, <2>5, <2>6
  <2> QED
    BY <1>0, <2>2, <2>4, <2>7
<1>9. ASSUME NEW ok \in BOOLEAN, TargetAnswers(ok) PROVE Types'
  <2>1. UNCHANGED <<pc, cur, credits, EndPoint>>
    BY <1>9 DEF TargetAnswers, hostVars
  <2>2. CASE UNCHANGED targetAlloc
    BY <1>0, <2>1, <2>2
  <2>3. CASE targetAlloc' = [targetAlloc EXCEPT
                 ![Head(toTarget).service] = Head(toTarget).alloc]
             /\ Head(toTarget).id = "HTC_MSG_CONNECT_SERVICE_ID"
    <3>1. cur \in 1..Len(Services) /\ Asked
      BY <1>9, <2>3, TargetFinds, OneMessage, Fields DEF TargetAnswers
    <3>2. Head(toTarget) = ConnectRequest(Services[cur])
      BY <3>1, OneMessage DEF Asked
    <3>3. Head(toTarget).alloc \in Nat
      BY <1>0, <3>2, Fields, AllocationType DEF ConnectRequest
    <3> QED
      BY <1>0, <2>1, <2>3, <3>3
  <2> QED
    BY <1>9, <2>2, <2>3 DEF TargetAnswers
<1> QED
  BY <1>3, <1>4, <1>5, <1>6, <1>7, <1>8, <1>9
  DEF Next, HostStep, RxStep, TargetStep, Over

(* The endpoints.  Only SetupEndpoint writes one, only the answer to the   *)
(* outstanding request writes a reservation, and the two are about the     *)
(* same service.                                                           *)
LEMMA EndpointStep ==
    ASSUME IInv, [Next]_vars
    PROVE  EndpointInv'
<1>0. Types /\ Protocol /\ EndpointInv
  BY DEF IInv
<1>1. ASSUME UNCHANGED <<EndPoint, targetAlloc>>, cur' >= cur,
             pc = "failed" => pc' = "failed"
      PROVE  EndpointInv'
  <2>1. cur \in Int /\ cur' \in Int
    BY <1>0, TypesStep, ServiceIndex DEF Types
  <2> QED
    BY <1>0, <1>1, <2>1, ServiceIndex DEF EndpointInv
<1>2. CASE Failed /\ pc # "failed" /\ UNCHANGED <<EndPoint, targetAlloc>>
  BY <1>0, <1>1, <1>2, ServiceIndex DEF Failed, Types
<1>3. CASE UNCHANGED <<EndPoint, targetAlloc, cur>>
           /\ (pc = "failed" => pc' = "failed")
  BY <1>0, <1>1, <1>3, ServiceIndex DEF Types
<1>4. CASE HIFStart \/ ReInit \/ WaitDone \/ HTCStart \/ TargetHangs
           \/ RxCheck \/ RxCopy \/ RxComplete \/ TargetReady
           \/ UNCHANGED vars
  BY <1>3, <1>4
  DEF HIFStart, ReInit, WaitDone, HTCStart, TargetHangs, RxCheck, RxCopy,
      RxComplete, TargetReady, vars, hostVars, targetVars
<1>5. CASE HTCConnectService
  BY <1>2, <1>3, <1>5 DEF HTCConnectService
<1>6. CASE WaitTimeout
  BY <1>2, <1>6 DEF WaitTimeout, targetVars
<1>7. CASE ReadReady
  <2>1. pc = "read" /\ cur = 0 /\ UNCHANGED targetAlloc
    BY <1>7 DEF ReadReady, targetVars
  <2>2. CASE Failed /\ UNCHANGED EndPoint
    BY <1>2, <2>1, <2>2
  <2>3. CASE /\ EndPoint' = [EndPoint EXCEPT ![0].ServiceID =
                                                HTC_CTRL_RSVD_SVC]
             /\ cur' = 1 /\ pc' = "connect"
    <3> SUFFICES ASSUME NEW e \in EndpointIds, NEW i \in 1..Len(Services),
                        EndPoint'[e].ServiceID = Services[i]
                 PROVE  FALSE
      BY DEF EndpointInv
    <3>1. e # 0
      BY <1>0, <2>3, EndpointZero, ServiceIndex DEF Types
    <3>2. EndPoint[e].ServiceID = Services[i]
      BY <1>0, <2>3, <3>1, EndpointZero DEF Types
    <3> QED
      BY <1>0, <2>1, <3>2, ServiceIndex DEF EndpointInv
  <2> QED
    BY <1>7, <2>2, <2>3 DEF ReadReady
<1>8. CASE ReadResponse
  BY <1>2, <1>3, <1>8 DEF ReadResponse, targetVars
<1>9. CASE SetupEndpoint
  <2> DEFINE s == Services[cur]
             a == Assignment[s]
  <2>1. /\ pc = "setup" /\ cur \in 1..Len(Services)
        /\ response = Response(s, TRUE)
        /\ targetAlloc[s] = HTCGetCreditAllocation(s)
        /\ UNCHANGED targetAlloc
    BY <1>0, <1>9, ServiceIndex
    DEF SetupEndpoint, Protocol, SetupInv, Reserved, targetVars
  <2>2. Response(s, TRUE).endpoint = a
    BY Fields
  <2>3. CASE Failed /\ UNCHANGED EndPoint
    BY <1>2, <2>1, <2>3
  <2>4. CASE /\ EndPoint' = [EndPoint EXCEPT ![a] =
                    [ServiceID |-> s,
                     TxCredits |-> HTCGetCreditAllocation(s)]]
             /\ Failed \/ (pc' = "connect" /\ cur' = cur + 1)
    <3>1. cur' = cur + 1 \/ (pc' = "failed" /\ cur' = cur)
      BY <2>4 DEF Failed
    <3> SUFFICES ASSUME NEW e \in EndpointIds, NEW i \in 1..Len(Services),
                        EndPoint'[e].ServiceID = Services[i]
                 PROVE  /\ e = Assignment[Services[i]]
                        /\ EndPoint'[e].TxCredits = targetAlloc[Services[i]]
                        /\ i < cur' \/ pc' = "failed"
      BY <2>1 DEF EndpointInv
    <3>2. CASE e = a
      <4>1. /\ EndPoint'[e].ServiceID = s
            /\ EndPoint'[e].TxCredits = HTCGetCreditAllocation(s)
        BY <1>0, <2>4, <3>2 DEF Types
      <4>2. i = cur
        BY <2>1, <4>1, ServiceIndex
      <4> QED
        BY <2>1, <3>1, <3>2, <4>1, <4>2, ServiceIndex
    <3>3. CASE e # a
      <4>1. EndPoint'[e] = EndPoint[e]
        BY <1>0, <2>4, <3>3 DEF Types
      <4>2. /\ e = Assignment[Services[i]]
            /\ EndPoint[e].TxCredits = targetAlloc[Services[i]]
            /\ i < cur
        BY <1>0, <2>1, <4>1 DEF EndpointInv
      <4> QED
        BY <2>1, <3>1, <4>1, <4>2, ServiceIndex
    <3> QED
      BY <3>2, <3>3
  <2> QED
    BY <1>9, <2>1, <2>2, <2>3, <2>4 DEF SetupEndpoint
<1>10. ASSUME NEW ok \in BOOLEAN, TargetAnswers(ok) PROVE EndpointInv'
  <2>1. UNCHANGED <<pc, cur, credits, EndPoint>>
    BY <1>10 DEF TargetAnswers, hostVars
  <2>2. CASE UNCHANGED targetAlloc
    BY <1>3, <2>1, <2>2
  <2>3. CASE targetAlloc' = [targetAlloc EXCEPT
                 ![Head(toTarget).service] = Head(toTarget).alloc]
             /\ Head(toTarget).id = "HTC_MSG_CONNECT_SERVICE_ID"
    <3>1. cur \in 1..Len(Services) /\ Asked /\ pc \in {"reinit", "wait"}
      BY <1>10, <2>3, TargetFinds, OneMessage, Fields DEF TargetAnswers
    <3>2. Head(toTarget) = ConnectRequest(Services[cur])
      BY <3>1, OneMessage DEF Asked
    <3>3. Head(toTarget).service = Services[cur]
      BY <3>2, Fields DEF ConnectRequest
    <3> SUFFICES ASSUME NEW e \in EndpointIds, NEW i \in 1..Len(Services),
                        EndPoint[e].ServiceID = Services[i]
                 PROVE  /\ e = Assignment[Services[i]]
                        /\ EndPoint[e].TxCredits = targetAlloc'[Services[i]]
                        /\ i < cur
      BY <2>1 DEF EndpointInv
    <3>4. /\ e = Assignment[Services[i]]
          /\ EndPoint[e].TxCredits = targetAlloc[Services[i]]
          /\ i < cur
      BY <1>0, <3>1 DEF EndpointInv
    <3>5. Services[i] # Services[cur]
      BY <3>1, <3>4, ServiceIndex
    <3>6. targetAlloc'[Services[i]] = targetAlloc[Services[i]]
      BY <1>0, <2>3, <3>3, <3>5, ServiceIndex DEF Types
    <3> QED
      BY <3>4, <3>6
  <2> QED
    BY <1>10, <2>2, <2>3 DEF TargetAnswers
<1> QED
  BY <1>4, <1>5, <1>6, <1>7, <1>8, <1>9, <1>10
  DEF Next, HostStep, RxStep, TargetStep, Over

(* Without late answers a wait times out only when the one message of the  *)
(* request is lost, and a hung target stays hung.                          *)
LEMMA HangStep ==
    ASSUME IInv, HangInv, [Next]_vars
    PROVE  HangInv'
<1>1. CASE ~bug /\ WaitTimeout
  <2> SUFFICES ASSUME ~LateAnswers PROVE targetState' = "hung"
    BY DEF HangInv, TimeoutMeansHang
  <2>1. NothingOnTheWay /\ ~bug /\ pc = "wait" /\ CtrlResponseValid = 0
        /\ UNCHANGED targetState
    BY <1>1 DEF WaitTimeout, targetVars
  <2>2. Lost
    BY <2>1, OneMessage
    DEF NothingOnTheWay, IInv, Protocol, WaitInv, Asked, OnTheBus, Received,
        Completed
  <2> QED
    BY <2>1, <2>2 DEF Lost
<1>2. CASE /\ UNCHANGED timedOut
           /\ targetState = "hung" => targetState' = "hung"
  BY <1>2 DEF HangInv, TimeoutMeansHang
<1>3. ASSUME NEW ok \in BOOLEAN, TargetAnswers(ok) PROVE HangInv'
  BY <1>2, <1>3 DEF TargetAnswers, hostVars
<1> QED
  BY <1>1, <1>2, <1>3
  DEF Next, HostStep, RxStep, TargetStep, Over, HIFStart, HTCConnectService,
      ReInit, WaitDone, ReadReady, ReadResponse, SetupEndpoint, HTCStart,
      RxCheck, RxCopy, RxComplete, TargetReady, TargetHangs, vars, hostVars,
      targetVars

-----------------------------------------------------------------------------
(* The theorems.                                                           *)

(* In every state the pipeline holds at most the one message of the        *)
(* current request, unless some wait gave up on an answer that was late.   *)
Safe == (LateAnswers /\ timedOut) \/ IInv

LEMMA SafeStep == Safe /\ [Next]_vars => Safe'
<1> SUFFICES ASSUME Safe, [Next]_vars, ~(LateAnswers /\ timedOut')
             PROVE  IInv'
  BY DEF Safe
<1>1. timedOut => timedOut'
  BY DEF Next, HostStep, RxStep, TargetStep, Over, HIFStart,
     HTCConnectService, ReInit, WaitDone, WaitTimeout, ReadReady,
     ReadResponse, SetupEndpoint, HTCStart, RxCheck, RxCopy, RxComplete,
     TargetReady, TargetAnswers, TargetHangs, vars, hostVars
<1>2. IInv
  BY <1>1 DEF Safe
<1> QED
  BY <1>2, TypesStep, ProtocolStep, EndpointStep DEF IInv

(* Until a wait has timed out, the ready message and every answer is the *)
(* one the waiting caller asked for, and the endpoint table follows: Safe *)
(* is the inductive invariant behind the theorems below.                  *)
THEOREM SafeAlways == Spec => []Safe
<1>1. Init => Safe
  BY InitIInv DEF Safe
<1> QED
  BY <1>1, SafeStep, PTL DEF Spec

LEMMA IInvAnswers == IInv => AnswersItsRequest
<1> SUFFICES ASSUME IInv, pc = "read"
             PROVE  IF cur = 0 THEN CtrlResponseBuffer = Ready
                    ELSE /\ CtrlResponseBuffer \in Answers
                         /\ CtrlResponseBuffer.service = Services[cur]
  BY DEF AnswersItsRequest
<1>1. cur \in 0..Len(Services) /\ AnswerTo(CtrlResponseBuffer, cur)
  BY ServiceIndex DEF IInv, Types, Protocol, ReadInv
<1>2. CASE cur = 0
  BY <1>1, <1>2 DEF AnswerTo
<1>3. CASE cur # 0
  <2>1. PICK ok \in BOOLEAN :
             CtrlResponseBuffer = Response(Services[cur], ok)
    BY <1>1, <1>3 DEF AnswerTo
  <2>2. Services[cur] \in ServiceSet
    BY <1>1, <1>3, ServiceIndex
  <2>3. Response(Services[cur], ok) \in Answers
    BY <2>2 DEF Answers
  <2> QED
    BY <1>3, <2>1, <2>3, Fields
<1> QED
  BY <1>2, <1>3

LEMMA IInvEndpoints == IInv => ServiceOnItsEndpoint
BY ServiceIndex DEF IInv, EndpointInv, ServiceOnItsEndpoint

(* What HTCWaitRecvCtrlMessage hands to its caller is the answer to the    *)
(* caller's own request for as long as no wait has timed out, whatever the *)
(* target's delays: HTCConnectService never needs to compare the service   *)
(* id of the response before that.                                         *)
THEOREM AnswersUntilTimeout == Spec => [](timedOut \/ AnswersItsRequest)
<1>1. Safe => timedOut \/ AnswersItsRequest
  BY IInvAnswers DEF Safe
<1> QED
  BY <1>1, SafeAlways, PTL

(* If every answer arrives within HTC_CONTROL_RX_TIMEOUT or not at all, it *)
(* is so even after a timeout.                                             *)
THEOREM AnswersMatch ==
    ASSUME LateAnswers = FALSE
    PROVE  Spec => []AnswersItsRequest
<1>1. Safe => AnswersItsRequest
  BY IInvAnswers DEF Safe
<1> QED
  BY <1>1, SafeAlways, PTL

(* The same for the endpoint table HTCConnectService fills in: a service   *)
(* is on the endpoint the target gave it, with the credits the target was  *)
(* asked to reserve.                                                       *)
THEOREM EndpointsUntilTimeout == Spec => [](timedOut \/ ServiceOnItsEndpoint)
<1>1. Safe => timedOut \/ ServiceOnItsEndpoint
  BY IInvEndpoints DEF Safe
<1> QED
  BY <1>1, SafeAlways, PTL

(* Without late answers the endpoint table is right throughout.            *)
THEOREM EndpointsMatch ==
    ASSUME LateAnswers = FALSE
    PROVE  Spec => []ServiceOnItsEndpoint
<1>1. Safe => ServiceOnItsEndpoint
  BY IInvEndpoints DEF Safe
<1> QED
  BY <1>1, SafeAlways, PTL

(* Without late answers, no answer is lost between a request and its wait: *)
(* a wait of HTCWaitRecvCtrlMessage that times out is one on a hung target.*)
THEOREM TimeoutsAreHangs ==
    ASSUME LateAnswers = FALSE
    PROVE  Spec => []TimeoutMeansHang
<1>1. Init => HangInv
  BY DEF Init, HangInv, TimeoutMeansHang
<1>2. Safe => IInv
  BY DEF Safe
<1>3. Safe /\ HangInv /\ [Next]_vars => HangInv'
  BY <1>2, HangStep
<1>4. HangInv => TimeoutMeansHang
  BY DEF HangInv
<1> QED
  BY <1>1, <1>3, <1>4, SafeAlways, PTL DEF Spec
=============================================================================
