--------------------------- MODULE VosSchedProofs ---------------------------
(***************************************************************************)
(* Proofs about VosSched, for any number of message queues, wrappers,      *)
(* packets and posting contexts.                                           *)
(***************************************************************************)
EXTENDS VosSched, ListTheorems

LEMMA QueueTypes ==
    ASSUME NEW t \in Threads, NEW k \in 1..Len(QueuesOf(t))
    PROVE  QueuesOf(t)[k] \in Queues /\ ThreadOf(QueuesOf(t)[k]) = t
  BY QueueAssumption DEF QueuesOf, Queues, McQueueSet, ThreadOf, Threads

LEMMA QueuesDiffer ==
    ASSUME NEW t \in Threads, NEW k \in 1..Len(QueuesOf(t)),
           NEW j \in 1..Len(QueuesOf(t)), QueuesOf(t)[k] = QueuesOf(t)[j]
    PROVE  k = j
  BY QueueAssumption DEF QueuesOf, Threads

LEMMA TypeStep == TypeOK /\ [Next]_vars => TypeOK'
<1> SUFFICES ASSUME TypeOK, [Next]_vars PROVE TypeOK'
  OBVIOUS
<1> USE DEF TypeOK
<1>1. ASSUME NEW p \in Posters, NEW q \in Queues, PostGet(p, q) PROVE TypeOK'
  <2>1. ThreadOf(q) \in Threads
    BY DEF ThreadOf, Threads
  <2> QED BY <1>1, <2>1 DEF PostGet, threadVars, handshake, ctlVars
<1>2. ASSUME NEW p \in Posters, PostPut(p) \/ PostSignal(p) PROVE TypeOK'
  <2>1. CASE PostPut(p)
    BY <2>1 DEF PostPut, threadVars, handshake, ctlVars
  <2>2. CASE PostSignal(p)
    BY <2>2 DEF PostSignal, Idle, Queues, ThreadOf, Threads, Bits, threadVars,
       handshake, ctlVars
  <2> QED BY <1>2, <2>1, <2>2
<1>3. CASE DropTake
  BY <1>3 DEF DropTake, threadVars, handshake, ctlVars
<1>4. CASE DropFree
  BY <1>4 DEF DropFree, threadVars, handshake, ctlVars, Bufs
<1>5. ASSUME NEW t \in Threads, ThreadStep(t) PROVE TypeOK'
  <2> USE DEF ThreadPcs
  <2>1. CASE Wake(t)
    BY <2>1 DEF Wake, bufVars, handshake, ctlVars
  <2>2. CASE Exit(t)
    BY <2>2 DEF Exit, bufVars, ctlVars
  <2>3. CASE StartScan(t)
    BY <2>3 DEF StartScan, bufVars, handshake, ctlVars
  <2>4. CASE Scan(t)
    <3>1. CASE mq[QueuesOf(t)[idx[t]]] = <<>>
      <4>1. idx' = [idx EXCEPT ![t] = idx[t] + 1] /\ UNCHANGED <<mq, hand, pc>>
        BY <2>4, <3>1 DEF Scan
      <4> QED BY <2>4, <4>1 DEF Scan, handshake, ctlVars
    <3>2. CASE mq[QueuesOf(t)[idx[t]]] # <<>>
      BY <2>4, <3>2 DEF Scan, handshake, ctlVars
    <3> QED BY <3>1, <3>2
  <2>5. CASE Handled(t)
    BY <2>5 DEF Handled, handshake, ctlVars
  <2>6. CASE ScanDone(t)
    BY <2>6 DEF ScanDone, bufVars, handshake, ctlVars
  <2>7. CASE TestSuspend(t)
    BY <2>7 DEF TestSuspend, bufVars, handshake, ctlVars
  <2>8. CASE ClearSuspend(t)
    BY <2>8 DEF ClearSuspend, bufVars, handshake, ctlVars
  <2>9. CASE Confirm(t) \/ Unpark(t)
    BY <2>9 DEF Confirm, Unpark, bufVars, ctlVars
  <2> QED BY <1>5, <2>1, <2>2, <2>3, <2>4, <2>5, <2>6, <2>7, <2>8, <2>9
          DEF ThreadStep
<1>6. CASE ControlStep
  <2> USE DEF Controls, Threads
  <2>1. CASE SuspendWlan
    BY <2>1 DEF SuspendWlan, Bits, bufVars, threadVars, handshake
  <2>2. CASE Confirmed
    BY <2>2 DEF Confirmed, bufVars, threadVars
  <2>3. CASE WaitTimedOut
    BY <2>3 DEF WaitTimedOut, Confirming, bufVars, threadVars, handshake
  <2>9. CASE FwSuspended
    BY <2>9 DEF FwSuspended, bufVars, threadVars, handshake
  <2>10. CASE FwSuspendFails \/ ResumeWlan \/ Shutdown
    <3>1. ResumeMarked
      BY <2>10 DEF FwSuspendFails, ResumeWlan, Shutdown
    <3>2. resume' \in [Threads -> Nat] /\ suspended' \in [Threads -> BOOLEAN]
      BY <3>1 DEF ResumeMarked
    <3> QED BY <2>10, <3>2 DEF FwSuspendFails, ResumeWlan, Shutdown, bufVars,
            threadVars
  <2>4. CASE CloseSet
    <3>1. CloseBits[ctlI] \in Bits
      BY <2>4 DEF CloseSet, CloseBits, Bits
    <3> QED BY <2>4, <3>1 DEF CloseSet, bufVars, threadVars, handshake
  <2>5. CASE CloseJoin
    BY <2>5 DEF CloseJoin, bufVars, threadVars, handshake
  <2>6. CASE CloseFlush
    BY <2>6 DEF CloseFlush, threadVars, handshake
  <2>7. CASE CloseNext
    BY <2>7 DEF CloseNext, threadVars, handshake
  <2>8. CASE Reopen
    BY <2>8 DEF Reopen, Opened, Pool, Bufs, Bits, ThreadPcs
  <2> QED BY <1>6, <2>1, <2>2, <2>3, <2>4, <2>5, <2>6, <2>7, <2>8,
          <2>9, <2>10 DEF ControlStep, CloseStep
<1>7. CASE UNCHANGED vars
  BY <1>7 DEF vars
<1> QED BY <1>1, <1>2, <1>3, <1>4, <1>5, <1>6, <1>7 DEF Next, PosterStep

LEMMA TypeInit == Init => TypeOK
<1> SUFFICES ASSUME Init PROVE TypeOK
  OBVIOUS
<1>1. lateAck \in BOOLEAN
  BY DEF Init
<1> QED BY <1>1 DEF Init, TypeOK, Idle, Queues, Threads, ThreadPcs, Controls,
        Bits

-----------------------------------------------------------------------------
(* The step that carries NoMessageForgotten: what a step does to one queue *)
(* q, the k-th of thread t.                                                *)
LEMMA ForgottenStep == TypeOK /\ NoMessageForgotten /\ [Next]_vars
                           => NoMessageForgotten'
<1> SUFFICES ASSUME TypeOK, NoMessageForgotten, [Next]_vars,
                    NEW t \in Threads, NEW k \in 1..Len(QueuesOf(t)),
                    mq'[QueuesOf(t)[k]] # <<>>, pc'[t] # "exited"
             PROVE  \/ "POST" \in evt'[t]
                    \/ WillSignal(QueuesOf(t)[k])'
                    \/ StillLooks(t, k)'
  BY DEF NoMessageForgotten
<1> DEFINE q == QueuesOf(t)[k]
<1>q. q \in Queues /\ ThreadOf(q) = t
  BY QueueTypes
<1>h. mq[q] # <<>> /\ pc[t] # "exited" =>
          "POST" \in evt[t] \/ WillSignal(q) \/ StillLooks(t, k)
  BY DEF NoMessageForgotten
<1> HIDE DEF q
<1> USE DEF TypeOK, WillSignal, StillLooks
<1>1. ASSUME NEW p \in Posters, NEW r \in Queues, PostGet(p, r)
      PROVE  "POST" \in evt'[t] \/ WillSignal(q)' \/ StillLooks(t, k)'
  BY <1>1, <1>h, <1>q DEF PostGet, threadVars, q
<1>2. ASSUME NEW p \in Posters, PostPut(p)
      PROVE  "POST" \in evt'[t] \/ WillSignal(q)' \/ StillLooks(t, k)'
  <2>1. CASE poster[p].q = q
    BY <1>2, <2>1 DEF PostPut
  <2>2. CASE poster[p].q # q
    BY <1>2, <2>2, <1>h, <1>q DEF PostPut, threadVars, q
  <2> QED BY <2>1, <2>2
<1>3. ASSUME NEW p \in Posters, PostSignal(p)
      PROVE  "POST" \in evt'[t] \/ WillSignal(q)' \/ StillLooks(t, k)'
  <2>1. CASE poster[p].q = q
    BY <1>3, <2>1, <1>q DEF PostSignal
  <2>2. CASE poster[p].q # q
    BY <1>3, <2>2, <1>h, <1>q DEF PostSignal, Idle, threadVars, ThreadOf,
       Threads, q
  <2> QED BY <2>1, <2>2
<1>4. CASE DropTake
  BY <1>4, <1>h, <1>q DEF DropTake, threadVars, q
<1>5. CASE DropFree
  BY <1>5, <1>h, <1>q DEF DropFree, threadVars, q
<1>6. ASSUME NEW u \in Threads, ThreadStep(u)
      PROVE  "POST" \in evt'[t] \/ WillSignal(q)' \/ StillLooks(t, k)'
  <2>1. CASE Wake(u)
    BY <2>1, <1>h, <1>q DEF Wake, bufVars, q
  <2>6. CASE Exit(u)
    <3>1. /\ UNCHANGED <<mq, poster, idx>>
          /\ pc' = [pc EXCEPT ![u] = "exited"]
          /\ "POST" \in evt[t] => "POST" \in evt'[t]
      BY <2>6 DEF Exit, bufVars
    <3> QED BY <3>1, <1>h, <1>q DEF q
  <2>7. CASE StartScan(u)
    BY <2>7, <1>h, <1>q DEF StartScan, bufVars, q
  <2>2. CASE Scan(u)
    <3> DEFINE r == QueuesOf(u)[idx[u]]
    <3>1. r \in Queues /\ ThreadOf(r) = u
      BY <2>2, QueueTypes DEF Scan
    <3>2. r = q => u = t /\ idx[u] = k
      BY <2>2, <3>1, <1>q, QueuesDiffer DEF Scan, q
    <3>3. CASE mq[r] = <<>>
      <4>1. idx' = [idx EXCEPT ![u] = idx[u] + 1] /\ UNCHANGED <<mq, pc>>
        BY <2>2, <3>3 DEF Scan
      <4> QED BY <4>1, <2>2, <3>2, <3>3, <1>h, <1>q DEF Scan, q
    <3>4. CASE mq[r] # <<>>
      <4>1. /\ mq' = [mq EXCEPT ![r] = Tail(mq[r])] /\ UNCHANGED idx
            /\ pc' = [pc EXCEPT ![u] = "handle"]
        BY <2>2, <3>4 DEF Scan
      <4> HIDE DEF r
      <4> QED BY <4>1, <2>2, <3>1, <3>2, <1>h, <1>q DEF Scan, q
    <3> QED BY <3>3, <3>4
  <2>3. CASE Handled(u)
    <3>1. 1 <= k
      OBVIOUS
    <3> QED BY <2>3, <3>1, <1>h, <1>q DEF Handled, q
  <2>4. CASE ScanDone(u) \/ TestSuspend(u)
    BY <2>4, <1>h, <1>q DEF ScanDone, TestSuspend, bufVars, q
  <2>5. CASE ClearSuspend(u) \/ Confirm(u) \/ Unpark(u)
    BY <2>5, <1>h, <1>q DEF ClearSuspend, Confirm, Unpark, bufVars, q
  <2> QED BY <1>6, <2>1, <2>2, <2>3, <2>4, <2>5, <2>6, <2>7 DEF ThreadStep
<1>7. CASE ControlStep
  <2>1. CASE SuspendWlan \/ Confirmed \/ WaitTimedOut
    BY <2>1, <1>h, <1>q DEF SuspendWlan, Confirmed, WaitTimedOut, bufVars,
       threadVars, q, Threads
  <2>2. CASE FwSuspended \/ FwSuspendFails \/ ResumeWlan \/ Shutdown
    BY <2>2, <1>h, <1>q DEF FwSuspended, FwSuspendFails, ResumeWlan, Shutdown,
       bufVars, threadVars, q
  <2>3. CASE CloseSet \/ CloseJoin
    BY <2>3, <1>h, <1>q DEF CloseSet, CloseJoin, bufVars, threadVars, q
  <2>4. CASE CloseFlush
    <3>1. mq'[q] # <<>> => mq'[q] = mq[q]
      BY <2>4, <1>q DEF CloseFlush
    <3> QED BY <2>4, <3>1, <1>h, <1>q DEF CloseFlush, threadVars, q
  <2>5. CASE CloseNext
    BY <2>5, <1>h, <1>q DEF CloseNext, threadVars, q
  <2>6. CASE Reopen
    BY <2>6, <1>q DEF Reopen, Opened, q
  <2> QED BY <1>7, <2>1, <2>2, <2>3, <2>4, <2>5, <2>6
          DEF ControlStep, CloseStep
<1>8. CASE UNCHANGED vars
  BY <1>8, <1>h DEF vars, q
<1> QED BY <1>1, <1>2, <1>3, <1>4, <1>5, <1>6, <1>7, <1>8
        DEF Next, PosterStep, q

(* No interleaving of posts, services, suspends and closes takes a         *)
(* variable of the scheduler out of its range.                             *)
THEOREM TypeCorrect == Spec => []TypeOK
  BY TypeInit, TypeStep, PTL DEF Spec

(* No message that any context posts is ever forgotten by the main         *)
(* controller or the receive thread (VosMCThread, VosTlshimRxThread): in   *)
(* every reachable state, for any number of queues, wrappers, packets and  *)
(* posting contexts, a nonempty queue will be looked at again.             *)
THEOREM NoMessageIsForgotten == Spec => []NoMessageForgotten
<1>1. Init => NoMessageForgotten
  <2> SUFFICES ASSUME Init, NEW t \in Threads, NEW k \in 1..Len(QueuesOf(t))
               PROVE  mq[QueuesOf(t)[k]] = <<>>
    BY DEF NoMessageForgotten
  <2> QED BY QueueTypes DEF Init
<1> QED BY <1>1, TypeInit, TypeStep, ForgottenStep, PTL DEF Spec

-----------------------------------------------------------------------------
(* The order in which vos_sched_close ends the two threads.                *)
ClosedInOrder ==
    /\ \A t \in Threads : pc[t] # "handle" => hand[t] = None
    /\ ctl = "flush" => pc[ctlT] = "exited"
    /\ Closing /\ ctlT = "rx" => pc["mc"] = "exited"
    /\ ctl = "closed" => \A t \in Threads : pc[t] = "exited"

LEMMA ClosedInOrderStep == TypeOK /\ ClosedInOrder /\ [Next]_vars
                               => ClosedInOrder'
<1> SUFFICES ASSUME TypeOK, ClosedInOrder, [Next]_vars PROVE ClosedInOrder'
  OBVIOUS
<1> USE DEF TypeOK, ClosedInOrder, Closing
<1>1. ASSUME NEW p \in Posters, PosterStep(p) PROVE ClosedInOrder'
  BY <1>1 DEF PosterStep, PostGet, PostPut, PostSignal, threadVars, ctlVars
<1>2. CASE DropTake \/ DropFree
  BY <1>2 DEF DropTake, DropFree, threadVars, ctlVars
<1>3. ASSUME NEW t \in Threads, ThreadStep(t) PROVE ClosedInOrder'
  <2>1. pc[t] # "exited" /\ UNCHANGED <<ctl, ctlT>>
    BY <1>3 DEF ThreadStep, Wake, Exit, StartScan, Scan, Handled, ScanDone,
       TestSuspend, ClearSuspend, Confirm, Unpark, ctlVars
  <2>2. \A u \in Threads : pc[u] = "exited" => pc'[u] = "exited"
    BY <1>3, <2>1 DEF ThreadStep, Wake, Exit, StartScan, Scan, Handled,
       ScanDone, TestSuspend, ClearSuspend, Confirm, Unpark
  <2>3. \A u \in Threads : pc'[u] # "handle" => hand'[u] = None
    BY <1>3 DEF ThreadStep, Wake, Exit, StartScan, Scan, Handled, ScanDone,
       TestSuspend, ClearSuspend, Confirm, Unpark
  <2> QED BY <2>1, <2>2, <2>3 DEF Threads
<1>4. CASE ControlStep
  <2> USE DEF Threads
  <2>1. CASE SuspendWlan \/ Confirmed \/ WaitTimedOut
    BY <2>1 DEF SuspendWlan, Confirmed, WaitTimedOut, threadVars
  <2>2. CASE FwSuspended \/ FwSuspendFails \/ ResumeWlan \/ Shutdown
    BY <2>2 DEF FwSuspended, FwSuspendFails, ResumeWlan, Shutdown, threadVars
  <2>3. CASE CloseSet \/ CloseJoin
    BY <2>3 DEF CloseSet, CloseJoin, threadVars
  <2>4. CASE CloseFlush \/ CloseNext
    BY <2>4 DEF CloseFlush, CloseNext, threadVars
  <2>5. CASE Reopen
    BY <2>5 DEF Reopen, Opened
  <2> QED BY <1>4, <2>1, <2>2, <2>3, <2>4, <2>5 DEF ControlStep, CloseStep
<1>5. CASE UNCHANGED vars
  BY <1>5 DEF vars
<1> QED BY <1>1, <1>2, <1>3, <1>4, <1>5 DEF Next

(* When vos_sched_close has returned, both threads have exited and hold no *)
(* buffer, and a thread whose queues are flushed serves no message.        *)
THEOREM ClosedThreadsAreGone == Spec => []NoThreadAfterClose
<1>1. Init => ClosedInOrder
  BY DEF Init, ClosedInOrder, Closing
<1>2. TypeOK /\ ClosedInOrder => NoThreadAfterClose
  BY DEF TypeOK, ClosedInOrder, NoThreadAfterClose
<1> QED BY <1>1, <1>2, TypeInit, TypeStep, ClosedInOrderStep, PTL DEF Spec

-----------------------------------------------------------------------------
(* The suspend handshake between the control thread and thread t.  The     *)
(* control thread waits for a confirmation of t:                           *)
Asked(t) == ctl = "confirm" /\ t = "rx"

(* While it waits, the request is in one of three places - the SUSPEND     *)
(* event, the hands of the thread, the confirmation - and otherwise in     *)
(* none.  A thread parked from the suspend before has its resume event.    *)
Handshake(t) ==
    /\ "SHUTDOWN" \in evt[t] => Closing
    /\ resume[t] > 0 => resume[t] = 1 /\ pc[t] = "parked"
    /\ suspended[t] =>
          /\ pc[t] = "parked" /\ resume[t] = 0
          /\ ctl \in {"fw", "suspended"}
    /\ pc[t] = "parked" =>
          suspended[t] \/ resume[t] > 0 \/ (Asked(t) /\ ack[t] > 0)
    /\ Asked(t) =>
          \/ /\ "SUSPEND" \in evt[t] /\ ack[t] = 0 /\ pc[t] # "confirm"
             /\ pc[t] = "parked" => resume[t] > 0
          \/ "SUSPEND" \notin evt[t] /\ ack[t] = 0 /\ pc[t] = "confirm"
          \/ /\ "SUSPEND" \notin evt[t] /\ ack[t] = 1
             /\ pc[t] = "parked" /\ resume[t] = 0 /\ ~suspended[t]
    /\ ~Asked(t) =>
          "SUSPEND" \notin evt[t] /\ ack[t] = 0
          /\ pc[t] \notin {"clear", "confirm"}

HandshakeOK == ~lateAck => \A t \in Threads : Handshake(t)

LEMMA HandshakeStep == TypeOK /\ HandshakeOK /\ [Next]_vars => HandshakeOK'
<1> SUFFICES ASSUME TypeOK, \A u \in Threads : Handshake(u), [Next]_vars,
                    ~lateAck', NEW t \in Threads
             PROVE  Handshake(t)'
  <2>1. [Next]_vars /\ ~lateAck' => ~lateAck
    BY DEF Next, PosterStep, PostGet, PostPut, PostSignal, DropTake, DropFree,
       ThreadStep, Wake, Exit, StartScan, Scan, Handled, ScanDone,
       TestSuspend, ClearSuspend, Confirm, Unpark, ControlStep, SuspendWlan,
       Confirmed, WaitTimedOut, FwSuspended, FwSuspendFails, ResumeWlan,
       Shutdown, CloseStep, CloseSet, CloseJoin, CloseFlush, CloseNext,
       Reopen, vars
  <2> QED BY <2>1 DEF HandshakeOK
<1>n. WaitTimedOut => ~Confirming("rx")
  BY DEF WaitTimedOut
<1> USE DEF TypeOK, Handshake, Asked, Closing
<1>1. ASSUME NEW p \in Posters, PosterStep(p) PROVE Handshake(t)'
  <2>1. CASE (\E q \in Queues : PostGet(p, q)) \/ PostPut(p)
    BY <2>1 DEF PostGet, PostPut, threadVars, handshake, ctlVars
  <2>2. CASE PostSignal(p)
    BY <2>2 DEF PostSignal, threadVars, handshake, ctlVars
  <2> QED BY <1>1, <2>1, <2>2 DEF PosterStep
<1>2. CASE DropTake \/ DropFree
  <2>1. UNCHANGED <<evt, threadVars, handshake, ctlVars>>
    BY <1>2 DEF DropTake, DropFree
  <2> QED BY <2>1 DEF threadVars, handshake, ctlVars
<1>3. ASSUME NEW u \in Threads, ThreadStep(u) PROVE Handshake(t)'
  <2>1. CASE u # t
    <3>1. /\ UNCHANGED ctlVars
          /\ evt'[t] = evt[t] /\ pc'[t] = pc[t] /\ ack'[t] = ack[t]
          /\ resume'[t] = resume[t] /\ suspended'[t] = suspended[t]
      BY <1>3, <2>1 DEF ThreadStep, Wake, Exit, StartScan, Scan, Handled,
         ScanDone, TestSuspend, ClearSuspend, Confirm, Unpark, handshake
    <3> QED BY <3>1 DEF ctlVars
  <2>2. CASE u = t
    <3>1. CASE Wake(t)
      BY <3>1 DEF Wake, handshake, ctlVars
    <3>2. CASE Exit(t)
      <4>1. ~Asked(t) /\ "SUSPEND" \notin evt[t]
        BY <3>2 DEF Exit
      <4>2. ack'[t] = ack[t]
        BY <3>2, <4>1 DEF Exit
      <4>3. "SUSPEND" \notin evt'[t] /\ Closing
        BY <3>2, <4>1 DEF Exit
      <4>4. pc'[t] = "exited" /\ pc[t] = "loop" /\ UNCHANGED <<resume, suspended, ctl, ctlT>>
        BY <3>2 DEF Exit, ctlVars
      <4> QED BY <4>1, <4>2, <4>3, <4>4
    <3>3. CASE StartScan(t) \/ ScanDone(t)
      BY <3>3 DEF StartScan, ScanDone, handshake, ctlVars
    <3>4. CASE Scan(t) \/ Handled(t)
      <4>1. /\ pc'[t] \in {"scan", "handle", "loop"}
            /\ pc[t] \in {"scan", "handle"}
            /\ UNCHANGED <<evt, handshake, ctlVars>>
        BY <3>4 DEF Scan, Handled
      <4> QED BY <4>1 DEF handshake, ctlVars
    <3>5. CASE TestSuspend(t)
      <4>1. /\ pc[t] = "test" /\ UNCHANGED <<evt, handshake, ctlVars>>
            /\ pc'[t] = IF "SUSPEND" \in evt[t] THEN "clear" ELSE "wait"
        BY <3>5 DEF TestSuspend
      <4> QED BY <4>1 DEF handshake, ctlVars
    <3>6. CASE ClearSuspend(t)
      BY <3>6 DEF ClearSuspend, handshake, ctlVars
    <3>7. CASE Confirm(t)
      BY <3>7 DEF Confirm, ctlVars
    <3>8. CASE Unpark(t)
      BY <3>8 DEF Unpark, ctlVars
    <3> QED BY <1>3, <2>2, <3>1, <3>2, <3>3, <3>4, <3>5, <3>6, <3>7, <3>8
            DEF ThreadStep
  <2> QED BY <2>1, <2>2
<1>4. CASE ControlStep
  <2> USE DEF Threads
  <2>1. CASE SuspendWlan
    BY <2>1 DEF SuspendWlan, threadVars, handshake
  <2>2. CASE Confirmed
    BY <2>2 DEF Confirmed, threadVars
  <2>3. CASE WaitTimedOut
    BY <2>3, <1>n DEF WaitTimedOut, Confirming, threadVars, handshake
  <2>4. CASE FwSuspended
    BY <2>4 DEF FwSuspended, threadVars, handshake
  <2>5. CASE FwSuspendFails \/ ResumeWlan \/ Shutdown
    BY <2>5 DEF FwSuspendFails, ResumeWlan, Shutdown, ResumeMarked, threadVars
  <2>6. CASE CloseSet
    BY <2>6 DEF CloseSet, CloseBits, threadVars, handshake
  <2>7. CASE CloseJoin \/ CloseFlush \/ CloseNext
    BY <2>7 DEF CloseJoin, CloseFlush, CloseNext, threadVars, handshake
  <2>8. CASE Reopen
    BY <2>8 DEF Reopen, Opened
  <2> QED BY <1>4, <2>1, <2>2, <2>3, <2>4, <2>5, <2>6, <2>7, <2>8
          DEF ControlStep, CloseStep
<1>5. CASE UNCHANGED vars
  BY <1>5 DEF vars
<1> QED BY <1>1, <1>2, <1>3, <1>4, <1>5 DEF Next

LEMMA HandshakeAlways == Spec => []HandshakeOK
<1>1. Init => HandshakeOK
  BY DEF Init, HandshakeOK, Handshake, Asked, Closing
<1> QED BY <1>1, TypeInit, TypeStep, HandshakeStep, PTL DEF Spec

(* The flags HDD keeps of the suspended threads are true only of parked    *)
(* threads, until a request was withdrawn after its thread had seen it.    *)
THEOREM SuspendedThreadsAreParked == Spec => []SuspendedIsParked
<1>1. HandshakeOK => SuspendedIsParked
  BY DEF HandshakeOK, Handshake, SuspendedIsParked
<1> QED BY <1>1, HandshakeAlways, PTL

(* A parked thread always has somebody who will resume it, until a request *)
(* was withdrawn after its thread had seen it.                             *)
THEOREM ParkedThreadsAreResumed == Spec => []ParkedHasResumer
<1>1. HandshakeOK => ParkedHasResumer
  BY DEF HandshakeOK, Handshake, Asked, ParkedHasResumer
<1> QED BY <1>1, HandshakeAlways, PTL
-----------------------------------------------------------------------------
(* The ownership of buffers.  A token names a place where buffers are: a   *)
(* pool, the hand of a thread, a queue, a posting context, the local list  *)
(* of vos_drop_rxpkt_by_staid.                                             *)
Tokens == ({"free", "hand"} \X Threads) \cup ({"queue"} \X Queues)
          \cup ({"poster"} \X Posters) \cup {<<"drop", None>>}

(* The buffers that are at each place.                                     *)
Held == [k \in Tokens |-> CASE k[1] = "free" -> free[k[2]]
                            [] k[1] = "hand" -> {hand[k[2]]} \ {None}
                            [] k[1] = "queue" -> Elements(mq[k[2]])
                            [] k[1] = "poster" -> {poster[k[2]].buf} \ {None}
                            [] OTHER -> dropping]

Apart(H) == \A k, l \in Tokens : \A b : b \in H[k] /\ b \in H[l] => k = l

Kept(H, B) == \A b \in B : \E k \in Tokens : b \in H[k]

(* The buffers of a place are of the pool of its thread, and a buffer that *)
(* a thread handles or a context posts is one of them.                     *)
BufTypes ==
    /\ \A t \in Threads :
          /\ free[t] \subseteq Pool(t)
          /\ IF pc[t] = "handle" THEN hand[t] \in Pool(t) ELSE hand[t] = None
    /\ \A q \in Queues : mq[q] \in Seq(Pool(ThreadOf(q))) /\ Distinct(mq[q])
    /\ \A p \in Posters :
          IF poster[p].pc = "put"
          THEN poster[p].buf \in Pool(ThreadOf(poster[p].q))
          ELSE poster[p].buf = None
    /\ dropping \subseteq Pkts

BufInv ==
    /\ BufTypes
    /\ Apart(Held) /\ Kept(Held, Wrappers)
    /\ ctl # "closed" => Kept(Held, Pkts)

LEMMA TokenKinds ==
    ASSUME NEW k \in Tokens
    PROVE  \/ \E t \in Threads : k = <<"free", t>> \/ k = <<"hand", t>>
           \/ \E q \in Queues : k = <<"queue", q>>
           \/ \E p \in Posters : k = <<"poster", p>>
           \/ k = <<"drop", None>>
  BY DEF Tokens

LEMMA TokensAre ==
    /\ \A t \in Threads : <<"free", t>> \in Tokens /\ <<"hand", t>> \in Tokens
    /\ \A q \in Queues : <<"queue", q>> \in Tokens
    /\ \A p \in Posters : <<"poster", p>> \in Tokens
    /\ <<"drop", None>> \in Tokens
  BY DEF Tokens

(* What is at each place.                                                  *)
LEMMA HeldAt ==
    /\ \A t \in Threads : /\ Held[<<"free", t>>] = free[t]
                          /\ Held[<<"hand", t>>] = {hand[t]} \ {None}
    /\ \A q \in Queues : Held[<<"queue", q>>] = Elements(mq[q])
    /\ \A p \in Posters : Held[<<"poster", p>>] = {poster[p].buf} \ {None}
    /\ Held[<<"drop", None>>] = dropping
<1>1. ASSUME NEW t \in Threads
      PROVE  /\ Held[<<"free", t>>] = free[t]
             /\ Held[<<"hand", t>>] = {hand[t]} \ {None}
  BY TokensAre DEF Held
<1>2. ASSUME NEW q \in Queues PROVE Held[<<"queue", q>>] = Elements(mq[q])
  BY TokensAre DEF Held
<1>3. ASSUME NEW p \in Posters
      PROVE  Held[<<"poster", p>>] = {poster[p].buf} \ {None}
  BY TokensAre DEF Held
<1>4. Held[<<"drop", None>>] = dropping
  BY TokensAre DEF Held
<1> QED
  BY <1>1, <1>2, <1>3, <1>4

LEMMA HeldAtNext ==
    /\ \A t \in Threads : /\ Held'[<<"free", t>>] = free'[t]
                          /\ Held'[<<"hand", t>>] = {hand'[t]} \ {None}
    /\ \A q \in Queues : Held'[<<"queue", q>>] = Elements(mq'[q])
    /\ \A p \in Posters : Held'[<<"poster", p>>] = {poster'[p].buf} \ {None}
    /\ Held'[<<"drop", None>>] = dropping'
<1>1. ASSUME NEW t \in Threads
      PROVE  /\ Held'[<<"free", t>>] = free'[t]
             /\ Held'[<<"hand", t>>] = {hand'[t]} \ {None}
  BY TokensAre DEF Held
<1>2. ASSUME NEW q \in Queues PROVE Held'[<<"queue", q>>] = Elements(mq'[q])
  BY TokensAre DEF Held
<1>3. ASSUME NEW p \in Posters
      PROVE  Held'[<<"poster", p>>] = {poster'[p].buf} \ {None}
  BY TokensAre DEF Held
<1>4. Held'[<<"drop", None>>] = dropping'
  BY TokensAre DEF Held
<1> QED
  BY <1>1, <1>2, <1>3, <1>4

(* The places that a step leaves alone.                                    *)
LEMMA OthersHeld ==
    ASSUME NEW a, NEW c,
           \A t \in Threads : <<"free", t>> \notin {a, c} => free'[t] = free[t],
           \A t \in Threads : <<"hand", t>> \notin {a, c} => hand'[t] = hand[t],
           \A q \in Queues : <<"queue", q>> \notin {a, c} => mq'[q] = mq[q],
           \A p \in Posters :
              <<"poster", p>> \notin {a, c} => poster'[p].buf = poster[p].buf,
           <<"drop", None>> \notin {a, c} => dropping' = dropping
    PROVE  \A k \in Tokens : k # a /\ k # c => Held'[k] = Held[k]
<1> SUFFICES ASSUME NEW k \in Tokens, k # a, k # c PROVE Held'[k] = Held[k]
  OBVIOUS
<1>1. ASSUME NEW t \in Threads, k = <<"free", t>> PROVE Held'[k] = Held[k]
  <2>1. free'[t] = free[t]
    BY <1>1
  <2>2. Held[<<"free", t>>] = free[t] /\ Held'[<<"free", t>>] = free'[t]
    BY HeldAt, HeldAtNext, Zenon
  <2> QED
    BY <1>1, <2>1, <2>2, Zenon
<1>2. ASSUME NEW t \in Threads, k = <<"hand", t>> PROVE Held'[k] = Held[k]
  <2>1. hand'[t] = hand[t]
    BY <1>2
  <2>2. /\ Held[<<"hand", t>>] = {hand[t]} \ {None}
        /\ Held'[<<"hand", t>>] = {hand'[t]} \ {None}
    BY HeldAt, HeldAtNext, Zenon
  <2> QED
    BY <1>2, <2>1, <2>2, Zenon
<1>3. ASSUME NEW q \in Queues, k = <<"queue", q>> PROVE Held'[k] = Held[k]
  <2>1. mq'[q] = mq[q]
    BY <1>3
  <2>2. /\ Held[<<"queue", q>>] = Elements(mq[q])
        /\ Held'[<<"queue", q>>] = Elements(mq'[q])
    BY HeldAt, HeldAtNext, Zenon
  <2> QED
    BY <1>3, <2>1, <2>2, Zenon
<1>4. ASSUME NEW p \in Posters, k = <<"poster", p>> PROVE Held'[k] = Held[k]
  <2>1. poster'[p].buf = poster[p].buf
    BY <1>4
  <2>2. /\ Held[<<"poster", p>>] = {poster[p].buf} \ {None}
        /\ Held'[<<"poster", p>>] = {poster'[p].buf} \ {None}
    BY HeldAt, HeldAtNext, Zenon
  <2> QED
    BY <1>4, <2>1, <2>2, Zenon
<1>5. ASSUME k = <<"drop", None>> PROVE Held'[k] = Held[k]
  <2>1. dropping' = dropping
    BY <1>5
  <2>2. Held[<<"drop", None>>] = dropping /\ Held'[<<"drop", None>>] = dropping'
    BY HeldAt, HeldAtNext, Zenon
  <2> QED
    BY <1>5, <2>1, <2>2, Zenon
<1> QED
  BY <1>1, <1>2, <1>3, <1>4, <1>5, TokenKinds

LEMMA NothingHeld ==
    ASSUME UNCHANGED <<free, hand, mq, dropping>>,
           \A p \in Posters : poster'[p].buf = poster[p].buf
    PROVE  \A k \in Tokens : Held'[k] = Held[k]
<1> DEFINE a == <<"none", None>>
<1>1. \A k \in Tokens : k # a
  BY TokenKinds
<1> HIDE DEF a
<1> QED
  BY <1>1, OthersHeld

(* Some buffers go from one place to another.                              *)
Moves(H, G, a, c, S) ==
    /\ a \in Tokens /\ c \in Tokens /\ a # c
    /\ S \subseteq H[a]
    /\ G[a] = H[a] \ S /\ G[c] = H[c] \cup S
    /\ \A k \in Tokens : k # a /\ k # c => G[k] = H[k]

LEMMA Moved ==
    ASSUME NEW H, NEW G, NEW a, NEW c, NEW S, Moves(H, G, a, c, S), Apart(H)
    PROVE  /\ Apart(G)
           /\ \A B : Kept(H, B) => Kept(G, B)
<1> USE DEF Moves
<1>1. ASSUME NEW k \in Tokens, NEW b, b \in G[k]
      PROVE  IF b \in S THEN k = c ELSE b \in H[k]
  <2>1. CASE k = a
    BY <1>1, <2>1
  <2>2. CASE k = c
    BY <1>1, <2>2
  <2>3. CASE k # a /\ k # c
    BY <1>1, <2>3 DEF Apart
  <2> QED
    BY <2>1, <2>2, <2>3
<1>2. Apart(G)
  BY <1>1 DEF Apart
<1>3. ASSUME NEW B, Kept(H, B), NEW b \in B PROVE \E k \in Tokens : b \in G[k]
  <2>1. PICK k \in Tokens : b \in H[k]
    BY <1>3 DEF Kept
  <2>2. CASE k = a
    BY <2>1, <2>2
  <2>3. CASE k = c
    BY <2>1, <2>3
  <2>4. CASE k # a /\ k # c
    BY <2>1, <2>4
  <2> QED
    BY <2>2, <2>3, <2>4
<1> QED
  BY <1>2, <1>3 DEF Kept

(* A step that moves the buffers S from place a to place c.                *)
LEMMA BufMoves ==
    ASSUME BufInv, BufTypes', NEW a, NEW c, NEW S, Moves(Held, Held', a, c, S),
           ctl' # "closed" => ctl # "closed"
    PROVE  BufInv'
<1>1. Apart(Held') /\ \A B : Kept(Held, B) => Kept(Held', B)
  BY Moved DEF BufInv
<1> QED
  BY <1>1 DEF BufInv

LEMMA BufPoster ==
    ASSUME TypeOK, BufInv, NEW p \in Posters, PosterStep(p)
    PROVE  BufInv'
<1> USE DEF TypeOK
<1> None \notin Bufs /\ \A t \in Threads : None \notin Pool(t)
  BY PoolAssumption DEF Pool, Bufs
<1>1. ASSUME NEW q \in Queues, PostGet(p, q) PROVE BufInv'
  <2> DEFINE t == ThreadOf(q)
  <2>1. PICK b \in free[t] :
           /\ poster' = [poster EXCEPT ![p] = [pc |-> "put", q |-> q, buf |-> b]]
           /\ free' = [free EXCEPT ![t] = @ \ {b}]
    BY <1>1 DEF PostGet
  <2>2. t \in Threads /\ b \in Pool(t) /\ b # None /\ poster[p].buf = None
    BY <1>1 DEF PostGet, ThreadOf, Threads, BufInv, BufTypes
  <2>3. UNCHANGED <<mq, dropping, pc, hand, ctl>>
    BY <1>1 DEF PostGet, threadVars, ctlVars
  <2>4. /\ free'[t] = free[t] \ {b} /\ poster'[p].buf = b
        /\ poster'[p].pc = "put" /\ poster'[p].q = q
        /\ \A u \in Threads : u # t => free'[u] = free[u]
        /\ \A r \in Posters : r # p => poster'[r] = poster[r]
    BY <2>1, <2>2
  <2> HIDE DEF t
  <2>5. BufTypes'
    <3>1. \A u \in Threads : free'[u] \subseteq Pool(u)
      BY <2>4 DEF BufInv, BufTypes
    <3>2. \A r \in Posters : IF poster'[r].pc = "put"
                THEN poster'[r].buf \in Pool(ThreadOf(poster'[r].q))
                ELSE poster'[r].buf = None
      <4> SUFFICES ASSUME NEW r \in Posters
                   PROVE  IF poster'[r].pc = "put"
                          THEN poster'[r].buf \in Pool(ThreadOf(poster'[r].q))
                          ELSE poster'[r].buf = None
        OBVIOUS
      <4>1. CASE r = p
        BY <2>2, <2>4, <4>1 DEF t
      <4>2. CASE r # p
        BY <2>4, <4>2 DEF BufInv, BufTypes
      <4> QED
        BY <4>1, <4>2
    <3> QED
      BY <2>3, <3>1, <3>2 DEF BufInv, BufTypes
  <2> DEFINE x == <<"free", t>>
             y == <<"poster", p>>
  <2>6. /\ x \in Tokens /\ y \in Tokens /\ x # y
        /\ Held[x] = free[t] /\ Held'[x] = free'[t]
        /\ Held[y] = {poster[p].buf} \ {None}
        /\ Held'[y] = {poster'[p].buf} \ {None}
    BY <2>2, TokensAre, HeldAt, HeldAtNext
  <2>7. \A k \in Tokens : k # x /\ k # y => Held'[k] = Held[k]
    <3>1. \A u \in Threads : <<"free", u>> \notin {x, y} => free'[u] = free[u]
      BY <2>4
    <3>2. \A r \in Posters :
             <<"poster", r>> \notin {x, y} => poster'[r].buf = poster[r].buf
      BY <2>4
    <3> HIDE DEF x, y
    <3> QED
      BY <2>3, <3>1, <3>2, OthersHeld
  <2> DEFINE S == {b}
  <2>8. S \subseteq Held[x] /\ Held'[x] = Held[x] \ S /\ Held'[y] = Held[y] \cup S
    BY <2>1, <2>2, <2>4, <2>6
  <2> HIDE DEF x, y, S
  <2>9. ctl' # "closed" => ctl # "closed"
    BY <2>3
  <2>10. Moves(Held, Held', x, y, S)
    BY <2>6, <2>7, <2>8 DEF Moves
  <2> QED
    BY <2>5, <2>9, <2>10, BufMoves
<1>2. CASE PostPut(p)
  <2> DEFINE q == poster[p].q
             b == poster[p].buf
             x == <<"poster", p>>
             y == <<"queue", q>>
  <2>1. /\ q \in Queues /\ b \in Pool(ThreadOf(q)) /\ b # None
        /\ mq[q] \in Seq(Pool(ThreadOf(q))) /\ Distinct(mq[q])
    BY <1>2 DEF PostPut, BufInv, BufTypes, ThreadOf, Threads
  <2>2. UNCHANGED <<free, dropping, pc, hand, ctl>>
    BY <1>2 DEF PostPut, threadVars, ctlVars
  <2>3. /\ poster'[p].buf = None /\ poster'[p].pc = "signal"
        /\ \A r \in Posters : r # p => poster'[r] = poster[r]
    BY <1>2 DEF PostPut
  <2>4. /\ mq'[q] = Append(mq[q], b) \/ mq'[q] = <<b>> \o mq[q]
        /\ \A r \in Queues : r # q => mq'[r] = mq[r]
    BY <1>2, <2>1 DEF PostPut
  <2>5. /\ x \in Tokens /\ y \in Tokens /\ x # y
        /\ Held[x] = {b} \ {None} /\ Held'[x] = {poster'[p].buf} \ {None}
        /\ Held[y] = Elements(mq[q]) /\ Held'[y] = Elements(mq'[q])
    BY <2>1, TokensAre, HeldAt, HeldAtNext
  <2>6. b \notin Elements(mq[q])
    <3> HIDE DEF x, y, q, b
    <3> QED
      <4>1. b \in Held[x]
        BY <2>1, <2>5
      <4>2. \A k, l \in Tokens : k # l => Held[k] \cap Held[l] = {}
        BY DEF BufInv, Apart
      <4>3. Held[x] \cap Held[y] = {} /\ Held[y] = Elements(mq[q])
        BY ONLY <2>5, <4>2
      <4> QED
        BY ONLY <4>1, <4>3
  <2>7. /\ mq'[q] \in Seq(Pool(ThreadOf(q))) /\ Distinct(mq'[q])
        /\ Elements(mq'[q]) = Elements(mq[q]) \cup {b}
    <3> DEFINE P == Pool(ThreadOf(q))
               s == mq[q]
    <3>1. b \in P /\ s \in Seq(P) /\ Distinct(s) /\ b \notin Elements(s)
      BY <2>1, <2>6
    <3>2. CASE mq'[q] = Append(s, b)
      <4> HIDE DEF P, s, b
      <4>1. /\ Append(s, b) \in Seq(P) /\ Distinct(Append(s, b))
            /\ Elements(Append(s, b)) = Elements(s) \cup {b}
        BY <3>1, ElementsAppend
      <4> QED
        BY <3>2, <4>1 DEF P, s, b
    <3>3. CASE mq'[q] = <<b>> \o s
      <4> DEFINE w == <<b>>
      <4> HIDE DEF P, s, b
      <4>1. w \in Seq(P) /\ Elements(w) = {b} /\ Distinct(w)
        BY <3>1, ElementsOne
      <4> HIDE DEF w
      <4>2. /\ w \o s \in Seq(P) /\ Distinct(w \o s)
            /\ Elements(w \o s) = Elements(s) \cup {b}
        BY <3>1, <4>1, ElementsConcat
      <4> QED
        BY <3>3, <4>2 DEF P, s, b, w
    <3> QED
      BY <2>4, <3>2, <3>3
  <2> HIDE DEF q, b
  <2>8. BufTypes'
    <3>1. \A r \in Queues : mq'[r] \in Seq(Pool(ThreadOf(r))) /\ Distinct(mq'[r])
      BY <2>4, <2>7 DEF BufInv, BufTypes
    <3>2. \A r \in Posters : IF poster'[r].pc = "put"
                THEN poster'[r].buf \in Pool(ThreadOf(poster'[r].q))
                ELSE poster'[r].buf = None
      BY <2>3 DEF BufInv, BufTypes
    <3> QED
      BY <2>2, <3>1, <3>2 DEF BufInv, BufTypes
  <2>9. \A k \in Tokens : k # x /\ k # y => Held'[k] = Held[k]
    <3>1. \A r \in Queues : <<"queue", r>> \notin {x, y} => mq'[r] = mq[r]
      BY <2>4
    <3>2. \A r \in Posters :
             <<"poster", r>> \notin {x, y} => poster'[r].buf = poster[r].buf
      BY <2>3
    <3> HIDE DEF x, y
    <3> QED
      BY <2>2, <3>1, <3>2, OthersHeld
  <2> DEFINE S == {b}
  <2>10. S \subseteq Held[x] /\ Held'[x] = Held[x] \ S /\ Held'[y] = Held[y] \cup S
    BY <2>1, <2>3, <2>5, <2>7
  <2> HIDE DEF x, y, S
  <2>11. ctl' # "closed" => ctl # "closed"
    BY <2>2
  <2>12. Moves(Held, Held', x, y, S)
    BY <2>5, <2>9, <2>10 DEF Moves
  <2> QED
    BY <2>8, <2>11, <2>12, BufMoves
<1>3. CASE PostSignal(p)
  <2>1. UNCHANGED <<free, mq, dropping, pc, hand, ctl>>
    BY <1>3 DEF PostSignal, threadVars, ctlVars
  <2>2. \A r \in Posters : poster'[r].buf = poster[r].buf
                           /\ (poster'[r] = poster[r] \/ poster'[r].pc = "idle")
    BY <1>3 DEF PostSignal, Idle, BufInv, BufTypes
  <2>3. BufTypes'
    <3>1. \A r \in Posters : IF poster'[r].pc = "put"
                THEN poster'[r].buf \in Pool(ThreadOf(poster'[r].q))
                ELSE poster'[r].buf = None
      <4> SUFFICES ASSUME NEW r \in Posters
                   PROVE  IF poster'[r].pc = "put"
                          THEN poster'[r].buf \in Pool(ThreadOf(poster'[r].q))
                          ELSE poster'[r].buf = None
        OBVIOUS
      <4>1. CASE r = p
        BY <1>3, <4>1 DEF PostSignal, Idle
      <4>2. CASE r # p
        <5>1. poster'[r] = poster[r]
          BY <1>3, <4>2 DEF PostSignal
        <5> QED
          BY <5>1 DEF BufInv, BufTypes
      <4> QED
        BY <4>1, <4>2
    <3> QED
      BY <2>1, <3>1 DEF BufInv, BufTypes
  <2>4. \A k \in Tokens : Held'[k] = Held[k]
    BY <2>1, <2>2, NothingHeld
  <2> QED
    BY <2>1, <2>3, <2>4 DEF BufInv, Apart, Kept
<1> QED
  BY <1>1, <1>2, <1>3 DEF PosterStep

(* A step that leaves every buffer where it is.                            *)
LEMMA BufQuiet ==
    ASSUME BufInv, UNCHANGED bufVars, UNCHANGED hand,
           \A t \in Threads : (pc'[t] = "handle") <=> (pc[t] = "handle"),
           ctl' # "closed" => ctl # "closed"
    PROVE  BufInv'
<1>1. UNCHANGED <<free, mq, poster, dropping, hand>>
  BY DEF bufVars
<1>2. BufTypes'
  <2>1. \A t \in Threads :
           /\ free'[t] \subseteq Pool(t)
           /\ IF pc'[t] = "handle" THEN hand'[t] \in Pool(t) ELSE hand'[t] = None
    BY <1>1 DEF BufInv, BufTypes
  <2> QED
    BY <1>1, <2>1 DEF BufInv, BufTypes
<1>3. \A k \in Tokens : Held'[k] = Held[k]
  BY <1>1, NothingHeld
<1> QED
  BY <1>2, <1>3 DEF BufInv, Apart, Kept

LEMMA BufDrop ==
    ASSUME TypeOK, BufInv, DropTake \/ DropFree
    PROVE  BufInv'
<1> USE DEF TypeOK
<1> RxQueue \in Queues /\ ThreadOf(RxQueue) = "rx" /\ "rx" \in Threads
    /\ Pool("rx") = Pkts
  BY DEF Queues, ThreadOf, Threads, Pool
<1>1. CASE DropTake
  <2> DEFINE x == <<"queue", RxQueue>>
             y == <<"drop", None>>
             s == mq[RxQueue]
  <2>1. PICK D \in SUBSET Pkts :
           /\ dropping' = D \cap Elements(s)
           /\ mq' = [mq EXCEPT ![RxQueue] = Without(@, D)]
    BY <1>1 DEF DropTake
  <2>2. /\ UNCHANGED <<free, poster, pc, hand, ctl>> /\ dropping = {}
        /\ mq'[RxQueue] = Without(s, D)
        /\ \A r \in Queues : r # RxQueue => mq'[r] = mq[r]
    BY <1>1, <2>1 DEF DropTake, threadVars, ctlVars
  <2>3. s \in Seq(Pkts) /\ Distinct(s)
    BY DEF BufInv, BufTypes
  <2>4. /\ Without(s, D) \in Seq(Pkts) /\ Distinct(Without(s, D))
        /\ Elements(Without(s, D)) = Elements(s) \ D
    <3> HIDE DEF s
    <3> QED
      BY <2>3, ElementsWithout
  <2>5. BufTypes'
    <3>1. \A r \in Queues : mq'[r] \in Seq(Pool(ThreadOf(r))) /\ Distinct(mq'[r])
      BY <2>2, <2>4 DEF BufInv, BufTypes
    <3>2. dropping' \subseteq Pkts
      BY <2>1
    <3> QED
      BY <2>2, <3>1, <3>2 DEF BufInv, BufTypes
  <2> DEFINE S == D \cap Elements(s)
  <2>6. /\ x \in Tokens /\ y \in Tokens /\ x # y
        /\ Held[x] = Elements(s) /\ Held'[x] = Elements(mq'[RxQueue])
        /\ Held[y] = dropping /\ Held'[y] = dropping'
    BY TokensAre, HeldAt, HeldAtNext
  <2>7. \A k \in Tokens : k # x /\ k # y => Held'[k] = Held[k]
    <3>1. \A r \in Queues : <<"queue", r>> \notin {x, y} => mq'[r] = mq[r]
      BY <2>2
    <3>2. <<"drop", None>> \notin {x, y} => dropping' = dropping
      OBVIOUS
    <3> HIDE DEF x, y
    <3> QED
      BY <2>2, <3>1, <3>2, OthersHeld
  <2>8. S \subseteq Held[x] /\ Held'[x] = Held[x] \ S /\ Held'[y] = Held[y] \cup S
    BY <2>1, <2>2, <2>4, <2>6
  <2> HIDE DEF x, y, S
  <2>9. Moves(Held, Held', x, y, S)
    BY <2>6, <2>7, <2>8 DEF Moves
  <2>10. ctl' # "closed" => ctl # "closed"
    BY <2>2
  <2> QED
    BY <2>5, <2>9, <2>10, BufMoves
<1>2. CASE DropFree
  <2> DEFINE x == <<"drop", None>>
             y == <<"free", "rx">>
             S == dropping
  <2>1. /\ UNCHANGED <<mq, poster, pc, hand, ctl>> /\ dropping' = {}
        /\ free'["rx"] = free["rx"] \cup dropping
        /\ \A u \in Threads : u # "rx" => free'[u] = free[u]
    BY <1>2 DEF DropFree, threadVars, ctlVars
  <2>2. BufTypes'
    <3>1. \A u \in Threads : free'[u] \subseteq Pool(u)
      BY <2>1 DEF BufInv, BufTypes
    <3> QED
      BY <2>1, <3>1 DEF BufInv, BufTypes
  <2>3. /\ x \in Tokens /\ y \in Tokens /\ x # y
        /\ Held[x] = dropping /\ Held'[x] = dropping'
        /\ Held[y] = free["rx"] /\ Held'[y] = free'["rx"]
    BY TokensAre, HeldAt, HeldAtNext
  <2>4. \A k \in Tokens : k # x /\ k # y => Held'[k] = Held[k]
    <3>1. \A u \in Threads : <<"free", u>> \notin {x, y} => free'[u] = free[u]
      BY <2>1
    <3>2. <<"drop", None>> \notin {x, y} => dropping' = dropping
      OBVIOUS
    <3> HIDE DEF x, y
    <3> QED
      BY <2>1, <3>1, <3>2, OthersHeld
  <2>5. S \subseteq Held[x] /\ Held'[x] = Held[x] \ S /\ Held'[y] = Held[y] \cup S
    BY <2>1, <2>3
  <2> HIDE DEF x, y, S
  <2>6. Moves(Held, Held', x, y, S)
    BY <2>3, <2>4, <2>5 DEF Moves
  <2>7. ctl' # "closed" => ctl # "closed"
    BY <2>1
  <2> QED
    BY <2>2, <2>6, <2>7, BufMoves
<1> QED
  BY <1>1, <1>2

LEMMA BufThread ==
    ASSUME TypeOK, BufInv, NEW t \in Threads, ThreadStep(t)
    PROVE  BufInv'
<1> USE DEF TypeOK
<1> None \notin Pool(t)
  BY PoolAssumption DEF Pool, Bufs
<1>1. CASE Scan(t)
  <2> DEFINE q == QueuesOf(t)[idx[t]]
             s == mq[q]
             h == Head(s)
  <2>1. q \in Queues /\ ThreadOf(q) = t
    BY <1>1, QueueTypes DEF Scan
  <2>2. s \in Seq(Pool(t)) /\ Distinct(s)
    BY <2>1 DEF BufInv, BufTypes
  <2>3. CASE s = <<>>
    <3>1. UNCHANGED <<bufVars, pc, hand, ctl>>
      BY <1>1, <2>3 DEF Scan, bufVars, ctlVars
    <3> QED
      BY <3>1, BufQuiet
  <2>4. CASE s # <<>>
    <3> HIDE DEF q, s
    <3>1. /\ h \in Pool(t) /\ Tail(s) \in Seq(Pool(t)) /\ Distinct(Tail(s))
          /\ Elements(s) = {h} \cup Elements(Tail(s)) /\ h \notin Elements(Tail(s))
      BY <2>2, <2>4, ElementsTail
    <3>2. /\ UNCHANGED <<free, poster, dropping, ctl>>
          /\ hand' = [hand EXCEPT ![t] = h]
          /\ mq' = [mq EXCEPT ![q] = Tail(@)]
          /\ pc' = [pc EXCEPT ![t] = "handle"]
          /\ pc[t] = "scan"
      BY <1>1, <2>4 DEF Scan, ctlVars, q, s
    <3>3. /\ hand'[t] = h /\ mq'[q] = Tail(s) /\ pc'[t] = "handle"
          /\ \A u \in Threads : u # t => hand'[u] = hand[u] /\ pc'[u] = pc[u]
          /\ \A r \in Queues : r # q => mq'[r] = mq[r]
          /\ hand[t] = None
      BY <2>1, <3>2 DEF BufInv, BufTypes, s
    <3> HIDE DEF h
    <3>4. BufTypes'
      <4>1. \A r \in Queues : mq'[r] \in Seq(Pool(ThreadOf(r))) /\ Distinct(mq'[r])
        BY <2>1, <3>1, <3>3 DEF BufInv, BufTypes
      <4>2. ASSUME NEW u \in Threads
            PROVE  /\ free'[u] \subseteq Pool(u)
                   /\ IF pc'[u] = "handle" THEN hand'[u] \in Pool(u)
                                           ELSE hand'[u] = None
        <5>1. CASE u = t
          BY <3>1, <3>2, <3>3, <5>1 DEF BufInv, BufTypes
        <5>2. CASE u # t
          BY <3>2, <3>3, <5>2 DEF BufInv, BufTypes
        <5> QED
          BY <5>1, <5>2
      <4> QED
        BY <3>2, <4>1, <4>2 DEF BufInv, BufTypes
    <3> DEFINE x == <<"queue", q>>
               y == <<"hand", t>>
               S == {h}
    <3>5. /\ x \in Tokens /\ y \in Tokens /\ x # y
          /\ Held[x] = Elements(s) /\ Held'[x] = Elements(mq'[q])
          /\ Held[y] = {hand[t]} \ {None} /\ Held'[y] = {hand'[t]} \ {None}
      BY <2>1, TokensAre, HeldAt, HeldAtNext DEF s
    <3>6. \A k \in Tokens : k # x /\ k # y => Held'[k] = Held[k]
      <4>1. \A r \in Queues : <<"queue", r>> \notin {x, y} => mq'[r] = mq[r]
        BY <3>3
      <4>2. \A u \in Threads : <<"hand", u>> \notin {x, y} => hand'[u] = hand[u]
        BY <3>3
      <4> HIDE DEF x, y
      <4> QED
        BY <3>2, <4>1, <4>2, OthersHeld
    <3>7. /\ S \subseteq Held[x] /\ Held'[x] = Held[x] \ S
          /\ Held'[y] = Held[y] \cup S
      BY <3>1, <3>3, <3>5
    <3> HIDE DEF x, y, S
    <3>8. Moves(Held, Held', x, y, S)
      BY <3>5, <3>6, <3>7 DEF Moves
    <3>9. ctl' # "closed" => ctl # "closed"
      BY <3>2
    <3> QED
      BY <3>4, <3>8, <3>9, BufMoves
  <2> QED
    BY <2>3, <2>4
<1>2. CASE Handled(t)
  <2> DEFINE h == hand[t]
             x == <<"hand", t>>
             y == <<"free", t>>
             S == {h}
  <2>1. /\ UNCHANGED <<mq, poster, dropping, ctl>>
        /\ free'[t] = free[t] \cup {h} /\ hand'[t] = None /\ pc'[t] # "handle"
        /\ \A u \in Threads :
              u # t => free'[u] = free[u] /\ hand'[u] = hand[u] /\ pc'[u] = pc[u]
    BY <1>2 DEF Handled, ctlVars
  <2>2. h \in Pool(t) /\ h # None
    BY <1>2 DEF Handled, BufInv, BufTypes
  <2>3. BufTypes'
    <3>1. ASSUME NEW u \in Threads
          PROVE  /\ free'[u] \subseteq Pool(u)
                 /\ IF pc'[u] = "handle" THEN hand'[u] \in Pool(u)
                                         ELSE hand'[u] = None
      <4>1. CASE u = t
        BY <2>1, <2>2, <4>1 DEF BufInv, BufTypes
      <4>2. CASE u # t
        BY <2>1, <4>2 DEF BufInv, BufTypes
      <4> QED
        BY <4>1, <4>2
    <3> QED
      BY <2>1, <3>1 DEF BufInv, BufTypes
  <2>4. /\ x \in Tokens /\ y \in Tokens /\ x # y
        /\ Held[x] = {h} \ {None} /\ Held'[x] = {hand'[t]} \ {None}
        /\ Held[y] = free[t] /\ Held'[y] = free'[t]
    BY TokensAre, HeldAt, HeldAtNext
  <2>5. \A k \in Tokens : k # x /\ k # y => Held'[k] = Held[k]
    <3>1. \A u \in Threads : <<"free", u>> \notin {x, y} => free'[u] = free[u]
      BY <2>1
    <3>2. \A u \in Threads : <<"hand", u>> \notin {x, y} => hand'[u] = hand[u]
      BY <2>1
    <3> HIDE DEF x, y
    <3> QED
      BY <2>1, <3>1, <3>2, OthersHeld
  <2> HIDE DEF h
  <2>6. S \subseteq Held[x] /\ Held'[x] = Held[x] \ S /\ Held'[y] = Held[y] \cup S
    BY <2>1, <2>2, <2>4
  <2> HIDE DEF x, y, S
  <2>7. Moves(Held, Held', x, y, S)
    BY <2>4, <2>5, <2>6 DEF Moves
  <2>8. ctl' # "closed" => ctl # "closed"
    BY <2>1
  <2> QED
    BY <2>3, <2>7, <2>8, BufMoves
<1>3. CASE Wake(t) \/ Exit(t) \/ StartScan(t) \/ ScanDone(t) \/ TestSuspend(t)
           \/ ClearSuspend(t) \/ Confirm(t) \/ Unpark(t)
  <2>1. /\ UNCHANGED <<bufVars, hand, ctl>>
        /\ pc[t] # "handle" /\ pc'[t] # "handle"
        /\ \A u \in Threads : u # t => pc'[u] = pc[u]
    <3>1. CASE Wake(t) \/ Exit(t) \/ StartScan(t) \/ ScanDone(t)
      BY <3>1 DEF Wake, Exit, StartScan, ScanDone, ctlVars
    <3>2. CASE TestSuspend(t) \/ ClearSuspend(t) \/ Confirm(t) \/ Unpark(t)
      BY <3>2 DEF TestSuspend, ClearSuspend, Confirm, Unpark, ctlVars
    <3> QED
      BY <1>3, <3>1, <3>2
  <2>2. \A u \in Threads : (pc'[u] = "handle") <=> (pc[u] = "handle")
    BY <2>1
  <2> QED
    BY <2>1, <2>2, BufQuiet
<1> QED
  BY <1>1, <1>2, <1>3 DEF ThreadStep

LEMMA BufControl ==
    ASSUME TypeOK, BufInv, ControlStep
    PROVE  BufInv'
<1> USE DEF TypeOK
<1>1. CASE CloseFlush
  <2> DEFINE q == QueuesOf(ctlT)[ctlI]
             s == mq[q]
             x == <<"queue", q>>
             y == <<"free", ctlT>>
             S == Elements(s)
  <2>1. q \in Queues /\ ThreadOf(q) = ctlT
    BY <1>1, QueueTypes DEF CloseFlush
  <2>2. /\ UNCHANGED <<poster, dropping, pc, hand, ctl>>
        /\ free'[ctlT] = free[ctlT] \cup S /\ mq'[q] = <<>>
        /\ \A u \in Threads : u # ctlT => free'[u] = free[u]
        /\ \A r \in Queues : r # q => mq'[r] = mq[r]
    BY <1>1, <2>1 DEF CloseFlush, threadVars
  <2>3. s \in Seq(Pool(ctlT))
    BY <2>1 DEF BufInv, BufTypes
  <2> HIDE DEF q, s
  <2>4. S \subseteq Pool(ctlT) /\ Elements(<<>>) = {} /\ Distinct(<<>>)
    BY <2>3, ElementsType, ElementsEmpty
  <2>5. BufTypes'
    <3>1. \A u \in Threads : free'[u] \subseteq Pool(u)
      BY <2>2, <2>4 DEF BufInv, BufTypes
    <3>2. \A r \in Queues : mq'[r] \in Seq(Pool(ThreadOf(r))) /\ Distinct(mq'[r])
      <4>1. \A A : <<>> \in Seq(A)
        BY EmptySeq
      <4>2. ASSUME NEW r \in Queues
            PROVE  mq'[r] \in Seq(Pool(ThreadOf(r))) /\ Distinct(mq'[r])
        <5>1. CASE r = q
          <6>1. mq'[r] = <<>>
            BY <2>2, <5>1
          <6> QED
            BY <2>4, <4>1, <6>1
        <5>2. CASE r # q
          BY <2>2, <5>2 DEF BufInv, BufTypes
        <5> QED
          BY <5>1, <5>2
      <4> QED
        BY <4>2
    <3> QED
      BY <2>2, <3>1, <3>2 DEF BufInv, BufTypes
  <2>6. /\ x \in Tokens /\ y \in Tokens /\ x # y
        /\ Held[x] = Elements(s) /\ Held'[x] = Elements(mq'[q])
        /\ Held[y] = free[ctlT] /\ Held'[y] = free'[ctlT]
    BY <2>1, TokensAre, HeldAt, HeldAtNext DEF s
  <2>7. \A k \in Tokens : k # x /\ k # y => Held'[k] = Held[k]
    <3>1. \A r \in Queues : <<"queue", r>> \notin {x, y} => mq'[r] = mq[r]
      BY <2>2
    <3>2. \A u \in Threads : <<"free", u>> \notin {x, y} => free'[u] = free[u]
      BY <2>2
    <3>3. UNCHANGED <<poster, dropping, hand>>
      BY <2>2
    <3> HIDE DEF x, y
    <3> QED
      BY <3>1, <3>2, <3>3, OthersHeld
  <2>8. S \subseteq Held[x] /\ Held'[x] = Held[x] \ S /\ Held'[y] = Held[y] \cup S
    BY <2>2, <2>4, <2>6
  <2> HIDE DEF x, y, S
  <2>9. Moves(Held, Held', x, y, S)
    BY <2>6, <2>7, <2>8 DEF Moves
  <2>10. ctl' # "closed" => ctl # "closed"
    BY <2>2
  <2> QED
    BY <2>5, <2>9, <2>10, BufMoves
<1>2. CASE CloseNext
  <2>1. CASE ctlT = "mc"
    <3>1. UNCHANGED <<bufVars, hand, pc>> /\ ctl' # "closed" /\ ctl # "closed"
      BY <1>2, <2>1 DEF CloseNext, bufVars, threadVars
    <3> QED
      BY <3>1, BufQuiet
  <2>2. CASE ctlT # "mc"
    <3> DEFINE x == <<"free", "rx">>
    <3> "rx" \in Threads /\ Pool("rx") = Pkts
      BY DEF Threads, Pool
    <3>1. /\ UNCHANGED <<mq, poster, dropping, pc, hand>> /\ ctl' = "closed"
          /\ free'["rx"] = {} /\ \A u \in Threads : u # "rx" => free'[u] = free[u]
      BY <1>2, <2>2 DEF CloseNext, threadVars
    <3>2. BufTypes'
      <4>1. \A u \in Threads : free'[u] \subseteq Pool(u)
        BY <3>1 DEF BufInv, BufTypes
      <4> QED
        BY <3>1, <4>1 DEF BufInv, BufTypes
    <3>3. x \in Tokens /\ Held[x] \subseteq Pkts /\ Held'[x] = {}
      BY <3>1, TokensAre, HeldAt, HeldAtNext DEF BufInv, BufTypes
    <3>4. \A k \in Tokens : k # x => Held'[k] = Held[k]
      <4>1. \A u \in Threads : <<"free", u>> \notin {x, x} => free'[u] = free[u]
        BY <3>1
      <4> HIDE DEF x
      <4>2. \A k \in Tokens : k # x /\ k # x => Held'[k] = Held[k]
        BY <3>1, <4>1, OthersHeld
      <4> QED
        BY <4>2
    <3> HIDE DEF x
    <3>5. Apart(Held')
      BY <3>3, <3>4 DEF BufInv, Apart
    <3>6. Kept(Held', Wrappers)
      BY <3>3, <3>4, PoolAssumption DEF BufInv, Kept
    <3> QED
      BY <3>1, <3>2, <3>5, <3>6 DEF BufInv
  <2> QED
    BY <2>1, <2>2
<1>3. CASE Reopen
  <2>1. /\ \A t \in Threads : free'[t] = Pool(t) /\ hand'[t] = None
                              /\ pc'[t] = "wait"
        /\ \A q \in Queues : mq'[q] = <<>>
        /\ \A p \in Posters : poster'[p] = Idle
        /\ dropping' = {}
    BY <1>3 DEF Reopen, Opened
  <2>2. BufTypes'
    <3>1. \A p \in Posters : poster'[p].pc = "idle" /\ poster'[p].buf = None
      BY <2>1 DEF Idle
    <3> QED
      BY <2>1, <3>1, ElementsEmpty, EmptySeq DEF BufTypes
  <2>3. /\ \A t \in Threads : Held'[<<"free", t>>] = Pool(t)
                              /\ Held'[<<"hand", t>>] = {}
        /\ \A q \in Queues : Held'[<<"queue", q>>] = {}
        /\ \A p \in Posters : Held'[<<"poster", p>>] = {}
        /\ Held'[<<"drop", None>>] = {}
    <3>1. \A p \in Posters : poster'[p].buf = None
      BY <2>1 DEF Idle
    <3>2. /\ \A t \in Threads : Held'[<<"free", t>>] = free'[t]
                                /\ Held'[<<"hand", t>>] = {hand'[t]} \ {None}
          /\ Held'[<<"drop", None>>] = {}
      BY <2>1, HeldAtNext
    <3>3. \A q \in Queues : Held'[<<"queue", q>>] = {}
      <4>1. ASSUME NEW q \in Queues PROVE Held'[<<"queue", q>>] = {}
        <5>1. Held'[<<"queue", q>>] = Elements(mq'[q])
          BY HeldAtNext
        <5> QED
          BY <2>1, <5>1, ElementsEmpty
      <4> QED
        BY <4>1
    <3>4. \A p \in Posters : Held'[<<"poster", p>>] = {}
      BY <3>1, HeldAtNext
    <3> QED
      BY <2>1, <3>2, <3>3, <3>4
  <2>4. \A k \in Tokens : Held'[k] = {}
           \/ \E t \in Threads : k = <<"free", t>> /\ Held'[k] = Pool(t)
    <3> SUFFICES ASSUME NEW k \in Tokens
                 PROVE  Held'[k] = {} \/ \E t \in Threads :
                           k = <<"free", t>> /\ Held'[k] = Pool(t)
      OBVIOUS
    <3>1. CASE \E t \in Threads : k = <<"free", t>> \/ k = <<"hand", t>>
      BY <2>3, <3>1
    <3>2. CASE \E q \in Queues : k = <<"queue", q>>
      BY <2>3, <3>2
    <3>3. CASE \E p \in Posters : k = <<"poster", p>>
      BY <2>3, <3>3
    <3>4. CASE k = <<"drop", None>>
      BY <2>3, <3>4
    <3> QED
      BY <3>1, <3>2, <3>3, <3>4, TokenKinds
  <2>5. Apart(Held')
    <3>1. \A t, u \in Threads : \A b : b \in Pool(t) /\ b \in Pool(u) => t = u
      BY PoolAssumption DEF Pool, Threads
    <3> QED
      BY <2>4, <3>1 DEF Apart
  <2>6. "mc" \in Threads /\ "rx" \in Threads /\ Pool("mc") = Wrappers
        /\ Pool("rx") = Pkts
    BY DEF Threads, Pool
  <2>7. Kept(Held', Wrappers) /\ Kept(Held', Pkts)
    BY <2>3, <2>6, TokensAre, ZenonT(40) DEF Kept
  <2> QED
    BY <2>2, <2>5, <2>7 DEF BufInv
<1>4. CASE SuspendWlan \/ Confirmed \/ WaitTimedOut \/ FwSuspended
           \/ FwSuspendFails \/ ResumeWlan \/ Shutdown \/ CloseSet \/ CloseJoin
  <2>1. /\ UNCHANGED <<bufVars, pc, hand>>
        /\ ctl # "closed" /\ ctl' # "closed"
    <3>1. CASE SuspendWlan \/ Confirmed \/ WaitTimedOut \/ FwSuspended
      BY <3>1 DEF SuspendWlan, Confirmed, WaitTimedOut, FwSuspended, threadVars
    <3>2. CASE FwSuspendFails \/ ResumeWlan \/ Shutdown
      BY <3>2 DEF FwSuspendFails, ResumeWlan, Shutdown, threadVars
    <3>3. CASE CloseSet \/ CloseJoin
      BY <3>3 DEF CloseSet, CloseJoin, threadVars
    <3> QED
      BY <1>4, <3>1, <3>2, <3>3
  <2> QED
    BY <2>1, BufQuiet
<1> QED
  BY <1>1, <1>2, <1>3, <1>4 DEF ControlStep, CloseStep

LEMMA BufInit == Init => BufInv
<1> SUFFICES ASSUME Init PROVE BufInv
  OBVIOUS
<1>1. /\ \A t \in Threads : free[t] = Pool(t) /\ hand[t] = None /\ pc[t] = "wait"
      /\ \A q \in Queues : mq[q] = <<>>
      /\ \A p \in Posters : poster[p] = Idle
      /\ dropping = {}
  BY DEF Init
<1>2. BufTypes
  <2>1. \A p \in Posters : poster[p].pc = "idle" /\ poster[p].buf = None
    BY <1>1 DEF Idle
  <2> QED
    BY <1>1, <2>1, ElementsEmpty, EmptySeq DEF BufTypes
<1>3. /\ \A t \in Threads : Held[<<"free", t>>] = Pool(t)
                            /\ Held[<<"hand", t>>] = {}
      /\ \A q \in Queues : Held[<<"queue", q>>] = {}
      /\ \A p \in Posters : Held[<<"poster", p>>] = {}
      /\ Held[<<"drop", None>>] = {}
  BY <1>1, HeldAt, ElementsEmpty DEF Idle
<1>4. \A k \in Tokens : Held[k] = {}
         \/ \E t \in Threads : k = <<"free", t>> /\ Held[k] = Pool(t)
  BY <1>3, TokenKinds
<1>5. Apart(Held)
  <2>1. \A t, u \in Threads : \A b : b \in Pool(t) /\ b \in Pool(u) => t = u
    BY PoolAssumption DEF Pool, Threads
  <2> QED
    BY <1>4, <2>1 DEF Apart
<1>6. "mc" \in Threads /\ "rx" \in Threads /\ Pool("mc") = Wrappers
      /\ Pool("rx") = Pkts
  BY DEF Threads, Pool
<1>7. Kept(Held, Wrappers) /\ Kept(Held, Pkts)
  BY <1>3, <1>6, TokensAre DEF Kept
<1> QED
  BY <1>2, <1>5, <1>7 DEF BufInv

LEMMA BufStep == TypeOK /\ BufInv /\ [Next]_vars => BufInv'
<1> SUFFICES ASSUME TypeOK, BufInv, [Next]_vars PROVE BufInv'
  OBVIOUS
<1>1. CASE UNCHANGED vars
  <2>1. UNCHANGED <<bufVars, hand, pc, ctl>>
    BY <1>1 DEF vars, bufVars
  <2> QED
    BY <2>1, BufQuiet
<1> QED
  BY <1>1, BufPoster, BufDrop, BufThread, BufControl DEF Next

(* Who has the buffer b.                                                   *)
LEMMA OwnersAre ==
    ASSUME NEW b, NEW x
    PROVE  x \in Owners(b) <=>
             \/ \E t \in Threads : x = <<"free", t, 0>> /\ b \in free[t]
             \/ \E t \in Threads : x = <<"hand", t, 0>> /\ hand[t] = b
             \/ \E p \in Posters : x = <<"poster", p, 0>> /\ poster[p].buf = b
             \/ \E q \in Queues : \E i \in 1..Len(mq[q]) :
                   x = <<"queue", q, i>> /\ mq[q][i] = b
             \/ x = <<"drop", b, 0>> /\ b \in dropping
<1> DEFINE F == {<<"free", t, 0>> : t \in {u \in Threads : b \in free[u]}}
           H == {<<"hand", t, 0>> : t \in {u \in Threads : hand[u] = b}}
           P == {<<"poster", p, 0>> : p \in {r \in Posters : poster[r].buf = b}}
           U(q) == {<<"queue", q, i>> : i \in {j \in 1..Len(mq[q]) : mq[q][j] = b}}
           Q == UNION {{<<"queue", q, i>> : i \in {j \in 1..Len(mq[q]) :
                                              mq[q][j] = b}} : q \in Queues}
           D == {<<"drop", c, 0>> : c \in {d \in dropping : d = b}}
<1>1. x \in F <=> \E t \in Threads : x = <<"free", t, 0>> /\ b \in free[t]
  BY Zenon
<1>2. x \in H <=> \E t \in Threads : x = <<"hand", t, 0>> /\ hand[t] = b
  BY Zenon
<1>3. x \in P <=> \E p \in Posters : x = <<"poster", p, 0>> /\ poster[p].buf = b
  BY Zenon
<1>4. x \in Q <=> \E q \in Queues : \E i \in 1..Len(mq[q]) :
                     x = <<"queue", q, i>> /\ mq[q][i] = b
  <2>1. \A q : x \in U(q) <=> \E i \in 1..Len(mq[q]) :
                                 x = <<"queue", q, i>> /\ mq[q][i] = b
    BY Zenon
  <2>2. x \in Q <=> \E q \in Queues : x \in U(q)
    BY Zenon
  <2> HIDE DEF U
  <2> QED
    BY <2>1, <2>2, Zenon
<1>5. x \in D <=> x = <<"drop", b, 0>> /\ b \in dropping
  BY Zenon
<1>6. Owners(b) = F \cup H \cup P \cup Q \cup D
  BY Zenon DEF Owners
<1> HIDE DEF F, H, P, Q, D
<1>7. x \in Owners(b) <=> x \in F \/ x \in H \/ x \in P \/ x \in Q \/ x \in D
  BY <1>6, Zenon
<1> QED
  BY <1>1, <1>2, <1>3, <1>4, <1>5, <1>7, Zenon

(* Everybody who has b is at a place that holds it, and once.              *)
LEMMA OwnersAreTokens ==
    ASSUME BufInv, NEW b \in Bufs
    PROVE  /\ \A x, y \in Owners(b) : x = y
           /\ (\E k \in Tokens : b \in Held[k]) => Owners(b) # {}
<1> DEFINE Place(x) == IF x[1] = "drop" THEN <<"drop", None>> ELSE <<x[1], x[2]>>
<1> b # None
  BY PoolAssumption
<1>1. ASSUME NEW x \in Owners(b)
      PROVE  \/ \E t \in Threads : x = <<"free", t, 0>> /\ b \in free[t]
             \/ \E t \in Threads : x = <<"hand", t, 0>> /\ hand[t] = b
             \/ \E p \in Posters : x = <<"poster", p, 0>> /\ poster[p].buf = b
             \/ \E q \in Queues : \E i \in 1..Len(mq[q]) :
                   x = <<"queue", q, i>> /\ mq[q][i] = b
             \/ x = <<"drop", b, 0>> /\ b \in dropping
  BY OwnersAre
<1> DEFINE Goal(x) ==
             /\ Place(x) \in Tokens /\ b \in Held[Place(x)]
             /\ x[1] \in {"free", "hand", "poster"} => x = <<x[1], x[2], 0>>
             /\ x[1] = "drop" => x = <<"drop", b, 0>>
             /\ x[1] = "queue" => /\ x[2] \in Queues /\ x[3] \in 1..Len(mq[x[2]])
                                  /\ mq[x[2]][x[3]] = b
                                  /\ x = <<"queue", x[2], x[3]>>
             /\ x[1] \in {"free", "hand", "poster", "drop", "queue"}
<1>2. ASSUME NEW x \in Owners(b) PROVE Goal(x)
  <2>1. ASSUME NEW t \in Threads, x = <<"free", t, 0>> /\ b \in free[t]
        PROVE  Goal(x)
    <3>1. Place(x) = <<"free", t>> /\ b \in Held[<<"free", t>>]
      BY <2>1, HeldAt
    <3> QED
      BY <2>1, <3>1, TokensAre
  <2>2. ASSUME NEW t \in Threads, x = <<"hand", t, 0>> /\ hand[t] = b
        PROVE  Goal(x)
    <3>1. Place(x) = <<"hand", t>> /\ b \in Held[<<"hand", t>>]
      BY <2>2, HeldAt, ZenonT(40)
    <3> QED
      BY <2>2, <3>1, TokensAre
  <2>3. ASSUME NEW p \in Posters, x = <<"poster", p, 0>> /\ poster[p].buf = b
        PROVE  Goal(x)
    <3>1. Place(x) = <<"poster", p>> /\ b \in Held[<<"poster", p>>]
      BY <2>3, HeldAt
    <3> QED
      BY <2>3, <3>1, TokensAre
  <2>4. ASSUME NEW q \in Queues, NEW i \in 1..Len(mq[q]),
               x = <<"queue", q, i>> /\ mq[q][i] = b
        PROVE  Goal(x)
    <3>1. Place(x) = <<"queue", q>> /\ b \in Held[<<"queue", q>>]
      BY <2>4, HeldAt DEF Elements
    <3> QED
      BY <2>4, <3>1, TokensAre
  <2>5. CASE x = <<"drop", b, 0>> /\ b \in dropping
    BY <2>5, HeldAt, TokensAre
  <2> QED
    BY <1>1, <2>1, <2>2, <2>3, <2>4, <2>5
<1>3. ASSUME NEW x \in Owners(b), NEW y \in Owners(b) PROVE x = y
  <2>1. Place(x) = Place(y)
    <3> HIDE DEF Place
    <3> QED
      BY <1>2 DEF BufInv, Apart
  <2>2. x[1] = y[1] /\ (x[1] # "drop" => x[2] = y[2])
    BY <1>2, <2>1
  <2>3. CASE x[1] = "queue"
    <3>1. Distinct(mq[x[2]])
      BY <1>2, <2>3 DEF BufInv, BufTypes
    <3>2. x[3] = y[3]
      <4>1. /\ x[3] \in 1..Len(mq[x[2]]) /\ y[3] \in 1..Len(mq[x[2]])
            /\ mq[x[2]][x[3]] = mq[x[2]][y[3]]
        BY <1>2, <2>2, <2>3
      <4> QED
        BY ONLY <3>1, <4>1 DEF Distinct
    <3> QED
      BY <1>2, <2>2, <2>3, <3>2
  <2>4. CASE x[1] # "queue"
    BY <1>2, <2>2, <2>4
  <2> QED
    BY <2>3, <2>4
<1>4. ASSUME NEW k \in Tokens, b \in Held[k] PROVE Owners(b) # {}
  <2>1. ASSUME NEW t \in Threads, k = <<"free", t>>
        PROVE  <<"free", t, 0>> \in Owners(b)
    BY <1>4, <2>1, HeldAt, OwnersAre
  <2>2. ASSUME NEW t \in Threads, k = <<"hand", t>>
        PROVE  <<"hand", t, 0>> \in Owners(b)
    <3>1. hand[t] = b
      BY <1>4, <2>2, HeldAt
    <3> QED
      BY <3>1, OwnersAre
  <2>3. ASSUME NEW p \in Posters, k = <<"poster", p>>
        PROVE  <<"poster", p, 0>> \in Owners(b)
    BY <1>4, <2>3, HeldAt, OwnersAre
  <2>4. ASSUME NEW q \in Queues, k = <<"queue", q>> PROVE Owners(b) # {}
    <3>1. PICK i \in 1..Len(mq[q]) : mq[q][i] = b
      BY <1>4, <2>4, HeldAt DEF Elements
    <3>2. <<"queue", q, i>> \in Owners(b)
      BY <3>1, OwnersAre
    <3> QED
      BY <3>2
  <2>5. CASE k = <<"drop", None>>
    <3>1. <<"drop", b, 0>> \in Owners(b)
      BY <1>4, <2>5, HeldAt, OwnersAre
    <3> QED
      BY <3>1
  <2> QED
    BY <2>1, <2>2, <2>3, <2>4, <2>5, TokenKinds
<1> QED
  BY <1>3, <1>4

(* A set of equal elements has at most one.                                *)
LEMMA AtMostOne ==
    ASSUME NEW O, \A x, y \in O : x = y
    PROVE  Cardinality(O) <= 1
<1>1. CASE O = {}
  BY <1>1, FS_EmptySet
<1>2. CASE O # {}
  <2>1. PICK x \in O : TRUE
    BY <1>2
  <2>2. O = {x}
    BY <2>1
  <2>3. Cardinality({x}) = 1
    BY FS_Singleton
  <2> QED
    BY <2>2, <2>3
<1> QED
  BY <1>1, <1>2

(* A message wrapper or packet is never lost and never in two hands, for   *)
(* any number of buffers, queues and posting contexts, however posts,      *)
(* drops, closes and restarts interleave.                                  *)
THEOREM BuffersHaveOneOwner == Spec => []OneOwner
<1>1. BufInv => OneOwner
  <2> SUFFICES ASSUME BufInv PROVE OneOwner
    OBVIOUS
  <2>1. ASSUME NEW b \in Bufs PROVE Cardinality(Owners(b)) <= 1
    BY OwnersAreTokens, AtMostOne
  <2>2. ASSUME NEW B, B \subseteq Bufs, Kept(Held, B), NEW b \in B
        PROVE  Owners(b) # {}
    BY <2>2, OwnersAreTokens DEF Kept
  <2>3. Wrappers \subseteq Bufs /\ Pkts \subseteq Bufs
    BY DEF Bufs
  <2> QED
    BY <2>1, <2>2, <2>3 DEF OneOwner, BufInv
<1> QED
  BY <1>1, BufInit, BufStep, TypeInit, TypeStep, PTL DEF Spec
=============================================================================
