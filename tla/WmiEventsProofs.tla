-------------------------- MODULE WmiEventsProofs ---------------------------
(***************************************************************************)
(* Proofs about WmiEvents, for every set of events, every handler table    *)
(* and any number of events: the queue is never left unserved, the close   *)
(* sequence frees the handle only when nobody uses it any more, and a      *)
(* target that honours the suspend command makes                           *)
(* wmi_unified_remove_work do what its comment promises.                   *)
(***************************************************************************)
EXTENDS WmiEvents, ListTheorems

(* cancel_work_sync is only in progress while the close sequence waits.    *)
CancelingWhere == canceling => cPc \in {"rw_wait", "dt_wait"}

ServeInv == QueueIsServed /\ CancelingWhere

(* What wmi_unified_detach has achieved at each of its stages, as long as  *)
(* no reception meets it.                                                  *)
CloseInv ==
    ~lateRx =>
        /\ cPc \in {"dt_wait", "dt_drain", "detached"}
               => rPc = "idle" /\ ~workPending
        /\ cPc \in {"dt_drain", "detached"} => wPc = "idle"
        /\ cPc = "detached" => event_queue = <<>>

(* The same from the suspend command on, when no event follows it.         *)
SuspendedInv ==
    suspended =>
        /\ rPc = "idle"
        /\ cPc \notin {"register", "up", "rw_cancel"} => ~workPending
        /\ cPc \notin {"register", "up", "rw_cancel", "rw_wait"}
               => wPc = "idle"

(* No step of wmi_control_rx, of the work item or of the close sequence    *)
(* strands an event: the pending bit of the work item, set after the event *)
(* is queued, is enough, and cancel_work_sync is always followed by a      *)
(* drain of the queue.                                                     *)
THEOREM QueueAlwaysServed == Spec => []QueueIsServed
<1>1. Init => ServeInv
  BY DEF Init, ServeInv, QueueIsServed, CancelingWhere
<1>2. ServeInv /\ [Next]_vars => ServeInv'
  <2> SUFFICES ASSUME ServeInv, [Next]_vars PROVE ServeInv'
    OBVIOUS
  <2> USE DEF ServeInv, QueueIsServed, CancelingWhere
  <2>1. CASE \E e \in Event : Receive(e)
    BY <2>1 DEF Receive, queueVars, wVars, cVars
  <2>2. CASE HandleImmediate
    BY <2>2 DEF HandleImmediate, CheckImmediate,
     LookupImmediate, CallImmediate, ImmediateDone, queueVars, wVars, cVars
  <2>3. CASE Enqueue
    BY <2>3 DEF Enqueue, wVars, cVars
  <2>4. CASE Schedule
    BY <2>4 DEF Schedule, ScheduleWork, wVars, cVars
  <2>5. CASE StartWork
    BY <2>5 DEF StartWork, rVars, cVars
  <2>6. CASE Dequeue
    <3>1. CASE event_queue = <<>>
      BY <2>6, <3>1 DEF Dequeue, rVars, cVars
    <3>2. CASE event_queue # <<>>
      BY <2>6, <3>2 DEF Dequeue, AfterEvent, rVars, cVars
    <3> QED BY <3>1, <3>2
  <2>7. CASE Lookup
    BY <2>7 DEF Lookup, Done, AfterEvent, queueVars, rVars, cVars
  <2>8. CASE Call
    BY <2>8 DEF Call, Done, AfterEvent, queueVars, rVars, cVars
  <2>9. CASE ControlStep
    <3>1. CASE Register \/ HTCStart \/ VosStop \/ HTCStop \/ HTCDestroy
      BY <2>9, <3>1 DEF Register, HTCStart, VosStop, HTCStop, HTCDestroy,
         queueVars, rVars, wVars
    <3>2. CASE \/ UnregisterClear \/ UnregisterCount \/ UnregisterMove
               \/ WmaClosed
      BY <2>9, <3>2 DEF UnregisterClear, UnregisterCount, UnregisterMove,
         WmaClosed, queueVars, rVars, wVars
    <3>3. CASE RemoveWork
      BY <3>3 DEF RemoveWork, Cancel, Wait, Drain, DrainQueue, WorkEnded,
         rVars, wVars
    <3>4. CASE Detach
      BY <3>4 DEF Detach, Cancel, Wait, Drain, DrainQueue, WorkEnded,
         rVars, wVars
    <3> QED BY <2>9, <3>1, <3>2, <3>3, <3>4 DEF ControlStep
  <2>10. CASE UNCHANGED vars
    BY <2>10 DEF vars
  <2> QED BY <2>1, <2>2, <2>3, <2>4, <2>5, <2>6, <2>7, <2>8, <2>9, <2>10
          DEF Next, ReceiveStep, WorkStep, Over
<1>3. QED BY <1>1, <1>2, PTL DEF Spec, ServeInv

(* wmi_unified_detach frees the handle when the receive context and the    *)
(* work item are done with it, whatever arrived after                      *)
(* wmi_unified_remove_work, HTCStop or HTCDestroy, if the last reception   *)
(* is over when it begins: then come the second cancel_work_sync and the   *)
(* second drain.                                                           *)
THEOREM HandleNotUsedAfterDetach == Spec => []NoUseAfterDetach
<1>1. Init => CloseInv
  BY DEF Init, CloseInv
<1>2. CloseInv /\ [Next]_vars => CloseInv'
  <2> SUFFICES ASSUME CloseInv, [Next]_vars PROVE CloseInv'
    OBVIOUS
  <2> USE DEF CloseInv
  <2>1. CASE \E e \in Event : Receive(e)
    BY <2>1 DEF Receive, queueVars, wVars, cVars
  <2>2. CASE ReceiveStep
    BY <2>2 DEF ReceiveStep, HandleImmediate, CheckImmediate,
     LookupImmediate, CallImmediate, ImmediateDone, Enqueue, Schedule,
     queueVars,
       wVars, cVars
  <2>3. CASE StartWork
    BY <2>3 DEF StartWork, rVars, cVars
  <2>4. CASE Dequeue
    BY <2>4 DEF Dequeue, rVars, cVars
  <2>5. CASE Lookup \/ Call
    BY <2>5 DEF Lookup, Call, queueVars, rVars, cVars
  <2>6. CASE ControlStep
    <3>1. CASE Register \/ HTCStart \/ VosStop \/ HTCStop \/ HTCDestroy
      BY <3>1 DEF Register, HTCStart, VosStop, HTCStop, HTCDestroy,
         queueVars, rVars, wVars
    <3>2. CASE \/ UnregisterClear \/ UnregisterCount \/ UnregisterMove
               \/ WmaClosed
      BY <3>2 DEF UnregisterClear, UnregisterCount, UnregisterMove,
         WmaClosed, queueVars, rVars, wVars
    <3>3. CASE RemoveWork
      BY <3>3 DEF RemoveWork, Cancel, Wait, Drain, rVars, wVars
    <3>4. CASE Detach
      BY <3>4 DEF Detach, Cancel, Wait, Drain, DrainQueue, WorkEnded,
         rVars, wVars
    <3> QED BY <2>6, <3>1, <3>2, <3>3, <3>4 DEF ControlStep
  <2>7. CASE UNCHANGED vars
    BY <2>7 DEF vars
  <2> QED BY <2>1, <2>2, <2>3, <2>4, <2>5, <2>6, <2>7
          DEF Next, WorkStep, Over
<1>3. CloseInv => NoUseAfterDetach
  BY DEF CloseInv, NoUseAfterDetach
<1>4. QED BY <1>1, <1>2, <1>3, PTL DEF Spec

LEMMA SuspendedInit == Init => SuspendedInv
  BY DEF Init, SuspendedInv

LEMMA SuspendedStep == SuspendedInv /\ [Next]_vars => SuspendedInv'
<1> SUFFICES ASSUME SuspendedInv, [Next]_vars PROVE SuspendedInv'
  OBVIOUS
<1> USE DEF SuspendedInv
<1>1. CASE \E e \in Event : Receive(e)
  BY <1>1 DEF Receive, queueVars, wVars, cVars
<1>2. CASE ReceiveStep
  BY <1>2 DEF ReceiveStep, HandleImmediate, CheckImmediate,
     LookupImmediate, CallImmediate, ImmediateDone, Enqueue, Schedule,
     queueVars,
     wVars, cVars
<1>3. CASE StartWork
  BY <1>3 DEF StartWork, rVars, cVars
<1>4. CASE Dequeue
  BY <1>4 DEF Dequeue, rVars, cVars
<1>5. CASE Lookup \/ Call
  BY <1>5 DEF Lookup, Call, queueVars, rVars, cVars
<1>6. CASE ControlStep
  <2>1. CASE Register \/ HTCStart \/ HTCStop \/ HTCDestroy
    BY <2>1 DEF Register, HTCStart, HTCStop, HTCDestroy, queueVars, rVars,
       wVars
  <2>2. CASE VosStop
    BY <2>2 DEF VosStop, queueVars, rVars, wVars
  <2>3. CASE \/ UnregisterClear \/ UnregisterCount \/ UnregisterMove
             \/ WmaClosed
    BY <2>3 DEF UnregisterClear, UnregisterCount, UnregisterMove,
       WmaClosed, queueVars, rVars, wVars
  <2>4. CASE RemoveWork \/ Detach
    BY <2>4 DEF RemoveWork, Detach, Cancel, Wait, Drain, WorkEnded, rVars,
       wVars
  <2> QED BY <1>6, <2>1, <2>2, <2>3, <2>4 DEF ControlStep
<1>7. CASE UNCHANGED vars
  BY <1>7 DEF vars
<1> QED BY <1>1, <1>2, <1>3, <1>4, <1>5, <1>6, <1>7
        DEF Next, WorkStep, Over

(* Once the target is suspended and sends nothing any more,                *)
(* wmi_unified_remove_work does what its comment says: the work item is    *)
(* neither pending nor running when HTCStop and HTCDestroy are called.     *)
THEOREM SuspendedWorkStops == Spec => []SuspendStopsWork
<1>1. SuspendedInv => SuspendStopsWork
  BY DEF SuspendedInv, SuspendStopsWork, WorkStoppedBeforeHtc, HtcUp
<1> QED BY <1>1, SuspendedInit, SuspendedStep, PTL DEF Spec

-----------------------------------------------------------------------------
(* The handler table is a pair of functions on the slots, the search and   *)
(* the unregistering stay inside it, and it is filled before anybody       *)
(* searches it.                                                            *)
TableType ==
    /\ event_id \in [Slots -> EventIds \cup {NULL}]
    /\ event_handler \in [Slots -> EventIds \cup {NULL}]
    /\ max_event_idx \in 0..WMI_UNIFIED_MAX_EVENT
    /\ wIdx \in Nat /\ rIdx \in Nat /\ cNext \in Nat \ {0}
    /\ cPc = "unregister_count" => cIdx \in 0..(max_event_idx - 1)
    /\ cPc = "unregister_move" => max_event_idx \in Slots
    /\ cPc \in {"unregister_count", "unregister_move"}
           => cIdx \in Slots /\ event_id[cIdx] = NULL
    /\ cPc = "register" => rPc = "idle" /\ ~workPending /\ wPc = "idle"

(* Every slot that shows the id of a staying handler holds that handler,   *)
(* behind the end of the table too, and the slot the search returned keeps *)
(* showing it.                                                             *)
TableInv ==
    /\ TableType
    /\ \A i \in Slots : Stays(event_id[i]) => event_handler[i] = event_id[i]
    /\ wPc = "call" /\ Stays(wBuf.id)
           => wIdx \in Slots /\ event_id[wIdx] = wBuf.id
    /\ rPc = "rx_call" /\ Stays(rBuf.id)
           => rIdx \in Slots /\ event_id[rIdx] = rBuf.id
    /\ NeverAnotherHandler

LEMMA NullGoes == ~Stays(NULL)
  BY TableAssumption DEF Stays, EventIds

LEMMA UnregisteredGoes ==
    ASSUME NEW n \in 1..Len(Unregistered) PROVE ~Stays(Unregistered[n])
  BY DEF Stays, Ids

LEMMA TableInit == Init => TableInv
  BY NullGoes, TableAssumption
  DEF Init, TableInv, TableType, NeverAnotherHandler

LEMMA TableStep == TableInv /\ [Next]_vars => TableInv'
<1> USE TableAssumption
<1> SUFFICES ASSUME TableInv, [Next]_vars PROVE TableInv'
  OBVIOUS
<1> USE DEF TableInv, TableType
<1>1. CASE \E e \in Event : Receive(e)
  BY <1>1 DEF Receive, NeverAnotherHandler, tableVars, queueVars,
     wVars, cVars
<1>2. CASE HandleImmediate
  <2>1. CASE CheckImmediate
    BY <2>1 DEF CheckImmediate, NeverAnotherHandler, tableVars, queueVars,
       wVars, cVars
  <2>2. CASE LookupImmediate
    BY <2>2 DEF LookupImmediate, ImmediateDone, FoundAt, Slots,
       NeverAnotherHandler, tableVars, queueVars, wVars, cVars
  <2>3. CASE CallImmediate
    BY <2>3 DEF CallImmediate, ImmediateDone, NeverAnotherHandler, tableVars,
       queueVars, wVars, cVars
  <2> QED
    BY <1>2, <2>1, <2>2, <2>3 DEF HandleImmediate
<1>3. CASE Enqueue \/ Schedule
  BY <1>3 DEF Enqueue, Schedule, NeverAnotherHandler, tableVars, wVars,
     cVars, auxVars
<1>4. CASE StartWork
  BY <1>4 DEF StartWork, NeverAnotherHandler, tableVars, rVars, cVars,
     auxVars
<1>5. CASE Dequeue
  BY <1>5 DEF Dequeue, AfterEvent, NeverAnotherHandler, tableVars, rVars,
     cVars
<1>6. CASE Lookup
  BY <1>6 DEF Lookup, Done, FoundAt, AfterEvent, Slots,
     NeverAnotherHandler, tableVars, queueVars, rVars, cVars
<1>7. CASE Call
  BY <1>7 DEF Call, Done, AfterEvent, NeverAnotherHandler, tableVars,
     queueVars, rVars, cVars
<1>8. CASE Register
  <2>1. /\ cPc = "register" /\ cPc' = "register" /\ cNext' = cNext + 1
        /\ UNCHANGED <<queueVars, rVars, wVars, auxVars>>
    BY <1>8 DEF Register
  <2>2. CASE UNCHANGED tableVars
    BY <2>1, <2>2 DEF NeverAnotherHandler, tableVars, queueVars, rVars,
       wVars, auxVars
  <2>3. CASE ~UNCHANGED tableVars
    <3>1. PICK id \in EventIds :
             /\ max_event_idx # WMI_UNIFIED_MAX_EVENT
             /\ event_handler' = [event_handler EXCEPT
                                     ![max_event_idx] = id]
             /\ event_id' = [event_id EXCEPT ![max_event_idx] = id]
             /\ max_event_idx' = max_event_idx + 1
      BY <1>8, <2>3 DEF Register
    <3>2. /\ max_event_idx \in Slots
          /\ max_event_idx' \in 0..WMI_UNIFIED_MAX_EVENT
      BY <3>1 DEF Slots
    <3>3. TableType'
      BY <2>1, <3>1, <3>2 DEF queueVars, rVars, wVars
    <3>4. \A i \in Slots :
             Stays(event_id'[i]) => event_handler'[i] = event_id'[i]
      BY <3>1, <3>2
    <3>5. NeverAnotherHandler'
      BY <2>1 DEF NeverAnotherHandler, auxVars
    <3> QED BY <2>1, <3>3, <3>4, <3>5 DEF wVars
  <2> QED BY <2>2, <2>3
<1>9. CASE HTCStart \/ VosStop \/ HTCStop \/ HTCDestroy \/ WmaClosed
  BY <1>9 DEF HTCStart, VosStop, HTCStop, HTCDestroy, WmaClosed,
     NeverAnotherHandler, tableVars, queueVars, rVars, wVars, auxVars
<1>10. CASE RemoveWork \/ Detach
  BY <1>10 DEF RemoveWork, Detach, Cancel, Wait, Drain,
     NeverAnotherHandler, tableVars, rVars, wVars, auxVars
<1>11. CASE UnregisterClear
  <2> DEFINE found == SlotsOf(Unregistered[cNext])
  <2>1. CASE found = {}
    BY <1>11, <2>1 DEF UnregisterClear, NeverAnotherHandler, tableVars,
       queueVars, rVars, wVars, auxVars
  <2>2. CASE found # {}
    <3>1. PICK i \in found :
             /\ cIdx' = i
             /\ event_handler' = [event_handler EXCEPT ![i] = NULL]
             /\ event_id' = [event_id EXCEPT ![i] = NULL]
             /\ cPc' = "unregister_count"
             /\ UNCHANGED <<max_event_idx, cNext>>
      BY <1>11, <2>2 DEF UnregisterClear
    <3>2. /\ i \in Slots /\ i \in 0..(max_event_idx - 1)
          /\ ~Stays(event_id[i])
      BY <1>11, UnregisteredGoes DEF UnregisterClear, SlotsOf, FoundAt, Slots
    <3>3. UNCHANGED <<queueVars, rVars, wVars, auxVars>>
      BY <1>11 DEF UnregisterClear
    <3> QED BY <3>1, <3>2, <3>3, NullGoes DEF NeverAnotherHandler,
            queueVars, rVars, wVars, auxVars
  <2> QED BY <2>1, <2>2
<1>12. CASE UnregisterCount
  BY <1>12 DEF UnregisterCount, NeverAnotherHandler, Slots, queueVars,
     rVars, wVars, auxVars
<1>13. CASE UnregisterMove
  <2>1. /\ cIdx \in Slots /\ max_event_idx \in Slots
        /\ cPc' = "wma_close" /\ cNext' = cNext + 1
        /\ UNCHANGED <<max_event_idx, queueVars, rVars, wVars, auxVars>>
        /\ event_handler' = [event_handler EXCEPT
                                ![cIdx] = event_handler[max_event_idx]]
        /\ event_id' = [event_id EXCEPT ![cIdx] = event_id[max_event_idx]]
    BY <1>13 DEF UnregisterMove, MoveLast
  <2>2. TableType'
    BY <2>1 DEF queueVars, rVars, wVars
  <2>3. \A i \in Slots :
           Stays(event_id'[i]) => event_handler'[i] = event_id'[i]
    BY <2>1
  <2>4. /\ wPc = "call" /\ Stays(wBuf.id) => wIdx # cIdx
        /\ rPc = "rx_call" /\ Stays(rBuf.id) => rIdx # cIdx
    BY <1>13, NullGoes DEF UnregisterMove
  <2>5. NeverAnotherHandler'
    BY <2>1 DEF NeverAnotherHandler, auxVars
  <2> QED BY <2>1, <2>2, <2>3, <2>4, <2>5 DEF rVars, wVars
<1>14. CASE UNCHANGED vars
  BY <1>14 DEF vars, NeverAnotherHandler
<1> QED BY <1>1, <1>2, <1>3, <1>4, <1>5, <1>6, <1>7, <1>8, <1>9, <1>10,
           <1>11, <1>12, <1>13, <1>14
        DEF Next, ReceiveStep, WorkStep, ControlStep, Over

(* Although no lock protects the handler table, no event whose handler     *)
(* stays registered is ever given to another handler: unregistering moves  *)
(* the last entry but also leaves it where a search may have found it.     *)
THEOREM SurvivorsKeepHandlers == Spec => []NeverAnotherHandler
<1> QED BY TableInit, TableStep, PTL DEF Spec, TableInv
-----------------------------------------------------------------------------
(* The table has room for every handler: WMI_UNIFIED_MAX_EVENT is 256 and  *)
(* wma registers fewer than a hundred.                                     *)
HasRoom == Len(Registered) <= WMI_UNIFIED_MAX_EVENT

(* The stages before wma_close changes the table.                          *)
Before == {"register", "up", "rw_cancel", "rw_wait", "rw_drain", "HTCStop",
           "HTCDestroy"}

InUse == 0..(max_event_idx - 1)

Filled ==
    cPc \in Before =>
        \A i \in InUse : event_id[i] # NULL /\ event_handler[i] = event_id[i]

(* The handlers registered so far are in the table.                        *)
AllIn ==
    /\ cPc = "register" =>
          /\ max_event_idx <= cNext - 1 /\ cNext <= Len(Registered) + 1
          /\ \A n \in 1..(cNext - 1) : \E i \in InUse :
                event_id[i] = Registered[n]
    /\ cPc \in Before \ {"register"} =>
          \A id \in Ids(Registered) : \E i \in InUse : event_id[i] = id

(* A search, of the work item or the receive context, has not passed the   *)
(* id it looks for.                                                        *)
Search ==
    TargetQuiet =>
        /\ wPc = "lookup" => \A i \in InUse : i < wIdx => event_id[i] # wBuf.id
        /\ wPc = "call" => wIdx \in InUse /\ event_id[wIdx] = wBuf.id
        /\ rPc = "rx_lookup"
               => \A i \in InUse : i < rIdx => event_id[i] # rBuf.id
        /\ rPc = "rx_call" => rIdx \in InUse /\ event_id[rIdx] = rBuf.id

FullInv == Filled /\ AllIn /\ Search /\ CallsRegisteredHandler

(* While the receive context or the work item runs and the target is not   *)
(* to be quiet, the table is complete.                                     *)
LEMMA CompleteTable ==
    ASSUME SuspendedInv, TableType, FullInv, TargetQuiet,
           rPc # "idle" \/ wPc # "idle"
    PROVE  /\ cPc \in Before \ {"register"}
           /\ \A id : Stays(id) =>
                 \E i \in InUse : event_id[i] = id /\ event_handler[i] = id
  BY DEF SuspendedInv, TableType, FullInv, TargetQuiet, Before, Filled, AllIn,
     Stays

LEMMA FullStep ==
    ASSUME HasRoom
    PROVE  SuspendedInv /\ TableType /\ FullInv /\ [Next]_vars => FullInv'
<1> USE TableAssumption
<1> SUFFICES ASSUME SuspendedInv, TableType, FullInv, [Next]_vars PROVE FullInv'
  OBVIOUS
<1> USE DEF FullInv, Filled, AllIn, Search, InUse, Before, TableType
<1>1. CASE \E e \in Event : Receive(e)
  BY <1>1 DEF Receive, TargetQuiet, CallsRegisteredHandler, tableVars,
     queueVars, wVars, cVars
<1>2. CASE HandleImmediate
  <2>1. /\ UNCHANGED <<event_id, event_handler, max_event_idx, wPc, wBuf, wIdx,
                       cPc, cNext, suspended>>
        /\ rPc # "idle"
    BY <1>2 DEF HandleImmediate, CheckImmediate, LookupImmediate,
       CallImmediate, tableVars, wVars, cVars
  <2>2. CASE CheckImmediate
    <3>1. UNCHANGED outcomes /\ rPc' \in {"idle", "rx_lookup"}
          /\ (rPc' = "rx_lookup" => rIdx' = 0)
      BY <2>2 DEF CheckImmediate
    <3> QED
      BY <2>1, <3>1 DEF TargetQuiet, CallsRegisteredHandler
  <2>3. CASE LookupImmediate /\ rIdx < max_event_idx
    <3>1. CASE FoundAt(rIdx, rBuf.id)
      BY <2>1, <2>3, <3>1 DEF LookupImmediate, FoundAt, TargetQuiet,
         CallsRegisteredHandler
    <3>2. CASE ~FoundAt(rIdx, rBuf.id)
      <4>1. rIdx' = rIdx + 1 /\ rPc = "rx_lookup"
            /\ UNCHANGED <<rPc, rBuf, outcomes>>
        BY <2>3, <3>2 DEF LookupImmediate
      <4>2. TargetQuiet => event_id[rIdx] # rBuf.id
        BY <2>1, <2>3, <3>2, CompleteTable DEF FoundAt
      <4> QED
        BY <2>1, <4>1, <4>2 DEF TargetQuiet, CallsRegisteredHandler
    <3> QED
      BY <3>1, <3>2
  <2>4. CASE LookupImmediate /\ ~(rIdx < max_event_idx)
    <3>1. /\ outcomes' \subseteq
                outcomes \cup {[id |-> rBuf.id, handler |-> "none"]}
          /\ rPc = "rx_lookup" /\ rPc' = "idle"
      BY <2>4 DEF LookupImmediate, ImmediateDone
    <3>2. TargetQuiet => ~Stays(rBuf.id)
      BY <2>1, <2>4, <3>1, CompleteTable
    <3>3. CallsRegisteredHandler'
      BY <2>1, <3>1, <3>2 DEF CallsRegisteredHandler, TargetQuiet
    <3> QED
      BY <2>1, <3>1, <3>3 DEF TargetQuiet
  <2>5. CASE CallImmediate
    <3>1. /\ rPc = "rx_call" /\ rPc' = "idle"
          /\ outcomes' \subseteq outcomes \cup
                {[id |-> rBuf.id, handler |-> event_handler[rIdx]]}
      BY <2>5 DEF CallImmediate, ImmediateDone
    <3>2. TargetQuiet => event_handler[rIdx] = rBuf.id /\ rBuf.id # NULL
      BY <2>1, <3>1, CompleteTable
    <3>3. CallsRegisteredHandler'
      BY <2>1, <3>1, <3>2 DEF CallsRegisteredHandler, TargetQuiet
    <3> QED
      BY <2>1, <3>1, <3>3 DEF TargetQuiet
  <2> QED
    BY <1>2, <2>2, <2>3, <2>4, <2>5 DEF HandleImmediate
<1>3. CASE Enqueue \/ Schedule
  BY <1>3 DEF Enqueue, Schedule, TargetQuiet, CallsRegisteredHandler,
     tableVars, wVars, cVars, auxVars
<1>4. CASE StartWork
  BY <1>4 DEF StartWork, TargetQuiet, CallsRegisteredHandler, tableVars,
     rVars, cVars, auxVars
<1>5. CASE Dequeue
  <2>1. /\ UNCHANGED <<event_id, event_handler, max_event_idx, cPc, cNext,
                       suspended, outcomes, rPc, rBuf, rIdx>>
        /\ wPc' = "lookup" => wIdx' = 0
        /\ wPc' # "call"
    BY <1>5 DEF Dequeue, AfterEvent, tableVars, rVars, cVars
  <2> QED
    BY <2>1, SMTT(40) DEF TargetQuiet, CallsRegisteredHandler
<1>6. CASE Lookup
  <2>1. /\ UNCHANGED <<event_id, event_handler, max_event_idx, cPc, cNext,
                       suspended, rPc, rBuf, rIdx>>
        /\ wPc = "lookup"
    BY <1>6 DEF Lookup, tableVars, rVars, cVars
  <2>2. CASE wIdx < max_event_idx
    <3>1. CASE FoundAt(wIdx, wBuf.id)
      BY <1>6, <2>1, <2>2, <3>1 DEF Lookup, FoundAt, TargetQuiet,
         CallsRegisteredHandler
    <3>2. CASE ~FoundAt(wIdx, wBuf.id)
      <4>1. /\ wIdx' = wIdx + 1 /\ UNCHANGED <<wPc, wBuf, outcomes>>
        BY <1>6, <2>2, <3>2 DEF Lookup
      <4>2. TargetQuiet => event_id[wIdx] # wBuf.id
        BY <2>1, <2>2, <3>2, CompleteTable DEF FoundAt
      <4> QED
        BY <2>1, <4>1, <4>2 DEF TargetQuiet, CallsRegisteredHandler
    <3> QED
      BY <3>1, <3>2
  <2>3. CASE ~(wIdx < max_event_idx)
    <3>1. /\ outcomes' = outcomes \cup {[id |-> wBuf.id, handler |-> "none"]}
          /\ wPc' = "dequeue"
      BY <1>6, <2>3 DEF Lookup, Done, AfterEvent
    <3>2. TargetQuiet => ~Stays(wBuf.id)
      BY <2>1, <2>3, CompleteTable
    <3>3. CallsRegisteredHandler'
      BY <2>1, <3>1, <3>2 DEF CallsRegisteredHandler, TargetQuiet
    <3> QED
      BY <2>1, <3>1, <3>3 DEF TargetQuiet
  <2> QED
    BY <2>2, <2>3
<1>7. CASE Call
  <2>1. /\ UNCHANGED <<event_id, event_handler, max_event_idx, cPc, cNext,
                       suspended, rPc, rBuf, rIdx>>
        /\ wPc = "call" /\ wPc' = "dequeue"
        /\ outcomes' = outcomes \cup
                       {[id |-> wBuf.id, handler |-> event_handler[wIdx]]}
    BY <1>7 DEF Call, Done, AfterEvent, tableVars, rVars, cVars
  <2>2. TargetQuiet => event_handler[wIdx] = wBuf.id /\ wBuf.id # NULL
    BY <2>1, CompleteTable
  <2>3. CallsRegisteredHandler'
    BY <2>1, <2>2 DEF CallsRegisteredHandler, TargetQuiet
  <2> QED
    BY <2>1, <2>3 DEF TargetQuiet
<1>8. CASE Register
  <2>1. /\ cPc = "register" /\ cPc' = "register" /\ cNext' = cNext + 1
        /\ cNext <= Len(Registered) /\ wPc = "idle" /\ rPc = "idle"
        /\ UNCHANGED <<rPc, wPc, wBuf, wIdx, suspended, outcomes>>
    BY <1>8 DEF Register, rVars, wVars, auxVars
  <2> DEFINE r == Registered[cNext]
  <2>2. r \in EventIds /\ r # NULL
    BY <2>1
  <2>3. CASE SlotsOf(r) # {}
    <3>1. UNCHANGED tableVars
      BY <1>8, <2>3 DEF Register
    <3>2. \E i \in InUse : event_id[i] = r
      BY <2>3 DEF SlotsOf, FoundAt
    <3>3. AllIn'
      <4>1. \A n \in 1..(cNext' - 1) : n \in 1..(cNext - 1) \/ n = cNext
        BY ONLY <2>1, TableType DEF TableType
      <4>2. \A n \in 1..(cNext' - 1) :
               \E i \in InUse' : event_id'[i] = Registered[n]
        BY <2>1, <3>1, <3>2, <4>1 DEF tableVars
      <4>3. max_event_idx' <= cNext' - 1 /\ cNext' <= Len(Registered) + 1
        BY <2>1, <3>1 DEF tableVars
      <4> QED
        BY <2>1, <4>2, <4>3
    <3> QED
      BY <2>1, <3>1, <3>3 DEF tableVars, TargetQuiet, CallsRegisteredHandler
  <2>4. CASE SlotsOf(r) = {}
    <3>1. max_event_idx # WMI_UNIFIED_MAX_EVENT
      BY <2>1 DEF HasRoom
    <3>2. /\ event_handler' = [event_handler EXCEPT ![max_event_idx] = r]
          /\ event_id' = [event_id EXCEPT ![max_event_idx] = r]
          /\ max_event_idx' = max_event_idx + 1
      BY <1>8, <2>4, <3>1 DEF Register
    <3>3. max_event_idx \in Slots
      BY <3>1 DEF Slots
    <3>4. /\ event_id'[max_event_idx] = r /\ event_handler'[max_event_idx] = r
          /\ \A i \in InUse : /\ event_id'[i] = event_id[i]
                              /\ event_handler'[i] = event_handler[i]
      BY <3>2, <3>3 DEF Slots
    <3> HIDE DEF r
    <3>5. Filled'
      BY <2>1, <2>2, <3>2, <3>4
    <3>6. AllIn'
      <4>1. ASSUME NEW n \in 1..cNext
            PROVE  \E i \in 0..max_event_idx : event_id'[i] = Registered[n]
        <5>1. CASE n = cNext
          BY <3>4, <5>1 DEF r
        <5>2. CASE n # cNext
          BY <2>1, <3>4, <5>2
        <5> QED
          BY <5>1, <5>2
      <4> QED
        BY <2>1, <3>2, <4>1
    <3> QED
      BY <2>1, <3>5, <3>6 DEF TargetQuiet, CallsRegisteredHandler
  <2> QED
    BY <2>3, <2>4
<1>9. CASE HTCStart
  <2>1. cNext = Len(Registered) + 1
    <3>1. cPc = "register" /\ cNext > Len(Registered)
      BY <1>9 DEF HTCStart
    <3>2. cNext <= Len(Registered) + 1 /\ cNext \in Nat
      BY <3>1
    <3>3. Len(Registered) \in Nat
      BY TableAssumption
    <3> QED
      BY ONLY <3>1, <3>2, <3>3
  <2>2. \A id \in Ids(Registered) : \E i \in InUse : event_id[i] = id
    BY <1>9, <2>1, SMTT(40) DEF HTCStart, Ids
  <2> QED
    BY <1>9, <2>2 DEF HTCStart, TargetQuiet, CallsRegisteredHandler, tableVars,
       rVars, wVars, auxVars
<1>10. CASE VosStop \/ HTCStop \/ HTCDestroy \/ WmaClosed
  BY <1>10 DEF VosStop, HTCStop, HTCDestroy, WmaClosed, TargetQuiet,
     CallsRegisteredHandler, tableVars, rVars, wVars, auxVars
<1>11. CASE RemoveWork \/ Detach
  BY <1>11 DEF RemoveWork, Detach, Cancel, Wait, Drain, TargetQuiet,
     CallsRegisteredHandler, tableVars, rVars, wVars, auxVars
<1>12. CASE UnregisterClear \/ UnregisterCount \/ UnregisterMove
  <2>1. /\ cPc \notin Before /\ cPc' \notin Before
        /\ UNCHANGED <<rPc, wPc, wBuf, wIdx, suspended, outcomes>>
    BY <1>12 DEF UnregisterClear, UnregisterCount, UnregisterMove, rVars,
       wVars, auxVars
  <2>2. TargetQuiet' => TargetQuiet /\ wPc = "idle" /\ rPc = "idle"
    BY <2>1 DEF TargetQuiet, SuspendedInv
  <2> QED
    BY <2>1, <2>2 DEF CallsRegisteredHandler
<1>13. CASE UNCHANGED vars
  BY <1>13 DEF vars, TargetQuiet, CallsRegisteredHandler
<1> QED
  BY <1>1, <1>2, <1>3, <1>4, <1>5, <1>6, <1>7, <1>8, <1>9, <1>10, <1>11,
     <1>12, <1>13
  DEF Next, ReceiveStep, WorkStep, ControlStep, Over

LEMMA FullInit == Init => FullInv
  BY DEF Init, FullInv, Filled, AllIn, Search, InUse, Before, TargetQuiet,
     CallsRegisteredHandler

(* When the table has room for all handlers, every event whose handler     *)
(* stays registered reaches it and no call goes through a cleared slot,    *)
(* unless the target goes on after it was told to suspend: the table is    *)
(* complete before HTC is started, and wma_close changes it only when the  *)
(* receive context and the work item have ended.                           *)
THEOREM RegisteredHandlersAreCalled ==
    ASSUME HasRoom PROVE Spec => []CallsRegisteredHandler
<1>1. FullInv => CallsRegisteredHandler
  BY DEF FullInv
<1>2. TableInv => TableType
  BY DEF TableInv
<1>3. SuspendedInv /\ TableType /\ FullInv /\ [Next]_vars => FullInv'
  BY FullStep
<1> QED
  BY <1>1, <1>2, <1>3, FullInit, SuspendedInit, SuspendedStep, TableInit,
     TableStep, PTL DEF Spec
-----------------------------------------------------------------------------
(* The events on their way to a handler, as a set: each is there once.     *)
AtReceive == IF rPc = "queue" THEN {rBuf} ELSE {}
AtWork == IF wPc \in {"lookup", "call"} THEN {wBuf} ELSE {}
OnTheWay == Elements(event_queue) \cup AtReceive \cup AtWork

(* The radar events that dfs_wmi_event_pending counts.                     *)
Radars(S) == {e \in S : e.id = RADAR}
Lost == {e \in freed : e.id = RADAR /\ ~e.tlv}
Counted == Radars(OnTheWay) \cup Lost

Open == cPc \in {"register", "up"}

(* wmi_control_rx has an event in its hands.                               *)
Holding == {"queue", "immediate", "rx_lookup", "rx_call"}

(* The events have different numbers, up to the number of events sent, and *)
(* none is in two places.                                                  *)
Places ==
    /\ event_queue \in Seq(Event) /\ Distinct(event_queue)
    /\ sent \in Nat /\ freed \subseteq Event
    /\ rPc \in Holding =>
          /\ rBuf \in Event /\ rBuf.n <= sent
          /\ rBuf \notin Elements(event_queue) /\ rBuf \notin AtWork
    /\ wPc \in {"lookup", "call"} =>
          wBuf \in Event /\ wBuf.tlv /\ wBuf \notin Elements(event_queue)
    /\ \A e \in OnTheWay \cup freed : e.n <= sent
    /\ OnTheWay \cap freed = {}
    /\ rPc \in Holding => rBuf \notin freed
    /\ rPc \in {"rx_lookup", "rx_call"} => rBuf.tlv

RadarInv ==
    Open => /\ Places
            /\ dfs_wmi_event_pending \in Int
            /\ IsFiniteSet(Counted)
            /\ dfs_wmi_event_pending = Cardinality(Counted)

LEMMA RadarInit == Init => RadarInv
<1> SUFFICES ASSUME Init PROVE RadarInv
  OBVIOUS
<1>1. event_queue = <<>> /\ rPc = "idle" /\ wPc = "idle" /\ freed = {}
      /\ sent = 0 /\ dfs_wmi_event_pending = 0
  BY DEF Init
<1>2. OnTheWay = {} /\ AtWork = {} /\ Counted = {}
  BY <1>1, ElementsEmpty DEF OnTheWay, AtReceive, AtWork, Counted, Radars, Lost
<1>3. Places
  <2>1. event_queue \in Seq(Event) /\ Distinct(event_queue)
    BY <1>1, ElementsEmpty, EmptySeq
  <2> QED
    BY <1>1, <1>2, <2>1 DEF Places, Holding
<1> QED
  BY <1>1, <1>2, <1>3, FS_EmptySet DEF RadarInv

LEMMA OnTheWayType ==
    ASSUME Places PROVE \A e \in OnTheWay \cup freed : e \in Event /\ e.n \in Int
<1>1. Elements(event_queue) \subseteq Event
  BY ElementsType DEF Places, Holding
<1>2. OnTheWay \cup freed \subseteq Event
  BY <1>1 DEF Places, Holding, OnTheWay, AtReceive, AtWork
<1> QED
  BY <1>2 DEF Event

(* A step that changes neither the events nor the count.                   *)
LEMMA RadarQuiet ==
    ASSUME RadarInv, Open' => Open,
           UNCHANGED <<event_queue, sent, freed, dfs_wmi_event_pending>>,
           rPc' \in Holding => rPc' = rPc /\ rBuf' = rBuf,
           AtReceive' = AtReceive,
           wPc' \in {"lookup", "call"} =>
               wPc \in {"lookup", "call"} /\ wBuf' = wBuf,
           AtWork' = AtWork
    PROVE  RadarInv'
<1>1. OnTheWay' = OnTheWay
  BY DEF OnTheWay
<1>2. Counted' = Counted
  BY <1>1 DEF Counted, Radars, Lost
<1>3. ASSUME Open' PROVE Places'
  BY <1>1, <1>3 DEF RadarInv, Places, Holding
<1> QED
  BY <1>2, <1>3 DEF RadarInv

LEMMA RadarReceive ==
    ASSUME RadarInv, NEW e \in Event, Receive(e)
    PROVE  RadarInv'
<1> SUFFICES ASSUME Open' PROVE RadarInv'
  BY DEF RadarInv
<1>1. /\ UNCHANGED <<event_queue, wPc, wBuf, cPc, freed>>
      /\ rPc = "idle" /\ sent' = sent + 1 /\ e.n = sent + 1 /\ rBuf' = e
      /\ rPc' \in {"queue", "immediate"}
  BY DEF Receive, queueVars, wVars
<1>2. Places /\ dfs_wmi_event_pending \in Int /\ IsFiniteSet(Counted)
      /\ dfs_wmi_event_pending = Cardinality(Counted)
  BY <1>1 DEF RadarInv, Open
<1>3. /\ AtReceive = {} /\ AtWork' = AtWork
      /\ AtReceive' = IF rPc' = "queue" THEN {e} ELSE {}
  BY <1>1 DEF AtReceive, AtWork
<1>4. /\ OnTheWay = Elements(event_queue) \cup AtWork
      /\ OnTheWay' = OnTheWay \cup AtReceive'
  BY <1>1, <1>3 DEF OnTheWay
<1>5. e \notin OnTheWay \cup freed
  BY <1>1, <1>2 DEF Places, Holding
<1>6. Places'
  <2>1. \A d \in OnTheWay' \cup freed' : d.n <= sent'
    <3>1. \A d \in OnTheWay \cup freed : d.n <= sent /\ d.n \in Int
      BY <1>2, OnTheWayType DEF Places, Holding
    <3> QED
      BY <1>1, <1>2, <1>3, <1>4, <3>1 DEF Places, Holding
  <2>2. OnTheWay' \cap freed' = {}
    BY <1>1, <1>2, <1>3, <1>4, <1>5 DEF Places, Holding
  <2>3. e \notin Elements(event_queue) /\ e \notin AtWork
    BY <1>4, <1>5
  <2> QED
    BY <1>1, <1>2, <1>3, <1>5, <2>1, <2>2, <2>3 DEF Places, Holding
<1>7. Lost' = Lost
  BY <1>1 DEF Lost
<1>8. CASE e.id = RADAR /\ RadarFits(dfs_wmi_event_pending + 1)
  <2>1. /\ dfs_wmi_event_pending' = dfs_wmi_event_pending + 1
        /\ AtReceive' = {e}
    BY <1>3, <1>8 DEF Receive
  <2>2. Counted' = Counted \cup {e} /\ e \notin Counted
    BY <1>4, <1>5, <1>7, <1>8, <2>1 DEF Counted, Radars, Lost
  <2>3. IsFiniteSet(Counted') /\ Cardinality(Counted') = Cardinality(Counted) + 1
    BY <1>2, <2>2, FS_AddElement
  <2> QED
    BY <1>2, <1>6, <2>1, <2>3 DEF RadarInv
<1>9. CASE ~(e.id = RADAR /\ RadarFits(dfs_wmi_event_pending + 1))
  <2>1. /\ dfs_wmi_event_pending' = dfs_wmi_event_pending
        /\ e.id = RADAR => AtReceive' = {}
    BY <1>3, <1>9 DEF Receive, dfsVars
  <2>2. Counted' = Counted
    BY <1>3, <1>4, <1>7, <2>1 DEF Counted, Radars
  <2> QED
    BY <1>2, <1>6, <2>1, <2>2 DEF RadarInv
<1> QED
  BY <1>8, <1>9

(* The receive context gives its event to the queue or frees it.           *)
LEMMA RadarReceiveStep ==
    ASSUME RadarInv, ReceiveStep
    PROVE  RadarInv'
<1> SUFFICES ASSUME Open' PROVE RadarInv'
  BY DEF RadarInv
<1>1. UNCHANGED <<wPc, wBuf, cPc, sent, dfs_wmi_event_pending>>
  BY DEF ReceiveStep, HandleImmediate, CheckImmediate,
     LookupImmediate, CallImmediate, ImmediateDone, Enqueue, Schedule,
     wVars, cVars,
     dfsVars, auxVars
<1>2. Places /\ AtWork' = AtWork
  BY <1>1 DEF RadarInv, Open, AtWork
<1>3. CASE HandleImmediate
  <2>1. /\ UNCHANGED event_queue
        /\ rPc \in Holding /\ rPc # "queue" /\ rPc' # "queue"
        /\ rPc' \in Holding => rBuf' = rBuf /\ freed' = freed
        /\ freed' = freed \/ (freed' = freed \cup {rBuf})
        /\ freed' # freed => rPc # "immediate"
        /\ rPc' \in Holding => rPc # "immediate" \/ rBuf.tlv
    BY <1>3 DEF HandleImmediate, CheckImmediate, LookupImmediate,
       CallImmediate, ImmediateDone, queueVars, Holding
  <2>2. AtReceive = {} /\ AtReceive' = {} /\ OnTheWay' = OnTheWay
    BY <1>2, <2>1 DEF AtReceive, OnTheWay
  <2>3. rBuf \in Event /\ rBuf.n <= sent /\ rBuf \notin OnTheWay
    BY <1>2, <2>1, <2>2 DEF Places, Holding, OnTheWay
  <2>4. Places'
    <3>1. rPc' \in Holding => rBuf'.tlv
      BY <1>2, <2>1 DEF Places, Holding
    <3> QED
      BY <1>1, <1>2, <2>1, <2>2, <2>3, <3>1 DEF Places, Holding
  <2>5. Lost' = Lost
    <3>1. freed' # freed => rBuf.tlv
      BY <1>2, <2>1 DEF Places, Holding
    <3> QED
      BY <2>1, <3>1 DEF Lost
  <2> QED
    BY <1>1, <2>2, <2>4, <2>5 DEF RadarInv, Open, Counted, Radars
<1>4. CASE Enqueue
  <2>1. /\ rPc = "queue" /\ rPc' = "schedule" /\ UNCHANGED freed
        /\ event_queue' = Append(event_queue, rBuf)
    BY <1>4 DEF Enqueue, QueueAdd, auxVars
  <2>2. AtReceive = {rBuf} /\ AtReceive' = {}
    BY <2>1 DEF AtReceive
  <2>3. /\ event_queue' \in Seq(Event) /\ Distinct(event_queue')
        /\ Elements(event_queue') = Elements(event_queue) \cup {rBuf}
    BY <1>2, <2>1, ElementsAppend DEF Places, Holding
  <2>4. OnTheWay' = OnTheWay
    BY <1>2, <2>2, <2>3 DEF OnTheWay
  <2>5. Places'
    <3>1. wPc' \in {"lookup", "call"} => wBuf' \notin Elements(event_queue')
      BY <1>1, <1>2, <2>1, <2>3 DEF Places, Holding, AtWork
    <3> QED
      BY <1>1, <1>2, <2>1, <2>3, <2>4, <3>1 DEF Places, Holding
  <2> QED
    BY <1>1, <2>1, <2>4, <2>5 DEF RadarInv, Open, Counted, Radars, Lost
<1>5. CASE Schedule
  <2>1. /\ UNCHANGED <<event_queue, freed>> /\ rPc' = "idle"
        /\ rPc = "schedule"
    BY <1>5 DEF Schedule, auxVars
  <2>2. AtReceive' = AtReceive
    BY <2>1 DEF AtReceive
  <2> QED
    BY <1>1, <1>2, <2>1, <2>2, RadarQuiet DEF Open, Holding
<1> QED
  BY <1>3, <1>4, <1>5 DEF ReceiveStep

(* The work item takes an event off the queue, counts off the radar event  *)
(* that its handler sees, and leaves the malformed ones counted.           *)
LEMMA RadarWorkStep ==
    ASSUME RADAR \in Ids(Registered), SuspendedInv, TableType, FullInv,
           RadarInv, WorkStep
    PROVE  RadarInv'
<1> SUFFICES ASSUME Open' PROVE RadarInv'
  BY DEF RadarInv
<1> USE TableAssumption
<1>1. UNCHANGED <<rPc, rBuf, cPc, sent>>
  BY DEF WorkStep, StartWork, Dequeue, Lookup, Call, rVars, cVars, auxVars
<1>2. Places /\ AtReceive' = AtReceive /\ Open
  BY <1>1 DEF RadarInv, Open, AtReceive
<1>3. TargetQuiet /\ Stays(RADAR)
  BY <1>2 DEF TargetQuiet, Open, Stays
<1>4. CASE StartWork
  <2>1. /\ UNCHANGED <<event_queue, freed, dfs_wmi_event_pending, wBuf>>
        /\ wPc = "idle" /\ wPc' = "dequeue"
    BY <1>4 DEF StartWork, dfsVars, auxVars
  <2>2. AtWork' = AtWork
    BY <2>1 DEF AtWork
  <2> QED
    BY <1>1, <1>2, <2>1, <2>2, RadarQuiet
<1>5. CASE Dequeue
  <2>1. wPc = "dequeue" /\ UNCHANGED dfs_wmi_event_pending /\ AtWork = {}
    BY <1>5 DEF Dequeue, dfsVars, AtWork
  <2>2. CASE event_queue = <<>>
    <3>1. UNCHANGED <<event_queue, freed>> /\ wPc' = "idle"
      BY <1>5, <2>2 DEF Dequeue
    <3>2. AtWork' = AtWork
      BY <2>1, <3>1 DEF AtWork
    <3> QED
      BY <1>1, <1>2, <2>1, <3>1, <3>2, RadarQuiet
  <2>3. CASE event_queue # <<>>
    <3> DEFINE e == Head(event_queue)
               t == Tail(event_queue)
               done == ~e.tlv \/ e.id \in Direct
    <3>1. /\ event_queue' = t
          /\ freed' = IF done THEN freed \cup {e} ELSE freed
          /\ AtWork' = IF done THEN {} ELSE {e}
          /\ wPc' \in {"lookup", "call"} => ~done /\ wBuf' = e
      BY <1>5, <2>3 DEF Dequeue, AfterEvent, AtWork
    <3>2. /\ e \in Event /\ t \in Seq(Event) /\ Distinct(t)
          /\ Elements(event_queue) = {e} \cup Elements(t) /\ e \notin Elements(t)
      BY <1>2, <2>3, ElementsTail DEF Places, Holding
    <3>3. ~done => e.tlv
      BY <3>2 DEF Event
    <3> HIDE DEF e, t
    <3>4. /\ OnTheWay = Elements(t) \cup {e} \cup AtReceive
          /\ OnTheWay' = Elements(t) \cup AtReceive \cup AtWork'
      BY <1>2, <2>1, <3>1, <3>2 DEF OnTheWay
    <3>5. e \in OnTheWay /\ e \notin freed /\ e \notin AtReceive
      BY <1>2, <3>2, <3>4 DEF Places, Holding, AtReceive
    <3>6. Places'
      <4>1. OnTheWay' \cup freed' = OnTheWay \cup freed
        BY <3>1, <3>4
      <4>2. OnTheWay' \cap freed' = {}
        <5>1. OnTheWay \cap freed = {}
          BY <1>2 DEF Places, Holding
        <5> QED
          BY <3>1, <3>2, <3>4, <3>5, <5>1
      <4>3. rPc' \in Holding =>
               /\ rBuf' \notin Elements(event_queue') /\ rBuf' \notin AtWork'
               /\ rBuf' \notin freed'
        BY <1>1, <1>2, <3>1, <3>2 DEF Places, Holding
      <4> QED
        BY <1>1, <1>2, <3>1, <3>2, <3>3, <3>5, <4>1, <4>2, <4>3 DEF Places, Holding
    <3>7. Counted' = Counted
      <4>1. CASE e.id = RADAR /\ done
        <5>1. ~e.tlv
          BY <4>1
        <5>2. Radars(OnTheWay) = Radars(OnTheWay') \cup {e}
          BY <3>1, <3>4, <4>1 DEF Radars
        <5>3. Lost' = Lost \cup {e}
          BY <3>1, <4>1, <5>1 DEF Lost
        <5> QED
          BY <5>2, <5>3 DEF Counted, Radars
      <4>2. CASE e.id # RADAR /\ done
        <5>1. Lost' = Lost
          BY <3>1, <4>2 DEF Lost
        <5>2. Radars(OnTheWay') = Radars(OnTheWay)
          BY <3>1, <3>4, <4>2 DEF Radars
        <5> QED
          BY <5>1, <5>2 DEF Counted, Radars
      <4>3. CASE ~done
        BY <3>1, <3>4, <4>3 DEF Counted, Radars, Lost
      <4> QED
        BY <4>1, <4>2, <4>3
    <3> QED
      BY <1>2, <2>1, <3>6, <3>7 DEF RadarInv
  <2> QED
    BY <2>2, <2>3
<1>6. CASE Lookup /\ wPc' = "dequeue"
  <2>1. /\ UNCHANGED <<event_queue, dfs_wmi_event_pending>> /\ wPc = "lookup"
        /\ freed' = freed \cup {wBuf} /\ ~(wIdx < max_event_idx)
    BY <1>6 DEF Lookup, Done, queueVars, dfsVars
  <2>2. wBuf.id # RADAR
    BY <1>3, <2>1, CompleteTable DEF InUse, FullInv, Search, TableType
  <2>3. AtWork = {wBuf} /\ AtWork' = {}
    BY <1>6, <2>1 DEF AtWork
  <2>4. /\ OnTheWay = Elements(event_queue) \cup AtReceive \cup {wBuf}
        /\ OnTheWay' = Elements(event_queue) \cup AtReceive
    BY <1>2, <2>1, <2>3 DEF OnTheWay
  <2>5. wBuf \in Event /\ wBuf \notin Elements(event_queue) /\ wBuf \notin AtReceive
    BY <1>2, <2>1, <2>3 DEF Places, Holding, AtReceive
  <2>6. Places'
    BY <1>1, <1>2, <1>6, <2>1, <2>3, <2>4, <2>5 DEF Places, Holding
  <2>7. Radars(OnTheWay') = Radars(OnTheWay) /\ Lost' = Lost
    BY <2>1, <2>2, <2>4 DEF Radars, Lost
  <2> QED
    BY <1>2, <2>1, <2>6, <2>7 DEF RadarInv, Counted, Radars
<1>7. CASE Lookup /\ wPc' # "dequeue"
  <2>1. /\ UNCHANGED <<event_queue, freed, dfs_wmi_event_pending, wBuf>>
        /\ wPc = "lookup" /\ wPc' \in {"lookup", "call"}
    BY <1>7 DEF Lookup, Done, AfterEvent, queueVars, dfsVars
  <2>2. AtWork' = AtWork
    BY <2>1 DEF AtWork
  <2> QED
    BY <1>1, <1>2, <2>1, <2>2, RadarQuiet
<1>8. CASE Call
  <2>1. /\ UNCHANGED event_queue /\ wPc = "call" /\ wPc' = "dequeue"
        /\ freed' = freed \cup {wBuf}
        /\ dfs_wmi_event_pending' = PendingAfter(event_handler[wIdx])
    BY <1>8 DEF Call, Done, AfterEvent, queueVars
  <2>2. event_handler[wIdx] = wBuf.id
    BY <1>3, <2>1, CompleteTable DEF FullInv, Filled, Search
  <2>3. AtWork = {wBuf} /\ AtWork' = {}
    BY <2>1 DEF AtWork
  <2>4. /\ OnTheWay = Elements(event_queue) \cup AtReceive \cup {wBuf}
        /\ OnTheWay' = Elements(event_queue) \cup AtReceive
    BY <1>2, <2>1, <2>3 DEF OnTheWay
  <2>5. /\ wBuf \in Event /\ wBuf \notin Elements(event_queue)
        /\ wBuf \notin AtReceive /\ wBuf.tlv
    BY <1>2, <2>1, <2>3 DEF Places, Holding, AtReceive
  <2>6. Places'
    BY <1>1, <1>2, <2>1, <2>3, <2>4, <2>5 DEF Places, Holding
  <2>7. Lost' = Lost /\ wBuf \notin Lost
    BY <2>1, <2>5 DEF Lost
  <2>8. dfs_wmi_event_pending \in Int /\ IsFiniteSet(Counted)
        /\ dfs_wmi_event_pending = Cardinality(Counted)
    BY <1>2 DEF RadarInv
  <2>9. CASE wBuf.id = RADAR
    <3>1. Counted' = Counted \ {wBuf} /\ wBuf \in Counted
      BY <2>4, <2>5, <2>7, <2>9 DEF Counted, Radars
    <3>2. /\ IsFiniteSet(Counted')
          /\ Cardinality(Counted') = Cardinality(Counted) - 1
      BY <2>8, <3>1, FS_RemoveElement
    <3> QED
      BY <2>1, <2>2, <2>6, <2>8, <2>9, <3>2 DEF RadarInv, PendingAfter
  <2>10. CASE wBuf.id # RADAR
    <3>1. Counted' = Counted
      BY <2>4, <2>7, <2>10 DEF Counted, Radars
    <3> QED
      BY <2>1, <2>2, <2>6, <2>8, <2>10, <3>1 DEF RadarInv, PendingAfter
  <2> QED
    BY <2>9, <2>10
<1> QED
  BY <1>4, <1>5, <1>6, <1>7, <1>8 DEF WorkStep

LEMMA RadarStep ==
    ASSUME RADAR \in Ids(Registered)
    PROVE  SuspendedInv /\ TableType /\ FullInv /\ RadarInv /\ [Next]_vars
             => RadarInv'
<1> SUFFICES ASSUME SuspendedInv, TableType, FullInv, RadarInv, [Next]_vars
             PROVE  RadarInv'
  OBVIOUS
<1>1. CASE Register \/ HTCStart
  <2>1. /\ UNCHANGED <<event_queue, sent, freed, dfs_wmi_event_pending, rPc,
                       rBuf, wPc, wBuf>>
        /\ Open
    BY <1>1 DEF Register, HTCStart, queueVars, rVars, wVars, dfsVars, auxVars,
       Open
  <2> QED
    BY <2>1, RadarQuiet DEF AtReceive, AtWork
<1>2. CASE VosStop \/ RemoveWork \/ HTCStop \/ HTCDestroy \/ UnregisterClear
           \/ UnregisterCount \/ UnregisterMove \/ WmaClosed \/ Detach
  <2>1. ~Open'
    BY <1>2 DEF VosStop, RemoveWork, HTCStop, HTCDestroy, UnregisterClear,
       UnregisterCount, UnregisterMove, WmaClosed, Detach, Cancel, Wait, Drain,
       Open
  <2> QED
    BY <2>1 DEF RadarInv
<1>3. CASE UNCHANGED vars
  <2>1. UNCHANGED <<event_queue, sent, freed, dfs_wmi_event_pending, rPc,
                    rBuf, wPc, wBuf, cPc>>
    BY <1>3 DEF vars
  <2> QED
    BY <2>1, RadarQuiet DEF AtReceive, AtWork, Open
<1> QED
  BY <1>1, <1>2, <1>3, RadarReceive, RadarReceiveStep, RadarWorkStep
  DEF Next, ControlStep, Over

(* The count of waiting events by place is the count by event.             *)
LEMMA WaitingAre ==
    ASSUME Places
    PROVE  /\ IsFiniteSet(Radars(OnTheWay))
           /\ WaitingRadars = Cardinality(Radars(OnTheWay))
<1> DEFINE a == IF rPc = "queue" THEN <<rBuf>> ELSE <<>>
           b == IF wPc \in {"lookup", "call"} THEN <<wBuf>> ELSE <<>>
           q == event_queue
           T == {e \in Event : e.id = RADAR}
<1>1. a \in Seq(Event) /\ Distinct(a) /\ Elements(a) = AtReceive
  <2>1. CASE rPc = "queue"
    <3>1. rBuf \in Event /\ a = <<rBuf>> /\ AtReceive = {rBuf}
      BY <2>1 DEF Places, Holding, AtReceive
    <3>2. <<rBuf>> \in Seq(Event)
      BY <3>1
    <3> QED
      BY <3>1, <3>2, ElementsOne, Zenon
  <2>2. CASE rPc # "queue"
    <3>1. a = <<>> /\ AtReceive = {}
      BY <2>2 DEF AtReceive
    <3> QED
      BY <3>1, ElementsEmpty, EmptySeq, Zenon
  <2> QED
    BY <2>1, <2>2
<1>2. b \in Seq(Event) /\ Distinct(b) /\ Elements(b) = AtWork
  <2>1. CASE wPc \in {"lookup", "call"}
    <3>1. wBuf \in Event /\ b = <<wBuf>> /\ AtWork = {wBuf}
      BY <2>1 DEF Places, Holding, AtWork
    <3>2. <<wBuf>> \in Seq(Event)
      BY <3>1
    <3> QED
      BY <3>1, <3>2, ElementsOne, Zenon
  <2>2. CASE wPc \notin {"lookup", "call"}
    <3>1. b = <<>> /\ AtWork = {}
      BY <2>2 DEF AtWork
    <3> QED
      BY <3>1, ElementsEmpty, EmptySeq, Zenon
  <2> QED
    BY <2>1, <2>2
<1>3. q \in Seq(Event) /\ Distinct(q)
  BY DEF Places, Holding
<1>4. /\ Elements(q) \cap AtReceive = {}
      /\ (Elements(q) \cup AtReceive) \cap AtWork = {}
  BY DEF Places, Holding, AtReceive, AtWork
<1>5. Waiting = q \o a \o b
  BY DEF Waiting
<1> HIDE DEF a, b, q
<1> DEFINE c == q \o a
<1>6. /\ c \in Seq(Event) /\ Distinct(c)
      /\ Elements(c) = Elements(q) \cup AtReceive
  BY <1>1, <1>3, <1>4, ElementsConcat
<1> HIDE DEF c
<1>7. /\ c \o b \in Seq(Event) /\ Distinct(c \o b)
      /\ Elements(c \o b) = Elements(c) \cup AtWork
  BY <1>2, <1>4, <1>6, ElementsConcat
<1>8. /\ Waiting \in Seq(Event) /\ Distinct(Waiting)
      /\ Elements(Waiting) = OnTheWay
  BY <1>5, <1>6, <1>7 DEF OnTheWay, c, q
<1>9. /\ IsFiniteSet(Elements(Waiting) \cap T)
      /\ Cardinality({i \in 1..Len(Waiting) : Waiting[i] \in T})
           = Cardinality(Elements(Waiting) \cap T)
  <2> HIDE DEF T
  <2> QED
    BY <1>8, CountElements
<1>10. Elements(Waiting) \cap T = Radars(OnTheWay)
  BY <1>8, OnTheWayType DEF Radars
<1>11. {i \in 1..Len(Waiting) : Waiting[i] \in T}
         = {i \in 1..Len(Waiting) : Waiting[i].id = RADAR}
  BY <1>8, ElementOfSeq
<1> QED
  BY <1>9, <1>10, <1>11 DEF WaitingRadars

(* While the driver is up, dfs_wmi_event_pending is the number of radar    *)
(* events on their way to the handler and of malformed ones that were      *)
(* queued, for any number of events - when the table has room and the      *)
(* radar handler is among those that are registered (phyerr filter         *)
(* offload).                                                               *)
THEOREM PendingRadarsAreCounted ==
    ASSUME HasRoom, RADAR \in Ids(Registered)
    PROVE  Spec => []RadarsCounted
<1>1. RadarInv => RadarsCounted
  <2> SUFFICES ASSUME RadarInv, cPc = "up"
               PROVE  dfs_wmi_event_pending = WaitingRadars + Cardinality(Lost)
    BY DEF RadarsCounted, Lost
  <2>1. Places /\ IsFiniteSet(Counted)
        /\ dfs_wmi_event_pending = Cardinality(Counted)
    BY DEF RadarInv, Open
  <2> DEFINE R == Radars(OnTheWay)
             L == Lost
  <2>2. Counted = R \cup L /\ R \cap L = {}
    BY <2>1 DEF Counted, Places, Holding, Radars, Lost
  <2>3. IsFiniteSet(R) /\ IsFiniteSet(L)
    <3>1. R \in SUBSET Counted /\ L \in SUBSET Counted
      BY <2>2
    <3> HIDE DEF R, L
    <3> QED
      BY <2>1, <3>1, FS_Subset
  <2>4. WaitingRadars = Cardinality(R)
    BY <2>1, WaitingAre
  <2> HIDE DEF R, L
  <2>5. Cardinality(R \cup L) = Cardinality(R) + Cardinality(L) - Cardinality({})
    BY <2>2, <2>3, FS_Union
  <2>6. /\ Cardinality(R) \in Nat /\ Cardinality(L) \in Nat
        /\ Cardinality({}) = 0
    BY <2>3, FS_CardinalityType, FS_EmptySet
  <2>7. Cardinality(Counted) = WaitingRadars + Cardinality(L)
    BY <2>2, <2>4, <2>5, <2>6
  <2> QED
    BY <2>1, <2>7 DEF L
<1>2. TableInv => TableType
  BY DEF TableInv
<1>3. SuspendedInv /\ TableType /\ FullInv /\ [Next]_vars => FullInv'
  BY FullStep
<1>4. SuspendedInv /\ TableType /\ FullInv /\ RadarInv /\ [Next]_vars
        => RadarInv'
  BY RadarStep
<1> QED
  BY <1>1, <1>2, <1>3, <1>4, RadarInit, FullInit, SuspendedInit,
     SuspendedStep, TableInit, TableStep, PTL DEF Spec
=============================================================================
