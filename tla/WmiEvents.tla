----------------------------- MODULE WmiEvents ------------------------------
(***************************************************************************)
(* The event side of WMI (wmi_unified.c).  wmi_control_rx runs in the      *)
(* receive context of HTC: it handles a few events at once, counts the     *)
(* radar events that wait, and puts the others on event_queue for the work *)
(* item rx_event_work.  The work item looks up the handler of each event   *)
(* in a table that no lock protects.  A third thread registers the         *)
(* handlers when the driver opens and, when it closes, goes through        *)
(* vos_stop and vos_close: suspend the target, wmi_unified_remove_work,    *)
(* HTCStop, HTCDestroy, wma_close (which unregisters handlers) and         *)
(* wmi_unified_detach.                                                     *)
(*                                                                         *)
(* External: the target sends MaxEvents events, until it is suspended; the *)
(* USB layer delivers them one at a time.  When the target goes on, an     *)
(* event can be delivered at any time until the handle is freed: HTCStop   *)
(* and HTCDestroy wait for the receive work that is scheduled, not for a   *)
(* completion routine that is about to schedule it.  Work items behave as  *)
(* the kernel's (schedule_work, cancel_work_sync).                         *)
(***************************************************************************)
EXTENDS Integers, Sequences, FiniteSets

CONSTANTS
    Registered,     \* ids that wma_open registers, in this order
    Unregistered,   \* ids that wma_close unregisters, in this order
    Unknown,        \* ids of the target that have no handler
    Immediate,      \* ids handled in the receive context
    Direct,         \* ids below WMI_GRP_START, handled without the table
    RADAR,          \* WMI_DFS_RADAR_EVENTID
    NULL,
    WMI_UNIFIED_MAX_EVENT,
    RADAR_WMI_EVENT_PENDING_MAX,
    Malformed,      \* ids of events that may fail the TLV check
    SuspendFails,   \* the target may go on after wma_suspend_target
    MaxEvents       \* bound: events the target sends

Ids(seq) == {seq[i] : i \in 1..Len(seq)}
EventIds == Ids(Registered) \cup Unknown \cup Immediate \cup Direct \cup {RADAR}
Slots == 0..(WMI_UNIFIED_MAX_EVENT - 1)

ASSUME TableAssumption ==
    /\ WMI_UNIFIED_MAX_EVENT \in Nat \ {0}
    /\ Registered \in Seq(EventIds) /\ Unregistered \in Seq(EventIds)
    /\ Ids(Unregistered) \subseteq Ids(Registered) \ (Immediate \cup {RADAR})
    /\ Direct \cap (Ids(Registered) \cup Immediate \cup {RADAR}) = {}
    /\ Unknown \cap (Ids(Registered) \cup Direct) = {}
    /\ RADAR \notin Immediate /\ NULL \notin EventIds \cup {"none"}

ASSUME BoundAssumption ==
    /\ RADAR_WMI_EVENT_PENDING_MAX \in Nat \ {0}
    /\ MaxEvents \in Nat
    /\ Malformed \subseteq EventIds /\ SuspendFails \in BOOLEAN

(* The n-th event of the target.                                           *)
Event == [n : 1..MaxEvents, id : EventIds, tlv : BOOLEAN]
NoEvent == [n |-> 0]

VARIABLES
    event_id, event_handler, max_event_idx, \* the handler table
    event_queue,
    workPending,            \* rx_event_work is scheduled
    canceling,              \* cancel_work_sync waits for rx_event_work
    rPc, rBuf, rIdx,        \* wmi_control_rx
    wPc, wBuf, wIdx,        \* __wmi_rx_event_work
    cPc, cNext, cIdx,       \* the thread that opens and closes the driver
    dfs_wmi_event_pending, dfs_wmi_event_dropped,
    suspended,              \* the target sends no more events
    lateRx,                 \* history: wmi_control_rx ran beside
                            \* wmi_unified_detach
    sent, freed, leaked,    \* auxiliary: events, what became of their buffers
    outcomes                \* auxiliary: the handlers the work item called

tableVars == <<event_id, event_handler, max_event_idx>>
queueVars == <<event_queue, workPending, canceling>>
rVars == <<rPc, rBuf, rIdx>>
wVars == <<wPc, wBuf, wIdx>>
cVars == <<cPc, cNext, cIdx, suspended, lateRx>>
dfsVars == <<dfs_wmi_event_pending, dfs_wmi_event_dropped>>
auxVars == <<sent, outcomes, freed, leaked>>
vars == <<event_id, event_handler, max_event_idx, event_queue, workPending,
          canceling, rPc, rBuf, rIdx, wPc, wBuf, wIdx, cPc, cNext, cIdx,
          suspended, lateRx, dfs_wmi_event_pending, dfs_wmi_event_dropped,
          sent, outcomes, freed, leaked>>

(* wmi_unified_attach: the handle is zeroed.                               *)
Init ==
    /\ event_id = [i \in Slots |-> NULL]
    /\ event_handler = [i \in Slots |-> NULL]
    /\ max_event_idx = 0
    /\ event_queue = <<>> /\ workPending = FALSE /\ canceling = FALSE
    /\ rPc = "idle" /\ rBuf = NoEvent /\ rIdx = 0
    /\ wPc = "idle" /\ wBuf = NoEvent /\ wIdx = 0
    /\ cPc = "register" /\ cNext = 1 /\ cIdx = 0
    /\ dfs_wmi_event_pending = 0 /\ dfs_wmi_event_dropped = 0
    /\ suspended = FALSE /\ lateRx = FALSE
    /\ sent = 0 /\ outcomes = {} /\ freed = {}
    /\ leaked = {}

-----------------------------------------------------------------------------
(* The handler table.                                                      *)

(* One round of the search loop finds id in slot i.                        *)
FoundAt(i, id) == event_id[i] = id /\ event_handler[i] # NULL

(* wmi_unified_get_event_handler_ix where nobody changes the table: the    *)
(* slots that hold id.                                                     *)
SlotsOf(id) == {i \in 0..(max_event_idx - 1) : FoundAt(i, id)}

(* wmi_unified_register_event_handler                                      *)
Register ==
    /\ cPc = "register"
    /\ cNext <= Len(Registered)
    /\ LET id == Registered[cNext]
       IN  IF SlotsOf(id) # {} \/ max_event_idx = WMI_UNIFIED_MAX_EVENT
           THEN UNCHANGED tableVars
           ELSE /\ event_handler' = [event_handler EXCEPT ![max_event_idx] = id]
                /\ event_id' = [event_id EXCEPT ![max_event_idx] = id]
                /\ max_event_idx' = max_event_idx + 1
    /\ cNext' = cNext + 1
    /\ UNCHANGED <<queueVars, rVars, wVars, cPc, cIdx, suspended, lateRx,
                   dfsVars, auxVars>>

(* The handlers are in place and HTC is started.                           *)
HTCStart ==
    /\ cPc = "register"
    /\ cNext > Len(Registered)
    /\ cPc' = "up"
    /\ cNext' = 1
    /\ UNCHANGED <<tableVars, queueVars, rVars, wVars, cIdx, suspended,
                   lateRx, dfsVars, auxVars>>

(* wmi_unified_unregister_event_handler, in the steps that a search of the *)
(* table can tell apart: clear the slot, ...                               *)
UnregisterClear ==
    /\ cPc = "wma_close"
    /\ cNext <= Len(Unregistered)
    /\ LET found == SlotsOf(Unregistered[cNext])
       IN  IF found = {}
           THEN /\ cNext' = cNext + 1
                /\ UNCHANGED <<tableVars, cPc, cIdx>>
           ELSE \E i \in found :
                   /\ \A j \in found : i <= j
                   /\ cIdx' = i
                   /\ event_handler' = [event_handler EXCEPT ![i] = NULL]
                   /\ event_id' = [event_id EXCEPT ![i] = NULL]
                   /\ cPc' = "unregister_count"
                   /\ UNCHANGED <<max_event_idx, cNext>>
    /\ UNCHANGED <<queueVars, rVars, wVars, suspended, lateRx, dfsVars,
                   auxVars>>

(* ... shorten the table, ...                                              *)
UnregisterCount ==
    /\ cPc = "unregister_count"
    /\ max_event_idx' = max_event_idx - 1
    /\ cPc' = "unregister_move"
    /\ UNCHANGED <<event_id, event_handler, queueVars, rVars, wVars, cNext,
                   cIdx, suspended, lateRx, dfsVars, auxVars>>

(* Mutant: the entries behind the free slot all move up by one.            *)
MutantMoveUp ==
    LET Up(i) == IF cIdx <= i /\ i < max_event_idx THEN i + 1 ELSE i
    IN  /\ event_handler' = [i \in Slots |-> event_handler[Up(i)]]
        /\ event_id' = [i \in Slots |-> event_id[Up(i)]]

(* ... and move the last entry to the free slot.  The last entry itself is *)
(* left in place, behind the end of the table.                             *)
MoveLast ==
    /\ event_handler' = [event_handler EXCEPT
                            ![cIdx] = event_handler[max_event_idx]]
    /\ event_id' = [event_id EXCEPT ![cIdx] = event_id[max_event_idx]]

UnregisterMove ==
    /\ cPc = "unregister_move"
    /\ MoveLast
    /\ cPc' = "wma_close"
    /\ cNext' = cNext + 1
    /\ UNCHANGED <<max_event_idx, queueVars, rVars, wVars, cIdx, suspended,
                   lateRx, dfsVars, auxVars>>

-----------------------------------------------------------------------------
(* wmi_control_rx                                                          *)

(* HTC is started and not yet told to stop.                                *)
HtcUp == cPc \in {"up", "rw_cancel", "rw_wait", "rw_drain", "HTCStop"}

RadarFits(n) == n < RADAR_WMI_EVENT_PENDING_MAX

(* The target's next event, which may come after HTCStop.  A radar event   *)
(* over the limit is counted as dropped and goes the way of the immediate  *)
(* events.                                                                 *)
Receive(e) ==
    /\ cPc \notin {"register", "detached"} /\ ~suspended
    /\ rPc = "idle"
    /\ sent < MaxEvents /\ e.n = sent + 1
    /\ e.tlv \/ e.id \in Malformed
    /\ sent' = sent + 1
    /\ rBuf' = e
    /\ lateRx' = (lateRx \/ cPc \in {"dt_wait", "dt_drain"})
    /\ IF e.id = RADAR
       THEN IF RadarFits(dfs_wmi_event_pending + 1)
            THEN /\ dfs_wmi_event_pending' = dfs_wmi_event_pending + 1
                 /\ rPc' = "queue"
                 /\ UNCHANGED dfs_wmi_event_dropped
            ELSE /\ dfs_wmi_event_dropped' = dfs_wmi_event_dropped + 1
                 /\ rPc' = "immediate"
                 /\ UNCHANGED dfs_wmi_event_pending
       ELSE /\ rPc' = IF e.id \in Immediate THEN "immediate" ELSE "queue"
            /\ UNCHANGED dfsVars
    /\ UNCHANGED <<tableVars, queueVars, rIdx, wVars, cPc, cNext, cIdx,
                   suspended, outcomes, freed, leaked>>

(* An event that is handled at once.  The buffer is not freed when its     *)
(* TLVs are wrong; else the table is searched.                             *)
CheckImmediate ==
    /\ rPc = "immediate"
    /\ IF rBuf.tlv
       THEN rPc' = "rx_lookup" /\ rIdx' = 0 /\ UNCHANGED <<rBuf, leaked>>
       ELSE /\ leaked' = leaked \cup {rBuf}
            /\ rPc' = "idle" /\ rBuf' = NoEvent /\ UNCHANGED rIdx
    /\ UNCHANGED <<tableVars, queueVars, wVars, cVars, dfsVars, sent, outcomes,
                   freed>>

(* The handler h, or none, was called.  No handler sees a radar event that *)
(* was dropped.                                                            *)
ImmediateDone(h) ==
    /\ outcomes' = IF rBuf.id = RADAR THEN outcomes
                   ELSE outcomes \cup {[id |-> rBuf.id, handler |-> h]}
    /\ freed' = freed \cup {rBuf}
    /\ rPc' = "idle" /\ rBuf' = NoEvent

(* One round of wmi_unified_get_event_handler_ix                           *)
LookupImmediate ==
    /\ rPc = "rx_lookup"
    /\ IF rIdx < max_event_idx
       THEN /\ IF FoundAt(rIdx, rBuf.id)
               THEN rPc' = "rx_call" /\ UNCHANGED rIdx
               ELSE rIdx' = rIdx + 1 /\ UNCHANGED rPc
            /\ UNCHANGED <<rBuf, outcomes, freed>>
       ELSE ImmediateDone("none") /\ UNCHANGED rIdx
    /\ UNCHANGED <<tableVars, queueVars, wVars, cVars, dfsVars, sent, leaked>>

CallImmediate ==
    /\ rPc = "rx_call"
    /\ ImmediateDone(event_handler[rIdx])
    /\ UNCHANGED <<tableVars, queueVars, rIdx, wVars, cVars, dfsVars, sent,
                   leaked>>

HandleImmediate == CheckImmediate \/ LookupImmediate \/ CallImmediate

(* adf_nbuf_queue_add                                                      *)
QueueAdd(e) == Append(event_queue, e)

Enqueue ==
    /\ rPc = "queue"
    /\ event_queue' = QueueAdd(rBuf)
    /\ rPc' = "schedule" /\ rBuf' = NoEvent
    /\ UNCHANGED <<tableVars, workPending, canceling, rIdx, wVars, cVars,
                   dfsVars, auxVars>>

(* schedule_work, which does nothing while cancel_work_sync waits.         *)
ScheduleWork == workPending \/ ~canceling

Schedule ==
    /\ rPc = "schedule"
    /\ workPending' = ScheduleWork
    /\ rPc' = "idle"
    /\ UNCHANGED <<tableVars, event_queue, canceling, rBuf, rIdx, wVars, cVars,
                   dfsVars, auxVars>>

-----------------------------------------------------------------------------
(* wmi_rx_event_work                                                       *)

(* The kernel starts the work item; it never runs twice at a time.         *)
StartWork ==
    /\ workPending /\ wPc = "idle"
    /\ workPending' = FALSE
    /\ wPc' = "dequeue"
    /\ UNCHANGED <<tableVars, event_queue, canceling, rVars, wBuf, wIdx,
                   cVars, dfsVars, auxVars>>

(* Mutant: the work item handles one event and ends.                       *)
MutantOneEvent == "idle"

(* "while (buf)": after an event, the work item looks for the next one.    *)
AfterEvent == "dequeue"

(* Remove the next event, check its TLVs, handle those without a table     *)
(* entry, and begin to search the table for the others.                    *)
Dequeue ==
    /\ wPc = "dequeue"
    /\ IF event_queue = <<>>
       THEN /\ wPc' = "idle"
            /\ UNCHANGED <<event_queue, wBuf, wIdx, freed>>
       ELSE LET e == Head(event_queue)
                done == ~e.tlv \/ e.id \in Direct
            IN  /\ event_queue' = Tail(event_queue)
                /\ freed' = IF done THEN freed \cup {e} ELSE freed
                /\ wPc' = IF done THEN AfterEvent ELSE "lookup"
                /\ wBuf' = IF done THEN NoEvent ELSE e
                /\ wIdx' = 0
    /\ UNCHANGED <<tableVars, workPending, canceling, rVars, cVars, dfsVars,
                   sent, outcomes, leaked>>

(* The handler h, or none, was called for the event: free its buffer.      *)
Done(h) ==
    /\ outcomes' = outcomes \cup {[id |-> wBuf.id, handler |-> h]}
    /\ freed' = freed \cup {wBuf}
    /\ wPc' = AfterEvent /\ wBuf' = NoEvent

(* One round of wmi_unified_get_event_handler_ix                           *)
Lookup ==
    /\ wPc = "lookup"
    /\ IF wIdx < max_event_idx
       THEN /\ IF FoundAt(wIdx, wBuf.id)
               THEN wPc' = "call" /\ UNCHANGED wIdx
               ELSE wIdx' = wIdx + 1 /\ UNCHANGED wPc
            /\ UNCHANGED <<wBuf, outcomes, freed>>
       ELSE Done("none") /\ UNCHANGED wIdx
    /\ UNCHANGED <<tableVars, queueVars, rVars, cVars, dfsVars, sent,
                   leaked>>

(* Mutant: the radar handler does not count the event off.                 *)
MutantPendingAfter(h) == dfs_wmi_event_pending

(* wma_unified_dfs_radar_rx_event_handler counts the event off first.      *)
PendingAfter(h) ==
    IF h = RADAR THEN dfs_wmi_event_pending - 1 ELSE dfs_wmi_event_pending

(* The slot is read again for the call.                                    *)
Call ==
    /\ wPc = "call"
    /\ Done(event_handler[wIdx])
    /\ dfs_wmi_event_pending' = PendingAfter(event_handler[wIdx])
    /\ UNCHANGED <<tableVars, queueVars, rVars, wIdx, cVars,
                   dfs_wmi_event_dropped, sent, leaked>>

-----------------------------------------------------------------------------
(* vos_stop and vos_close                                                  *)

(* wma_stop: on USB the target is suspended with its interrupts on.  A     *)
(* failure is logged and vos_stop goes on; hif_disable_isr and             *)
(* hif_reset_soc do nothing.  The acknowledgement comes the same way as    *)
(* the events, after them.                                                 *)
VosStop ==
    /\ cPc = "up"
    /\ cPc' = "rw_cancel"
    /\ \/ rPc = "idle" /\ suspended' = TRUE
       \/ SuspendFails /\ suspended' = FALSE
    /\ UNCHANGED <<tableVars, queueVars, rVars, wVars, cNext, cIdx, lateRx,
                   dfsVars, auxVars>>

(* vos_flush_work is cancel_work_sync: take the work off its queue, ...    *)
Cancel(from, to) ==
    /\ cPc = from /\ cPc' = to
    /\ workPending' = FALSE
    /\ canceling' = TRUE
    /\ lateRx' = (lateRx \/ (cPc = "dt_cancel" /\ rPc # "idle"))
    /\ UNCHANGED <<tableVars, event_queue, rVars, wVars, cNext, cIdx,
                   suspended, dfsVars, auxVars>>

(* Mutant: the work may still run (cancel_work without _sync).             *)
MutantWorkEnded == TRUE

WorkEnded == wPc = "idle"

(* ... and wait until it does not run any more.                            *)
Wait(from, to) ==
    /\ cPc = from /\ cPc' = to
    /\ WorkEnded
    /\ canceling' = FALSE
    /\ UNCHANGED <<tableVars, event_queue, workPending, rVars, wVars, cNext,
                   cIdx, suspended, lateRx, dfsVars, auxVars>>

(* Free every buffer that is left on the queue.                            *)
DrainQueue ==
    /\ freed' = freed \cup {event_queue[i] : i \in 1..Len(event_queue)}
    /\ event_queue' = <<>>

Drain(from, to) ==
    /\ cPc = from /\ cPc' = to
    /\ DrainQueue
    /\ UNCHANGED <<tableVars, workPending, canceling, rVars, wVars, cNext,
                   cIdx, suspended, lateRx, dfsVars, sent, outcomes,
                   leaked>>

(* wma_wmi_work_close: wmi_unified_remove_work                             *)
RemoveWork ==
    \/ Cancel("rw_cancel", "rw_wait")
    \/ Wait("rw_wait", "rw_drain")
    \/ Drain("rw_drain", "HTCStop")

(* HTCStop: HIFStop kills the transfers that are pending and waits for the *)
(* receive work that is scheduled (flush_work).  A completion routine that *)
(* has its transfer already may schedule it again.                         *)
HTCStop ==
    /\ cPc = "HTCStop"
    /\ rPc = "idle"
    /\ cPc' = "HTCDestroy"
    /\ UNCHANGED <<tableVars, queueVars, rVars, wVars, cNext, cIdx,
                   suspended, lateRx, dfsVars, auxVars>>

(* HTCDestroy: HIFStop once more, then HIFDetachHTC, which does the same   *)
(* before it clears the callbacks.                                         *)
HTCDestroy ==
    /\ cPc = "HTCDestroy"
    /\ rPc = "idle"
    /\ cPc' = "wma_close"
    /\ UNCHANGED <<tableVars, queueVars, rVars, wVars, cNext, cIdx,
                   suspended, lateRx, dfsVars, auxVars>>

WmaClosed ==
    /\ cPc = "wma_close"
    /\ cNext > Len(Unregistered)
    /\ cPc' = "dt_cancel"
    /\ UNCHANGED <<tableVars, queueVars, rVars, wVars, cNext, cIdx,
                   suspended, lateRx, dfsVars, auxVars>>

(* wma_wmi_service_close: wmi_unified_detach, which frees the handle.      *)
Detach ==
    \/ Cancel("dt_cancel", "dt_wait")
    \/ Wait("dt_wait", "dt_drain")
    \/ Drain("dt_drain", "detached")

Over == cPc = "detached" /\ UNCHANGED vars

-----------------------------------------------------------------------------
ControlStep ==
    \/ Register \/ HTCStart \/ VosStop \/ RemoveWork \/ HTCStop \/ HTCDestroy
    \/ UnregisterClear \/ UnregisterCount \/ UnregisterMove \/ WmaClosed
    \/ Detach
ReceiveStep == HandleImmediate \/ Enqueue \/ Schedule
WorkStep == StartWork \/ Dequeue \/ Lookup \/ Call

Next ==
    \/ \E e \in Event : Receive(e)
    \/ ReceiveStep \/ WorkStep \/ ControlStep \/ Over

Spec == Init /\ [][Next]_vars

(* The kernel schedules the receive context, the work item and the thread  *)
(* that opens or closes the driver.  Nothing makes the target send events  *)
(* or the user close the driver.                                           *)
FairSpec ==
    /\ Spec
    /\ WF_vars(ReceiveStep) /\ WF_vars(WorkStep)
    /\ WF_vars(cPc # "up" /\ ControlStep)

-----------------------------------------------------------------------------
(* Properties.                                                             *)

(* The work item and wmi_control_rx share no flag but the work item's      *)
(* pending bit: whenever an event waits on event_queue, the work item is   *)
(* scheduled, about to be scheduled or running, or the queue is about to   *)
(* be drained.  Else the event would wait for the next one to arrive.      *)
QueueIsServed ==
    event_queue # <<>> =>
        \/ workPending \/ wPc # "idle" \/ rPc = "schedule"
        \/ cPc \in {"rw_wait", "rw_drain", "dt_wait", "dt_drain"}

(* wma_close shortens the handler table while a work item may search it,   *)
(* with no lock.  An event whose handler stays registered is never given   *)
(* to the handler of another one, because unregistering leaves the moved   *)
(* entry in its old slot as well.                                          *)
Stays(id) == id \in Ids(Registered) \ Ids(Unregistered)
NeverAnotherHandler ==
    \A o \in outcomes : Stays(o.id) => o.handler \in {o.id, "none"}

(* The target was suspended, or nobody has tried to.                       *)
TargetQuiet == suspended \/ cPc \in {"register", "up"}

(* "Call the WMI registered event handler": unless the target goes on      *)
(* after it was told to suspend, every event whose handler stays           *)
(* registered reaches it, and no call goes through a cleared slot.         *)
CallsRegisteredHandler ==
    TargetQuiet => \A o \in outcomes :
                       /\ o.handler # NULL
                       /\ Stays(o.id) => o.handler = o.id

Waiting ==
    event_queue \o (IF rPc = "queue" THEN <<rBuf>> ELSE <<>>)
                \o (IF wPc \in {"lookup", "call"} THEN <<wBuf>> ELSE <<>>)
WaitingRadars == Cardinality({i \in 1..Len(Waiting) : Waiting[i].id = RADAR})

(* While the driver is up, dfs_wmi_event_pending is the number of radar    *)
(* events that wait and of malformed ones that were queued: the handler    *)
(* counts off every event it sees, and nobody counts off one it does not.  *)
RadarsCounted ==
    cPc = "up" =>
        dfs_wmi_event_pending =
            WaitingRadars + Cardinality({e \in freed : e.id = RADAR /\ ~e.tlv})

(* wmi_unified_remove_work: "before any other processing code that may     *)
(* destroy related contexts (HTC, etc), work queue processing on WMI has   *)
(* already been stopped".                                                  *)
WorkStoppedBeforeHtc ==
    ~HtcUp /\ cPc # "register" => ~workPending /\ wPc = "idle"

(* A target that honours the suspend command makes that promise true.      *)
SuspendStopsWork == suspended => WorkStoppedBeforeHtc

(* wmi_unified_detach frees the handle only when neither the receive       *)
(* context nor the work item can touch it again, also when events arrived  *)
(* after wmi_unified_remove_work, HTCStop or HTCDestroy - unless one of    *)
(* them is still in wmi_control_rx when wmi_unified_detach begins, or      *)
(* enters it after that.                                                   *)
NoUseAfterDetach ==
    cPc = "detached" /\ ~lateRx =>
        rPc = "idle" /\ wPc = "idle" /\ ~workPending /\ event_queue = <<>>

Ended == {e.n : e \in freed \cup leaked}

(* An event that is received is handled, or drained by the close sequence  *)
(* wherever that finds it, even if nothing else ever arrives: again and    *)
(* again, none is under way.  Only the malformed ones that wmi_control_rx  *)
(* handles at once leak their buffers.  Nothing is said of an event that   *)
(* meets wmi_unified_detach (lateRx).                                      *)
EventsAreServed == []<>(lateRx \/ 1..sent \subseteq Ended)
=============================================================================
