------------------------------- MODULE HifUsb -------------------------------
(***************************************************************************)
(* The USB transport (HIF/USB): a receive pipe and a transmit pipe, each   *)
(* with a pool of URB contexts, a list of pending transfers, a queue of    *)
(* completed buffers and the work item that hands these to HTC.            *)
(*                                                                         *)
(* Four contexts run: the control thread (start, bus suspend and resume,   *)
(* stop, disconnect), the completion context of the host controller, which *)
(* runs one completion routine at a time, one worker per pipe, and the     *)
(* senders of packets.  The lists are only touched under cs_lock, so one   *)
(* list operation is one step; what lies between two of them interleaves.  *)
(*                                                                         *)
(* Payloads are numbers: the target numbers its messages in the order it   *)
(* sends them.                                                             *)
(***************************************************************************)
EXTENDS Integers, Sequences, FiniteSets, SequencesExt, Lists

CONSTANTS
    RxUrbs,         \* URB contexts of the receive pipe (RX_URB_COUNT)
    TxUrbs,         \* URB contexts of the transmit pipe (TX_URB_COUNT)
    Packets,        \* packets that HTC hands to HIFSend_head
    None,           \* no URB, no packet
    PrestartUrbs,   \* transfers that usb_hif_prestart_recv_pipes posts
    Headroom,       \* how many contexts fit in front of a packet's data
    MaxMsgs,        \* bound: receive transfers that finish by themselves
    MaxFailures     \* bound: failed allocations and submissions in a row

ASSUME HifUsbAssumption ==
    /\ IsFiniteSet(RxUrbs) /\ IsFiniteSet(TxUrbs) /\ RxUrbs \cap TxUrbs = {}
    /\ None \notin RxUrbs \cup TxUrbs \cup Packets
    /\ {PrestartUrbs, Headroom, MaxMsgs, MaxFailures} \subseteq Nat

Pipes == {"tx", "rx"}
Urbs == RxUrbs \cup TxUrbs
PipeOf(u) == IF u \in RxUrbs THEN "rx" ELSE "tx"

VARIABLES
    urb_list_head,      \* per pipe: the free URB contexts, last in first out
    urb_pending_list,   \* per pipe: the transfers a flush would kill
    buf,                \* per URB: the buffer it holds
    io_comp_queue,      \* per pipe: completed buffers, not yet handed up
    io_complete_work,   \* per pipe: is the work item queued?
    worker,             \* per pipe: does the work item run?
    urb_prestart_cnt, rx_prestart_lock,
    suspend_state, htcCallbacks, is_bundle_enabled,
    core,               \* external: the USB core's queue of each pipe
    giveback,           \* external: finished transfers, in order
    enabled,            \* external: the USB core accepts submissions
    sent,               \* external: transfers the target has used
    comp,               \* the completion routine that runs
    post,               \* per context: the posting loop it is in
    flush,              \* the control thread's usb_hif_flush_all
    control,            \* where the control thread is
    packet,             \* per packet: its sender
    delivered,          \* history: the last message handed to HTC, and
    inOrder,            \*   whether all came in the order they were sent
    orphans,            \* history: buffers handed to zeroed callbacks
    overtaken,          \* history: a completion routine escaped a flush
    allPosted,          \* history: a posting loop ran out of URBs since the
    failures            \*   pipe was started, and what failed since then

listVars == <<urb_list_head, urb_pending_list>>
queueVars == <<io_comp_queue, io_complete_work>>
usbVars == <<core, giveback, enabled, sent>>
deliveryVars == <<worker, delivered, inOrder, orphans>>
stateVars == <<suspend_state, htcCallbacks, is_bundle_enabled, overtaken>>
historyVars == <<allPosted, failures>>
vars == <<listVars, buf, queueVars, deliveryVars, urb_prestart_cnt,
          rx_prestart_lock, stateVars, usbVars, comp, post, flush, control,
          packet, historyVars>>

-----------------------------------------------------------------------------
Contexts == {"comp", "control"}     \* the contexts that post receive URBs
CompIdle == [pc |-> "idle", urb |-> None, kind |-> "none", status |-> "none",
             msgs |-> <<>>]
PostOff == [pc |-> "off", urb |-> None, kind |-> "none", left |-> 0]
FlushOff == [pc |-> "off", pipe |-> "tx", urb |-> None]

Init ==
    /\ \E rx \in SetToSeqs(RxUrbs), tx \in SetToSeqs(TxUrbs) :
          urb_list_head = [p \in Pipes |-> IF p = "rx" THEN rx ELSE tx]
    /\ urb_pending_list = [p \in Pipes |-> <<>>]
    /\ buf = [u \in Urbs |-> None]
    /\ io_comp_queue = [p \in Pipes |-> <<>>]
    /\ io_complete_work = [p \in Pipes |-> FALSE]
    /\ worker = [p \in Pipes |-> FALSE]
    /\ urb_prestart_cnt = 0
    /\ rx_prestart_lock = "free"
    /\ suspend_state = FALSE
    /\ htcCallbacks = TRUE
    /\ is_bundle_enabled \in BOOLEAN
    /\ core = [p \in Pipes |-> <<>>]
    /\ giveback = <<>>
    /\ enabled = TRUE
    /\ sent = 0
    /\ comp = CompIdle
    /\ post = [c \in Contexts |-> PostOff]
    /\ flush = FlushOff
    /\ control = "probed"
    /\ packet = [p \in Packets |->
                    [pc |-> "htc", urb |-> None, layers |-> 0, contexts |-> 0,
                     pushed |-> FALSE, refused |-> 0]]
    /\ delivered = 0
    /\ inOrder = TRUE
    /\ orphans = 0
    /\ overtaken = FALSE
    /\ allPosted = FALSE
    /\ failures = 0

urb_cnt(p) == Len(urb_list_head[p])
urb_alloc(p) == Cardinality(IF p = "rx" THEN RxUrbs ELSE TxUrbs)

(* Mutant: the threshold is the whole pool.                                *)
MutantThresh == urb_alloc("rx")

urb_cnt_thresh == urb_alloc("rx") \div 2

(* DL_ListAdd puts a context in front, DL_ListRemove takes it from         *)
(* whichever list it is on and does nothing to one that is on none.        *)
FreeTo(list, u) == [list EXCEPT ![PipeOf(u)] = <<u>> \o @]

(* Mutant: the URB of a finished transfer stays on the pending list.       *)
MutantStaysPending(u) == urb_pending_list

usb_hif_remove_pending_transfer(u) ==
    [urb_pending_list EXCEPT ![PipeOf(u)] = DL_ListRemove(@, u)]

(* usb_kill_urb is at work on u: the USB core rejects u's submission.      *)
Killing(u) == flush.pc = "wait" /\ flush.urb = u

(* A submitted transfer: its URB and completion routine.  A finished one   *)
(* has a status and, if it received, messages as well.                     *)
Transfer(u, kind) == [urb |-> u, kind |-> kind]
Finished(t, status, msgs) ==
    [urb |-> t.urb, kind |-> t.kind, status |-> status, msgs |-> msgs]

(* The USB core unlinks transfers; they finish as cancelled.               *)
Cancelled(ts) == [i \in 1..Len(ts) |-> Finished(ts[i], "cancelled", <<>>)]
CancelAll ==
    /\ giveback' = giveback \o Cancelled(core["tx"]) \o Cancelled(core["rx"])
    /\ core' = [p \in Pipes |-> <<>>]
    /\ enabled' = FALSE
    /\ UNCHANGED sent

(* The context is pushed in front of the data if there is room, and        *)
(* allocated otherwise.                                                    *)
WithContext(r) ==
    IF r.layers < Headroom
    THEN [r EXCEPT !.layers = @ + 1, !.pushed = TRUE]
    ELSE [r EXCEPT !.contexts = @ + 1, !.pushed = FALSE]

(* What undoes it.                                                         *)
WithoutContext(r) ==
    IF r.pushed THEN [r EXCEPT !.layers = @ - 1]
                ELSE [r EXCEPT !.contexts = @ - 1]
-----------------------------------------------------------------------------
(* The posting loops: usb_hif_post_recv_prestart_transfers (kind           *)
(* "prestart"), usb_hif_post_recv_transfers ("recv") and                   *)
(* usb_hif_post_recv_bundle_transfers ("bundle"), in context c.            *)

Post(kind, n) == [pc |-> "alloc", urb |-> None, kind |-> kind, left |-> n]
WorkingKind == IF is_bundle_enabled THEN "bundle" ELSE "recv"

(* usb_hif_start_recv_pipes, run by c.                                     *)
usb_hif_start_recv_pipes(c) == post' = [post EXCEPT ![c] = Post(WorkingKind, 0)]

Unlocked(c) == IF rx_prestart_lock = c THEN "free" ELSE rx_prestart_lock

(* The loop ends: its caller goes on.  Prestart transfers are posted, and  *)
(* the working pipe is started by the last of them, with rx_prestart_lock  *)
(* held.                                                                   *)
EndPost(c) ==
    /\ post' = [post EXCEPT ![c] = PostOff]
    /\ rx_prestart_lock' = Unlocked(c)
    /\ IF c = "comp" THEN comp' = CompIdle /\ UNCHANGED control
                     ELSE control' = "up" /\ UNCHANGED comp

(* No free URB is left, or the prestart loop has made its turns.           *)
PostNoUrb(c) ==
    /\ post[c].pc = "alloc"
    /\ \/ urb_list_head["rx"] = <<>>
       \/ post[c].kind = "prestart" /\ post[c].left = 0
    /\ EndPost(c)
    /\ IF post[c].kind = "prestart" THEN UNCHANGED historyVars
                                    ELSE allPosted' = TRUE /\ failures' = 0
    /\ UNCHANGED <<listVars, buf, queueVars, deliveryVars,
                   urb_prestart_cnt, stateVars, usbVars, flush, packet>>

(* usb_hif_alloc_urb_from_pipe, and a buffer for the URB.  A URB of the    *)
(* bundle loop may still have one.                                         *)
PostAlloc(c) ==
    /\ post[c].pc = "alloc"
    /\ urb_list_head["rx"] # <<>>
    /\ post[c].kind = "prestart" => post[c].left > 0
    /\ LET u == Head(urb_list_head["rx"])
       IN  /\ urb_list_head' = [urb_list_head EXCEPT !["rx"] = Tail(@)]
           /\ buf' = [buf EXCEPT ![u] = "skb"]
           /\ post' = [post EXCEPT ![c].pc = "enqueue", ![c].urb = u]
    /\ UNCHANGED <<urb_pending_list, queueVars, deliveryVars, urb_prestart_cnt,
                   rx_prestart_lock, stateVars, usbVars, comp, flush, control,
                   packet, historyVars>>

(* What fails is counted once all URBs were posted.                        *)
PostingFails ==
    /\ failures < MaxFailures
    /\ failures' = failures + (IF allPosted THEN 1 ELSE 0)

(* adf_nbuf_alloc fails: the URB goes back and the loop ends.              *)
PostNoBuffer(c) ==
    /\ post[c].pc = "alloc"
    /\ urb_list_head["rx"] # <<>>
    /\ post[c].kind = "prestart" => post[c].left > 0
    /\ post[c].kind = "bundle" => buf[Head(urb_list_head["rx"])] = None
    /\ PostingFails
    /\ EndPost(c)
    /\ UNCHANGED <<listVars, buf, queueVars, deliveryVars,
                   urb_prestart_cnt, stateVars, usbVars, flush, packet,
                   allPosted>>

(* usb_hif_enqueue_pending_transfer                                        *)
PostEnqueue(c) ==
    /\ post[c].pc = "enqueue"
    /\ urb_pending_list' = [urb_pending_list EXCEPT !["rx"] =
                                Append(@, post[c].urb)]
    /\ post' = [post EXCEPT ![c].pc = "submit"]
    /\ UNCHANGED <<urb_list_head, buf, queueVars, deliveryVars,
                   urb_prestart_cnt, rx_prestart_lock, stateVars, usbVars,
                   comp, flush, control, packet, historyVars>>

(* usb_submit_urb accepts the URB.                                         *)
PostSubmit(c) ==
    /\ post[c].pc = "submit"
    /\ enabled /\ ~Killing(post[c].urb)
    /\ core' = [core EXCEPT !["rx"] = Append(@, Transfer(post[c].urb, post[c].kind))]
    /\ urb_prestart_cnt' = urb_prestart_cnt
                              + (IF post[c].kind = "prestart" THEN 1 ELSE 0)
    /\ post' = [post EXCEPT ![c] = Post(@.kind, IF @.kind = "prestart"
                                                THEN @.left - 1 ELSE 0)]
    /\ UNCHANGED <<listVars, buf, queueVars, deliveryVars,
                   rx_prestart_lock, stateVars, giveback, enabled, sent,
                   comp, flush, control, packet, historyVars>>

(* Mutant: the URB of a failed submission is not put back.                 *)
MutantNoCleanup(list, u) == list

(* usb_hif_cleanup_recv_urb                                                *)
usb_hif_cleanup_recv_urb(list, u) == FreeTo(list, u)

(* usb_submit_urb refuses it: the URB goes back and the loop ends.  The    *)
(* bundle loop keeps the buffer with it.                                   *)
PostSubmitFails(c) ==
    /\ post[c].pc = "submit"
    /\ \/ (~enabled \/ Killing(post[c].urb)) /\ UNCHANGED failures
       \/ PostingFails
    /\ urb_pending_list' = usb_hif_remove_pending_transfer(post[c].urb)
    /\ urb_list_head' = usb_hif_cleanup_recv_urb(urb_list_head, post[c].urb)
    /\ buf' = [buf EXCEPT ![post[c].urb] =
                  IF post[c].kind = "bundle" THEN @ ELSE None]
    /\ EndPost(c)
    /\ UNCHANGED <<queueVars, deliveryVars, urb_prestart_cnt,
                   stateVars, usbVars, flush, packet, allPosted>>
-----------------------------------------------------------------------------
(* The completion routines.                                                *)

(* The host controller calls the routine of a finished transfer, which     *)
(* takes the URB off the pending list.                                     *)
CompBegin ==
    /\ comp.pc = "idle"
    /\ giveback # <<>>
    /\ giveback' = Tail(giveback)
    /\ LET t == Head(giveback)
       IN  /\ urb_pending_list' = usb_hif_remove_pending_transfer(t.urb)
           /\ comp' = [pc |-> IF t.msgs # <<>> THEN "queue" ELSE "cleanup",
                       urb |-> t.urb, kind |-> t.kind, status |-> t.status,
                       msgs |-> t.msgs]
    /\ UNCHANGED <<urb_list_head, buf, queueVars, deliveryVars,
                   urb_prestart_cnt, rx_prestart_lock, stateVars, core,
                   enabled, sent, post, flush, control, packet, historyVars>>

(* Mutant: buffers are queued in front.                                    *)
MutantQueueHead(q, bs) == bs \o q

skb_queue_tail(q, bs) == q \o bs

(* A receive routine queues the buffer itself; the bundle routine queues a *)
(* copy of each frame, as many as it can allocate, and keeps the buffer.   *)
(* The transmit routine has given up its URB before: it may hold another   *)
(* packet by now.                                                          *)
CompQueue ==
    /\ comp.pc = "queue"
    /\ LET p == PipeOf(comp.urb)
           bundle == comp.kind = "bundle"
       IN  /\ \E n \in IF bundle THEN 0..Len(comp.msgs) ELSE {Len(comp.msgs)} :
                 io_comp_queue' = [io_comp_queue EXCEPT ![p] =
                    skb_queue_tail(@, SubSeq(comp.msgs, 1, n))]
           /\ buf' = [buf EXCEPT ![comp.urb] =
                        IF comp.kind \in {"bundle", "transmit"} THEN @ ELSE None]
    /\ comp' = [comp EXCEPT !.pc = "schedule"]
    /\ UNCHANGED <<listVars, io_complete_work, deliveryVars,
                   urb_prestart_cnt, rx_prestart_lock, stateVars, usbVars,
                   post, flush, control, packet, historyVars>>

(* schedule_work.  The transmit routine has freed its URB before.          *)
CompSchedule ==
    /\ comp.pc = "schedule"
    /\ io_complete_work' = [io_complete_work EXCEPT ![PipeOf(comp.urb)] = TRUE]
    /\ comp' = IF comp.kind = "transmit" THEN CompIdle
               ELSE [comp EXCEPT !.pc = "cleanup"]
    /\ UNCHANGED <<listVars, buf, io_comp_queue, deliveryVars,
                   urb_prestart_cnt, rx_prestart_lock, stateVars, usbVars,
                   post, flush, control, packet, historyVars>>

(* A receive routine frees the buffer it did not pass up, and the URB.     *)
CompCleanupRecv ==
    /\ comp.pc = "cleanup"
    /\ comp.kind # "transmit"
    /\ urb_list_head' = FreeTo(urb_list_head, comp.urb)
    /\ buf' = [buf EXCEPT ![comp.urb] =
                  IF comp.kind = "bundle" THEN @ ELSE None]
    /\ comp' = [comp EXCEPT !.pc = IF comp.kind = "prestart"
                                   THEN "prestart" ELSE "repost"]
    /\ UNCHANGED <<urb_pending_list, queueVars, deliveryVars,
                   urb_prestart_cnt, rx_prestart_lock, stateVars, usbVars,
                   post, flush, control, packet, historyVars>>

(* usb_hif_usb_transmit_complete gives the headroom or the context of the  *)
(* packet back, whatever became of the transfer, and frees the URB.        *)
CompCleanupTransmit ==
    /\ comp.pc = "cleanup"
    /\ comp.kind = "transmit"
    /\ LET p == buf[comp.urb]
       IN  /\ packet' = [packet EXCEPT ![p] =
                              WithoutContext(@)]
           /\ comp' = [comp EXCEPT !.pc = "queue", !.msgs = <<p>>]
    /\ buf' = [buf EXCEPT ![comp.urb] = None]
    /\ urb_list_head' = FreeTo(urb_list_head, comp.urb)
    /\ UNCHANGED <<urb_pending_list, queueVars, deliveryVars,
                   urb_prestart_cnt, rx_prestart_lock, stateVars, usbVars,
                   post, flush, control, historyVars>>

(* Mutant: cancelled prestart transfers are not counted down.              *)
MutantPrestartLeft ==
    IF comp.status = "cancelled" THEN urb_prestart_cnt ELSE urb_prestart_cnt - 1

PrestartLeft == urb_prestart_cnt - 1

(* The end of usb_hif_usb_recv_prestart_complete: the last of the prestart *)
(* transfers starts the working pipe, with the lock held.                  *)
CompPrestart ==
    /\ comp.pc = "prestart"
    /\ rx_prestart_lock = "free"
    /\ urb_prestart_cnt' = PrestartLeft
    /\ IF PrestartLeft = 0
       THEN /\ usb_hif_start_recv_pipes("comp")
            /\ rx_prestart_lock' = "comp"
            /\ comp' = [comp EXCEPT !.pc = "posting"]
       ELSE /\ comp' = CompIdle
            /\ UNCHANGED <<post, rx_prestart_lock>>
    /\ UNCHANGED <<listVars, buf, queueVars, deliveryVars, stateVars,
                   usbVars, flush, control, packet, historyVars>>

(* "our free urbs are piling up, post more transfers"                      *)
CompRepost ==
    /\ comp.pc = "repost"
    /\ IF /\ comp.status = "ok"
          /\ comp.kind = "recv" => ~suspend_state
          /\ urb_cnt("rx") >= urb_cnt_thresh
       THEN /\ post' = [post EXCEPT !["comp"] = Post(comp.kind, 0)]
            /\ comp' = [comp EXCEPT !.pc = "posting"]
       ELSE comp' = CompIdle /\ UNCHANGED post
    /\ failures' = failures
                      + (IF allPosted /\ comp.status = "error" THEN 1 ELSE 0)
    /\ UNCHANGED <<listVars, buf, queueVars, deliveryVars,
                   urb_prestart_cnt, rx_prestart_lock, stateVars, usbVars,
                   flush, control, packet, allPosted>>

CompStep == CompBegin \/ CompQueue \/ CompSchedule \/ CompCleanupRecv
            \/ CompCleanupTransmit \/ CompPrestart \/ CompRepost
-----------------------------------------------------------------------------
(* usb_hif_io_comp_work of pipe p.                                         *)

WorkBegin(p) ==
    /\ io_complete_work[p] /\ ~worker[p]
    /\ worker' = [worker EXCEPT ![p] = TRUE]
    /\ io_complete_work' = [io_complete_work EXCEPT ![p] = FALSE]
    /\ UNCHANGED <<listVars, buf, io_comp_queue, delivered, inOrder,
                   orphans, urb_prestart_cnt, rx_prestart_lock, stateVars,
                   usbVars, comp, post, flush, control, packet, historyVars>>

(* Mutant: the buffer is looked at, not taken off.                         *)
MutantDequeue(q) == q

skb_dequeue(q) == Tail(q)

(* One buffer goes to txCompletionHandler or rxCompletionHandler.          *)
WorkCallback(p) ==
    /\ worker[p]
    /\ io_comp_queue[p] # <<>>
    /\ LET b == Head(io_comp_queue[p])
       IN  /\ io_comp_queue' = [io_comp_queue EXCEPT ![p] = skb_dequeue(@)]
           /\ orphans' = orphans + (IF htcCallbacks THEN 0 ELSE 1)
           /\ IF p = "tx"
              THEN /\ packet' = [packet EXCEPT ![b].pc = "done", ![b].urb = None]
                   /\ UNCHANGED <<delivered, inOrder>>
              ELSE /\ delivered' = b
                   /\ inOrder' = (inOrder /\ b > delivered)
                   /\ UNCHANGED packet
    /\ UNCHANGED <<listVars, buf, io_complete_work, worker,
                   urb_prestart_cnt, rx_prestart_lock, stateVars, usbVars,
                   comp, post, flush, control, historyVars>>

(* Mutant: the work item takes one buffer each time it runs.               *)
MutantQueueDrained(p) == TRUE

QueueDrained(p) == io_comp_queue[p] = <<>>

WorkEnd(p) ==
    /\ worker[p]
    /\ QueueDrained(p)
    /\ worker' = [worker EXCEPT ![p] = FALSE]
    /\ UNCHANGED <<listVars, buf, queueVars, delivered, inOrder,
                   orphans, urb_prestart_cnt, rx_prestart_lock, stateVars,
                   usbVars, comp, post, flush, control, packet, historyVars>>

WorkStep == \E p \in Pipes : WorkBegin(p) \/ WorkCallback(p) \/ WorkEnd(p)
-----------------------------------------------------------------------------
(* HIFSend_internal for packet p.  A packet that was refused goes back to  *)
(* HTC, which sends it again.                                              *)

(* External: HTC sends neither while the system is suspended, when the     *)
(* threads are parked (module VosSched), nor from HTCStop on, which empties *)
(* its queues first.                                                       *)
Sending == control \in {"starting", "up", "resuming"}
NobodySends == \A p \in Packets : packet[p].pc \in {"htc", "hif", "done"}

SendAlloc(p) ==
    /\ Sending
    /\ packet[p].pc = "htc"
    /\ urb_list_head["tx"] # <<>>
    /\ LET u == Head(urb_list_head["tx"])
       IN  /\ urb_list_head' = [urb_list_head EXCEPT !["tx"] = Tail(@)]
           /\ buf' = [buf EXCEPT ![u] = p]
           /\ packet' = [packet EXCEPT ![p] =
                 [WithContext(@) EXCEPT !.pc = "enqueue", !.urb = u]]
    /\ UNCHANGED <<urb_pending_list, queueVars, deliveryVars,
                   urb_prestart_cnt, rx_prestart_lock, stateVars, usbVars,
                   comp, post, flush, control, historyVars>>

(* "no urbs left": A_NO_RESOURCE, and nothing is undone.                   *)
SendNoUrb(p) ==
    /\ Sending
    /\ packet[p].pc = "htc"
    /\ urb_list_head["tx"] = <<>>
    /\ packet[p].refused < MaxFailures
    /\ packet' = [packet EXCEPT ![p] =
                     [WithContext(@) EXCEPT !.refused = packet[p].refused + 1]]
    /\ UNCHANGED <<listVars, buf, queueVars, deliveryVars,
                   urb_prestart_cnt, rx_prestart_lock, stateVars, usbVars,
                   comp, post, flush, control, historyVars>>

SendEnqueue(p) ==
    /\ packet[p].pc = "enqueue"
    /\ urb_pending_list' = [urb_pending_list EXCEPT !["tx"] =
                                Append(@, packet[p].urb)]
    /\ packet' = [packet EXCEPT ![p].pc = "submit"]
    /\ UNCHANGED <<urb_list_head, buf, queueVars, deliveryVars,
                   urb_prestart_cnt, rx_prestart_lock, stateVars, usbVars,
                   comp, post, flush, control, historyVars>>

SendSubmit(p) ==
    /\ packet[p].pc = "submit"
    /\ enabled /\ ~Killing(packet[p].urb)
    /\ core' = [core EXCEPT !["tx"] =
                   Append(@, Transfer(packet[p].urb, "transmit"))]
    /\ packet' = [packet EXCEPT ![p].pc = "hif"]
    /\ UNCHANGED <<listVars, buf, queueVars, deliveryVars,
                   urb_prestart_cnt, rx_prestart_lock, stateVars, giveback,
                   enabled, sent, comp, post, flush, control, historyVars>>

(* Mutant: the context of a packet that was not submitted stays.           *)
MutantKeepContext(r) == r

UndoContext(r) == WithoutContext(r)

SendSubmitFails(p) ==
    /\ packet[p].pc = "submit"
    /\ urb_pending_list' = usb_hif_remove_pending_transfer(packet[p].urb)
    /\ urb_list_head' = FreeTo(urb_list_head, packet[p].urb)
    /\ buf' = [buf EXCEPT ![packet[p].urb] = None]
    /\ packet' = [packet EXCEPT ![p] =
                     [UndoContext(@) EXCEPT !.pc = "htc", !.urb = None]]
    /\ UNCHANGED <<queueVars, deliveryVars, urb_prestart_cnt,
                   rx_prestart_lock, stateVars, usbVars, comp, post, flush,
                   control, historyVars>>

SendStep(p) == SendAlloc(p) \/ SendNoUrb(p) \/ SendEnqueue(p) \/ SendSubmit(p)
               \/ SendSubmitFails(p)
-----------------------------------------------------------------------------
(* External: the USB core and the target finish the transfer at the head   *)
(* of a pipe's queue.                                                      *)

Finish(p, status, msgs) ==
    /\ core[p] # <<>>
    /\ core' = [core EXCEPT ![p] = Tail(@)]
    /\ giveback' = Append(giveback, Finished(Head(core[p]), status, msgs))
    /\ UNCHANGED <<listVars, buf, queueVars, deliveryVars,
                   urb_prestart_cnt, rx_prestart_lock, stateVars, enabled,
                   comp, post, flush, control, packet, allPosted>>

(* A message, a transfer of no length, or two frames in a bundle.  The     *)
(* target may go on while the driver stops, when the suspend command of    *)
(* wma_stop failed.                                                        *)
TargetSends ==
    /\ core["rx"] # <<>>
    /\ sent < MaxMsgs
    /\ sent' = sent + 1
    /\ \E msgs \in {<<>>, <<2 * sent + 1>>}
             \cup (IF Head(core["rx"]).kind = "bundle"
                   THEN {<<2 * sent + 1, 2 * sent + 2>>} ELSE {}) :
          Finish("rx", "ok", msgs)
    /\ UNCHANGED failures

TransferFails ==
    /\ sent < MaxMsgs
    /\ sent' = sent + 1
    /\ Finish("rx", "error", <<>>)
    /\ UNCHANGED failures

TransmitDone ==
    /\ Finish("tx", "ok", <<>>)
    /\ UNCHANGED <<sent, failures>>
-----------------------------------------------------------------------------
(* usb_hif_flush_all, run by the control thread.                           *)

(* What a flush does not wait for: a routine of the pipe that runs when    *)
(* HIFDetachHTC finds no pending transfer, and a transfer that a posting   *)
(* loop has put on the list but not yet submitted.                         *)
Overtakes ==
    LET q == urb_pending_list[flush.pipe]
    IN  \/ /\ q = <<>> /\ control = "detaching"
           /\ comp.pc # "idle" /\ PipeOf(comp.urb) = flush.pipe
        \/ /\ q # <<>>
           /\ \E c \in Contexts : post[c].pc = "submit" /\ post[c].urb = Head(q)

(* A transfer comes off the pending list; when none is left the pipe's     *)
(* work item is flushed.                                                   *)
FlushTake ==
    /\ flush.pc = "take"
    /\ LET q == urb_pending_list[flush.pipe]
       IN  IF q = <<>>
           THEN /\ flush' = [flush EXCEPT !.pc = "work"]
                /\ UNCHANGED urb_pending_list
           ELSE /\ flush' = [flush EXCEPT !.pc = "kill", !.urb = Head(q)]
                /\ urb_pending_list' = [urb_pending_list EXCEPT
                                          ![flush.pipe] = Tail(@)]
    /\ overtaken' = (overtaken \/ Overtakes)
    /\ UNCHANGED <<urb_list_head, buf, queueVars, deliveryVars,
                   urb_prestart_cnt, rx_prestart_lock, suspend_state,
                   htcCallbacks, is_bundle_enabled, usbVars, comp, post,
                   control, packet, historyVars>>

(* usb_kill_urb unlinks the transfer, if it is submitted, ...              *)
FlushKill ==
    /\ flush.pc = "kill"
    /\ flush' = [flush EXCEPT !.pc = "wait"]
    /\ LET ts == core[flush.pipe]
           mine == {i \in 1..Len(ts) : ts[i].urb = flush.urb}
       IN  IF mine = {} THEN UNCHANGED <<core, giveback>>
           ELSE \E i \in mine :
                   /\ core' = [core EXCEPT ![flush.pipe] = RemoveAt(ts, i)]
                   /\ giveback' = Append(giveback,
                                        Finished(ts[i], "cancelled", <<>>))
    /\ UNCHANGED <<listVars, buf, queueVars, deliveryVars,
                   urb_prestart_cnt, rx_prestart_lock, stateVars, enabled,
                   sent, comp, post, control, packet, historyVars>>

(* ... and waits for its completion routine.                               *)
FlushWait ==
    /\ flush.pc = "wait"
    /\ comp.urb # flush.urb
    /\ \A i \in 1..Len(giveback) : giveback[i].urb # flush.urb
    /\ flush' = [flush EXCEPT !.pc = "take", !.urb = None]
    /\ UNCHANGED <<listVars, buf, queueVars, deliveryVars,
                   urb_prestart_cnt, rx_prestart_lock, stateVars, usbVars,
                   comp, post, control, packet, historyVars>>

(* Mutant: the work item is not waited for.                                *)
MutantNoFlushWork(p) == TRUE

flush_work(p) == ~io_complete_work[p] /\ ~worker[p]

FlushWork ==
    /\ flush.pc = "work"
    /\ flush_work(flush.pipe)
    /\ flush' = IF flush.pipe = "tx"
                THEN [flush EXCEPT !.pc = "take", !.pipe = "rx"]
                ELSE [flush EXCEPT !.pc = "done"]
    /\ UNCHANGED <<listVars, buf, queueVars, deliveryVars,
                   urb_prestart_cnt, rx_prestart_lock, stateVars, usbVars,
                   comp, post, control, packet, historyVars>>

FirstPipe == "tx"

usb_hif_flush_all == flush' = [pc |-> "take", pipe |-> FirstPipe, urb |-> None]

FlushStep == FlushTake \/ FlushKill \/ FlushWait \/ FlushWork
-----------------------------------------------------------------------------
(* The control thread.                                                     *)

(* HIFStart: the prestart transfers are posted with the lock held.         *)
HIFStart ==
    /\ control = "probed"
    /\ rx_prestart_lock = "free"
    /\ control' = "starting"
    /\ rx_prestart_lock' = "control"
    /\ post' = [post EXCEPT !["control"] = Post("prestart", PrestartUrbs)]
    /\ UNCHANGED <<listVars, buf, queueVars, deliveryVars,
                   urb_prestart_cnt, stateVars, usbVars, comp, flush, packet,
                   historyVars>>

(* A suspend during a scan is refused and changes nothing.                 *)
hif_usb_suspend ==
    /\ control = "up" /\ enabled
    /\ NobodySends
    /\ control' = "suspending"
    /\ suspend_state' = TRUE
    /\ allPosted' = FALSE /\ failures' = 0
    /\ usb_hif_flush_all
    /\ UNCHANGED <<listVars, buf, queueVars, deliveryVars,
                   urb_prestart_cnt, rx_prestart_lock, htcCallbacks,
                   is_bundle_enabled, overtaken, usbVars, comp, post, packet>>

(* The driver is suspended; then the USB core cancels what is still there  *)
(* and takes no submissions.                                               *)
Suspended ==
    /\ control = "suspending" /\ flush.pc = "done"
    /\ control' = "suspended"
    /\ flush' = FlushOff
    /\ CancelAll
    /\ UNCHANGED <<listVars, buf, queueVars, deliveryVars,
                   urb_prestart_cnt, rx_prestart_lock, stateVars, comp, post,
                   packet, historyVars>>

(* Resuming the bus takes longer than the routines of cancelled transfers. *)
hif_usb_resume ==
    /\ control = "suspended"
    /\ giveback = <<>> /\ comp.pc = "idle"
    /\ control' = "resuming"
    /\ enabled' = TRUE
    /\ suspend_state' = FALSE
    /\ allPosted' = FALSE /\ failures' = 0
    /\ usb_hif_start_recv_pipes("control")
    /\ UNCHANGED <<listVars, buf, queueVars, deliveryVars,
                   urb_prestart_cnt, rx_prestart_lock, htcCallbacks,
                   is_bundle_enabled, overtaken, core, giveback, sent, comp,
                   flush, packet>>

(* The device is unplugged, or the driver is unbound from it: the USB core *)
(* cancels all transfers and takes no more, and then calls hif_usb_remove, *)
(* which waits DELAY_FOR_TARGET_READY before it stops the driver.          *)
Disconnect ==
    /\ control \in {"up", "detached"} /\ enabled
    /\ CancelAll
    /\ allPosted' = FALSE /\ failures' = 0
    /\ UNCHANGED <<listVars, buf, queueVars, deliveryVars,
                   urb_prestart_cnt, rx_prestart_lock, stateVars, comp, post,
                   flush, control, packet>>

(* HTCStop: HIFStop.                                                       *)
HTCStop ==
    /\ control \in {"up", "suspended"}
    /\ NobodySends
    /\ control' = "stopping"
    /\ usb_hif_flush_all
    /\ allPosted' = FALSE /\ failures' = 0
    /\ UNCHANGED <<listVars, buf, queueVars, deliveryVars,
                   urb_prestart_cnt, rx_prestart_lock, stateVars, usbVars,
                   comp, post, packet>>

(* HTCDestroy: HIFStop once more, then HIFDetachHTC flushes a third time   *)
(* and zeroes the callbacks.                                               *)
HTCDestroy ==
    /\ control = "stopping" /\ flush.pc = "done"
    /\ control' = "destroying"
    /\ usb_hif_flush_all
    /\ UNCHANGED <<listVars, buf, queueVars, deliveryVars,
                   urb_prestart_cnt, rx_prestart_lock, stateVars, usbVars,
                   comp, post, packet, historyVars>>

HIFDetachHTC ==
    /\ control = "destroying" /\ flush.pc = "done"
    /\ control' = "detaching"
    /\ usb_hif_flush_all
    /\ UNCHANGED <<listVars, buf, queueVars, deliveryVars,
                   urb_prestart_cnt, rx_prestart_lock, stateVars, usbVars,
                   comp, post, packet, historyVars>>

Detached ==
    /\ control = "detaching" /\ flush.pc = "done"
    /\ control' = "detached"
    /\ flush' = FlushOff
    /\ htcCallbacks' = FALSE
    /\ UNCHANGED <<listVars, buf, queueVars, deliveryVars,
                   urb_prestart_cnt, rx_prestart_lock, suspend_state,
                   is_bundle_enabled, overtaken, usbVars, comp, post, packet,
                   historyVars>>

(* HIF_USBDeviceDetached: usb_hif_destroy flushes the pipes ...            *)
usb_hif_destroy ==
    /\ control = "detached" /\ ~enabled
    /\ control' = "removing"
    /\ usb_hif_flush_all
    /\ UNCHANGED <<listVars, buf, queueVars, deliveryVars,
                   urb_prestart_cnt, rx_prestart_lock, stateVars, usbVars,
                   comp, post, packet, historyVars>>

(* ... and frees the URBs that are on the free lists, with the buffers     *)
(* that they hold.                                                         *)
usb_hif_cleanup_pipe_resources ==
    /\ control = "removing" /\ flush.pc = "done"
    /\ control' = "removed"
    /\ flush' = FlushOff
    /\ urb_list_head' = [p \in Pipes |-> <<>>]
    /\ buf' = [u \in Urbs |-> IF u \in Elements(urb_list_head[PipeOf(u)])
                              THEN None ELSE buf[u]]
    /\ UNCHANGED <<urb_pending_list, queueVars, deliveryVars,
                   urb_prestart_cnt, rx_prestart_lock, stateVars, usbVars,
                   comp, post, packet, historyVars>>

StopStep == HTCDestroy \/ HIFDetachHTC \/ Detached \/ usb_hif_destroy
            \/ usb_hif_cleanup_pipe_resources

PostStep(c) == PostNoUrb(c) \/ PostAlloc(c) \/ PostNoBuffer(c)
               \/ PostEnqueue(c) \/ PostSubmit(c) \/ PostSubmitFails(c)

(* The device is gone and nothing is left to do.                           *)
Removed == control = "removed" /\ UNCHANGED vars

Next ==
    \/ \E c \in Contexts : PostStep(c)
    \/ CompStep
    \/ WorkStep
    \/ \E p \in Packets : SendStep(p)
    \/ TargetSends \/ TransferFails \/ TransmitDone
    \/ FlushStep
    \/ HIFStart \/ hif_usb_suspend \/ Suspended \/ hif_usb_resume
    \/ Disconnect \/ HTCStop \/ StopStep
    \/ Removed

Spec == Init /\ [][Next]_vars

Fairness ==
    /\ WF_vars(CompStep \/ PostStep("comp"))
    /\ \A p \in Pipes : WF_vars(WorkBegin(p) \/ WorkCallback(p) \/ WorkEnd(p))
    /\ WF_vars(FlushStep)
    /\ WF_vars(StopStep)
FairSpec == Spec /\ Fairness
-----------------------------------------------------------------------------
(* Properties.                                                             *)

(* The contexts that hold URB u while it is on no list of the driver.      *)
Holders(u) ==
    {c \in Contexts : post[c].urb = u}
    \cup {p \in Packets : packet[p].urb = u /\ packet[p].pc # "hif"}
    \cup (IF u = comp.urb /\ (\/ comp.pc = "cleanup"
                              \/ comp.kind # "transmit"
                                 /\ comp.pc \in {"queue", "schedule"})
          THEN {"routine"} ELSE {})

Occurrences(u, s) == Cardinality({i \in 1..Len(s) : s[i] = u})
UrbsOf(ts) == [i \in 1..Len(ts) |-> ts[i].urb]

(* A URB context is in one place: on the free list, with the context that  *)
(* posts or completes it, or with the USB core; and it is never on the     *)
(* free and the pending list at once, although a flush, a completion and a *)
(* failed submission may each take it off the pending list.                *)
UrbInOnePlace ==
    control # "removed" => \A u \in Urbs :
        /\ Occurrences(u, urb_list_head[PipeOf(u)]) + Cardinality(Holders(u))
              + Occurrences(u, UrbsOf(core[PipeOf(u)] \o giveback)) = 1
        /\ Occurrences(u, urb_list_head[PipeOf(u)])
              + Occurrences(u, urb_pending_list[PipeOf(u)]) <= 1

(* usb_hif_free_pipe_resources finds every URB on the free list: its "urb  *)
(* leak!" message never appears, however the stop, a suspend and the       *)
(* routines that post again interleaved before; and no buffer outlives it. *)
(* A routine that escapes the flush of HIFDetachHTC is exempted.           *)
NoUrbLeak ==
    ~overtaken =>
        /\ control = "removing" /\ flush.pc = "done" =>
              \A p \in Pipes : urb_cnt(p) = urb_alloc(p)
        /\ control = "removed" => \A u \in Urbs : buf[u] = None

(* Messages reach HTC in the order in which the target sent them, over     *)
(* changes of the completion routine, suspends and copies of bundles.      *)
DeliveredInOrder == inOrder

(* A queued buffer always has a work item that will look at the queue      *)
(* again, or a routine that is about to schedule one.                      *)
NoBufferStranded ==
    \A p \in Pipes : io_comp_queue[p] # <<>> =>
        \/ io_complete_work[p] \/ worker[p]
        \/ comp.pc = "schedule" /\ PipeOf(comp.urb) = p

Prestarts(ts) == Cardinality({i \in 1..Len(ts) : ts[i].kind = "prestart"})

(* urb_prestart_cnt is the number of prestart transfers that have yet to   *)
(* be counted down, so exactly the last of them starts the working pipe,   *)
(* although the count is raised only after a transfer was submitted.       *)
PrestartCounted ==
    rx_prestart_lock = "free" =>
        urb_prestart_cnt =
            Prestarts(core["rx"] \o giveback)
            + (IF comp.kind = "prestart" THEN 1 ELSE 0)

(* Reception survives failures: once all URBs were posted, it takes more   *)
(* failed transfers, allocations or submissions in a row than half of the  *)
(* pool before no transfer is left whose completion would post again.      *)
ReceiveSurvives ==
    (/\ control = "up" /\ enabled /\ allPosted
     /\ failures <= urb_alloc("rx") - urb_alloc("rx") \div 2) =>
        \/ core["rx"] # <<>>
        \/ \E i \in 1..Len(giveback) : giveback[i].urb \in RxUrbs
        \/ comp.kind \in {"prestart", "recv", "bundle"}
        \/ post["control"].pc # "off"

(* No work item calls into HTC after HIFDetachHTC zeroed the callbacks,    *)
(* whatever arrives while the driver stops, unless a completion routine    *)
(* escapes its flush.                                                      *)
NoCallbackAfterDetach == ~overtaken => orphans = 0

(* A packet comes back from HIF as it went in, save for the contexts that  *)
(* refusals for want of a URB left in front of its data or allocated: a    *)
(* failed submission and a cancelled transfer leave nothing behind.        *)
OnlyRefusalsLeaveContext ==
    \A p \in Packets : packet[p].pc \in {"htc", "done"} =>
        packet[p].layers + packet[p].contexts = packet[p].refused

(* Stopping ends: no flush waits for ever for a transfer or a work item,   *)
(* also when killing the prestart transfers starts the working pipe.       *)
StopCompletes == (control = "stopping") ~> (control = "detached")
=============================================================================
