------------------------------ MODULE VosSched ------------------------------
(***************************************************************************)
(* The two threads of the VOSS scheduler (vos_sched.c, vos_mq.c, vos_api.c *)
(* and, for suspend and resume, HDD).  Any context posts messages: it      *)
(* takes a buffer from a pool (a message wrapper for the main controller   *)
(* thread "mc", a VosTlshimPkt for the receive thread "rx"), puts it on a  *)
(* queue and sets the POST event.  The thread clears POST and serves its   *)
(* queues in order; when it finds them empty it looks for the SUSPEND      *)
(* event, confirms it and parks until it is resumed.  One control thread   *)
(* suspends and resumes the driver, closes the scheduler (recovery or      *)
(* unload) and opens it again.  Kbuild always defines                      *)
(* FEATURE_WLAN_THERMAL_SHUTDOWN, so wlan_hdd_suspend_mc_thread is the     *)
(* empty one: a suspend parks the receive thread while the main controller *)
(* goes on, and nobody sets MC_SUSPEND_EVENT.                              *)
(*                                                                         *)
(* wait_event and the clear_bit behind it are one step: a POST set in      *)
(* between is as good as one set before.  External: the target sends no    *)
(* more data once the scheduler is being closed (the interrupt is disabled *)
(* or the target suspended by then), and nobody is still in the middle of  *)
(* a post when the driver is opened again, seconds later.                  *)
(***************************************************************************)
EXTENDS Integers, Sequences, FiniteSets, Lists

CONSTANTS
    Wrappers,   \* aMsgWrappers (VOS_CORE_MAX_MESSAGES of them)
    Pkts,       \* the packets of vos_alloc_tlshim_pkt_freeq
    McQueues,   \* the queues of the main controller in the order it serves
    RxQueue,    \* tlshimRxQueue
    Posters,    \* contexts that post messages and indicate packets
    None

Threads == {"mc", "rx"}
Pool(t) == IF t = "mc" THEN Wrappers ELSE Pkts
Bufs == Wrappers \cup Pkts
QueuesOf(t) == IF t = "mc" THEN McQueues ELSE <<RxQueue>>
McQueueSet == {McQueues[i] : i \in 1..Len(McQueues)}
Queues == McQueueSet \cup {RxQueue}
ThreadOf(q) == IF q = RxQueue THEN "rx" ELSE "mc"

ASSUME QueueAssumption ==
    /\ McQueues \in Seq(McQueueSet) /\ Len(McQueues) > 0
    /\ \A i, j \in 1..Len(McQueues) : McQueues[i] = McQueues[j] => i = j
    /\ RxQueue \notin McQueueSet

ASSUME PoolAssumption ==
    /\ IsFiniteSet(Wrappers) /\ IsFiniteSet(Pkts)
    /\ Wrappers \cap Pkts = {} /\ None \notin Bufs

Bits == {"POST", "SUSPEND", "SHUTDOWN"}
ThreadPcs == {"wait", "loop", "scan", "handle", "test", "clear", "confirm",
              "parked", "exited"}
Controls == {"up", "confirm", "fw", "suspended", "bits", "join", "flush",
             "closed"}

VARIABLES
    free,       \* freeVosMq and VosTlshimPktFreeQ
    mq,         \* the message queues
    poster,     \* what each context is doing
    dropping,   \* local_list of vos_drop_rxpkt_by_staid
    evt,        \* mcEventFlag and tlshimRxEvtFlg
    pc, idx, hand,              \* the threads: place, queue looked at, buffer
    ack,        \* mc_sus_event_var and SuspndTlshimRxEvent
    resume,     \* ResumeMcEvent and ResumeTlshimRxEvent
    suspended,  \* isMcThreadSuspended and isTlshimRxThreadSuspended
    ctl, ctlT, ctlI,            \* the control thread, the thread it closes
    lateAck     \* history: a request was withdrawn after the thread saw it

bufVars == <<free, mq, poster, dropping>>
threadVars == <<pc, idx, hand>>
handshake == <<ack, resume, suspended>>
ctlVars == <<ctl, ctlT, ctlI>>
vars == <<free, mq, poster, dropping, evt, pc, idx, hand, ack, resume,
          suspended, ctl, ctlT, ctlI, lateAck>>

Idle == [pc |-> "idle", q |-> RxQueue, buf |-> None]

(* vos_open and vos_sched_open: the pools are filled, the events clear and *)
(* the threads started.                                                    *)
Opened ==
    /\ free' = [t \in Threads |-> Pool(t)]
    /\ mq' = [q \in Queues |-> <<>>]
    /\ evt' = [t \in Threads |-> {}]
    /\ pc' = [t \in Threads |-> "wait"]
    /\ idx' = [t \in Threads |-> 1]
    /\ hand' = [t \in Threads |-> None]

Init ==
    /\ free = [t \in Threads |-> Pool(t)]
    /\ mq = [q \in Queues |-> <<>>]
    /\ poster = [p \in Posters |-> Idle]
    /\ dropping = {}
    /\ evt = [t \in Threads |-> {}]
    /\ pc = [t \in Threads |-> "wait"]
    /\ idx = [t \in Threads |-> 1]
    /\ hand = [t \in Threads |-> None]
    /\ ack = [t \in Threads |-> 0]
    /\ resume = [t \in Threads |-> 0]
    /\ suspended = [t \in Threads |-> FALSE]
    /\ ctl = "up" /\ ctlT = "mc" /\ ctlI = 1
    /\ lateAck = FALSE

-----------------------------------------------------------------------------
(* Posting: vos_mq_post_message_by_priority, and for packets               *)
(* vos_alloc_tlshim_pkt and vos_indicate_rxpkt.                            *)

Closing == ctl \in {"bits", "join", "flush", "closed"}

(* Take a buffer from the pool; with an empty pool the post is refused and *)
(* nothing changes.                                                        *)
PostGet(p, q) ==
    /\ poster[p].pc = "idle"
    /\ q = RxQueue => ~Closing
    /\ \E b \in free[ThreadOf(q)] :
          /\ poster' = [poster EXCEPT ![p] =
                           [pc |-> "put", q |-> q, buf |-> b]]
          /\ free' = [free EXCEPT ![ThreadOf(q)] = @ \ {b}]
    /\ UNCHANGED <<mq, dropping, evt, threadVars, handshake, ctlVars, lateAck>>

(* vos_mq_put, or vos_mq_put_front for a message of high priority.         *)
PostPut(p) ==
    /\ poster[p].pc = "put"
    /\ \/ mq' = [mq EXCEPT ![poster[p].q] = Append(@, poster[p].buf)]
       \/ /\ poster[p].q # RxQueue
          /\ mq' = [mq EXCEPT ![poster[p].q] = <<poster[p].buf>> \o @]
    /\ poster' = [poster EXCEPT ![p] =
                     [pc |-> "signal", q |-> @.q, buf |-> None]]
    /\ UNCHANGED <<free, dropping, evt, threadVars, handshake, ctlVars, lateAck>>

PostSignal(p) ==
    /\ poster[p].pc = "signal"
    /\ evt' = [evt EXCEPT ![ThreadOf(poster[p].q)] = @ \cup {"POST"}]
    /\ poster' = [poster EXCEPT ![p] = Idle]
    /\ UNCHANGED <<free, mq, dropping, threadVars, handshake, ctlVars, lateAck>>

(* Mutant: the packets are copied to the local list but stay queued.       *)
MutantDropTake ==
    /\ dropping = {}
    /\ ~Closing
    /\ mq[RxQueue] # <<>>
    /\ \E S \in SUBSET Pkts : dropping' = S \cap Elements(mq[RxQueue])
    /\ UNCHANGED <<free, mq, poster, evt, threadVars, handshake, ctlVars,
                   lateAck>>

(* vos_drop_rxpkt_by_staid: the packets of a station leave the queue under *)
(* its lock and are returned to the pool afterwards.                       *)
DropTake ==
    /\ dropping = {}
    /\ ~Closing
    /\ mq[RxQueue] # <<>>
    /\ \E S \in SUBSET Pkts :
          /\ dropping' = S \cap Elements(mq[RxQueue])
          /\ mq' = [mq EXCEPT ![RxQueue] = Without(@, S)]
    /\ UNCHANGED <<free, poster, evt, threadVars, handshake, ctlVars, lateAck>>

DropFree ==
    /\ dropping # {}
    /\ free' = [free EXCEPT !["rx"] = @ \cup dropping]
    /\ dropping' = {}
    /\ UNCHANGED <<mq, poster, evt, threadVars, handshake, ctlVars, lateAck>>

-----------------------------------------------------------------------------
(* The threads: VosMCThread and VosTlshimRxThread.                         *)

(* wait_event_interruptible, then clear_bit(POST).                         *)
Wake(t) ==
    /\ pc[t] = "wait"
    /\ evt[t] \cap {"POST", "SUSPEND"} # {}
    /\ evt' = [evt EXCEPT ![t] = @ \ {"POST"}]
    /\ pc' = [pc EXCEPT ![t] = "loop"]
    /\ UNCHANGED <<bufVars, idx, hand, handshake, ctlVars, lateAck>>

(* A thread that exits confirms a suspend request that is still set.  Only *)
(* the receive thread clears its SHUTDOWN event.                           *)
Exit(t) ==
    /\ pc[t] = "loop"
    /\ "SHUTDOWN" \in evt[t]
    /\ evt' = [evt EXCEPT ![t] = @ \ (IF t = "rx" THEN {"SHUTDOWN", "SUSPEND"}
                                                  ELSE {"SUSPEND"})]
    /\ ack' = [ack EXCEPT ![t] = IF "SUSPEND" \in evt[t] THEN @ + 1 ELSE @]
    /\ pc' = [pc EXCEPT ![t] = "exited"]
    /\ UNCHANGED <<bufVars, idx, hand, resume, suspended, ctlVars, lateAck>>

StartScan(t) ==
    /\ pc[t] = "loop"
    /\ "SHUTDOWN" \notin evt[t]
    /\ pc' = [pc EXCEPT ![t] = "scan"]
    /\ UNCHANGED <<bufVars, evt, idx, hand, handshake, ctlVars, lateAck>>

(* Look at one queue: take its first buffer, or go on to the next queue.   *)
Scan(t) ==
    /\ pc[t] = "scan"
    /\ idx[t] <= Len(QueuesOf(t))
    /\ LET q == QueuesOf(t)[idx[t]]
       IN  IF mq[q] = <<>>
           THEN /\ idx' = [idx EXCEPT ![t] = @ + 1]
                /\ UNCHANGED <<mq, hand, pc>>
           ELSE /\ hand' = [hand EXCEPT ![t] = Head(mq[q])]
                /\ mq' = [mq EXCEPT ![q] = Tail(@)]
                /\ pc' = [pc EXCEPT ![t] = "handle"]
                /\ UNCHANGED idx
    /\ UNCHANGED <<free, poster, dropping, evt, handshake, ctlVars, lateAck>>

(* The handler returns and the buffer goes back to its pool                *)
(* (vos_core_return_msg, vos_free_tlshim_pkt).  The main controller looks  *)
(* at SHUTDOWN between two messages, the receive thread empties its queue  *)
(* first.                                                                  *)
Handled(t) ==
    /\ pc[t] = "handle"
    /\ free' = [free EXCEPT ![t] = @ \cup {hand[t]}]
    /\ hand' = [hand EXCEPT ![t] = None]
    /\ pc' = [pc EXCEPT ![t] = IF t = "mc" THEN "loop" ELSE "scan"]
    /\ idx' = [idx EXCEPT ![t] = 1]
    /\ UNCHANGED <<mq, poster, dropping, evt, handshake, ctlVars, lateAck>>

ScanDone(t) ==
    /\ pc[t] = "scan"
    /\ idx[t] > Len(QueuesOf(t))
    /\ pc' = [pc EXCEPT ![t] = "test"]
    /\ idx' = [idx EXCEPT ![t] = 1]
    /\ UNCHANGED <<bufVars, evt, hand, handshake, ctlVars, lateAck>>

(* Mutant: POST is cleared when the queues were found empty.               *)
MutantTestSuspend(t) ==
    /\ pc[t] = "test"
    /\ pc' = [pc EXCEPT ![t] =
                 IF "SUSPEND" \in evt[t] THEN "clear" ELSE "wait"]
    /\ evt' = [evt EXCEPT ![t] = @ \ {"POST"}]
    /\ UNCHANGED <<bufVars, idx, hand, handshake, ctlVars, lateAck>>

TestSuspend(t) ==
    /\ pc[t] = "test"
    /\ pc' = [pc EXCEPT ![t] =
                 IF "SUSPEND" \in evt[t] THEN "clear" ELSE "wait"]
    /\ UNCHANGED <<bufVars, evt, idx, hand, handshake, ctlVars, lateAck>>

ClearSuspend(t) ==
    /\ pc[t] = "clear"
    /\ evt' = [evt EXCEPT ![t] = @ \ {"SUSPEND"}]
    /\ pc' = [pc EXCEPT ![t] = "confirm"]
    /\ UNCHANGED <<bufVars, idx, hand, handshake, ctlVars, lateAck>>

(* Under the thread lock: INIT_COMPLETION of the resume event, then        *)
(* complete() of the confirmation.                                         *)
Confirm(t) ==
    /\ pc[t] = "confirm"
    /\ resume' = [resume EXCEPT ![t] = 0]
    /\ ack' = [ack EXCEPT ![t] = @ + 1]
    /\ pc' = [pc EXCEPT ![t] = "parked"]
    /\ UNCHANGED <<bufVars, evt, idx, hand, suspended, ctlVars, lateAck>>

Unpark(t) ==
    /\ pc[t] = "parked"
    /\ resume[t] > 0
    /\ resume' = [resume EXCEPT ![t] = @ - 1]
    /\ pc' = [pc EXCEPT ![t] = "wait"]
    /\ UNCHANGED <<bufVars, evt, idx, hand, ack, suspended, ctlVars, lateAck>>

ThreadStep(t) ==
    \/ Wake(t) \/ Exit(t) \/ StartScan(t) \/ Scan(t) \/ Handled(t)
    \/ ScanDone(t) \/ TestSuspend(t) \/ ClearSuspend(t) \/ Confirm(t)
    \/ Unpark(t)

-----------------------------------------------------------------------------
(* The control thread.                                                     *)

(* Mutant: the marks are left.                                             *)
MutantResumeMarked ==
    /\ resume' = [t \in Threads |->
                     IF suspended[t] THEN resume[t] + 1 ELSE resume[t]]
    /\ UNCHANGED suspended

(* complete() of the resume event of every thread that is marked as        *)
(* suspended, and the mark removed.                                        *)
ResumeMarked ==
    /\ resume' = [t \in Threads |->
                     IF suspended[t] THEN resume[t] + 1 ELSE resume[t]]
    /\ suspended' = [t \in Threads |-> FALSE]

(* __wlan_hdd_cfg80211_suspend_wlan: the receive thread is asked to park;  *)
(* wlan_hdd_suspend_mc_thread before it does nothing.                      *)
SuspendWlan ==
    /\ ctl = "up"
    /\ evt' = [evt EXCEPT !["rx"] = @ \cup {"SUSPEND"}]
    /\ ctl' = "confirm"
    /\ UNCHANGED <<bufVars, threadVars, handshake, ctlT, ctlI, lateAck>>

(* SuspndTlshimRxEvent is completed in time and the thread marked.         *)
Confirmed ==
    /\ ctl = "confirm"
    /\ ack["rx"] > 0
    /\ ack' = [ack EXCEPT !["rx"] = @ - 1]
    /\ suspended' = [suspended EXCEPT !["rx"] = TRUE]
    /\ ctl' = "fw"
    /\ UNCHANGED <<bufVars, evt, threadVars, resume, ctlT, ctlI, lateAck>>

(* The thread has seen the request and has not confirmed it yet.           *)
Confirming(t) == pc[t] \in {"clear", "confirm"}

(* Mutant: the request is not withdrawn.                                   *)
MutantWaitTimedOut ==
    /\ ctl = "confirm"
    /\ ack["rx"] = 0
    /\ lateAck' = (lateAck \/ Confirming("rx"))
    /\ ctl' = "up"
    /\ UNCHANGED <<bufVars, evt, threadVars, handshake, ctlT, ctlI>>

(* The wait times out: the request is withdrawn and the suspend fails; the *)
(* main controller, the only one resume_all looks at, is not suspended.    *)
(* lateAck records that the thread had already seen the request.           *)
WaitTimedOut ==
    /\ ctl = "confirm"
    /\ ack["rx"] = 0
    /\ evt' = [evt EXCEPT !["rx"] = @ \ {"SUSPEND"}]
    /\ lateAck' = (lateAck \/ Confirming("rx"))
    /\ ctl' = "up"
    /\ UNCHANGED <<bufVars, threadVars, handshake, ctlT, ctlI>>

(* wma_suspend_fw                                                          *)
FwSuspended ==
    /\ ctl = "fw"
    /\ ctl' = "suspended"
    /\ UNCHANGED <<bufVars, evt, threadVars, handshake, ctlT, ctlI, lateAck>>

FwSuspendFails ==
    /\ ctl = "fw"
    /\ ResumeMarked
    /\ ctl' = "up"
    /\ UNCHANGED <<bufVars, evt, threadVars, ack, ctlT, ctlI, lateAck>>

(* __wlan_hdd_cfg80211_resume_wlan                                         *)
ResumeWlan ==
    /\ ctl = "suspended"
    /\ ResumeMarked
    /\ ctl' = "up"
    /\ UNCHANGED <<bufVars, evt, threadVars, ack, ctlT, ctlI, lateAck>>

(* hdd_wlan_shutdown (recovery, also of a suspended driver) and            *)
(* hdd_wlan_exit: wake up all driver threads, then vos_sched_close.        *)
Shutdown ==
    /\ ctl \in {"up", "suspended"}
    /\ ResumeMarked
    /\ ctl' = "bits" /\ ctlT' = "mc" /\ ctlI' = 1
    /\ UNCHANGED <<bufVars, evt, threadVars, ack, lateAck>>

(* Mutant: the thread is woken before it is told to exit.                  *)
MutantCloseBits == <<"POST", "SHUTDOWN">>

(* vos_sched_close, for "mc" and then for "rx": set two events, ...        *)
CloseBits == <<"SHUTDOWN", "POST">>

CloseSet ==
    /\ ctl = "bits"
    /\ evt' = [evt EXCEPT ![ctlT] = @ \cup {CloseBits[ctlI]}]
    /\ IF ctlI = 1 THEN ctlI' = 2 /\ UNCHANGED ctl
                   ELSE ctl' = "join" /\ ctlI' = 1
    /\ UNCHANGED <<bufVars, threadVars, handshake, ctlT, lateAck>>

(* Mutant: the thread is not waited for.                                   *)
MutantCloseJoin ==
    /\ ctl = "join"
    /\ ctl' = "flush"
    /\ UNCHANGED <<bufVars, evt, threadVars, handshake, ctlT, ctlI, lateAck>>

(* ... wait for the thread to exit, ...                                    *)
CloseJoin ==
    /\ ctl = "join"
    /\ pc[ctlT] = "exited"
    /\ ctl' = "flush"
    /\ UNCHANGED <<bufVars, evt, threadVars, handshake, ctlT, ctlI, lateAck>>

(* ... return what is left on its queues (vos_sched_flush_mc_mqs,          *)
(* vos_drop_rxpkt_by_staid), ...                                           *)
CloseFlush ==
    /\ ctl = "flush"
    /\ ctlI <= Len(QueuesOf(ctlT))
    /\ LET q == QueuesOf(ctlT)[ctlI]
       IN  /\ free' = [free EXCEPT ![ctlT] = @ \cup Elements(mq[q])]
           /\ mq' = [mq EXCEPT ![q] = <<>>]
    /\ ctlI' = ctlI + 1
    /\ UNCHANGED <<poster, dropping, evt, threadVars, handshake, ctl, ctlT,
                   lateAck>>

(* ... and at the end free the packets of the pool                         *)
(* (vos_free_tlshim_pkt_freeq).                                            *)
CloseNext ==
    /\ ctl = "flush"
    /\ ctlI > Len(QueuesOf(ctlT))
    /\ ctlI' = 1
    /\ IF ctlT = "mc"
       THEN /\ ctl' = "bits" /\ ctlT' = "rx"
            /\ UNCHANGED free
       ELSE /\ ctl' = "closed" /\ ctlT' = "mc"
            /\ free' = [free EXCEPT !["rx"] = {}]
    /\ UNCHANGED <<mq, poster, dropping, evt, threadVars, handshake, lateAck>>

(* hdd_wlan_re_init: vos_open.  mc_sus_event_var belongs to HDD and is not *)
(* initialized again.                                                      *)
Reopen ==
    /\ ctl = "closed"
    /\ \A p \in Posters : poster[p] = Idle
    /\ dropping = {}
    /\ Opened
    /\ ack' = [ack EXCEPT !["rx"] = 0]
    /\ resume' = [t \in Threads |-> 0]
    /\ ctl' = "up"
    /\ UNCHANGED <<poster, dropping, suspended, ctlT, ctlI, lateAck>>

CloseStep == CloseSet \/ CloseJoin \/ CloseFlush \/ CloseNext

ControlStep ==
    \/ SuspendWlan \/ Confirmed \/ WaitTimedOut \/ FwSuspended
    \/ FwSuspendFails \/ ResumeWlan \/ Shutdown \/ CloseStep \/ Reopen

PosterStep(p) ==
    \/ \E q \in Queues : PostGet(p, q)
    \/ PostPut(p)
    \/ PostSignal(p)

Next ==
    \/ \E p \in Posters : PosterStep(p)
    \/ DropTake \/ DropFree
    \/ \E t \in Threads : ThreadStep(t)
    \/ ControlStep

Spec == Init /\ [][Next]_vars

(* The threads run when they can (their handlers return), and the control  *)
(* thread goes on with a close it has begun.                               *)
FairSpec ==
    /\ Spec
    /\ \A t \in Threads : WF_vars(ThreadStep(t))
    /\ WF_vars(CloseStep)

-----------------------------------------------------------------------------
(* Type invariant.  A thread starts each round at its first queue.         *)
TypeOK ==
    /\ DOMAIN free = Threads
    /\ DOMAIN mq = Queues
    /\ DOMAIN poster = Posters
    /\ \A p \in Posters :
          /\ poster[p].pc \in {"idle", "put", "signal"}
          /\ poster[p].q \in Queues
    /\ evt \in [Threads -> SUBSET Bits]
    /\ pc \in [Threads -> ThreadPcs]
    /\ idx \in [Threads -> Nat \ {0}]
    /\ \A t \in Threads : pc[t] \notin {"scan", "handle"} => idx[t] = 1
    /\ DOMAIN hand = Threads
    /\ ack \in [Threads -> Nat] /\ resume \in [Threads -> Nat]
    /\ suspended \in [Threads -> BOOLEAN]
    /\ ctl \in Controls /\ ctlT \in Threads /\ ctlI \in Nat \ {0}
    /\ ctl = "bits" => ctlI \in {1, 2}
    /\ lateAck \in BOOLEAN

(* Everybody who has buffer b: a pool, a place on a queue, a context that  *)
(* posts it, the thread that handles it, the list of packets being dropped.*)
Owners(b) ==
    {<<"free", t, 0>> : t \in {u \in Threads : b \in free[u]}}
    \cup {<<"hand", t, 0>> : t \in {u \in Threads : hand[u] = b}}
    \cup {<<"poster", p, 0>> : p \in {r \in Posters : poster[r].buf = b}}
    \cup (UNION {{<<"queue", q, i>> : i \in {j \in 1..Len(mq[q]) :
                                               mq[q][j] = b}} : q \in Queues})
    \cup {<<"drop", c, 0>> : c \in {d \in dropping : d = b}}

(* However posts, services, drops, closes and restarts interleave, a       *)
(* message wrapper or packet is never lost and never in two hands: a       *)
(* wrapper that leaked would shrink the pool for good, one returned twice  *)
(* would be overwritten while it is queued.  Only the packets are gone     *)
(* once vos_sched_close has freed their pool.                              *)
OneOwner ==
    /\ \A b \in Bufs : Cardinality(Owners(b)) <= 1
    /\ \A b \in Wrappers : Owners(b) # {}
    /\ ctl # "closed" => \A b \in Pkts : Owners(b) # {}

(* Context p has put something on the queue q and will set POST.           *)
WillSignal(q) == \E p \in Posters : poster[p].pc = "signal" /\ poster[p].q = q

(* Thread t will still look at the k-th of its queues before it waits.     *)
StillLooks(t, k) ==
    \/ pc[t] \in {"loop", "handle"}
    \/ pc[t] = "scan" /\ idx[t] <= k

(* No message is forgotten: while something is on a queue of a thread that *)
(* has not exited, the thread will look at that queue again, the POST      *)
(* event is set or somebody is about to set it.  The thread clears POST    *)
(* before it looks at the queues, which are not looked at together, and    *)
(* posts come in between.                                                  *)
NoMessageForgotten ==
    \A t \in Threads : \A k \in 1..Len(QueuesOf(t)) :
        mq[QueuesOf(t)[k]] # <<>> /\ pc[t] # "exited" =>
            \/ "POST" \in evt[t]
            \/ WillSignal(QueuesOf(t)[k])
            \/ StillLooks(t, k)

(* "no thread is scheduled after the each module close is called i.e after *)
(* all the data structures are freed" (hdd_wlan_exit): when vos_sched_close*)
(* has returned, both threads have exited and neither holds a buffer; and  *)
(* from the moment the queues of a thread are flushed it serves no message.*)
NoThreadAfterClose ==
    /\ ctl = "closed" => \A t \in Threads : pc[t] = "exited" /\ hand[t] = None
    /\ ctl = "flush" => pc[ctlT] = "exited" /\ hand[ctlT] = None

(* isMcThreadSuspended and isTlshimRxThreadSuspended are true only of a    *)
(* thread that is parked and was not resumed yet, also across timeouts,    *)
(* failed suspends and restarts - until a request was withdrawn too late.  *)
SuspendedIsParked ==
    ~lateAck => \A t \in Threads :
        suspended[t] => pc[t] = "parked" /\ resume[t] = 0

(* A parked thread has somebody who will resume it: it is marked as        *)
(* suspended, its resume event is set, or the control thread is about to   *)
(* read its confirmation - until a request was withdrawn too late.         *)
ParkedHasResumer ==
    ~lateAck => \A t \in Threads : pc[t] = "parked" =>
        \/ suspended[t]
        \/ resume[t] > 0
        \/ ctl = "confirm" /\ t = "rx" /\ ack[t] > 0

(* What hdd_wlan_shutdown says of its first steps, "Wakeup all driver      *)
(* threads": once it closes the scheduler, no thread is parked without a   *)
(* resume event.                                                           *)
AllThreadsWoken ==
    Closing => \A t \in Threads : pc[t] = "parked" => resume[t] > 0

(* vos_sched_close returns: it sets SHUTDOWN before POST, and a thread     *)
(* that was parked or busy comes round to see it - unless a request was    *)
(* withdrawn too late before.                                              *)
CloseReturns == (ctl = "bits" /\ ~lateAck) ~> (ctl = "closed")
=============================================================================
