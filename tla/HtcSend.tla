------------------------------ MODULE HtcSend ------------------------------
(***************************************************************************)
(* The transmit path of one HTC endpoint (CORE/SERVICES/HTC/htc_send.c):   *)
(* HTCSendPkt -> HTCSendPktsMultiple -> HTCTrySend -> HTCIssuePackets, the *)
(* completion handler, the credit report handler and the flush, run by     *)
(* several kernel threads at once.  One spinlock (HTCTxLock) protects the  *)
(* endpoint; everything the code does between UNLOCK_HTC_TX and            *)
(* LOCK_HTC_TX is a step of its own here.                                  *)
(*                                                                         *)
(* The endpoint is either credit flow controlled (WMI) or limited by the   *)
(* HIF's free transfers (HTT on USB), as IS_TX_CREDIT_FLOW_ENABLED says.   *)
(* The bus and the target firmware are external: the bus completes         *)
(* transfers in order, the target gives back the credits of what it got.   *)
(***************************************************************************)
EXTENDS Integers, Sequences, FiniteSets, Lists

CONSTANTS
    Packets,              \* the HTC_PACKETs the drivers above ever send
    Senders,              \* threads that call HTCSendPkt
    RxThread,             \* context in which credit reports are processed
    CompThread,           \* context in which HIF indicates send completions
    NoThread,             \* "nobody holds HTCTxLock"
    TransferLength,       \* packet -> ActualLength + HTC_HDR_LENGTH
    Fragments,            \* packet -> fragments of its network buffer
    TxCreditSize,         \* bytes of target buffer that one credit stands for
    TotalCredits,         \* credits the endpoint got when it was connected
    TxCreditsPerMaxMsg,   \* credits of the longest message of the endpoint
    TxCreditFlowEnabled,  \* IS_TX_CREDIT_FLOW_ENABLED(pEndpoint)
    IsEndpoint0,          \* pEndpoint->Id == ENDPOINT_0
    MaxTxQueueDepth,      \* depth from which EpSendFull is asked
    SendFullActions,      \* what EpSendFull may answer; {} when it is NULL
    EnableBundle,         \* HTC_ENABLE_BUNDLE(target)
    MaxMsgPerBundle,      \* HTC_MAX_MSG_PER_BUNDLE_TX
    BundleResources,      \* tx_resources once bundling is on
    UrbAlloc,             \* transfers the HIF pipe can hold
    HifMayFail            \* HIFSend_head may fail although a transfer is free

Threads == Senders \cup {RxThread, CompThread}

HTC_MIN_MSG_PER_BUNDLE == 2

ASSUME ThreadAssumption ==
    /\ RxThread \notin Senders /\ CompThread \notin Senders
    /\ RxThread # CompThread
    /\ NoThread \notin Threads

ASSUME SizeAssumption ==
    /\ TransferLength \in [Packets -> Nat \ {0}]
    /\ Fragments \in [Packets -> Nat \ {0}]
    /\ TxCreditSize \in Nat \ {0}
    /\ TotalCredits \in Nat
    /\ TxCreditsPerMaxMsg \in Nat
    /\ MaxTxQueueDepth \in Nat
    /\ MaxMsgPerBundle \in Nat /\ BundleResources \in Nat /\ UrbAlloc \in Nat

ASSUME FlagAssumption ==
    /\ TxCreditFlowEnabled \in BOOLEAN /\ IsEndpoint0 \in BOOLEAN
    /\ EnableBundle \in BOOLEAN /\ HifMayFail \in BOOLEAN
    /\ SendFullActions \subseteq {"HTC_SEND_FULL_KEEP", "HTC_SEND_FULL_DROP"}

VARIABLES
    TxQueue,            \* pEndpoint->TxQueue
    TxLookupQueue,      \* transfers given to HIF, oldest first
    TxCredits,          \* credits the host may still spend
    TxProcessCount,     \* atomic: somebody drains TxQueue
    ul_outstanding_cnt, \* transfers not yet indicated complete
    lock,               \* holder of HTCTxLock
    pc,                 \* where each thread is
    pCallersSendQueue,  \* HTCTrySend's argument; <<>> is both NULL and empty
    sendQueue,          \* HTCTrySend's local queue
    tx_resources,       \* HTCTrySend's local copy of the HIF's free transfers
    netbuf,             \* the transfer a thread is handing to HIFSend_head
    CreditsUsed,        \* PktInfo.AsTx.CreditsUsed
    SendFlags,          \* HTC_FLAGS_NEED_CREDIT_UPDATE set in the packet
    Status,             \* what the packet's owner was told
    hif,                \* transfers on the bus, oldest first
    hifCompletions,     \* transfers whose completion HTC did not yet handle
    lookupQueue,        \* HTCLookupTxPacket's local list while it searches
    pTemp,              \* where its search goes on; <<>> is the list's end
    pFoundPacket,       \* what the search has found; <<>> is NULL
    targetCredits,      \* credits of messages the target received
    charged,            \* auxiliary: credits of packets on the way there
    delivered,          \* auxiliary: packets in the order the target got them
    derailed            \* auxiliary: a list changed under the search, see
                        \* Derails

threadVars == <<pc, pCallersSendQueue, sendQueue, tx_resources, netbuf>>
searchVars == <<lookupQueue, pTemp, pFoundPacket, derailed>>
busVars == <<hif, hifCompletions, targetCredits, delivered, searchVars>>
vars == <<TxQueue, TxLookupQueue, TxCredits, TxProcessCount,
          ul_outstanding_cnt, lock, pc, pCallersSendQueue, sendQueue,
          tx_resources, netbuf, CreditsUsed, SendFlags, Status, hif,
          hifCompletions, targetCredits, charged, delivered, searchVars>>

PcValues == {"idle", "depth", "reject", "resources", "lock", "get", "issue",
             "single", "hifSend", "hifSendBundle", "requeue", "relock"}

(* The completion context while it searches, see HTCLookupTxPacket.        *)
LookupPcs == {"first", "search", "unlink", "putBack"}

(* A thread with one of these pc values is past "beyond this point only 1  *)
(* thread may enter": it is the one that drains the endpoint.              *)
DrainPcs == {"get", "issue", "single", "hifSend", "hifSendBundle",
             "requeue", "relock"}
Draining(t) == pc[t] \in DrainPcs

Init ==
    /\ TxQueue = <<>> /\ TxLookupQueue = <<>>
    /\ TxCredits = TotalCredits
    /\ TxProcessCount = 0 /\ ul_outstanding_cnt = 0
    /\ lock = NoThread
    /\ pc = [t \in Threads |-> "idle"]
    /\ pCallersSendQueue = [t \in Threads |-> <<>>]
    /\ sendQueue = [t \in Threads |-> <<>>]
    /\ tx_resources = [t \in Threads |-> 0]
    /\ netbuf = [t \in Threads |-> <<>>]
    /\ CreditsUsed = [p \in Packets |-> 0]
    /\ SendFlags = [p \in Packets |-> FALSE]
    /\ Status = [p \in Packets |-> "unsent"]
    /\ hif = <<>> /\ hifCompletions = <<>>
    /\ targetCredits = 0 /\ charged = 0
    /\ delivered = <<>>
    /\ lookupQueue = <<>> /\ pTemp = <<>> /\ pFoundPacket = <<>>
    /\ derailed = FALSE

-----------------------------------------------------------------------------
(* Helpers on packets and queues.                                          *)

CreditsRequired(p) ==
    IF IsEndpoint0 THEN 0
    ELSE IF TransferLength[p] <= TxCreditSize THEN 1
    ELSE (TransferLength[p] \div TxCreditSize)
         + (IF TransferLength[p] % TxCreditSize = 0 THEN 0 ELSE 1)

(* The length of a packet inside a bundle: padded to the credit size when  *)
(* it is shorter, lengthened by the remainder when it is longer.           *)
BundledLength(p) ==
    LET remainder == TransferLength[p] % TxCreditSize
    IN  IF remainder = 0 THEN TransferLength[p]
        ELSE IF TransferLength[p] < TxCreditSize THEN TxCreditSize
        ELSE TransferLength[p] + remainder

FitsInBundle(q, k) ==
    LET total[i \in 0..k] ==
            IF i = 0 THEN 0 ELSE total[i - 1] + BundledLength(q[i])
    IN  total[k] <= MaxMsgPerBundle * TxCreditSize

HIFGetFreeQueueNumber == UrbAlloc - Len(hif)

(* With bundling on, a pipe with any free transfer takes a whole bundle.   *)
Resources(n) == IF EnableBundle /\ n > 0 THEN BundleResources ELSE n

Complete(S, status) ==
    [p \in Packets |-> IF p \in S THEN status ELSE Status[p]]

(* Mutant: the packet stays linked in the list it was sent from.           *)
MutantNotUnlinked(q, x) == q

(* Mutant: the head of the list is unlinked instead of the packet.         *)
MutantRemovesHead(q, x) == IF q = <<>> THEN q ELSE Tail(q)

HTC_PACKET_REMOVE(q, x) == DL_ListRemove(q, x)

HTC_PACKET_ENQUEUE(q, x) == Append(q, x)

HTC_PACKET_QUEUE_TRANSFER_TO_TAIL(q, s) == q \o s

(* Mutant: a whole queue is moved to the wrong end of the other.           *)
MutantToTail(q, s) == q \o s

HTC_PACKET_QUEUE_TRANSFER_TO_HEAD(q, s) == s \o q

(* Mutant: the test for another drainer is forgotten.                      *)
MutantNeverBusy == FALSE

(* "another thread or task is draining the TX queues on this endpoint"     *)
Busy == TxProcessCount + 1 > 1

(* Mutant: the test is made before the packet's credits are taken.         *)
MutantStaleCredits(p) == ~IsEndpoint0 /\ TxCredits <= TxCreditsPerMaxMsg

(* "check if we need credits back from the target"                         *)
NeedCreditUpdate(p) ==
    ~IsEndpoint0 /\ TxCredits - CreditsRequired(p) <= TxCreditsPerMaxMsg

(* Mutant: one credit is taken however long the packet is.                 *)
MutantOneCredit(p) == TxCredits - 1

(* TxCredits once packet p is taken off TxQueue.                           *)
CreditsAfter(p) == TxCredits - CreditsRequired(p)

(* "save the number of credits this packet consumed"                       *)
SaveCredits(p) == [CreditsUsed EXCEPT ![p] = CreditsRequired(p)]

(* Mutant: the report handler leaves the queue to the next sender.         *)
MutantNoRecheck(n) == FALSE

(* Mutant: the queue is left alone until the longest message is paid for.  *)
MutantRecheck(n) == TxCredits + n > TxCreditsPerMaxMsg /\ TxQueue # <<>>

(* Does a report of n credits make the report handler look at TxQueue?     *)
RecheckAfterReport(n) == TxCredits + n > 0 /\ TxQueue # <<>>

(* What HTCTrySend does next once it has its packets: a credit endpoint    *)
(* goes straight for the lock, another one first asks HIF for resources.   *)
TrySendPc == IF TxCreditFlowEnabled THEN "lock" ELSE "resources"

-----------------------------------------------------------------------------
(* HTCSendPkt: the sequence number only goes into the frame header, which  *)
(* the host never reads back, so what is left is the packet on the         *)
(* caller's queue.                                                         *)
HTCSendPkt(t, p) ==
    /\ t \in Senders
    /\ pc[t] = "idle"
    /\ Status[p] = "unsent"
    /\ Status' = [Status EXCEPT ![p] = "pending"]
    /\ pCallersSendQueue' = [pCallersSendQueue EXCEPT ![t] = <<p>>]
    /\ pc' = [pc EXCEPT ![t] = "depth"]
    /\ UNCHANGED <<TxQueue, TxLookupQueue, TxCredits, TxProcessCount,
                   ul_outstanding_cnt, lock, sendQueue, tx_resources, netbuf,
                   CreditsUsed, SendFlags, charged, busVars>>

(* The overflow test at the top of HTCTrySend.  It reads the depth of      *)
(* TxQueue without the lock.                                               *)
CheckOverflow(t) ==
    /\ pc[t] = "depth"
    /\ LET overflow == Len(TxQueue) + Len(pCallersSendQueue[t])
                       - MaxTxQueueDepth
           accept == /\ sendQueue' = [sendQueue EXCEPT
                                        ![t] = pCallersSendQueue[t]]
                     /\ pCallersSendQueue' = [pCallersSendQueue EXCEPT
                                                ![t] = <<>>]
                     /\ pc' = [pc EXCEPT ![t] = TrySendPc]
       IN  \/ /\ overflow <= 0 \/ SendFullActions = {}
              /\ accept
           \/ /\ overflow > 0 /\ "HTC_SEND_FULL_KEEP" \in SendFullActions
              /\ accept
           \/ /\ overflow > 0 /\ "HTC_SEND_FULL_DROP" \in SendFullActions
              /\ pc' = [pc EXCEPT ![t] = "reject"]
              /\ UNCHANGED <<sendQueue, pCallersSendQueue>>
    /\ UNCHANGED <<TxQueue, TxLookupQueue, TxCredits, TxProcessCount,
                   ul_outstanding_cnt, lock, tx_resources, netbuf,
                   CreditsUsed, SendFlags, Status, charged, busVars>>

(* HTCTrySend gave a packet back: HTCSendPktsMultiple completes it, with   *)
(* A_ECANCELED when HTC is stopping by then and A_NO_RESOURCE otherwise.   *)
RejectPacket(t) ==
    /\ pc[t] = "reject"
    /\ \E result \in {"A_ECANCELED", "A_NO_RESOURCE"} :
          Status' = Complete(Elements(pCallersSendQueue[t]), result)
    /\ pCallersSendQueue' = [pCallersSendQueue EXCEPT ![t] = <<>>]
    /\ pc' = [pc EXCEPT ![t] = "idle"]
    /\ UNCHANGED <<TxQueue, TxLookupQueue, TxCredits, TxProcessCount,
                   ul_outstanding_cnt, lock, sendQueue, tx_resources, netbuf,
                   CreditsUsed, SendFlags, charged, busVars>>

(* HIFGetFreeQueueNumber, read before the lock is taken.                   *)
ReadResources(t) ==
    /\ pc[t] = "resources"
    /\ tx_resources' = [tx_resources EXCEPT ![t] = HIFGetFreeQueueNumber]
    /\ pc' = [pc EXCEPT ![t] = "lock"]
    /\ UNCHANGED <<TxQueue, TxLookupQueue, TxCredits, TxProcessCount,
                   ul_outstanding_cnt, lock, pCallersSendQueue, sendQueue,
                   netbuf, CreditsUsed, SendFlags, Status, charged,
                   busVars>>

(* LOCK_HTC_TX, append the new packets, and see whether somebody drains    *)
(* the endpoint already; if not, start to drain with the lock held.  The   *)
(* packets of the EPPING test driver (is_nodrop_pkt), which go to the head *)
(* of TxQueue, are not modelled.                                           *)
EnterTrySend(t) ==
    /\ pc[t] = "lock"
    /\ lock = NoThread
    /\ TxQueue' = HTC_PACKET_QUEUE_TRANSFER_TO_TAIL(TxQueue, sendQueue[t])
    /\ sendQueue' = [sendQueue EXCEPT ![t] = <<>>]
    /\ IF Busy
       THEN /\ pc' = [pc EXCEPT ![t] = "idle"]
            /\ UNCHANGED <<TxProcessCount, lock, tx_resources>>
       ELSE /\ TxProcessCount' = TxProcessCount + 1
            /\ lock' = t
            /\ tx_resources' = [tx_resources EXCEPT ![t] = Resources(@)]
            /\ pc' = [pc EXCEPT ![t] = "get"]
    /\ UNCHANGED <<TxLookupQueue, TxCredits, ul_outstanding_cnt,
                   pCallersSendQueue, netbuf, CreditsUsed, SendFlags, Status,
                   charged, busVars>>

(* Both get loops go on while there is a packet and the means to send it.  *)
CanGet(t) ==
    /\ TxQueue # <<>>
    /\ IF TxCreditFlowEnabled THEN TxCredits >= CreditsRequired(Head(TxQueue))
       ELSE tx_resources[t] > 0

(* One turn of the loop of GetHTCSendPacketsCreditBased.                   *)
GetHTCSendPacketsCreditBased(t) ==
    /\ TxCreditFlowEnabled
    /\ pc[t] = "get" /\ lock = t
    /\ CanGet(t)
    /\ LET p == Head(TxQueue)
       IN  /\ TxCredits' = CreditsAfter(p)
           /\ charged' = charged + CreditsRequired(p)
           /\ CreditsUsed' = SaveCredits(p)
           /\ SendFlags' = [SendFlags EXCEPT ![p] = NeedCreditUpdate(p)]
           /\ TxQueue' = Tail(TxQueue)
           /\ sendQueue' = [sendQueue EXCEPT ![t] = HTC_PACKET_ENQUEUE(@, p)]
    /\ UNCHANGED <<TxLookupQueue, TxProcessCount, ul_outstanding_cnt, lock, pc,
                   pCallersSendQueue, tx_resources, netbuf, Status,
                   busVars>>

(* One turn of the loop of GetHTCSendPackets: every fragment of a packet   *)
(* counts as a resource.                                                   *)
GetHTCSendPackets(t) ==
    /\ ~TxCreditFlowEnabled
    /\ pc[t] = "get" /\ lock = t
    /\ CanGet(t)
    /\ LET p == Head(TxQueue)
       IN  /\ CreditsUsed' = [CreditsUsed EXCEPT ![p] = 0]
           /\ SendFlags' = [SendFlags EXCEPT ![p] = FALSE]
           /\ TxQueue' = Tail(TxQueue)
           /\ sendQueue' = [sendQueue EXCEPT ![t] = HTC_PACKET_ENQUEUE(@, p)]
           /\ tx_resources' = [tx_resources EXCEPT ![t] = @ - Fragments[p]]
    /\ UNCHANGED <<TxLookupQueue, TxCredits, TxProcessCount,
                   ul_outstanding_cnt, lock, pc, pCallersSendQueue, netbuf,
                   Status, charged, busVars>>

(* The end of the get loop: with packets in hand, unlock and issue them;   *)
(* with none, clear TxProcessCount under the lock and leave HTCTrySend.    *)
EndGet(t) ==
    /\ pc[t] = "get" /\ lock = t
    /\ ~CanGet(t)
    /\ lock' = NoThread
    /\ IF sendQueue[t] = <<>>
       THEN /\ TxProcessCount' = 0
            /\ pc' = [pc EXCEPT ![t] = "idle"]
       ELSE /\ pc' = [pc EXCEPT ![t] = "issue"]
            /\ UNCHANGED TxProcessCount
    /\ UNCHANGED <<TxQueue, TxLookupQueue, TxCredits, ul_outstanding_cnt,
                   pCallersSendQueue, sendQueue, tx_resources, netbuf,
                   CreditsUsed, SendFlags, Status, charged, busVars>>

(* HTCIssuePackets: take the first k packets of the local queue as one     *)
(* transfer and, under the lock, remember it in TxLookupQueue.             *)
StartTransfer(t, k, next) ==
    /\ lock = NoThread
    /\ LET transfer == SubSeq(sendQueue[t], 1, k)
       IN  /\ netbuf' = [netbuf EXCEPT ![t] = transfer]
           /\ TxLookupQueue' = HTC_PACKET_ENQUEUE(TxLookupQueue, transfer)
    /\ sendQueue' = [sendQueue EXCEPT ![t] = SubSeq(@, k + 1, Len(@))]
    /\ ul_outstanding_cnt' = ul_outstanding_cnt + 1
    /\ pc' = [pc EXCEPT ![t] = next]
    /\ UNCHANGED <<TxQueue, TxCredits, TxProcessCount, lock,
                   pCallersSendQueue, tx_resources, CreditsUsed, SendFlags,
                   Status, charged, busVars>>

WantsBundle(t) ==
    EnableBundle /\ Len(sendQueue[t]) >= HTC_MIN_MSG_PER_BUNDLE

(* HTCIssuePacketsBundle: the next bundle is the longest prefix that fits. *)
HTCIssuePacketsBundle(t) ==
    /\ pc[t] = "issue"
    /\ WantsBundle(t)
    /\ \E k \in 1..Len(sendQueue[t]) :
          /\ FitsInBundle(sendQueue[t], k)
          /\ k < Len(sendQueue[t]) => ~FitsInBundle(sendQueue[t], k + 1)
          /\ StartTransfer(t, k, "hifSendBundle")

(* A packet on its own: no bundling, too few packets, or the bundle before *)
(* it could not be sent (pc "single").                                     *)
IssueSingle(t) ==
    /\ \/ pc[t] = "issue" /\ ~WantsBundle(t)
       \/ pc[t] = "single"
    /\ sendQueue[t] # <<>>
    /\ StartTransfer(t, 1, "hifSend")

(* HIFSend_head accepts the transfer.                                      *)
HIFSendOk(t) ==
    /\ pc[t] \in {"hifSend", "hifSendBundle"}
    /\ HIFGetFreeQueueNumber > 0
    /\ hif' = Append(hif, netbuf[t])
    /\ netbuf' = [netbuf EXCEPT ![t] = <<>>]
    /\ pc' = [pc EXCEPT ![t] = "issue"]
    /\ UNCHANGED <<TxQueue, TxLookupQueue, TxCredits, TxProcessCount,
                   ul_outstanding_cnt, lock, pCallersSendQueue, sendQueue,
                   tx_resources, CreditsUsed, SendFlags, Status,
                   hifCompletions, targetCredits, delivered, charged,
                   searchVars>>

HIFSendCanFail == HifMayFail \/ HIFGetFreeQueueNumber <= 0

Adjacent(q, x, y) ==
    \E i, j \in 1..Len(q) : q[i] = x /\ q[j] = y /\ (j = i + 1 \/ i = j + 1)

(* HTCLookupTxPacket searches and unlinks without the lock.  Its search is *)
(* derailed by who unlinks transfer x just when it is the item the search  *)
(* has saved to go on with, or the neighbour of the item it is unlinking:  *)
(* it then follows a link out of the list, or a link to x is left behind.  *)
(* Removals anywhere else in the list do no harm.                          *)
Derails(x) ==
    \/ pc[CompThread] = "search" /\ x = pTemp
    \/ /\ pc[CompThread] = "unlink"
       /\ Adjacent(lookupQueue, x, Head(hifCompletions))

(* HTC_PACKET_REMOVE of the transfer that HIF refused, which is linked in  *)
(* TxLookupQueue or in the list that is searched just then.                *)
RemoveRefused(x) ==
    /\ TxLookupQueue' = HTC_PACKET_REMOVE(TxLookupQueue, x)
    /\ lookupQueue' = HTC_PACKET_REMOVE(lookupQueue, x)
    /\ derailed' = (derailed \/ Derails(x))
    /\ UNCHANGED <<pTemp, pFoundPacket, hif, hifCompletions, targetCredits,
                   delivered>>

(* HIFSend_head fails for a single packet: its credits are reclaimed and   *)
(* it goes back to the front of the local queue.                           *)
HIFSendFails(t) ==
    /\ pc[t] = "hifSend"
    /\ HIFSendCanFail
    /\ lock = NoThread
    /\ LET p == Head(netbuf[t])
       IN  /\ TxCredits' = TxCredits + CreditsUsed[p]
           /\ charged' = charged - CreditsUsed[p]
    /\ ul_outstanding_cnt' = ul_outstanding_cnt - 1
    /\ RemoveRefused(netbuf[t])
    /\ sendQueue' = [sendQueue EXCEPT
           ![t] = HTC_PACKET_QUEUE_TRANSFER_TO_HEAD(@, netbuf[t])]
    /\ netbuf' = [netbuf EXCEPT ![t] = <<>>]
    /\ pc' = [pc EXCEPT ![t] = "requeue"]
    /\ UNCHANGED <<TxQueue, TxProcessCount, lock, pCallersSendQueue,
                   tx_resources, CreditsUsed, SendFlags, Status>>

(* HTCSendBundledNetbuf fails: the bundle's packets return to the front of *)
(* the local queue and HTCIssuePackets sends the first of them by itself.  *)
(* ul_outstanding_cnt is not taken back.                                   *)
HTCSendBundledNetbufFails(t) ==
    /\ pc[t] = "hifSendBundle"
    /\ HIFSendCanFail
    /\ lock = NoThread
    /\ RemoveRefused(netbuf[t])
    /\ sendQueue' = [sendQueue EXCEPT
           ![t] = HTC_PACKET_QUEUE_TRANSFER_TO_HEAD(@, netbuf[t])]
    /\ netbuf' = [netbuf EXCEPT ![t] = <<>>]
    /\ pc' = [pc EXCEPT ![t] = "single"]
    /\ UNCHANGED <<TxQueue, TxCredits, TxProcessCount, ul_outstanding_cnt,
                   lock, pCallersSendQueue, tx_resources, CreditsUsed,
                   SendFlags, Status, charged>>

SumOfCredits(q) ==
    LET total[i \in 0..Len(q)] ==
            IF i = 0 THEN 0 ELSE total[i - 1] + CreditsUsed[q[i]]
    IN  total[Len(q)]

(* After a failed HTCIssuePackets the local queue goes back to the head of *)
(* TxQueue and the thread stops draining.  The packets behind the failed   *)
(* one keep the credits they were charged; they are charged anew later.    *)
Requeue(t) ==
    /\ pc[t] = "requeue"
    /\ lock = NoThread
    /\ TxQueue' = HTC_PACKET_QUEUE_TRANSFER_TO_HEAD(TxQueue, sendQueue[t])
    /\ \E c \in 0..charged :
          /\ c = SumOfCredits(Tail(sendQueue[t]))
          /\ charged' = charged - c
    /\ sendQueue' = [sendQueue EXCEPT ![t] = <<>>]
    /\ TxProcessCount' = 0
    /\ pc' = [pc EXCEPT ![t] = "idle"]
    /\ UNCHANGED <<TxLookupQueue, TxCredits, ul_outstanding_cnt, lock,
                   pCallersSendQueue, tx_resources, netbuf, CreditsUsed,
                   SendFlags, Status, busVars>>

(* Everything was issued: ask HIF for its free transfers again, ...        *)
Reread(t) ==
    /\ pc[t] = "issue"
    /\ sendQueue[t] = <<>>
    /\ tx_resources' = [tx_resources EXCEPT
          ![t] = IF TxCreditFlowEnabled THEN @ ELSE HIFGetFreeQueueNumber]
    /\ pc' = [pc EXCEPT ![t] = "relock"]
    /\ UNCHANGED <<TxQueue, TxLookupQueue, TxCredits, TxProcessCount,
                   ul_outstanding_cnt, lock, pCallersSendQueue, sendQueue,
                   netbuf, CreditsUsed, SendFlags, Status, charged,
                   busVars>>

(* ... take the lock and look at TxQueue once more.                        *)
Relock(t) ==
    /\ pc[t] = "relock"
    /\ lock = NoThread
    /\ lock' = t
    /\ tx_resources' = [tx_resources EXCEPT ![t] = Resources(@)]
    /\ pc' = [pc EXCEPT ![t] = "get"]
    /\ UNCHANGED <<TxQueue, TxLookupQueue, TxCredits, TxProcessCount,
                   ul_outstanding_cnt, pCallersSendQueue, sendQueue, netbuf,
                   CreditsUsed, SendFlags, Status, charged, busVars>>

-----------------------------------------------------------------------------
(* The completion handler is called for the oldest completed transfer.     *)
Completed == Head(hifCompletions)

(* A credit endpoint stops after the completion, any other one rechecks    *)
(* its TxQueue.                                                            *)
AfterCompletionPc == IF TxCreditFlowEnabled THEN "idle" ELSE "resources"

HTC_PACKET_DEQUEUE(q) == IF q = <<>> THEN q ELSE Tail(q)

(* HTCTxCompletionHandler: HTCLookupTxPacket looks at the head of          *)
(* TxLookupQueue first, "because of in-order completion".  It returns it   *)
(* if it is the completed transfer, whose packets are completed with A_OK, *)
(* and NULL if the queue is empty.  With one drainer transfers complete in *)
(* the order of TxLookupQueue (theorem CompletesInOrder), so that Next     *)
(* needs no more; the search below is for two drainers (HtcDataSend).      *)
HTCTxCompletionHandler ==
    /\ pc[CompThread] = "idle"
    /\ hifCompletions # <<>>
    /\ lock = NoThread
    /\ TxLookupQueue # <<>> => Head(TxLookupQueue) = Completed
    /\ TxLookupQueue' = HTC_PACKET_DEQUEUE(TxLookupQueue)
    /\ Status' = IF TxLookupQueue = <<>> THEN Status
                 ELSE Complete(Elements(Completed), "A_OK")
    /\ hifCompletions' = Tail(hifCompletions)
    /\ ul_outstanding_cnt' = ul_outstanding_cnt - 1
    /\ pc' = [pc EXCEPT ![CompThread] = AfterCompletionPc]
    /\ UNCHANGED <<TxQueue, TxCredits, TxProcessCount, lock,
                   pCallersSendQueue, sendQueue, tx_resources, netbuf,
                   CreditsUsed, SendFlags, hif, targetCredits, charged,
                   delivered, searchVars>>

(* What the search leaves alone.                                           *)
searchFrame == <<TxQueue, TxCredits, TxProcessCount, lock,
                 pCallersSendQueue, sendQueue, tx_resources, netbuf,
                 CreditsUsed, SendFlags, hif, targetCredits, charged,
                 delivered, derailed>>

(* Another transfer is at the head: HTCLookupTxPacket moves all of the     *)
(* queue to a local list and unlocks, ...                                  *)
HTCLookupTxPacket ==
    /\ pc[CompThread] = "idle"
    /\ hifCompletions # <<>>
    /\ lock = NoThread
    /\ TxLookupQueue # <<>> /\ Head(TxLookupQueue) # Completed
    /\ lookupQueue' = TxLookupQueue
    /\ TxLookupQueue' = <<>>
    /\ ul_outstanding_cnt' = ul_outstanding_cnt - 1
    /\ pc' = [pc EXCEPT ![CompThread] = "first"]
    /\ UNCHANGED <<searchFrame, Status, hifCompletions, pTemp, pFoundPacket>>

(* The link behind item x, with <<>> for the list itself.                  *)
Following(q, x) ==
    LET i == CHOOSE j \in 1..Len(q) : q[j] = x
    IN  IF i = Len(q) THEN <<>> ELSE q[i + 1]

(* ... starts ITERATE_OVER_LIST_ALLOW_REMOVE without the lock, ...         *)
SearchFirst ==
    /\ pc[CompThread] = "first"
    /\ pTemp' = IF lookupQueue = <<>> THEN <<>> ELSE Head(lookupQueue)
    /\ pc' = [pc EXCEPT ![CompThread] = "search"]
    /\ UNCHANGED <<searchFrame, TxLookupQueue, ul_outstanding_cnt, Status,
                   hifCompletions, lookupQueue, pFoundPacket>>

(* ... goes from item to item, saving the next one before it looks at an   *)
(* item (what a search that was derailed does is not modelled), ...        *)
SearchNext ==
    /\ pc[CompThread] = "search" /\ ~derailed
    /\ IF pTemp = <<>>
       THEN pc' = [pc EXCEPT ![CompThread] = "putBack"] /\ UNCHANGED pTemp
       ELSE /\ pTemp' = Following(lookupQueue, pTemp)
            /\ pc' = [pc EXCEPT ![CompThread] =
                         IF pTemp = Completed THEN "unlink" ELSE "search"]
    /\ UNCHANGED <<searchFrame, TxLookupQueue, ul_outstanding_cnt, Status,
                   hifCompletions, lookupQueue, pFoundPacket>>

(* ... unlinks the item it has found, still without the lock, ...          *)
UnlinkFound ==
    /\ pc[CompThread] = "unlink" /\ ~derailed
    /\ lookupQueue' = HTC_PACKET_REMOVE(lookupQueue, Completed)
    /\ pFoundPacket' = Completed
    /\ pc' = [pc EXCEPT ![CompThread] = "putBack"]
    /\ UNCHANGED <<searchFrame, TxLookupQueue, ul_outstanding_cnt, Status,
                   hifCompletions, pTemp>>

(* ... and puts the other items back before those that were stored in the  *)
(* meantime.  The packets of what it found are completed.                  *)
EndLookup ==
    /\ pc[CompThread] = "putBack"
    /\ lock = NoThread
    /\ TxLookupQueue' =
          HTC_PACKET_QUEUE_TRANSFER_TO_HEAD(TxLookupQueue, lookupQueue)
    /\ lookupQueue' = <<>>
    /\ Status' = Complete(Elements(pFoundPacket), "A_OK")
    /\ pFoundPacket' = <<>>
    /\ hifCompletions' = Tail(hifCompletions)
    /\ pc' = [pc EXCEPT ![CompThread] = AfterCompletionPc]
    /\ UNCHANGED <<searchFrame, ul_outstanding_cnt, pTemp>>

LookupStep ==
    \/ HTCLookupTxPacket \/ SearchFirst \/ SearchNext \/ UnlinkFound
    \/ EndLookup

(* HTCProcessCreditRpt for a report of n credits to this endpoint.         *)
HTCProcessCreditRpt(n) ==
    /\ pc[RxThread] = "idle"
    /\ lock = NoThread
    /\ n <= targetCredits
    /\ targetCredits' = targetCredits - n
    /\ TxCredits' = TxCredits + n
    /\ pc' = [pc EXCEPT ![RxThread] =
                 IF RecheckAfterReport(n) THEN TrySendPc
                 ELSE "idle"]
    /\ UNCHANGED <<TxQueue, TxLookupQueue, TxProcessCount, ul_outstanding_cnt,
                   lock, pCallersSendQueue, sendQueue, tx_resources, netbuf,
                   CreditsUsed, SendFlags, Status, hif, hifCompletions,
                   charged, delivered, searchVars>>

(* HTCFlushEndpointTX, from HTCStop, HTCFlushSurpriseRemove or the API.    *)
HTCFlushEndpointTX ==
    /\ lock = NoThread
    /\ TxQueue # <<>>
    /\ Status' = Complete(Elements(TxQueue), "A_ECANCELED")
    /\ TxQueue' = <<>>
    /\ UNCHANGED <<TxLookupQueue, TxCredits, TxProcessCount,
                   ul_outstanding_cnt, lock, threadVars, CreditsUsed,
                   SendFlags, charged, busVars>>

(* External: the bus finishes its oldest transfer.  The target has the     *)
(* messages (and their credits), the HIF transfer is free again, and the   *)
(* completion waits for the HIF's completion context.                      *)
BusCompletes ==
    /\ hif # <<>>
    /\ hif' = Tail(hif)
    /\ hifCompletions' = Append(hifCompletions, Head(hif))
    /\ \E c \in 0..charged :
          /\ c = SumOfCredits(Head(hif))
          /\ targetCredits' = targetCredits + c
          /\ charged' = charged - c
    /\ delivered' = delivered \o Head(hif)
    /\ UNCHANGED <<TxQueue, TxLookupQueue, TxCredits, TxProcessCount,
                   ul_outstanding_cnt, lock, threadVars, CreditsUsed,
                   SendFlags, Status, searchVars>>

(* Nothing is left to do: no thread is inside HTC and the bus is idle.     *)
Quiescent ==
    /\ \A t \in Threads : pc[t] = "idle"
    /\ \A p \in Packets : Status[p] # "unsent"
    /\ hif = <<>> /\ hifCompletions = <<>> /\ targetCredits = 0
    /\ UNCHANGED vars

ThreadStep(t) ==
    \/ CheckOverflow(t) \/ RejectPacket(t) \/ ReadResources(t)
    \/ EnterTrySend(t)
    \/ GetHTCSendPacketsCreditBased(t) \/ GetHTCSendPackets(t) \/ EndGet(t)
    \/ HTCIssuePacketsBundle(t) \/ IssueSingle(t)
    \/ HIFSendOk(t) \/ HIFSendFails(t) \/ HTCSendBundledNetbufFails(t)
    \/ Requeue(t) \/ Reread(t) \/ Relock(t)

CreditReport == \E n \in 1..TotalCredits : HTCProcessCreditRpt(n)

Next ==
    \/ \E t \in Senders, p \in Packets : HTCSendPkt(t, p)
    \/ \E t \in Threads : ThreadStep(t)
    \/ HTCTxCompletionHandler
    \/ CreditReport
    \/ HTCFlushEndpointTX
    \/ BusCompletes
    \/ Quiescent

Spec == Init /\ [][Next]_vars

(* A thread inside HTC runs on; the bus, the completion context and the    *)
(* target (which is told by NEED_CREDIT_UPDATE that the host is short of   *)
(* credits) do their part.  Nobody is obliged to send or to flush.         *)
FairSpec ==
    /\ Spec
    /\ \A t \in Threads : WF_vars(ThreadStep(t))
    /\ WF_vars(HTCTxCompletionHandler)
    /\ WF_vars(CreditReport)
    /\ WF_vars(BusCompletes)

-----------------------------------------------------------------------------
(* Properties.                                                             *)

Flatten(q) ==
    LET cat[i \in 0..Len(q)] == IF i = 0 THEN <<>> ELSE cat[i - 1] \o q[i]
    IN  cat[Len(q)]

(* Type invariant of the endpoint and of the threads in htc_send.c.        *)
TypeOK ==
    /\ TxQueue \in Seq(Packets)
    /\ TxLookupQueue \in Seq(Seq(Packets))
    /\ TxCredits \in Int
    /\ TxProcessCount \in {0, 1}
    /\ ul_outstanding_cnt \in Int
    /\ lock \in Threads \cup {NoThread}
    /\ pc \in [Threads -> PcValues]
    /\ pCallersSendQueue \in [Threads -> Seq(Packets)]
    /\ sendQueue \in [Threads -> Seq(Packets)]
    /\ tx_resources \in [Threads -> Int]
    /\ netbuf \in [Threads -> Seq(Packets)]
    /\ CreditsUsed \in [Packets -> Nat]
    /\ SendFlags \in [Packets -> BOOLEAN]
    /\ Status \in [Packets -> {"unsent", "pending", "A_OK", "A_ECANCELED",
                               "A_NO_RESOURCE"}]
    /\ hif \in Seq(Seq(Packets)) /\ hifCompletions \in Seq(Seq(Packets))
    /\ targetCredits \in Int /\ charged \in Int
    /\ delivered \in Seq(Packets)
    /\ lookupQueue \in Seq(Seq(Packets))
    /\ pTemp \in Seq(Packets) /\ pFoundPacket \in Seq(Packets)

(* "beyond this point only 1 thread may enter" (HTCTrySend): however       *)
(* senders, completions and credit reports interleave, two threads never   *)
(* drain the endpoint at once, and TxProcessCount tells whether one does.  *)
SingleDrainer ==
    /\ \A t, u \in Threads : Draining(t) /\ Draining(u) => t = u
    /\ (TxProcessCount = 1) <=> (\E t \in Threads : Draining(t))

(* No credit is made or lost: the host's TxCredits, the credits of packets *)
(* on their way to the target and those the target has add up to what the  *)
(* endpoint was given.                                                     *)
CreditsConserved ==
    /\ TxCredits + charged + targetCredits = TotalCredits
    /\ TxCredits >= 0 /\ targetCredits >= 0

(* The packets a draining thread holds outside TxQueue, oldest first.      *)
InHand(t) == IF Draining(t) THEN netbuf[t] \o sendQueue[t] ELSE <<>>
AllInHand ==
    IF \E t \in Threads : Draining(t)
    THEN InHand(CHOOSE t \in Threads : Draining(t)) ELSE <<>>

(* No lost wakeup on a credit endpoint: when nobody drains TxQueue and     *)
(* nobody is about to, the packet at its head cannot be paid for.  A       *)
(* packet that was queued behind a busy drainer, or while credits came     *)
(* back, is never forgotten.                                               *)
NoStrandedPacket ==
    TxCreditFlowEnabled /\ TxQueue # <<>> /\ TxProcessCount = 0
        => \/ TxCredits < CreditsRequired(Head(TxQueue))
           \/ \E t \in Threads : pc[t] = "lock"

Occurrences(p, q) == Cardinality({i \in 1..Len(q) : q[i] = p})

(* Every packet handed to HTCSendPkt is in exactly one place until its     *)
(* owner is told about it, and nowhere in HTC afterwards: none is leaked,  *)
(* sent twice or completed twice.  This holds while HTCLookupTxPacket      *)
(* searches its local list without the lock too, unless the search was     *)
(* derailed.                                                               *)
PacketOwnership ==
    ~derailed => \A p \in Packets :
        LET inThread(t) == Occurrences(p, pCallersSendQueue[t])
                           + Occurrences(p, sendQueue[t])
            owners == {t \in Threads : inThread(t) > 0}
            places == Occurrences(p, TxQueue)
                      + Occurrences(p, Flatten(TxLookupQueue))
                      + Occurrences(p, Flatten(lookupQueue))
                      + Occurrences(p, pFoundPacket)
                      + Cardinality(owners)
        IN  /\ \A t \in owners : inThread(t) = 1
            /\ places = IF Status[p] = "pending" THEN 1 ELSE 0

(* HTC_FLAGS_NEED_CREDIT_UPDATE reaches the target whenever the host is    *)
(* stuck: if the head of TxQueue cannot be paid for, the last packet that  *)
(* was charged tells the target so.                                        *)
CreditUpdateRequested ==
    LET charging == delivered \o Flatten(hif) \o AllInHand
    IN  TxCreditFlowEnabled /\ TxQueue # <<>> /\ charging # <<>>
        /\ TxCredits < CreditsRequired(Head(TxQueue))
        => SendFlags[charging[Len(charging)]]

=============================================================================
