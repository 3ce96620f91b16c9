---------------------------- MODULE HtcDataSend ----------------------------
(***************************************************************************)
(* The HTT data endpoint on USB, which two functions of htc_send.c drain:  *)
(* HTCSendDataPkt for data frames, and HTCTrySend (module HtcSend) for HTT *)
(* messages and for the recheck after a completion.  Both count            *)
(* themselves in TxProcessCount, but HTCSendDataPkt makes one pass over    *)
(* TxQueue only and resets the count without HTCTxLock.  The increment,    *)
(* the test and the decrement of the count are therefore steps of their    *)
(* own here, where HtcSend takes them as one.                              *)
(*                                                                         *)
(* The endpoint has no credit flow control (htt_htc_attach asks for none   *)
(* on USB).                                                                *)
(***************************************************************************)
EXTENDS HtcSend

CONSTANTS
    DataSenders,    \* the senders that call HTCSendDataPkt
    MoreData        \* values of more_data they pass

ASSUME DataAssumption ==
    /\ DataSenders \subseteq Senders
    /\ MoreData \subseteq BOOLEAN
    /\ ~TxCreditFlowEnabled

VARIABLE more_data      \* HTCSendDataPkt's argument, or "none": not in it

dataVars == <<vars, more_data>>

InData(t) == more_data[t] # "none"

DataInit ==
    /\ Init
    /\ more_data = [t \in Threads |-> "none"]

-----------------------------------------------------------------------------
(* HTCSendDataPkt is called.                                               *)
HTCSendDataPkt(t, p, more) ==
    /\ t \in DataSenders
    /\ pc[t] = "idle"
    /\ Status[p] = "unsent"
    /\ Status' = [Status EXCEPT ![p] = "pending"]
    /\ pCallersSendQueue' = [pCallersSendQueue EXCEPT ![t] = <<p>>]
    /\ more_data' = [more_data EXCEPT ![t] = IF more THEN "yes" ELSE "no"]
    /\ pc' = [pc EXCEPT ![t] = "dataLock"]
    /\ UNCHANGED <<TxQueue, TxLookupQueue, TxCredits, TxProcessCount,
                   ul_outstanding_cnt, lock, sendQueue, tx_resources, netbuf,
                   CreditsUsed, SendFlags, charged, busVars>>

(* LOCK_HTC_TX and append the frame.  With bundling, a frame that more     *)
(* will follow stays queued; otherwise the count is incremented.           *)
EnterDataPkt(t) ==
    /\ pc[t] = "dataLock"
    /\ lock = NoThread
    /\ TxQueue' = TxQueue \o pCallersSendQueue[t]
    /\ pCallersSendQueue' = [pCallersSendQueue EXCEPT ![t] = <<>>]
    /\ IF EnableBundle /\ more_data[t] = "yes"
       THEN /\ pc' = [pc EXCEPT ![t] = "idle"]
            /\ more_data' = [more_data EXCEPT ![t] = "none"]
            /\ UNCHANGED <<lock, TxProcessCount>>
       ELSE /\ lock' = t
            /\ TxProcessCount' = TxProcessCount + 1
            /\ pc' = [pc EXCEPT ![t] = "count"]
            /\ UNCHANGED more_data
    /\ UNCHANGED <<TxLookupQueue, TxCredits, ul_outstanding_cnt, sendQueue,
                   tx_resources, netbuf, CreditsUsed, SendFlags, Status,
                   charged, busVars>>

(* HTCTrySend up to the increment of the count.                            *)
IncrementCount(t) ==
    /\ pc[t] = "lock"
    /\ lock = NoThread
    /\ lock' = t
    /\ TxQueue' = HTC_PACKET_QUEUE_TRANSFER_TO_TAIL(TxQueue, sendQueue[t])
    /\ sendQueue' = [sendQueue EXCEPT ![t] = <<>>]
    /\ TxProcessCount' = TxProcessCount + 1
    /\ pc' = [pc EXCEPT ![t] = "count"]
    /\ UNCHANGED <<TxLookupQueue, TxCredits, ul_outstanding_cnt,
                   pCallersSendQueue, tx_resources, netbuf, CreditsUsed,
                   SendFlags, Status, charged, busVars, more_data>>

(* adf_os_atomic_read(&pEndpoint->TxProcessCount) > 1                      *)
AnotherDrains == TxProcessCount > 1

(* The second half of the busy test, in both functions.  HTCSendDataPkt    *)
(* asks HIF for its resources here, with the lock held.                    *)
ReadCount(t) ==
    /\ pc[t] = "count" /\ lock = t
    /\ IF AnotherDrains
       THEN pc' = [pc EXCEPT ![t] = "undo"] /\ UNCHANGED tx_resources
       ELSE /\ pc' = [pc EXCEPT ![t] = "get"]
            /\ tx_resources' = [tx_resources EXCEPT ![t] =
                  Resources(IF InData(t) THEN HIFGetFreeQueueNumber ELSE @)]
    /\ UNCHANGED <<TxQueue, TxLookupQueue, TxCredits, TxProcessCount,
                   ul_outstanding_cnt, lock, pCallersSendQueue, sendQueue,
                   netbuf, CreditsUsed, SendFlags, Status, charged,
                   busVars, more_data>>

(* adf_os_atomic_dec(&pEndpoint->TxProcessCount)                           *)
CountTakenBack == TxProcessCount - 1

(* Another thread drains: take the increment back, unlock and return.      *)
DecrementCount(t) ==
    /\ pc[t] = "undo" /\ lock = t
    /\ TxProcessCount' = CountTakenBack
    /\ lock' = NoThread
    /\ pc' = [pc EXCEPT ![t] = "idle"]
    /\ more_data' = [more_data EXCEPT ![t] = "none"]
    /\ UNCHANGED <<TxQueue, TxLookupQueue, TxCredits, ul_outstanding_cnt,
                   pCallersSendQueue, sendQueue, tx_resources, netbuf,
                   CreditsUsed, SendFlags, Status, charged, busVars>>

(* HTCSendDataPkt took what it could: unlock and send it.                  *)
EndDataGet(t) ==
    /\ InData(t)
    /\ pc[t] = "get" /\ lock = t
    /\ ~CanGet(t)
    /\ lock' = NoThread
    /\ pc' = [pc EXCEPT ![t] = "issue"]
    /\ UNCHANGED <<TxQueue, TxLookupQueue, TxCredits, TxProcessCount,
                   ul_outstanding_cnt, pCallersSendQueue, sendQueue,
                   tx_resources, netbuf, CreditsUsed, SendFlags, Status,
                   charged, busVars, more_data>>

(* Mutant: the function returns where it should break out of the loop.     *)
MutantReturns == "idle"

(* "still need to reset TxProcessCount"                                    *)
AfterSendFailure == "clear"

(* HIFSend_head refuses a packet of HTCSendDataPkt: it and the rest go     *)
(* back to the head of TxQueue.                                            *)
DataSendFails(t) ==
    /\ InData(t)
    /\ pc[t] = "hifSend"
    /\ HIFSendCanFail
    /\ lock = NoThread
    /\ ul_outstanding_cnt' = ul_outstanding_cnt - 1
    /\ RemoveRefused(netbuf[t])
    /\ TxQueue' = HTC_PACKET_QUEUE_TRANSFER_TO_HEAD(
                      TxQueue, netbuf[t] \o sendQueue[t])
    /\ sendQueue' = [sendQueue EXCEPT ![t] = <<>>]
    /\ netbuf' = [netbuf EXCEPT ![t] = <<>>]
    /\ pc' = [pc EXCEPT ![t] = AfterSendFailure]
    /\ UNCHANGED <<TxCredits, TxProcessCount, lock, pCallersSendQueue,
                   tx_resources, CreditsUsed, SendFlags, Status, charged,
                   more_data>>

(* Everything HTCSendDataPkt took is sent; it does not look again.         *)
DataSent(t) ==
    /\ InData(t)
    /\ pc[t] = "issue" /\ sendQueue[t] = <<>>
    /\ pc' = [pc EXCEPT ![t] = "clear"]
    /\ UNCHANGED <<TxQueue, TxLookupQueue, TxCredits, TxProcessCount,
                   ul_outstanding_cnt, lock, pCallersSendQueue, sendQueue,
                   tx_resources, netbuf, CreditsUsed, SendFlags, Status,
                   charged, busVars, more_data>>

(* "done with this endpoint, we can clear the count", without the lock.    *)
ClearCount(t) ==
    /\ pc[t] = "clear"
    /\ TxProcessCount' = 0
    /\ pc' = [pc EXCEPT ![t] = "idle"]
    /\ more_data' = [more_data EXCEPT ![t] = "none"]
    /\ UNCHANGED <<TxQueue, TxLookupQueue, TxCredits, ul_outstanding_cnt,
                   lock, pCallersSendQueue, sendQueue, tx_resources, netbuf,
                   CreditsUsed, SendFlags, Status, charged, busVars>>

-----------------------------------------------------------------------------
(* What a thread of either function does as in HtcSend.                    *)
SharedStep(t) ==
    \/ GetHTCSendPackets(t)
    \/ HTCIssuePacketsBundle(t) \/ IssueSingle(t)
    \/ HIFSendOk(t) \/ HTCSendBundledNetbufFails(t)

(* What only HTCTrySend does.                                              *)
TrySendStep(t) ==
    /\ ~InData(t)
    /\ \/ CheckOverflow(t) \/ RejectPacket(t) \/ ReadResources(t) \/ EndGet(t)
       \/ HIFSendFails(t) \/ Requeue(t) \/ Reread(t) \/ Relock(t)

DataThreadStep(t) ==
    \/ EnterDataPkt(t) \/ IncrementCount(t) \/ ReadCount(t)
    \/ DecrementCount(t) \/ EndDataGet(t) \/ DataSendFails(t)
    \/ DataSent(t) \/ ClearCount(t)
    \/ (SharedStep(t) \/ TrySendStep(t)) /\ UNCHANGED more_data

DataNext ==
    \/ \E t \in Senders, p \in Packets :
          \/ \E more \in MoreData : HTCSendDataPkt(t, p, more)
          \/ t \notin DataSenders /\ HTCSendPkt(t, p) /\ UNCHANGED more_data
    \/ \E t \in Threads : DataThreadStep(t)
    \/ HTCTxCompletionHandler /\ UNCHANGED more_data
    \/ LookupStep /\ UNCHANGED more_data
    \/ HTCFlushEndpointTX /\ UNCHANGED more_data
    \/ BusCompletes /\ UNCHANGED more_data
    \/ Quiescent /\ UNCHANGED more_data

DataSpec == DataInit /\ [][DataNext]_dataVars

-----------------------------------------------------------------------------
(* Properties.                                                             *)

(* The endpoint never stays busy for good: whoever finds another thread    *)
(* counted in TxProcessCount can rely on a thread that is still inside and *)
(* will reset the count, whichever way HTCSendDataPkt and HTCTrySend race. *)
BusyHasDrainer ==
    TxProcessCount > 0 =>
        \E t \in Threads : Draining(t) \/ pc[t] \in {"count", "undo", "clear"}

(* HTCLookupTxPacket finds every transfer that completes, even when two    *)
(* threads send at once and transfers complete in another order than they  *)
(* were stored in: what is on the bus or not yet handled is in the lookup  *)
(* queue or in the list that is searched, and no search ends with NULL.    *)
(* It takes a search that is not derailed: between htc_send.c:1636 and     *)
(* 1654 another drainer may unlink the item the search has saved.          *)
CompletionsAreFound ==
    ~derailed =>
        /\ Elements(hif \o hifCompletions)
              \subseteq Elements(TxLookupQueue) \cup Elements(lookupQueue)
                        \cup {pFoundPacket}
        /\ pc[CompThread] = "putBack" => pFoundPacket # <<>>

(* Bound of the run: what a derailed search does is not explored.          *)
NotDerailed == ~derailed
=============================================================================
