--------------------------- MODULE HtcSendProofs ---------------------------
(***************************************************************************)
(* Proofs about HtcSend for every number of packets, senders and credits.  *)
(***************************************************************************)
EXTENDS HtcSendRefinement, HtcQueueProofs

(* A thread that is handing a transfer to HIFSend_head has one.            *)
HasTransfer ==
    \A t \in Threads :
        /\ pc[t] \in {"hifSend", "hifSendBundle"} => netbuf[t] # <<>>
        /\ pc[t] \in {"requeue", "single"} => sendQueue[t] # <<>>

TypeInv == TypeOK /\ HasTransfer

(* What a packet costs is a number of credits.                             *)
LEMMA CreditsRequiredNat ==
    ASSUME NEW p \in Packets
    PROVE  CreditsRequired(p) \in Nat
<1>1. /\ TransferLength[p] \in Nat
      /\ TxCreditSize \in Nat /\ TxCreditSize > 0
  BY SizeAssumption
<1>2. TransferLength[p] \div TxCreditSize \in Nat
  BY <1>1
<1>3. QED
  BY <1>2, SMT DEF CreditsRequired

(* A part of a queue is a queue of the same kind.                          *)
LEMMA PartType ==
    ASSUME NEW S, NEW q \in Seq(S), NEW m \in 1..(Len(q) + 1),
           NEW n \in 0..Len(q)
    PROVE  SubSeq(q, m, n) \in Seq(S)
<1>1. Len(q) \in Nat
  BY LenProperties
<1>2. m \in Int /\ n \in Int
  BY <1>1
<1>3. \A i \in m..n : q[i] \in S
  BY <1>1, <1>2, ElementOfSeq
<1>4. QED
  BY <1>2, <1>3, SubSeqProperties

(* Unlinking a packet leaves a queue of the same kind.                     *)
LEMMA RemoveType ==
    ASSUME NEW S, NEW q \in Seq(S), NEW x
    PROVE  HTC_PACKET_REMOVE(q, x) \in Seq(S)
<1>1. CASE x \notin Elements(q)
  BY <1>1 DEF HTC_PACKET_REMOVE, DL_ListRemove
<1>2. CASE x \in Elements(q)
  <2> DEFINE i == CHOOSE j \in 1..Len(q) : q[j] = x
  <2>1. i \in 1..Len(q)
    BY <1>2 DEF Elements
  <2>2. SubSeq(q, 1, i - 1) \in Seq(S) /\ SubSeq(q, i + 1, Len(q)) \in Seq(S)
    <3> HIDE DEF i
    <3>1. Len(q) \in Nat
      BY LenProperties
    <3>2. /\ 1 \in 1..(Len(q) + 1) /\ i - 1 \in 0..Len(q)
          /\ i + 1 \in 1..(Len(q) + 1) /\ Len(q) \in 0..Len(q)
      BY <2>1, <3>1
    <3>3. QED
      BY <3>2, PartType
  <2> HIDE DEF i
  <2>3. SubSeq(q, 1, i - 1) \o SubSeq(q, i + 1, Len(q)) \in Seq(S)
    BY <2>2, ConcatProperties
  <2>4. QED
    BY <1>2, <2>3 DEF HTC_PACKET_REMOVE, DL_ListRemove, i
<1>3. QED
  BY <1>1, <1>2

(* Initially nothing is queued and no thread is inside HTC.                *)
LEMMA TypeInit == Init => TypeInv
  BY SizeAssumption, ThreadAssumption, EmptySeq
  DEF Init, TypeInv, TypeOK, HasTransfer, PcValues

(* Handing packets to HIF splits the local queue in two queues.            *)
LEMMA StartTransferType ==
    ASSUME TypeInv, NEW t \in Threads, NEW k \in 1..Len(sendQueue[t]),
           NEW next \in {"hifSend", "hifSendBundle"}, StartTransfer(t, k, next)
    PROVE  TypeInv'
<1> DEFINE first == SubSeq(sendQueue[t], 1, k)
           rest == SubSeq(sendQueue[t], k + 1, Len(sendQueue[t]))
<1>1. sendQueue[t] \in Seq(Packets) /\ Len(sendQueue[t]) \in Nat
  BY LenProperties DEF TypeInv, TypeOK
<1>2. first \in Seq(Packets) /\ rest \in Seq(Packets)
  BY <1>1, PartType
<1>3. first # <<>>
  BY <1>1, <1>2, SubSeqProperties, ElementOfSeq, EmptySeq
<1>4. Append(TxLookupQueue, first) \in Seq(Seq(Packets))
  BY <1>2, AppendProperties DEF TypeInv, TypeOK
<1> HIDE DEF first, rest
<1>5. /\ netbuf' = [netbuf EXCEPT ![t] = first]
      /\ TxLookupQueue' = Append(TxLookupQueue, first)
      /\ sendQueue' = [sendQueue EXCEPT ![t] = rest]
      /\ ul_outstanding_cnt' = ul_outstanding_cnt + 1
      /\ pc' = [pc EXCEPT ![t] = next]
      /\ UNCHANGED <<TxQueue, TxCredits, TxProcessCount, lock,
                     pCallersSendQueue, tx_resources, CreditsUsed, SendFlags,
                     Status, charged, busVars>>
  BY DEF StartTransfer, HTC_PACKET_ENQUEUE, first, rest
<1>6. TypeOK'
  <2>1. /\ netbuf' \in [Threads -> Seq(Packets)]
        /\ sendQueue' \in [Threads -> Seq(Packets)]
    BY <1>2, <1>5 DEF TypeInv, TypeOK
  <2>2. pc' \in [Threads -> PcValues]
    BY <1>5 DEF TypeInv, TypeOK, PcValues
  <2>3. ul_outstanding_cnt \in Int
    BY DEF TypeInv, TypeOK
  <2>4. ul_outstanding_cnt' \in Int
    BY <1>5, <2>3
  <2>5. QED
    BY <1>4, <1>5, <2>1, <2>2, <2>4
    DEF TypeInv, TypeOK, busVars, searchVars
<1>7. HasTransfer'
  BY <1>3, <1>5 DEF TypeInv, TypeOK, HasTransfer
<1>8. QED
  BY <1>6, <1>7 DEF TypeInv

(* Every step of the transmit path keeps the types.                        *)
LEMMA TypeStep == TypeInv /\ [Next]_vars => TypeInv'
<1> SUFFICES ASSUME TypeInv, [Next]_vars PROVE TypeInv'
  OBVIOUS
<1> USE DEF TypeInv, TypeOK, HasTransfer, PcValues, threadVars, busVars,
            searchVars
<1>1. ASSUME NEW t \in Senders, NEW p \in Packets, HTCSendPkt(t, p)
      PROVE  TypeInv'
  <2>1. <<p>> \in Seq(Packets)
    OBVIOUS
  <2>2. t \in Threads
    BY DEF Threads
  <2>3. QED
    BY <1>1, <2>1, <2>2 DEF HTCSendPkt
<1>2. ASSUME NEW t \in Threads, CheckOverflow(t)
      PROVE  TypeInv'
  <2>1. TrySendPc \in PcValues \ {"requeue", "single", "hifSend",
                                  "hifSendBundle"}
    BY FlagAssumption DEF TrySendPc
  <2>2. /\ pc' = [pc EXCEPT ![t] = "reject"] \/ pc' = [pc EXCEPT ![t] = TrySendPc]
        /\ \/ UNCHANGED <<sendQueue, pCallersSendQueue>>
           \/ /\ sendQueue' = [sendQueue EXCEPT ![t] = pCallersSendQueue[t]]
              /\ pCallersSendQueue' = [pCallersSendQueue EXCEPT ![t] = <<>>]
    BY <1>2 DEF CheckOverflow
  <2>3. pc[t] = "depth"
    BY <1>2 DEF CheckOverflow
  <2>4. pc' \in [Threads -> PcValues]
    BY <2>1, <2>2
  <2>5. /\ sendQueue' \in [Threads -> Seq(Packets)]
        /\ pCallersSendQueue' \in [Threads -> Seq(Packets)]
    <3>1. pCallersSendQueue[t] \in Seq(Packets) /\ <<>> \in Seq(Packets)
      BY EmptySeq
    <3>2. CASE UNCHANGED <<sendQueue, pCallersSendQueue>>
      BY <3>2
    <3>3. CASE /\ sendQueue' = [sendQueue EXCEPT ![t] = pCallersSendQueue[t]]
               /\ pCallersSendQueue' = [pCallersSendQueue EXCEPT ![t] = <<>>]
      BY <3>1, <3>3
    <3>4. QED
      BY <2>2, <3>2, <3>3
  <2>6. HasTransfer'
    BY <1>2, <2>1, <2>2, <2>3 DEF CheckOverflow
  <2> HIDE DEF HasTransfer
  <2>7. QED
    BY <1>2, <2>4, <2>5, <2>6 DEF CheckOverflow
<1>3. ASSUME NEW t \in Threads, RejectPacket(t)
      PROVE  TypeInv'
  BY <1>3, SMTT(40) DEF RejectPacket, Complete
<1>4. ASSUME NEW t \in Threads, ReadResources(t)
      PROVE  TypeInv'
  BY <1>4, SizeAssumption, SMTT(40) DEF ReadResources, HIFGetFreeQueueNumber
<1>5. ASSUME NEW t \in Threads, EnterTrySend(t)
      PROVE  TypeInv'
  <2>1. TxQueue' \in Seq(Packets)
    BY <1>5, ConcatProperties
    DEF EnterTrySend, HTC_PACKET_QUEUE_TRANSFER_TO_TAIL
  <2>2. sendQueue' \in [Threads -> Seq(Packets)]
    BY <1>5, EmptySeq DEF EnterTrySend
  <2>3. CASE Busy
    BY <1>5, <2>1, <2>2, <2>3 DEF EnterTrySend
  <2>4. CASE ~Busy
    <3>1. Resources(tx_resources[t]) \in Int
      BY SizeAssumption DEF Resources
    <3>2. TxProcessCount' \in {0, 1}
      BY <1>5, <2>4 DEF EnterTrySend, Busy
    <3>3. QED
      BY <1>5, <2>1, <2>2, <2>4, <3>1, <3>2 DEF EnterTrySend
  <2>5. QED
    BY <2>3, <2>4
<1>6. ASSUME NEW t \in Threads, GetHTCSendPacketsCreditBased(t)
      PROVE  TypeInv'
  <2> DEFINE p == Head(TxQueue)
  <2>1. p \in Packets /\ Tail(TxQueue) \in Seq(Packets)
    BY <1>6, HeadTailProperties DEF GetHTCSendPacketsCreditBased, CanGet
  <2>2. CreditsRequired(p) \in Nat
    BY <2>1, CreditsRequiredNat
  <2>3. NeedCreditUpdate(p) \in BOOLEAN
    BY DEF NeedCreditUpdate
  <2>4. Append(sendQueue[t], p) \in Seq(Packets)
    BY <2>1, AppendProperties
  <2>5. Append(sendQueue[t], p) # <<>>
    <3>1. sendQueue[t] \in Seq(Packets)
      OBVIOUS
    <3> HIDE DEF TypeInv, TypeOK, HasTransfer, p
    <3>2. QED
      BY <2>1, <3>1, AppendProperties
  <2> HIDE DEF p
  <2>6. /\ TxQueue' = Tail(TxQueue)
        /\ TxCredits' = TxCredits - CreditsRequired(p)
        /\ charged' = charged + CreditsRequired(p)
        /\ CreditsUsed' = [CreditsUsed EXCEPT ![p] = CreditsRequired(p)]
        /\ SendFlags' = [SendFlags EXCEPT ![p] = NeedCreditUpdate(p)]
        /\ sendQueue' = [sendQueue EXCEPT ![t] = Append(sendQueue[t], p)]
        /\ UNCHANGED <<TxLookupQueue, TxProcessCount, ul_outstanding_cnt, lock,
                       pc, pCallersSendQueue, tx_resources, netbuf, Status,
                       busVars>>
    BY <1>6 DEF GetHTCSendPacketsCreditBased, CreditsAfter, SaveCredits,
                HTC_PACKET_ENQUEUE, p
  <2>7. TypeOK'
    <3>1. sendQueue' \in [Threads -> Seq(Packets)]
      BY <2>4, <2>6
    <3>2. /\ CreditsUsed' \in [Packets -> Nat]
          /\ SendFlags' \in [Packets -> BOOLEAN]
      BY <2>1, <2>2, <2>3, <2>6
    <3>3. TxCredits' \in Int /\ charged' \in Int
      <4>1. TxCredits \in Int /\ charged \in Int
        OBVIOUS
      <4> HIDE DEF TypeInv, TypeOK, HasTransfer
      <4>2. QED
        BY <2>2, <2>6, <4>1
    <3>4. QED
      BY <2>1, <2>6, <3>1, <3>2, <3>3
  <2>8. HasTransfer'
    BY <2>5, <2>6
  <2>9. QED
    BY <2>7, <2>8
<1>7. ASSUME NEW t \in Threads, GetHTCSendPackets(t)
      PROVE  TypeInv'
  <2> DEFINE p == Head(TxQueue)
  <2>1. p \in Packets /\ Tail(TxQueue) \in Seq(Packets)
    BY <1>7, HeadTailProperties DEF GetHTCSendPackets, CanGet
  <2>2. Append(sendQueue[t], p) \in Seq(Packets)
    BY <2>1, AppendProperties
  <2>3. Append(sendQueue[t], p) # <<>>
    <3>1. sendQueue[t] \in Seq(Packets)
      OBVIOUS
    <3> HIDE DEF TypeInv, TypeOK, HasTransfer, p
    <3>2. QED
      BY <2>1, <3>1, AppendProperties
  <2> HIDE DEF p
  <2>4. /\ TxQueue' = Tail(TxQueue)
        /\ CreditsUsed' = [CreditsUsed EXCEPT ![p] = 0]
        /\ SendFlags' = [SendFlags EXCEPT ![p] = FALSE]
        /\ sendQueue' = [sendQueue EXCEPT ![t] = Append(sendQueue[t], p)]
        /\ tx_resources' = [tx_resources EXCEPT
                               ![t] = tx_resources[t] - Fragments[p]]
        /\ UNCHANGED <<TxLookupQueue, TxCredits, TxProcessCount,
                       ul_outstanding_cnt, lock, pc, pCallersSendQueue, netbuf,
                       Status, charged, busVars>>
    BY <1>7 DEF GetHTCSendPackets, HTC_PACKET_ENQUEUE, p
  <2>5. TypeOK'
    <3>1. sendQueue' \in [Threads -> Seq(Packets)]
      BY <2>2, <2>4
    <3>2. /\ CreditsUsed' \in [Packets -> Nat]
          /\ SendFlags' \in [Packets -> BOOLEAN]
      BY <2>1, <2>4
    <3>3. tx_resources' \in [Threads -> Int]
      <4>1. tx_resources \in [Threads -> Int]
        OBVIOUS
      <4> HIDE DEF TypeInv, TypeOK, HasTransfer
      <4>2. Fragments[p] \in Int
        BY <2>1, SizeAssumption
      <4>3. QED
        BY <2>4, <4>1, <4>2
    <3>4. QED
      BY <2>1, <2>4, <3>1, <3>2, <3>3
  <2>6. HasTransfer'
    BY <2>3, <2>4
  <2>7. QED
    BY <2>5, <2>6
<1>8. ASSUME NEW t \in Threads, EndGet(t)
      PROVE  TypeInv'
  BY <1>8 DEF EndGet
<1>9. ASSUME NEW t \in Threads, HTCIssuePacketsBundle(t)
      PROVE  TypeInv'
  <2>1. PICK k \in 1..Len(sendQueue[t]) : StartTransfer(t, k, "hifSendBundle")
    BY <1>9 DEF HTCIssuePacketsBundle
  <2>2. QED
    BY <2>1, StartTransferType
<1>10. ASSUME NEW t \in Threads, IssueSingle(t)
       PROVE  TypeInv'
  <2>1. 1 \in 1..Len(sendQueue[t])
    BY <1>10, LenProperties, EmptySeq DEF IssueSingle
  <2>2. QED
    BY <1>10, <2>1, StartTransferType DEF IssueSingle
<1>11. ASSUME NEW t \in Threads, HIFSendOk(t)
       PROVE  TypeInv'
  <2>1. Append(hif, netbuf[t]) \in Seq(Seq(Packets))
    BY AppendProperties
  <2>2. <<>> \in Seq(Packets)
    BY EmptySeq
  <2>3. TypeOK'
    BY <1>11, <2>1, <2>2 DEF HIFSendOk
  <2>4. HasTransfer'
    BY <1>11 DEF HIFSendOk
  <2>5. QED
    BY <2>3, <2>4
<1>12. ASSUME NEW t \in Threads, HIFSendFails(t)
       PROVE  TypeInv'
  <2>1. /\ HTC_PACKET_REMOVE(TxLookupQueue, netbuf[t]) \in Seq(Seq(Packets))
        /\ HTC_PACKET_REMOVE(lookupQueue, netbuf[t]) \in Seq(Seq(Packets))
    BY RemoveType
  <2>2. netbuf[t] \o sendQueue[t] \in Seq(Packets)
    BY ConcatProperties
  <2>3. netbuf[t] \o sendQueue[t] # <<>>
    BY <1>12, ConcatEqualIffEmpty DEF HIFSendFails
  <2>4. <<>> \in Seq(Packets)
    BY EmptySeq
  <2>5. CreditsUsed[Head(netbuf[t])] \in Nat
    BY <1>12, HeadTailProperties DEF HIFSendFails
  <2>6. TypeOK'
    <3>1. /\ sendQueue' \in [Threads -> Seq(Packets)]
          /\ netbuf' \in [Threads -> Seq(Packets)]
      BY <1>12, <2>2, <2>4
      DEF HIFSendFails, HTC_PACKET_QUEUE_TRANSFER_TO_HEAD
    <3>2. /\ TxCredits' \in Int /\ charged' \in Int
          /\ ul_outstanding_cnt' \in Int
      <4>1. /\ TxCredits \in Int /\ charged \in Int
            /\ ul_outstanding_cnt \in Int
        OBVIOUS
      <4> HIDE DEF TypeInv, TypeOK, HasTransfer
      <4>2. QED
        BY <1>12, <2>5, <4>1 DEF HIFSendFails
    <3>3. pc' \in [Threads -> PcValues]
      BY <1>12 DEF HIFSendFails
    <3>4. QED
      BY <1>12, <2>1, <3>1, <3>2, <3>3 DEF HIFSendFails, RemoveRefused
  <2>7. HasTransfer'
    BY <1>12, <2>3 DEF HIFSendFails, HTC_PACKET_QUEUE_TRANSFER_TO_HEAD
  <2>8. QED
    BY <2>6, <2>7
<1>13. ASSUME NEW t \in Threads, HTCSendBundledNetbufFails(t)
       PROVE  TypeInv'
  <2>1. /\ HTC_PACKET_REMOVE(TxLookupQueue, netbuf[t]) \in Seq(Seq(Packets))
        /\ HTC_PACKET_REMOVE(lookupQueue, netbuf[t]) \in Seq(Seq(Packets))
    BY RemoveType
  <2>2. netbuf[t] \o sendQueue[t] \in Seq(Packets)
    BY ConcatProperties
  <2>3. netbuf[t] \o sendQueue[t] # <<>>
    BY <1>13, ConcatEqualIffEmpty DEF HTCSendBundledNetbufFails
  <2>4. <<>> \in Seq(Packets)
    BY EmptySeq
  <2>5. TypeOK'
    BY <1>13, <2>1, <2>2, <2>4
    DEF HTCSendBundledNetbufFails, HTC_PACKET_QUEUE_TRANSFER_TO_HEAD,
        RemoveRefused
  <2>6. HasTransfer'
    BY <1>13, <2>3
    DEF HTCSendBundledNetbufFails, HTC_PACKET_QUEUE_TRANSFER_TO_HEAD
  <2>7. QED
    BY <2>5, <2>6
<1>14. ASSUME NEW t \in Threads, Requeue(t)
       PROVE  TypeInv'
  <2>1. sendQueue[t] \o TxQueue \in Seq(Packets)
    BY ConcatProperties
  <2>2. <<>> \in Seq(Packets)
    BY EmptySeq
  <2>3. charged' \in Int
    BY <1>14 DEF Requeue
  <2>4. TypeOK'
    BY <1>14, <2>1, <2>2, <2>3 DEF Requeue, HTC_PACKET_QUEUE_TRANSFER_TO_HEAD
  <2>5. HasTransfer'
    BY <1>14 DEF Requeue
  <2>6. QED
    BY <2>4, <2>5
<1>15. ASSUME NEW t \in Threads, Reread(t)
       PROVE  TypeInv'
  <2>1. HIFGetFreeQueueNumber \in Int
    <3>1. Len(hif) \in Nat /\ UrbAlloc \in Nat
      BY SizeAssumption DEF TypeInv, TypeOK
    <3> HIDE DEF TypeInv, TypeOK, HasTransfer
    <3>2. QED
      BY <3>1 DEF HIFGetFreeQueueNumber
  <2>2. QED
    BY <1>15, <2>1 DEF Reread
<1>16. ASSUME NEW t \in Threads, Relock(t)
       PROVE  TypeInv'
  BY <1>16, SizeAssumption DEF Relock, Resources
<1>17. CASE HTCTxCompletionHandler
  <2>1. HTC_PACKET_DEQUEUE(TxLookupQueue) \in Seq(Seq(Packets))
    BY HeadTailProperties DEF HTC_PACKET_DEQUEUE
  <2>2. Tail(hifCompletions) \in Seq(Seq(Packets))
    BY <1>17, HeadTailProperties DEF HTCTxCompletionHandler
  <2> QED
    BY <1>17, <2>1, <2>2, SMTT(40) DEF HTCTxCompletionHandler, Complete, Threads,
                             AfterCompletionPc
<1>18. CASE CreditReport
  BY <1>18, SizeAssumption
  DEF CreditReport, HTCProcessCreditRpt, Threads, TrySendPc
<1>19. CASE HTCFlushEndpointTX
  BY <1>19 DEF HTCFlushEndpointTX, Complete
<1>20. CASE BusCompletes
  <2>1. /\ Head(hif) \in Seq(Packets) /\ Tail(hif) \in Seq(Seq(Packets))
    BY <1>20, HeadTailProperties DEF BusCompletes
  <2>2. /\ Append(hifCompletions, Head(hif)) \in Seq(Seq(Packets))
        /\ delivered \o Head(hif) \in Seq(Packets)
    BY <2>1, AppendProperties, ConcatProperties
  <2>3. charged' \in Int /\ targetCredits' \in Int
    <3>1. PICK c \in 0..charged : /\ targetCredits' = targetCredits + c
                                  /\ charged' = charged - c
      BY <1>20 DEF BusCompletes
    <3>2. QED
      BY <3>1
  <2>4. TypeOK'
    BY <1>20, <2>1, <2>2, <2>3 DEF BusCompletes
  <2>5. HasTransfer'
    BY <1>20 DEF BusCompletes
  <2>6. QED
    BY <2>4, <2>5
<1>21. CASE UNCHANGED vars
  BY <1>21 DEF vars
<1>22. QED
  BY <1>1, <1>2, <1>3, <1>4, <1>5, <1>6, <1>7, <1>8, <1>9, <1>10, <1>11,
     <1>12, <1>13, <1>14, <1>15, <1>16, <1>17, <1>18, <1>19, <1>20, <1>21
  DEF Next, ThreadStep, Quiescent

(* Type correctness of the transmit path of htc_send.c: whatever the       *)
(* threads, the bus and the target do, queues hold packets, and            *)
(* TxProcessCount is 0 or 1.                                               *)
THEOREM TypeCorrect == Spec => []TypeOK
<1>1. Spec => []TypeInv
  BY TypeInit, TypeStep, PTL DEF Spec
<1>2. TypeInv => TypeOK
  BY DEF TypeInv
<1>3. QED
  BY <1>1, <1>2, PTL

-----------------------------------------------------------------------------
(* The lock is held exactly by the thread that is in one of the get loops. *)
LockInv == \A t \in Threads : lock = t <=> pc[t] = "get"

DrainInv == SingleDrainer /\ LockInv

(* Initially nobody drains and TxProcessCount is 0.                        *)
LEMMA DrainInit == Init => DrainInv
  BY ThreadAssumption
  DEF Init, DrainInv, SingleDrainer, LockInv, Draining, DrainPcs

(* A step that moves one thread and leaves the lock and the count alone    *)
(* keeps the invariant when the thread drains before and after, or neither *)
(* before nor after, and is outside the get loops.                         *)
LEMMA DrainMove ==
    ASSUME TypeInv, DrainInv, NEW t \in Threads, NEW next \in PcValues,
           pc' = [pc EXCEPT ![t] = next],
           pc[t] # "get", next # "get",
           pc[t] \in DrainPcs <=> next \in DrainPcs,
           UNCHANGED <<lock, TxProcessCount>>
    PROVE  DrainInv'
  BY DEF TypeInv, TypeOK, DrainInv, SingleDrainer, LockInv, Draining

(* The step by which a thread stops to drain: the count is cleared.        *)
LEMMA DrainEnd ==
    ASSUME TypeInv, DrainInv, NEW t \in Threads,
           pc' = [pc EXCEPT ![t] = "idle"],
           pc[t] \in DrainPcs,
           lock' = NoThread, TxProcessCount' = 0,
           lock \in {t, NoThread}
    PROVE  DrainInv'
<1>1. \A u \in Threads : u # t => ~Draining(u)
  BY DEF DrainInv, SingleDrainer, Draining
<1>2. \A u \in Threads : ~Draining(u)'
  BY <1>1 DEF TypeInv, TypeOK, Draining, DrainPcs
<1>3. LockInv'
  BY <1>2, ThreadAssumption DEF LockInv, Draining, DrainPcs
<1>4. QED
  BY <1>2, <1>3 DEF DrainInv, SingleDrainer

(* Taking the lock to start draining, and giving it up to issue packets.   *)
LEMMA DrainStart ==
    ASSUME TypeInv, DrainInv, NEW t \in Threads,
           pc' = [pc EXCEPT ![t] = "get"], lock = NoThread, lock' = t,
           \/ pc[t] \notin DrainPcs /\ TxProcessCount = 0 /\ TxProcessCount' = 1
           \/ pc[t] \in DrainPcs /\ UNCHANGED TxProcessCount
    PROVE  DrainInv'
<1>1. \A u \in Threads : u # t => ~Draining(u)
  BY DEF DrainInv, SingleDrainer, Draining
<1>2. \A u \in Threads : Draining(u)' <=> u = t
  BY <1>1 DEF TypeInv, TypeOK, Draining, DrainPcs
<1>3. TxProcessCount' = 1
  BY DEF DrainInv, SingleDrainer, Draining
<1>4. LockInv'
  <2>1. \A u \in Threads : u # t => pc'[u] # "get"
    BY <1>2 DEF Draining, DrainPcs
  <2>2. pc'[t] = "get"
    BY DEF TypeInv, TypeOK
  <2>3. QED
    BY <2>1, <2>2 DEF LockInv
<1>5. QED
  BY <1>2, <1>3, <1>4 DEF DrainInv, SingleDrainer

(* Every step of the transmit path keeps TxProcessCount in line with the   *)
(* one thread that drains.                                                 *)
LEMMA DrainStep == TypeInv /\ DrainInv /\ [Next]_vars => DrainInv'
<1> SUFFICES ASSUME TypeInv, DrainInv, [Next]_vars PROVE DrainInv'
  OBVIOUS
<1> USE DEF DrainPcs, PcValues
<1>0. pc \in [Threads -> PcValues] /\ TxProcessCount \in {0, 1}
  BY DEF TypeInv, TypeOK
<1>1. ASSUME NEW t \in Senders, NEW p \in Packets, HTCSendPkt(t, p)
      PROVE  DrainInv'
  BY <1>1, DrainMove DEF HTCSendPkt, Threads
<1>2. ASSUME NEW t \in Threads, CheckOverflow(t)
      PROVE  DrainInv'
  <2>1. TrySendPc \in {"lock", "resources"}
    BY DEF TrySendPc
  <2>2. PICK next \in {"reject", TrySendPc} : pc' = [pc EXCEPT ![t] = next]
    BY <1>2 DEF CheckOverflow
  <2>3. QED
    BY <1>2, <2>1, <2>2, DrainMove DEF CheckOverflow
<1>3. ASSUME NEW t \in Threads, RejectPacket(t)
      PROVE  DrainInv'
  BY <1>3, DrainMove DEF RejectPacket
<1>4. ASSUME NEW t \in Threads, ReadResources(t)
      PROVE  DrainInv'
  BY <1>4, DrainMove DEF ReadResources
<1>5. ASSUME NEW t \in Threads, EnterTrySend(t)
      PROVE  DrainInv'
  <2>1. CASE Busy
    BY <1>5, <2>1, DrainMove DEF EnterTrySend
  <2>2. CASE ~Busy
    BY <1>0, <1>5, <2>2, DrainStart DEF EnterTrySend, Busy
  <2>3. QED
    BY <2>1, <2>2
<1>6. ASSUME NEW t \in Threads,
             GetHTCSendPacketsCreditBased(t) \/ GetHTCSendPackets(t)
      PROVE  DrainInv'
  BY <1>6 DEF GetHTCSendPacketsCreditBased, GetHTCSendPackets, DrainInv,
              SingleDrainer, LockInv, Draining
<1>7. ASSUME NEW t \in Threads, EndGet(t)
      PROVE  DrainInv'
  <2>1. CASE sendQueue[t] = <<>>
    BY <1>7, <2>1, DrainEnd DEF EndGet
  <2>2. CASE sendQueue[t] # <<>>
    <3>1. \A u \in Threads : Draining(u)' <=> Draining(u)
      BY <1>0, <1>7, <2>2 DEF EndGet, Draining
    <3>2. \A u \in Threads : pc'[u] # "get"
      BY <1>0, <1>7, <2>2 DEF EndGet, DrainInv, LockInv
    <3>3. lock' = NoThread /\ UNCHANGED TxProcessCount
      BY <1>7, <2>2 DEF EndGet
    <3>4. QED
      BY <3>1, <3>2, <3>3, ThreadAssumption
      DEF DrainInv, SingleDrainer, LockInv
  <2>3. QED
    BY <2>1, <2>2
<1>8. ASSUME NEW t \in Threads, HTCIssuePacketsBundle(t) \/ IssueSingle(t)
      PROVE  DrainInv'
  BY <1>8, DrainMove DEF HTCIssuePacketsBundle, IssueSingle, StartTransfer
<1>9. ASSUME NEW t \in Threads,
             \/ HIFSendOk(t) \/ HIFSendFails(t)
             \/ HTCSendBundledNetbufFails(t) \/ Reread(t)
      PROVE  DrainInv'
  BY <1>9, DrainMove
  DEF HIFSendOk, HIFSendFails, HTCSendBundledNetbufFails, Reread
<1>10. ASSUME NEW t \in Threads, Requeue(t)
       PROVE  DrainInv'
  BY <1>10, DrainEnd DEF Requeue
<1>11. ASSUME NEW t \in Threads, Relock(t)
       PROVE  DrainInv'
  BY <1>11, DrainStart DEF Relock
<1>12. CASE HTCTxCompletionHandler
  BY <1>12, DrainMove DEF HTCTxCompletionHandler, AfterCompletionPc, Threads
<1>13. CASE CreditReport
  <2>1. PICK next \in {"idle", "lock", "resources"} :
            pc' = [pc EXCEPT ![RxThread] = next]
    BY <1>13 DEF CreditReport, HTCProcessCreditRpt, TrySendPc
  <2>2. QED
    BY <1>13, <2>1, DrainMove DEF CreditReport, HTCProcessCreditRpt, Threads
<1>14. CASE HTCFlushEndpointTX \/ BusCompletes \/ UNCHANGED vars
  BY <1>14 DEF HTCFlushEndpointTX, BusCompletes, vars, threadVars, DrainInv,
               SingleDrainer, LockInv, Draining
<1>15. QED
  BY <1>1, <1>2, <1>3, <1>4, <1>5, <1>6, <1>7, <1>8, <1>9, <1>10, <1>11,
     <1>12, <1>13, <1>14
  DEF Next, ThreadStep, Quiescent

(* "beyond this point only 1 thread may enter" (HTCTrySend) holds for any  *)
(* number of senders: the busy test on TxProcessCount under HTCTxLock lets *)
(* one thread drain, also while HIF refuses transfers.                     *)
THEOREM DrainsAlone == Spec => []SingleDrainer
<1>1. Init => TypeInv /\ DrainInv
  BY TypeInit, DrainInit
<1>2. TypeInv /\ DrainInv /\ [Next]_vars => (TypeInv /\ DrainInv)'
  BY TypeStep, DrainStep
<1>3. TypeInv /\ DrainInv => SingleDrainer
  BY DEF DrainInv
<1>4. QED
  BY <1>1, <1>2, <1>3, PTL DEF Spec

-----------------------------------------------------------------------------
(* While HIF accepts transfers, no thread is on the way back from a        *)
(* failed one.                                                             *)
NothingFailed == \A t \in Threads : pc[t] \notin {"requeue", "single"}

(* The invariant behind the flow control: as long as nothing failed, the   *)
(* credits add up and no affordable packet is left alone.                  *)
FlowInv ==
    NothingFailed /\ CreditsConserved /\ charged >= 0 /\ NoStrandedPacket

(* Initially the host has all the credits and nothing is queued.           *)
LEMMA FlowInit == Init => FlowInv
  BY SizeAssumption
  DEF Init, FlowInv, NothingFailed, CreditsConserved, NoStrandedPacket

(* As long as HIFSend_head accepts every transfer, no thread comes to the  *)
(* requeue path.                                                           *)
LEMMA NothingFailedStep ==
    TypeInv /\ NothingFailed /\ ~HIFSendCanFail /\ [Next]_vars
        => NothingFailed'
<1> SUFFICES ASSUME TypeInv, NothingFailed, ~HIFSendCanFail, [Next]_vars
             PROVE  NothingFailed'
  OBVIOUS
<1>0. pc \in [Threads -> PcValues]
  BY DEF TypeInv, TypeOK
<1>1. CASE \E t \in Senders, p \in Packets : HTCSendPkt(t, p)
  BY <1>0, <1>1 DEF HTCSendPkt, NothingFailed
<1>2. CASE \E t \in Threads : ThreadStep(t)
  <2>1. PICK t \in Threads : ThreadStep(t)
    BY <1>2
  <2>2. ~HIFSendFails(t) /\ ~HTCSendBundledNetbufFails(t) /\ ~Requeue(t)
    BY DEF HIFSendFails, HTCSendBundledNetbufFails, Requeue, NothingFailed
  <2>3. pc' = pc \/ \E next \in PcValues \ {"requeue", "single"} :
                       pc' = [pc EXCEPT ![t] = next]
    BY <2>1, <2>2
    DEF ThreadStep, CheckOverflow, TrySendPc, RejectPacket, ReadResources,
        EnterTrySend, GetHTCSendPacketsCreditBased, GetHTCSendPackets, EndGet,
        HTCIssuePacketsBundle, IssueSingle, StartTransfer, HIFSendOk, Reread,
        Relock, PcValues
  <2>4. QED
    BY <1>0, <2>3 DEF NothingFailed
<1>3. CASE HTCTxCompletionHandler
  BY <1>0, <1>3 DEF HTCTxCompletionHandler, AfterCompletionPc, NothingFailed
<1>4. CASE CreditReport
  BY <1>0, <1>4 DEF CreditReport, HTCProcessCreditRpt, TrySendPc, NothingFailed
<1>5. CASE HTCFlushEndpointTX \/ BusCompletes \/ UNCHANGED vars
  BY <1>5 DEF HTCFlushEndpointTX, BusCompletes, vars, threadVars,
              NothingFailed
<1>6. QED
  BY <1>1, <1>2, <1>3, <1>4, <1>5 DEF Next, Quiescent

(* Charging a packet moves credits from the host to the packet, the bus    *)
(* moves them to the target, a report moves them back.                     *)
LEMMA CreditStep ==
    TypeInv /\ FlowInv /\ ~HIFSendCanFail /\ [Next]_vars
        => CreditsConserved' /\ (charged >= 0)'
<1> SUFFICES ASSUME TypeInv, FlowInv, ~HIFSendCanFail, [Next]_vars
             PROVE  CreditsConserved' /\ (charged >= 0)'
  OBVIOUS
<1>0. /\ TxCredits \in Int /\ charged \in Int /\ targetCredits \in Int
      /\ TotalCredits \in Nat
      /\ TxCredits + charged + targetCredits = TotalCredits
      /\ TxCredits >= 0 /\ targetCredits >= 0 /\ charged >= 0
  BY SizeAssumption DEF TypeInv, TypeOK, FlowInv, CreditsConserved
<1>1. ASSUME NEW t \in Threads, GetHTCSendPacketsCreditBased(t)
      PROVE  CreditsConserved' /\ (charged >= 0)'
  <2> DEFINE p == Head(TxQueue)
  <2>1. TxQueue \in Seq(Packets)
    BY DEF TypeInv, TypeOK
  <2>2. TxQueue # <<>>
    BY <1>1 DEF GetHTCSendPacketsCreditBased, CanGet
  <2>3. p \in Packets
    BY <2>1, <2>2, HeadTailProperties
  <2>4. CreditsRequired(p) \in Nat
    BY <2>3, CreditsRequiredNat
  <2>5. /\ TxCredits >= CreditsRequired(p)
        /\ TxCredits' = TxCredits - CreditsRequired(p)
        /\ charged' = charged + CreditsRequired(p)
        /\ UNCHANGED targetCredits
    BY <1>1 DEF GetHTCSendPacketsCreditBased, CanGet, CreditsAfter, busVars
  <2> HIDE DEF p
  <2>6. QED
    BY <1>0, <2>4, <2>5 DEF CreditsConserved
<1>2. CASE CreditReport
  <2>1. PICK n \in 1..TotalCredits :
          /\ n <= targetCredits
          /\ targetCredits' = targetCredits - n
          /\ TxCredits' = TxCredits + n
          /\ UNCHANGED charged
    BY <1>2 DEF CreditReport, HTCProcessCreditRpt
  <2>2. QED
    BY <1>0, <2>1 DEF CreditsConserved
<1>3. CASE BusCompletes
  <2>1. PICK c \in 0..charged : /\ targetCredits' = targetCredits + c
                                /\ charged' = charged - c
                                /\ UNCHANGED TxCredits
    BY <1>3 DEF BusCompletes
  <2>2. QED
    BY <1>0, <2>1 DEF CreditsConserved
<1>4. CASE UNCHANGED <<TxCredits, charged, targetCredits>>
  BY <1>0, <1>4 DEF CreditsConserved
<1>5. ASSUME NEW t \in Threads, ThreadStep(t)
      PROVE  CreditsConserved' /\ (charged >= 0)'
  <2>1. ~HIFSendFails(t) /\ ~HTCSendBundledNetbufFails(t) /\ ~Requeue(t)
    BY DEF HIFSendFails, HTCSendBundledNetbufFails, Requeue, FlowInv,
           NothingFailed
  <2>2. \/ GetHTCSendPacketsCreditBased(t)
        \/ UNCHANGED <<TxCredits, charged, targetCredits>>
    BY <1>5, <2>1
    DEF ThreadStep, CheckOverflow, RejectPacket, ReadResources, EnterTrySend,
        GetHTCSendPackets, EndGet, HTCIssuePacketsBundle, IssueSingle,
        StartTransfer, HIFSendOk, Reread, Relock, busVars
  <2>3. QED
    BY <1>1, <1>4, <2>2
<1>6. CASE HTCTxCompletionHandler \/ HTCFlushEndpointTX \/ UNCHANGED vars
  BY <1>4, <1>6 DEF HTCTxCompletionHandler, HTCFlushEndpointTX, vars, busVars
<1>7. ASSUME NEW t \in Senders, NEW p \in Packets, HTCSendPkt(t, p)
      PROVE  CreditsConserved' /\ (charged >= 0)'
  BY <1>4, <1>7 DEF HTCSendPkt, busVars
<1>8. QED
  BY <1>2, <1>3, <1>5, <1>6, <1>7 DEF Next, Quiescent

(* A step that touches neither TxQueue nor the credits nor the count, and  *)
(* takes no thread away from the lock, strands nothing.                    *)
LEMMA WakeUnchanged ==
    ASSUME TypeInv, NoStrandedPacket,
           UNCHANGED <<TxQueue, TxCredits, TxProcessCount>>,
           \A t \in Threads : pc[t] = "lock" => pc'[t] = "lock"
    PROVE  NoStrandedPacket'
  BY DEF NoStrandedPacket, CreditsRequired

(* The drainer looks at TxQueue again before it clears TxProcessCount, and *)
(* whoever adds a packet or credits either sees that nobody drains or      *)
(* leaves the packet to the drainer.                                       *)
LEMMA WakeStep ==
    TypeInv /\ DrainInv /\ FlowInv /\ ~HIFSendCanFail /\ [Next]_vars
        => NoStrandedPacket'
<1> SUFFICES ASSUME TypeInv, DrainInv, FlowInv, ~HIFSendCanFail, [Next]_vars
             PROVE  NoStrandedPacket'
  OBVIOUS
<1>0. /\ pc \in [Threads -> PcValues] /\ TxProcessCount \in {0, 1}
      /\ NoStrandedPacket
  BY DEF TypeInv, TypeOK, FlowInv
<1>1. DrainInv'
  BY DrainStep
<1>2. ASSUME NEW t \in Threads, Draining(t)'
      PROVE  NoStrandedPacket'
  <2>1. TxProcessCount' = 1
    BY <1>1, <1>2 DEF DrainInv, SingleDrainer
  <2>2. QED
    BY <2>1 DEF NoStrandedPacket
<1>3. ASSUME NEW t \in Senders, NEW p \in Packets, HTCSendPkt(t, p)
      PROVE  NoStrandedPacket'
  BY <1>0, <1>3, WakeUnchanged DEF HTCSendPkt, Threads
<1>4. ASSUME NEW t \in Threads,
             CheckOverflow(t) \/ RejectPacket(t) \/ ReadResources(t)
      PROVE  NoStrandedPacket'
  <2>1. pc[t] # "lock" /\ UNCHANGED <<TxQueue, TxCredits, TxProcessCount>>
    BY <1>4 DEF CheckOverflow, RejectPacket, ReadResources
  <2>2. \A u \in Threads : u # t => pc'[u] = pc[u]
    BY <1>0, <1>4 DEF CheckOverflow, RejectPacket, ReadResources
  <2>3. QED
    BY <1>0, <2>1, <2>2, WakeUnchanged
<1>5. ASSUME NEW t \in Threads, EnterTrySend(t)
      PROVE  NoStrandedPacket'
  <2>1. TxProcessCount' = 1
    BY <1>0, <1>5 DEF EnterTrySend, Busy
  <2>2. QED
    BY <2>1 DEF NoStrandedPacket
<1>6. ASSUME NEW t \in Threads, EndGet(t)
      PROVE  NoStrandedPacket'
  <2>1. CASE sendQueue[t] # <<>>
    <3>1. Draining(t)'
      BY <1>0, <1>6, <2>1 DEF EndGet, Draining, DrainPcs
    <3>2. QED
      BY <1>2, <3>1
  <2>2. CASE sendQueue[t] = <<>>
    <3>1. UNCHANGED <<TxQueue, TxCredits>>
      BY <1>6 DEF EndGet
    <3>2. TxCreditFlowEnabled /\ TxQueue # <<>>
              => ~(TxCredits >= CreditsRequired(Head(TxQueue)))
      BY <1>6 DEF EndGet, CanGet
    <3>3. TxQueue # <<>> => /\ Head(TxQueue) \in Packets
                            /\ CreditsRequired(Head(TxQueue)) \in Nat
      BY HeadTailProperties, CreditsRequiredNat DEF TypeInv, TypeOK
    <3>4. TxCredits \in Int
      BY DEF TypeInv, TypeOK
    <3>5. TxCreditFlowEnabled /\ TxQueue # <<>>
              => TxCredits < CreditsRequired(Head(TxQueue))
      BY <3>2, <3>3, <3>4
    <3>6. QED
      BY <3>1, <3>5 DEF NoStrandedPacket, CreditsRequired
  <2>3. QED
    BY <2>1, <2>2
<1>7. ASSUME NEW t \in Threads,
             \/ GetHTCSendPacketsCreditBased(t) \/ GetHTCSendPackets(t)
             \/ HTCIssuePacketsBundle(t) \/ IssueSingle(t) \/ HIFSendOk(t)
             \/ Reread(t) \/ Relock(t)
      PROVE  NoStrandedPacket'
  <2>1. Draining(t)'
    BY <1>0, <1>7
    DEF GetHTCSendPacketsCreditBased, GetHTCSendPackets,
        HTCIssuePacketsBundle, IssueSingle, StartTransfer, HIFSendOk, Reread,
        Relock, Draining, DrainPcs
  <2>2. QED
    BY <1>2, <2>1
<1>8. ASSUME NEW t \in Threads,
             \/ HIFSendFails(t) \/ HTCSendBundledNetbufFails(t) \/ Requeue(t)
      PROVE  NoStrandedPacket'
  BY <1>8 DEF HIFSendFails, HTCSendBundledNetbufFails, Requeue, FlowInv,
              NothingFailed
<1>9. CASE HTCTxCompletionHandler
  <2>1. \A u \in Threads : pc[u] = "lock" => pc'[u] = "lock"
    BY <1>0, <1>9 DEF HTCTxCompletionHandler
  <2>2. QED
    BY <1>0, <1>9, <2>1, WakeUnchanged DEF HTCTxCompletionHandler
<1>10. CASE CreditReport
  <2>1. PICK n \in 1..TotalCredits : HTCProcessCreditRpt(n)
    BY <1>10 DEF CreditReport
  <2>2. TxCredits + n > 0
    <3>1. TxCredits \in Int /\ TxCredits >= 0 /\ TotalCredits \in Nat
      BY SizeAssumption DEF TypeInv, TypeOK, FlowInv, CreditsConserved
    <3>2. QED
      BY <3>1
  <2>3. CASE TxCreditFlowEnabled /\ TxQueue # <<>>
    <3>1. pc'[RxThread] = "lock"
      BY <1>0, <2>1, <2>2, <2>3
      DEF HTCProcessCreditRpt, RecheckAfterReport, TrySendPc, Threads
    <3>2. QED
      BY <3>1 DEF NoStrandedPacket, Threads
  <2>4. CASE ~(TxCreditFlowEnabled /\ TxQueue # <<>>)
    BY <2>1, <2>4 DEF HTCProcessCreditRpt, NoStrandedPacket
  <2>5. QED
    BY <2>3, <2>4
<1>11. CASE HTCFlushEndpointTX
  BY <1>11 DEF HTCFlushEndpointTX, NoStrandedPacket
<1>12. CASE BusCompletes \/ UNCHANGED vars
  BY <1>0, <1>12, WakeUnchanged DEF BusCompletes, vars, threadVars
<1>13. QED
  BY <1>3, <1>4, <1>5, <1>6, <1>7, <1>8, <1>9, <1>10, <1>11, <1>12
  DEF Next, ThreadStep, Quiescent

(* All three parts together.                                               *)
LEMMA FlowStep ==
    TypeInv /\ DrainInv /\ FlowInv /\ ~HIFSendCanFail /\ [Next]_vars
        => (TypeInv /\ DrainInv /\ FlowInv)'
  BY TypeStep, DrainStep, NothingFailedStep, CreditStep, WakeStep DEF FlowInv

(* Under the assumption the code states ("we assume that the HIF layer     *)
(* will always have bus resources"), no credit is made or lost for any     *)
(* number of packets, threads and credits.                                 *)
THEOREM CreditsAreConserved ==
    Spec /\ [](~HIFSendCanFail) => []CreditsConserved
<1>1. Init => TypeInv /\ DrainInv /\ FlowInv
  BY TypeInit, DrainInit, FlowInit
<1>2. FlowInv => CreditsConserved
  BY DEF FlowInv
<1>3. QED
  BY <1>1, <1>2, FlowStep, PTL DEF Spec

(* Under the same assumption no wakeup is lost: a packet that can be paid  *)
(* for never stays in TxQueue with nobody draining or about to.            *)
THEOREM NoWakeupIsLost ==
    Spec /\ [](~HIFSendCanFail) => []NoStrandedPacket
<1>1. Init => TypeInv /\ DrainInv /\ FlowInv
  BY TypeInit, DrainInit, FlowInit
<1>2. FlowInv => NoStrandedPacket
  BY DEF FlowInv
<1>3. QED
  BY <1>1, <1>2, FlowStep, PTL DEF Spec

-----------------------------------------------------------------------------
(* The refinement of HtcPipe.  Beside who owns which packet and who drains *)
(* it needs what the threads have in hand: a caller hands in one packet at *)
(* a time, and netbuf is empty outside HIFSend_head.                       *)

HandInv ==
    \A t \in Threads :
        /\ pc[t] \in {"depth", "reject"} =>
              \E p \in Packets : pCallersSendQueue[t] = <<p>>
        /\ pc[t] \in {"resources", "lock"} =>
              sendQueue[t] = <<>> \/ \E p \in Packets : sendQueue[t] = <<p>>
        /\ pc[t] \notin SendPcs => netbuf[t] = <<>>

RefInv == TypeInv /\ DrainInv /\ OwnInv /\ LookupInv /\ HandInv

(* A step of one thread t, which keeps its packets or ends up in a place   *)
(* where nothing is asked of them.                                         *)
LEMMA HandMove ==
    ASSUME HandInv, NEW t \in Threads, NEW v,
           \A u \in Threads : u # t =>
              /\ pc'[u] = pc[u] /\ netbuf'[u] = netbuf[u]
              /\ sendQueue'[u] = sendQueue[u]
              /\ pCallersSendQueue'[u] = pCallersSendQueue[u],
           pc'[t] = v,
           v \in {"depth", "reject"} =>
              \E p \in Packets : pCallersSendQueue'[t] = <<p>>,
           v \in {"resources", "lock"} =>
              sendQueue'[t] = <<>> \/ \E p \in Packets : sendQueue'[t] = <<p>>,
           v \notin SendPcs => netbuf'[t] = <<>>
    PROVE  HandInv'
<1> SUFFICES ASSUME NEW u \in Threads
             PROVE  /\ pc'[u] \in {"depth", "reject"} =>
                          \E p \in Packets : pCallersSendQueue'[u] = <<p>>
                    /\ pc'[u] \in {"resources", "lock"} =>
                          \/ sendQueue'[u] = <<>>
                          \/ \E p \in Packets : sendQueue'[u] = <<p>>
                    /\ pc'[u] \notin SendPcs => netbuf'[u] = <<>>
  BY DEF HandInv
<1>1. CASE u = t
  BY <1>1
<1>2. CASE u # t
  BY <1>2 DEF HandInv
<1> QED
  BY <1>1, <1>2

LEMMA HandStep ==
    ASSUME TypeInv, OwnInv, HandInv, [Next]_vars
    PROVE  HandInv'
<1>0. /\ pc \in [Threads -> PcValues]
      /\ sendQueue \in [Threads -> Seq(Packets)]
      /\ pCallersSendQueue \in [Threads -> Seq(Packets)]
      /\ netbuf \in [Threads -> Seq(Packets)]
  BY DEF TypeInv, TypeOK
<1> USE DEF SendPcs, threadVars, busVars
<1>1. ASSUME NEW t \in Senders, NEW p \in Packets, HTCSendPkt(t, p)
      PROVE  HandInv'
  <2>1. /\ t \in Threads /\ netbuf'[t] = <<>> /\ pc'[t] = "depth"
        /\ pCallersSendQueue'[t] = <<p>>
    BY <1>0, <1>1 DEF HTCSendPkt, Threads, HandInv
  <2> QED
    BY <1>0, <1>1, <2>1, HandMove DEF HTCSendPkt
<1>2. ASSUME NEW t \in Threads, CheckOverflow(t)
      PROVE  HandInv'
  <2>1. pc[t] = "depth" /\ netbuf[t] = <<>> /\ netbuf' = netbuf
    BY <1>2 DEF CheckOverflow, HandInv
  <2>2. PICK p \in Packets : pCallersSendQueue[t] = <<p>>
    BY <2>1 DEF HandInv
  <2>3. \/ /\ sendQueue' = [sendQueue EXCEPT ![t] = <<p>>]
           /\ pCallersSendQueue' = [pCallersSendQueue EXCEPT ![t] = <<>>]
           /\ pc' = [pc EXCEPT ![t] = TrySendPc]
        \/ /\ pc' = [pc EXCEPT ![t] = "reject"]
           /\ UNCHANGED <<sendQueue, pCallersSendQueue>>
    BY <1>2, <2>2 DEF CheckOverflow
  <2>4. CASE pc' = [pc EXCEPT ![t] = "reject"]
             /\ UNCHANGED <<sendQueue, pCallersSendQueue>>
    <3>1. /\ pc'[t] = "reject" /\ netbuf'[t] = <<>>
          /\ pCallersSendQueue'[t] = <<p>>
      BY <1>0, <2>1, <2>2, <2>4
    <3>2. \A u \in Threads : u # t =>
             /\ pc'[u] = pc[u] /\ netbuf'[u] = netbuf[u]
             /\ sendQueue'[u] = sendQueue[u]
             /\ pCallersSendQueue'[u] = pCallersSendQueue[u]
      BY <1>0, <2>1, <2>4
    <3> QED
      BY <3>1, <3>2, HandMove
  <2>5. TrySendPc \in {"lock", "resources"}
    BY DEF TrySendPc
  <2> QED
    BY <1>0, <2>1, <2>3, <2>4, <2>5, HandMove
<1>3. ASSUME NEW t \in Threads, RejectPacket(t)
      PROVE  HandInv'
  <2>1. netbuf'[t] = <<>> /\ pc'[t] = "idle"
    BY <1>0, <1>3 DEF RejectPacket, HandInv
  <2> QED
    BY <1>0, <1>3, <2>1, HandMove DEF RejectPacket
<1>4. ASSUME NEW t \in Threads, ReadResources(t)
      PROVE  HandInv'
  <2>1. netbuf'[t] = <<>> /\ pc'[t] = "lock"
        /\ (sendQueue'[t] = <<>> \/ \E p \in Packets : sendQueue'[t] = <<p>>)
    BY <1>0, <1>4 DEF ReadResources, HandInv
  <2> QED
    BY <1>0, <1>4, <2>1, HandMove DEF ReadResources
<1>5. ASSUME NEW t \in Threads,
             \/ EnterTrySend(t) \/ EndGet(t) \/ Requeue(t) \/ Reread(t)
             \/ Relock(t)
      PROVE  HandInv'
  <2>1. netbuf'[t] = <<>> /\ pc'[t] \in {"idle", "get", "issue", "relock"}
    BY <1>0, <1>5 DEF EnterTrySend, EndGet, Requeue, Reread, Relock, HandInv
  <2> QED
    BY <1>0, <1>5, <2>1, HandMove
    DEF EnterTrySend, EndGet, Requeue, Reread, Relock
<1>6. ASSUME NEW t \in Threads,
             GetHTCSendPacketsCreditBased(t) \/ GetHTCSendPackets(t)
      PROVE  HandInv'
  <2>1. netbuf'[t] = <<>> /\ pc'[t] = "get"
    BY <1>0, <1>6 DEF GetHTCSendPacketsCreditBased, GetHTCSendPackets, HandInv
  <2> QED
    BY <1>0, <1>6, <2>1, HandMove
    DEF GetHTCSendPacketsCreditBased, GetHTCSendPackets
<1>7. ASSUME NEW t \in Threads, HTCIssuePacketsBundle(t) \/ IssueSingle(t)
      PROVE  HandInv'
  <2>1. PICK v \in SendPcs : \E k \in Nat : StartTransfer(t, k, v)
    BY <1>7 DEF HTCIssuePacketsBundle, IssueSingle
  <2>2. pc'[t] = v
    BY <1>0, <2>1 DEF StartTransfer
  <2> QED
    BY <1>0, <2>1, <2>2, HandMove DEF StartTransfer
<1>8. ASSUME NEW t \in Threads,
             HIFSendOk(t) \/ HIFSendFails(t) \/ HTCSendBundledNetbufFails(t)
      PROVE  HandInv'
  <2>1. netbuf'[t] = <<>> /\ pc'[t] \in {"issue", "requeue", "single"}
    BY <1>0, <1>8 DEF HIFSendOk, HIFSendFails, HTCSendBundledNetbufFails
  <2> QED
    BY <1>0, <1>8, <2>1, HandMove
    DEF HIFSendOk, HIFSendFails, HTCSendBundledNetbufFails
<1>9. ASSUME NEW t \in Threads, NEW v \in PcValues \ SendPcs,
             pc[t] = "idle", pc' = [pc EXCEPT ![t] = v],
             v \notin {"depth", "reject"},
             UNCHANGED <<pCallersSendQueue, sendQueue, netbuf>>
      PROVE  HandInv'
  <2>1. sendQueue[t] = <<>> /\ netbuf[t] = <<>>
    BY <1>9 DEF OwnInv, EmptyInv, HasLocals, HandInv
  <2> QED
    BY <1>0, <1>9, <2>1, HandMove
<1>10. CASE HTCTxCompletionHandler
  <2>1. PICK v \in {"idle", "resources"} :
           pc' = [pc EXCEPT ![CompThread] = v]
    BY <1>10 DEF HTCTxCompletionHandler, AfterCompletionPc
  <2> QED
    BY <1>9, <1>10, <2>1 DEF HTCTxCompletionHandler, Threads, PcValues
<1>11. CASE CreditReport
  <2>1. PICK n \in 1..TotalCredits : HTCProcessCreditRpt(n)
    BY <1>11 DEF CreditReport
  <2>2. PICK v \in {"idle", "lock", "resources"} :
           pc' = [pc EXCEPT ![RxThread] = v]
    BY <2>1 DEF HTCProcessCreditRpt, TrySendPc
  <2> QED
    BY <1>9, <2>1, <2>2 DEF HTCProcessCreditRpt, Threads, PcValues
<1>12. CASE HTCFlushEndpointTX \/ BusCompletes \/ UNCHANGED vars
  BY <1>12 DEF HTCFlushEndpointTX, BusCompletes, vars, HandInv
<1> QED
  BY <1>1, <1>2, <1>3, <1>4, <1>5, <1>6, <1>7, <1>8, <1>10, <1>11, <1>12
  DEF Next, ThreadStep, Quiescent

LEMMA RefInit == Init => RefInv
<1>1. Init => HandInv
  BY DEF Init, HandInv
<1> QED
  BY <1>1, TypeInit, DrainInit, SearchInit DEF RefInv

LEMMA RefStep == RefInv /\ [Next]_vars => RefInv'
BY TypeStep, DrainStep, OwnStep, HandStep DEF RefInv

(* Cutting a joined queue where it was joined.                             *)
LEMMA CutConcat ==
    ASSUME NEW S, NEW a \in Seq(S), NEW b \in Seq(S)
    PROVE  /\ SubSeq(a \o b, 1, Len(a)) = a
           /\ SubSeq(a \o b, Len(a) + 1, Len(a \o b)) = b
<1> DEFINE c == a \o b
           m == Len(a)
           n == Len(b)
           f == SubSeq(c, 1, m)
           r == SubSeq(c, m + 1, m + n)
<1>1. /\ m \in Nat /\ n \in Nat /\ c \in Seq(S) /\ Len(c) = m + n
      /\ \A i \in 1..(m + n) : c[i] = IF i <= m THEN a[i] ELSE b[i - m]
      /\ \A i \in 1..(m + n) : c[i] \in S
  BY ConcatProperties, LenProperties, ElementOfSeq
<1> HIDE DEF c, m, n
<1>2. /\ f \in Seq(S) /\ Len(f) = IF 1 <= m THEN m - 1 + 1 ELSE 0
      /\ \A i \in 1..(m - 1 + 1) : f[i] = c[1 + i - 1]
  <2>1. 1 \in Int /\ m \in Int /\ \A i \in 1..m : c[i] \in S
    BY <1>1
  <2> QED
    BY <2>1, SubSeqProperties
<1>3. /\ r \in Seq(S) /\ Len(r) = n
      /\ \A i \in 1..n : r[i] = c[m + i]
  <2> DEFINE k == m + 1
             l == m + n
  <2>1. k \in Int /\ l \in Int /\ \A i \in k..l : c[i] \in S
    BY <1>1
  <2>2. r = SubSeq(c, k, l) /\ k = m + 1 /\ l = m + n
    OBVIOUS
  <2> HIDE DEF k, l, r
  <2>3. /\ SubSeq(c, k, l) \in Seq(S)
        /\ Len(SubSeq(c, k, l)) = IF k <= l THEN l - k + 1 ELSE 0
        /\ \A i \in 1..(l - k + 1) : SubSeq(c, k, l)[i] = c[k + i - 1]
    BY <2>1, SubSeqProperties
  <2>4. l - k + 1 = n /\ \A i \in 1..n : k + i - 1 = m + i
    BY <1>1, <2>2
  <2>5. (IF k <= l THEN l - k + 1 ELSE 0) = n
    BY <1>1, <2>2
  <2> QED
    BY <2>2, <2>3, <2>4, <2>5
<1> HIDE DEF f, r
<1>4. f = a
  <2>1. Len(f) = Len(a) /\ \A i \in 1..Len(f) : f[i] = a[i]
    BY <1>1, <1>2 DEF m
  <2> QED
    BY <1>2, <2>1, SeqEqual
<1>5. r = b
  <2>1. Len(r) = Len(b) /\ \A i \in 1..Len(r) : r[i] = b[i]
    <3>1. Len(r) = n /\ n = Len(b)
      BY <1>1, <1>3 DEF n
    <3>2. \A i \in 1..n : r[i] = b[i]
      BY <1>1, <1>3
    <3> QED
      BY <3>1, <3>2
  <2> QED
    BY <1>3, <2>1, SeqEqual
<1> QED
  BY <1>1, <1>4, <1>5 DEF f, r, c, m

(* What is in hand: the packets of the one thread that drains, or none.    *)
LEMMA HandOf ==
    ASSUME SingleDrainer, NEW t \in Threads, pc[t] \in DrainPcs
    PROVE  AllInHand = netbuf[t] \o sendQueue[t]
<1>1. \A u \in Threads : Draining(u) <=> u = t
  BY DEF SingleDrainer, Draining
<1>2. (CHOOSE u \in Threads : Draining(u)) = t
  BY <1>1
<1> QED
  BY <1>1, <1>2 DEF AllInHand, InHand

LEMMA HandOfNobody ==
    ASSUME \A t \in Threads : pc[t] \notin DrainPcs
    PROVE  AllInHand = <<>>
BY DEF AllInHand, Draining

LEMMA HandOfNext ==
    ASSUME SingleDrainer', NEW t \in Threads, pc'[t] \in DrainPcs
    PROVE  AllInHand' = netbuf'[t] \o sendQueue'[t]
<1>1. \A u \in Threads : Draining(u)' <=> u = t
  BY DEF SingleDrainer, Draining
<1>2. (CHOOSE u \in Threads : Draining(u)') = t
  BY <1>1
<1> QED
  BY <1>1, <1>2 DEF AllInHand, InHand

LEMMA HandOfNobodyNext ==
    ASSUME \A t \in Threads : pc'[t] \notin DrainPcs
    PROVE  AllInHand' = <<>>
BY DEF AllInHand, Draining

(* A thread that does not drain, before or after, changes nothing of it.   *)
LEMMA HandOfOther ==
    ASSUME SingleDrainer, SingleDrainer', NEW t \in Threads,
           pc[t] \notin DrainPcs, pc'[t] \notin DrainPcs,
           \A u \in Threads : u # t =>
              /\ pc'[u] = pc[u] /\ netbuf'[u] = netbuf[u]
              /\ sendQueue'[u] = sendQueue[u]
    PROVE  AllInHand' = AllInHand
<1>1. CASE \E u \in Threads : pc[u] \in DrainPcs
  <2>1. PICK u \in Threads : pc[u] \in DrainPcs
    BY <1>1
  <2>2. u # t /\ pc'[u] \in DrainPcs
    BY <2>1
  <2>3. AllInHand = netbuf[u] \o sendQueue[u]
    BY <2>1, HandOf
  <2>4. AllInHand' = netbuf'[u] \o sendQueue'[u]
    BY <2>2, HandOfNext
  <2> QED
    BY <2>2, <2>3, <2>4
<1>2. CASE \A u \in Threads : pc[u] \notin DrainPcs
  <2>1. \A u \in Threads : pc'[u] \notin DrainPcs
    BY <1>2
  <2> QED
    BY <1>2, <2>1, HandOfNobody, HandOfNobodyNext
<1> QED
  BY <1>1, <1>2

LEMMA HandType ==
    ASSUME RefInv
    PROVE  /\ AllInHand \in Seq(Packets)
           /\ \A p \in Elements(AllInHand) :
                 \/ \E u \in Threads : pc[u] \in DrainPcs /\ p \in Locals[u]
                 \/ \E x \in Transfers : p \in Elements(x)
<1>1. CASE \A t \in Threads : pc[t] \notin DrainPcs
  BY <1>1, HandOfNobody, EmptySeq, ElementsEmpty
<1>2. ASSUME NEW t \in Threads, pc[t] \in DrainPcs
      PROVE  /\ AllInHand \in Seq(Packets)
             /\ \A p \in Elements(AllInHand) :
                   \/ \E u \in Threads : pc[u] \in DrainPcs /\ p \in Locals[u]
                   \/ \E x \in Transfers : p \in Elements(x)
  <2> DEFINE n == netbuf[t]
             s == sendQueue[t]
  <2>1. AllInHand = n \o s
    BY <1>2, HandOf DEF RefInv, DrainInv
  <2>2. n \in Seq(Packets) /\ s \in Seq(Packets) /\ Locals[t] = Elements(s)
    BY DEF RefInv, TypeInv, TypeOK, Locals
  <2>3. n = <<>> \/ n \in Transfers
    BY DEF RefInv, HandInv, OwnInv, BusInv
  <2> HIDE DEF n, s
  <2>4. n \o s \in Seq(Packets) /\ Elements(n \o s) = Elements(n) \cup Elements(s)
    BY <2>2, ElementsConcat
  <2>5. Elements(n) = {} \/ n \in Transfers
    BY <2>3, ElementsEmpty
  <2> QED
    BY <1>2, <2>1, <2>2, <2>4, <2>5
<1> QED
  BY <1>1, <1>2

Waiting == AllInHand \o TxQueue
InFlight == Flatten(hifCompletions \o hif)

LEMMA FlightType ==
    ASSUME RefInv
    PROVE  /\ hifCompletions \o hif \in Seq(Seq(Packets))
           /\ InFlight \in Seq(Packets)
           /\ \A p \in Elements(InFlight) : \E x \in Transfers : p \in Elements(x)
<1> DEFINE a == hifCompletions
           b == hif
           q == a \o b
<1>1. /\ a \in Seq(Seq(Packets)) /\ b \in Seq(Seq(Packets))
      /\ Distinct(a) /\ Distinct(b)
      /\ Elements(a) \cap Elements(b) = {}
      /\ Elements(a) \subseteq Transfers /\ Elements(b) \subseteq Transfers
  BY DEF RefInv, OwnInv, QueueTypes, DistinctInv, BusInv
<1>2. InFlight = Flatten(q)
  BY DEF InFlight
<1>3. hifCompletions \o hif = q
  OBVIOUS
<1> HIDE DEF a, b
<1>4. /\ q \in Seq(Seq(Packets)) /\ Distinct(q)
      /\ Elements(q) = Elements(a) \cup Elements(b)
  BY <1>1, ElementsConcat
<1> HIDE DEF q
<1>5. Elements(q) \subseteq Transfers
  BY <1>1, <1>4
<1>6. /\ \A x \in Elements(q) : Distinct(x)
      /\ \A x, y \in Elements(q) : x # y => Elements(x) \cap Elements(y) = {}
  BY <1>5 DEF RefInv, OwnInv, DistinctInv, Placed, Places
<1>7. Elements(Flatten(q)) = UNION {Elements(x) : x \in Elements(q)}
  BY <1>4, <1>6, FlattenElements
<1>8. Flatten(q) \in Seq(Packets)
  BY <1>4, FlattenType
<1> QED
  BY <1>2, <1>3, <1>4, <1>5, <1>7, <1>8

(* A packet that a caller, or a thread on its way to TxQueue, still has is *)
(* one the pipe has neither accepted nor refused.                          *)
LEMMA StillOffered ==
    ASSUME RefInv, NEW t \in Threads, NEW p,
           p \in Callers[t] \/ (p \in Locals[t] /\ pc[t] \notin DrainPcs)
    PROVE  /\ p \in Packets /\ Status[p] = "pending"
           /\ p \notin Elements(Waiting \o InFlight)
<1> DEFINE h == AllInHand
           q == TxQueue
           f == InFlight
<1>1. /\ h \in Seq(Packets) /\ q \in Seq(Packets) /\ f \in Seq(Packets)
  BY HandType, FlightType DEF RefInv, TypeInv, TypeOK
<1>2. Waiting \o InFlight = (h \o q) \o f
  BY DEF Waiting
<1>3. Places(Elements(TxQueue), Callers, Locals, Transfers, Pending)
  BY DEF RefInv, OwnInv, Placed
<1>4. /\ p \notin Elements(TxQueue)
      /\ ~\E x \in Transfers : p \in Elements(x)
      /\ ~\E u \in Threads : pc[u] \in DrainPcs /\ p \in Locals[u]
  BY <1>3 DEF Places
<1>5. p \in Pending
  BY <1>3, PlacePending
<1>6. p \notin Elements(h) /\ p \notin Elements(q) /\ p \notin Elements(f)
  BY <1>4, HandType, FlightType
<1> HIDE DEF h, q, f
<1>7. h \o q \in Seq(Packets) /\ Elements(h \o q) = Elements(h) \cup Elements(q)
  BY <1>1, ElementsConcat
<1>8. Elements((h \o q) \o f) = Elements(h \o q) \cup Elements(f)
  <2> DEFINE w == h \o q
  <2>1. w \in Seq(Packets)
    BY <1>7
  <2> HIDE DEF w
  <2>2. Elements(w \o f) = Elements(w) \cup Elements(f)
    BY <1>1, <2>1, ElementsConcat
  <2> QED
    BY <2>2 DEF w
<1> QED
  BY <1>2, <1>5, <1>6, <1>7, <1>8 DEF Pending

LEMMA PipeElements == \A q : Pipe!Elements(q) = Elements(q)
BY DEF Pipe!Elements, Elements

(* The steps of the pipe, in terms of HtcSend.                             *)
LEMMA PipeStutters ==
    ASSUME UNCHANGED <<Waiting, InFlight, Status>>
    PROVE  UNCHANGED Pipe!vars
BY DEF Pipe!vars, Waiting, InFlight

LEMMA PipeSubmits ==
    ASSUME RefInv, NEW p \in Packets, Status[p] = "unsent",
           Status' = [Status EXCEPT ![p] = "pending"],
           UNCHANGED <<Waiting, InFlight>>
    PROVE  Pipe!Next
<1>1. Status \in [Packets -> {"unsent", "pending", "A_OK", "A_ECANCELED",
                              "A_NO_RESOURCE"}]
  BY DEF RefInv, TypeInv, TypeOK
<1>2. Pipe!Tell({p}, "pending")
  BY <1>1 DEF Pipe!Tell
<1>3. Pipe!Submit(p)
  BY <1>2 DEF Pipe!Submit, Waiting, InFlight
<1> QED
  BY <1>3 DEF Pipe!Next

LEMMA PipeAccepts ==
    ASSUME NEW p \in Packets, Status[p] = "pending",
           p \notin Elements(Waiting \o InFlight),
           Waiting' = Append(Waiting, p), UNCHANGED <<InFlight, Status>>
    PROVE  Pipe!Next
<1>1. Pipe!Offered(p)
  BY PipeElements DEF Pipe!Offered, Waiting, InFlight
<1>2. Pipe!Accept(p)
  BY <1>1 DEF Pipe!Accept, Waiting, InFlight
<1> QED
  BY <1>2 DEF Pipe!Next, Pipe!Answer

LEMMA PipeRefuses ==
    ASSUME NEW p \in Packets, Status[p] = "pending",
           p \notin Elements(Waiting \o InFlight),
           NEW result \in {"A_ECANCELED", "A_NO_RESOURCE"},
           Status' = Complete({p}, result),
           UNCHANGED <<Waiting, InFlight>>
    PROVE  Pipe!Next
<1>1. Pipe!Offered(p)
  BY PipeElements DEF Pipe!Offered, Waiting, InFlight
<1>2. Pipe!Tell({p}, result)
  BY DEF Pipe!Tell, Complete
<1>3. result \in Pipe!Results \ {"A_OK"}
  BY DEF Pipe!Results
<1>4. Pipe!Refuse(p)
  BY <1>1, <1>2, <1>3 DEF Pipe!Refuse, Waiting, InFlight
<1> QED
  BY <1>4 DEF Pipe!Next, Pipe!Answer

LEMMA PipeDeparts ==
    ASSUME NEW x \in Seq(Packets), NEW r \in Seq(Packets), x # <<>>,
           Waiting = x \o r, Waiting' = r, InFlight' = InFlight \o x,
           UNCHANGED Status
    PROVE  Pipe!Next
<1>1. /\ Len(x) \in 1..Len(Waiting)
      /\ SubSeq(Waiting, 1, Len(x)) = x
      /\ SubSeq(Waiting, Len(x) + 1, Len(Waiting)) = r
  <2>1. Len(x) \in Nat \ {0} /\ Len(r) \in Nat
    BY EmptySeq, LenProperties
  <2>2. Len(x \o r) = Len(x) + Len(r)
    BY ConcatProperties
  <2> QED
    BY <2>1, <2>2, CutConcat
<1>2. Pipe!Depart(Len(x))
  BY <1>1 DEF Pipe!Depart, Waiting, InFlight
<1>3. Pipe!Departs
  BY <1>1, <1>2 DEF Pipe!Departs, Waiting
<1> QED
  BY <1>3 DEF Pipe!Next

LEMMA PipeArrives ==
    ASSUME NEW x \in Seq(Packets), NEW r \in Seq(Packets), x # <<>>,
           InFlight = x \o r, InFlight' = r, UNCHANGED Waiting,
           Status' = Complete(Elements(x), "A_OK")
    PROVE  Pipe!Next
<1>1. /\ Len(x) \in 1..Len(InFlight)
      /\ SubSeq(InFlight, 1, Len(x)) = x
      /\ SubSeq(InFlight, Len(x) + 1, Len(InFlight)) = r
  <2>1. Len(x) \in Nat \ {0} /\ Len(r) \in Nat
    BY EmptySeq, LenProperties
  <2>2. Len(x \o r) = Len(x) + Len(r)
    BY ConcatProperties
  <2> QED
    BY <2>1, <2>2, CutConcat
<1>2. Pipe!Tell(Elements(x), "A_OK")
  BY DEF Pipe!Tell, Complete
<1>3. Pipe!Arrive(Len(x))
  BY <1>1, <1>2, PipeElements DEF Pipe!Arrive, Waiting, InFlight
<1>4. Pipe!Arrives
  BY <1>1, <1>3 DEF Pipe!Arrives, InFlight
<1> QED
  BY <1>4 DEF Pipe!Next

LEMMA PipeCancels ==
    ASSUME NEW h \in Seq(Packets), NEW q \in Seq(Packets), q # <<>>,
           Waiting = h \o q, Waiting' = h, UNCHANGED InFlight,
           Status' = Complete(Elements(q), "A_ECANCELED")
    PROVE  Pipe!Next
<1>1. /\ Len(h) \in 0..(Len(Waiting) - 1)
      /\ SubSeq(Waiting, 1, Len(h)) = h
      /\ SubSeq(Waiting, Len(h) + 1, Len(Waiting)) = q
  <2>1. Len(q) \in Nat \ {0} /\ Len(h) \in Nat
    BY EmptySeq, LenProperties
  <2>2. Len(h \o q) = Len(h) + Len(q)
    BY ConcatProperties
  <2> QED
    BY <2>1, <2>2, CutConcat
<1>2. Pipe!Tell(Elements(q), "A_ECANCELED")
  BY DEF Pipe!Tell, Complete
<1>3. Pipe!Cancel(Len(h))
  BY <1>1, <1>2, PipeElements DEF Pipe!Cancel, Waiting, InFlight
<1> QED
  BY <1>1, <1>3 DEF Pipe!Next, Waiting

(* The steps of a thread that does not drain: a packet is submitted, and   *)
(* accepted into TxQueue or refused.                                       *)
LEMMA OutsideRefines ==
    ASSUME RefInv, RefInv', NEW t \in Threads,
           \/ \E p \in Packets : HTCSendPkt(t, p)
           \/ CheckOverflow(t) \/ RejectPacket(t) \/ ReadResources(t)
    PROVE  [Pipe!Next]_(Pipe!vars)
<1>0. /\ pc \in [Threads -> PcValues]
      /\ sendQueue \in [Threads -> Seq(Packets)]
  BY DEF RefInv, TypeInv, TypeOK
<1>1. pc[t] \notin DrainPcs /\ pc'[t] \notin DrainPcs
  BY <1>0 DEF HTCSendPkt, CheckOverflow, RejectPacket, ReadResources, DrainPcs,
              TrySendPc
<1>2. \A u \in Threads : u # t => /\ pc'[u] = pc[u] /\ netbuf'[u] = netbuf[u]
                                  /\ sendQueue'[u] = sendQueue[u]
  BY <1>0 DEF HTCSendPkt, CheckOverflow, RejectPacket, ReadResources
<1>3. AllInHand' = AllInHand
  BY <1>1, <1>2, HandOfOther DEF RefInv, DrainInv
<1>4. UNCHANGED <<Waiting, InFlight>>
  BY <1>3 DEF Waiting, InFlight, HTCSendPkt, CheckOverflow, RejectPacket,
              ReadResources, busVars
<1>5. CASE \E p \in Packets : HTCSendPkt(t, p)
  BY <1>4, <1>5, PipeSubmits DEF HTCSendPkt
<1>6. CASE CheckOverflow(t) \/ ReadResources(t)
  BY <1>4, <1>6, PipeStutters DEF CheckOverflow, ReadResources
<1>7. CASE RejectPacket(t)
  <2>1. PICK p \in Packets : pCallersSendQueue[t] = <<p>>
    BY <1>7 DEF RejectPacket, RefInv, HandInv
  <2>2. Callers[t] = {p} /\ Elements(pCallersSendQueue[t]) = {p}
    BY <2>1, ElementsOne DEF Callers
  <2>3. Status[p] = "pending" /\ p \notin Elements(Waiting \o InFlight)
    BY <2>2, StillOffered
  <2>4. PICK result \in {"A_ECANCELED", "A_NO_RESOURCE"} :
           Status' = Complete({p}, result)
    BY <1>7, <2>2 DEF RejectPacket
  <2> QED
    BY <1>4, <2>3, <2>4, PipeRefuses
<1> QED
  BY <1>5, <1>6, <1>7

LEMMA EnterRefines ==
    ASSUME RefInv, RefInv', NEW t \in Threads, EnterTrySend(t)
    PROVE  [Pipe!Next]_(Pipe!vars)
<1> DEFINE h == AllInHand
           q == TxQueue
           s == sendQueue[t]
<1>0. /\ pc \in [Threads -> PcValues]
      /\ sendQueue \in [Threads -> Seq(Packets)]
      /\ netbuf \in [Threads -> Seq(Packets)]
      /\ TxProcessCount \in {0, 1}
      /\ SingleDrainer /\ SingleDrainer'
      /\ q \in Seq(Packets) /\ s \in Seq(Packets) /\ h \in Seq(Packets)
  BY HandType DEF RefInv, TypeInv, TypeOK, DrainInv
<1>1. pc[t] = "lock" /\ netbuf' = netbuf /\ netbuf[t] = <<>>
  BY DEF EnterTrySend, RefInv, HandInv, SendPcs
<1>2. \A u \in Threads : u # t => /\ pc'[u] = pc[u] /\ netbuf'[u] = netbuf[u]
                                  /\ sendQueue'[u] = sendQueue[u]
  BY <1>0, <1>1 DEF EnterTrySend
<1>3. AllInHand' = h
  <2>1. CASE Busy
    <3>1. pc'[t] = "idle"
      BY <1>0, <2>1 DEF EnterTrySend
    <3> QED
      BY <1>0, <1>1, <1>2, <3>1, HandOfOther DEF DrainPcs
  <2>2. CASE ~Busy
    <3>1. pc'[t] = "get" /\ sendQueue'[t] = <<>> /\ TxProcessCount = 0
      BY <1>0, <2>2 DEF EnterTrySend, Busy
    <3>2. \A u \in Threads : pc[u] \notin DrainPcs
      BY <1>0, <3>1 DEF SingleDrainer, Draining
    <3>3. AllInHand = <<>>
      BY <3>2, HandOfNobody
    <3>4. AllInHand' = <<>> \o <<>>
      BY <1>0, <1>1, <3>1, HandOfNext DEF DrainPcs
    <3>5. <<>> \o <<>> = <<>>
      BY ConcatEmptySeq, EmptySeq
    <3> QED
      BY <3>3, <3>4, <3>5
  <2> QED
    BY <2>1, <2>2
<1>4. TxQueue' = q \o s
  BY DEF EnterTrySend, HTC_PACKET_QUEUE_TRANSFER_TO_TAIL
<1>5. UNCHANGED <<InFlight, Status>>
  BY DEF EnterTrySend, busVars, InFlight
<1>6. Waiting = h \o q /\ Waiting' = h \o (q \o s)
  BY <1>3, <1>4 DEF Waiting
<1>7. CASE s = <<>>
  <2>1. q \o s = q
    BY <1>0, <1>7, ConcatEmptySeq
  <2> QED
    BY <1>5, <1>6, <2>1, PipeStutters
<1>8. CASE s # <<>>
  <2>1. PICK p \in Packets : s = <<p>>
    BY <1>1, <1>8 DEF RefInv, HandInv
  <2>2. p \in Locals[t] /\ "lock" \notin DrainPcs
    BY <2>1, ElementsOne DEF Locals, DrainPcs
  <2>3. Status[p] = "pending" /\ p \notin Elements(Waiting \o InFlight)
    BY <1>1, <2>2, StillOffered
  <2>4. Waiting' = Append(Waiting, p)
    <3> HIDE DEF h, q, s
    <3>1. (h \o q) \o s = h \o (q \o s)
      BY <1>0, ConcatAssociative, SMTT(30)
    <3>2. h \o q \in Seq(Packets)
      BY <1>0, ConcatProperties
    <3>3. Append(h \o q, p) = (h \o q) \o <<p>>
      BY <3>2, AppendIsConcat
    <3> QED
      BY <1>6, <2>1, <3>1, <3>3
  <2> QED
    BY <1>5, <2>3, <2>4, PipeAccepts
<1> QED
  BY <1>7, <1>8

(* A step of the drainer that only moves packets between its hands and     *)
(* TxQueue, keeping their order, is no step of the pipe.                   *)
LEMMA MoveRefines ==
    ASSUME RefInv, RefInv', NEW t \in Threads, pc[t] \in DrainPcs,
           pc'[t] \in DrainPcs,
           (netbuf'[t] \o sendQueue'[t]) \o TxQueue'
              = (netbuf[t] \o sendQueue[t]) \o TxQueue,
           UNCHANGED <<hif, hifCompletions, Status>>
    PROVE  [Pipe!Next]_(Pipe!vars)
<1>1. AllInHand = netbuf[t] \o sendQueue[t]
  BY HandOf DEF RefInv, DrainInv
<1>2. AllInHand' = netbuf'[t] \o sendQueue'[t]
  BY HandOfNext DEF RefInv, DrainInv
<1>3. UNCHANGED <<Waiting, InFlight, Status>>
  BY <1>1, <1>2 DEF Waiting, InFlight
<1> QED
  BY <1>3, PipeStutters

(* Nor is the end of draining, with the packets in hand back in TxQueue.   *)
LEMMA StopRefines ==
    ASSUME RefInv, RefInv', NEW t \in Threads, pc[t] \in DrainPcs,
           pc' = [pc EXCEPT ![t] = "idle"], netbuf[t] = <<>>,
           TxQueue' = sendQueue[t] \o TxQueue,
           UNCHANGED <<hif, hifCompletions, Status>>
    PROVE  [Pipe!Next]_(Pipe!vars)
<1>0. pc \in [Threads -> PcValues] /\ SingleDrainer
      /\ sendQueue[t] \in Seq(Packets) /\ TxQueue' \in Seq(Packets)
  BY DEF RefInv, DrainInv, TypeInv, TypeOK
<1>1. AllInHand = sendQueue[t]
  BY <1>0, HandOf, ConcatEmptySeq
<1>2. \A u \in Threads : pc'[u] \notin DrainPcs
  BY <1>0 DEF SingleDrainer, Draining, DrainPcs
<1>3. AllInHand' = <<>>
  BY <1>2, HandOfNobodyNext
<1>4. Waiting' = TxQueue'
  BY <1>0, <1>3, ConcatEmptySeq DEF Waiting
<1>5. UNCHANGED <<Waiting, InFlight, Status>>
  BY <1>1, <1>4 DEF Waiting, InFlight
<1> QED
  BY <1>5, PipeStutters

(* The first packet of two joined queues is that of the first one.         *)
LEMMA HeadTailConcat ==
    ASSUME NEW S, NEW a \in Seq(S), NEW b \in Seq(S), a # <<>>
    PROVE  Head(a \o b) = Head(a) /\ Tail(a \o b) = Tail(a) \o b
<1> DEFINE c == a \o b
           u == Tail(a)
           d == u \o b
           e == Tail(c)
           m == Len(a)
           n == Len(b)
<1>1. /\ m \in Nat \ {0} /\ n \in Nat /\ c \in Seq(S) /\ Len(c) = m + n
      /\ \A i \in 1..(m + n) : c[i] = IF i <= m THEN a[i] ELSE b[i - m]
  BY ConcatProperties, LenProperties, EmptySeq
<1>2. /\ u \in Seq(S) /\ Len(u) = m - 1
      /\ \A i \in 1..(m - 1) : u[i] = a[i + 1]
      /\ Head(a) = a[1]
  BY HeadTailProperties
<1>3. c # <<>>
  BY <1>1, EmptySeq
<1> HIDE DEF c, u
<1>4. /\ e \in Seq(S) /\ Len(e) = Len(c) - 1
      /\ \A i \in 1..Len(e) : e[i] = c[i + 1]
      /\ Head(c) = c[1]
  BY <1>1, <1>3, HeadTailProperties
<1>5. /\ d \in Seq(S) /\ Len(d) = Len(u) + n
      /\ \A i \in 1..(Len(u) + n) :
            d[i] = IF i <= Len(u) THEN u[i] ELSE b[i - Len(u)]
  BY <1>2, ConcatProperties
<1> HIDE DEF d, e, m, n
<1>6. c[1] = a[1]
  BY <1>1
<1>7. Len(e) = m + n - 1 /\ Len(d) = m + n - 1
  BY <1>1, <1>2, <1>4, <1>5
<1>8. ASSUME NEW i \in 1..(m + n - 1) PROVE e[i] = d[i]
  <2>1. i \in Nat /\ i + 1 \in 1..(m + n) /\ e[i] = c[i + 1]
    BY <1>1, <1>4, <1>7
  <2>2. CASE i <= m - 1
    <3>1. i + 1 <= m /\ i \in 1..(m - 1)
      BY <1>1, <2>1, <2>2
    <3>2. c[i + 1] = a[i + 1]
      BY <1>1, <2>1, <3>1
    <3>3. d[i] = u[i] /\ u[i] = a[i + 1]
      BY <1>1, <1>2, <1>5, <3>1
    <3> QED
      BY <2>1, <3>2, <3>3
  <2>3. CASE ~(i <= m - 1)
    <3>1. ~(i + 1 <= m) /\ i + 1 - m = i - (m - 1)
      BY <1>1, <2>1, <2>3
    <3>2. c[i + 1] = b[i + 1 - m]
      BY <1>1, <2>1, <3>1
    <3>3. d[i] = b[i - (m - 1)]
      BY <1>1, <1>2, <1>5, <2>1, <2>3
    <3> QED
      BY <2>1, <3>1, <3>2, <3>3
  <2> QED
    BY <2>2, <2>3
<1>9. e = d
  BY <1>4, <1>5, <1>7, <1>8, SeqEqual
<1> QED
  BY <1>2, <1>4, <1>6, <1>9 DEF c, d, e, u

(* A packet at the end of the second of two joined queues.                 *)
LEMMA ConcatAppend ==
    ASSUME NEW S, NEW a \in Seq(S), NEW b \in Seq(S), NEW x \in S
    PROVE  a \o Append(b, x) = Append(a \o b, x)
<1> DEFINE o == <<x>>
           c == a \o b
<1>1. o \in Seq(S) /\ Append(b, x) = b \o o
  BY AppendIsConcat
<1>2. c \in Seq(S)
  BY ConcatProperties
<1> HIDE DEF c
<1>3. Append(c, x) = c \o o
  BY <1>2, AppendIsConcat
<1> HIDE DEF o
<1>4. (a \o b) \o o = a \o (b \o o)
  BY <1>1, ConcatAssociative
<1> QED
  BY <1>1, <1>3, <1>4 DEF c

(* Moving the head of one queue to the end of the queue before it.         *)
LEMMA ConcatMoveHead ==
    ASSUME NEW S, NEW a \in Seq(S), NEW q \in Seq(S), q # <<>>
    PROVE  Append(a, Head(q)) \o Tail(q) = a \o q
<1> DEFINE h == Head(q)
           r == Tail(q)
           o == <<h>>
<1>1. h \in S /\ r \in Seq(S) /\ o \in Seq(S)
  BY HeadTailProperties
<1>2. o \o r = q
  <2>1. 1 \in 1..Len(q) /\ Len(q) \in 1..Len(q)
    BY EmptySeq
  <2>2. SubSeq(q, 1, Len(q)) = <<q[1]>> \o SubSeq(q, 1 + 1, Len(q))
    BY <2>1, SubSeqRecursiveFirst
  <2>3. SubSeq(q, 1, Len(q)) = q /\ r = SubSeq(q, 2, Len(q)) /\ h = q[1]
    BY SubSeqFull, TailIsSubSeq
  <2> QED
    BY <2>2, <2>3
<1>3. Append(a, h) = a \o o
  BY <1>1, AppendIsConcat
<1> HIDE DEF h, r, o
<1>4. (a \o o) \o r = a \o (o \o r)
  BY <1>1, ConcatAssociative
<1> QED
  BY <1>2, <1>3, <1>4 DEF h, r

LEMMA DrainRefines ==
    ASSUME RefInv, RefInv', NEW t \in Threads,
           \/ GetHTCSendPacketsCreditBased(t) \/ GetHTCSendPackets(t)
           \/ EndGet(t) \/ HTCIssuePacketsBundle(t) \/ IssueSingle(t)
           \/ HIFSendFails(t) \/ HTCSendBundledNetbufFails(t)
           \/ Requeue(t) \/ Reread(t) \/ Relock(t)
    PROVE  [Pipe!Next]_(Pipe!vars)
<1> DEFINE n == netbuf[t]
           s == sendQueue[t]
           q == TxQueue
<1>0. /\ pc \in [Threads -> PcValues]
      /\ sendQueue \in [Threads -> Seq(Packets)]
      /\ netbuf \in [Threads -> Seq(Packets)]
      /\ q \in Seq(Packets) /\ s \in Seq(Packets) /\ n \in Seq(Packets)
      /\ pc[t] \notin {"hifSend", "hifSendBundle"} => n = <<>>
  BY DEF RefInv, TypeInv, TypeOK, HandInv, SendPcs
<1>1. CASE GetHTCSendPacketsCreditBased(t) \/ GetHTCSendPackets(t)
  <2>1. /\ pc[t] = "get" /\ pc' = pc /\ netbuf' = netbuf /\ q # <<>>
        /\ TxQueue' = Tail(q)
        /\ sendQueue'[t] = Append(s, Head(q))
        /\ UNCHANGED <<hif, hifCompletions, Status>>
    BY <1>0, <1>1 DEF GetHTCSendPacketsCreditBased, GetHTCSendPackets, CanGet,
                HTC_PACKET_ENQUEUE, busVars
  <2>2. Append(s, Head(q)) \o Tail(q) = s \o q
    <3> HIDE DEF s, q
    <3> QED
      BY <1>0, <2>1, ConcatMoveHead
  <2>3. n = <<>> /\ n \o s = s
    BY <1>0, <2>1, ConcatEmptySeq
  <2>4. n \o sendQueue'[t] = sendQueue'[t]
    <3>1. sendQueue'[t] \in Seq(Packets)
      BY DEF RefInv, TypeInv, TypeOK
    <3> QED
      BY <2>3, <3>1, ConcatEmptySeq
  <2>5. (netbuf'[t] \o sendQueue'[t]) \o TxQueue' = (n \o s) \o q
    BY <2>1, <2>2, <2>3, <2>4
  <2> QED
    BY <2>1, <2>5, MoveRefines DEF DrainPcs
<1>2. CASE EndGet(t) \/ Reread(t) \/ Relock(t)
  <2>1. /\ pc[t] \in DrainPcs /\ n = <<>>
        /\ UNCHANGED <<TxQueue, sendQueue, netbuf, hif, hifCompletions,
                       Status>>
    BY <1>0, <1>2 DEF EndGet, Reread, Relock, DrainPcs, busVars
  <2>2. CASE pc'[t] \in DrainPcs
    BY <2>1, <2>2, MoveRefines
  <2>3. CASE pc'[t] \notin DrainPcs
    <3>1. s = <<>> /\ pc' = [pc EXCEPT ![t] = "idle"]
      BY <1>0, <1>2, <2>3 DEF EndGet, Reread, Relock, DrainPcs
    <3>2. TxQueue' = s \o TxQueue
      BY <1>0, <2>1, <3>1, ConcatEmptySeq
    <3> QED
      BY <2>1, <3>1, <3>2, StopRefines
  <2> QED
    BY <2>2, <2>3
<1>3. ASSUME NEW k \in 1..Len(s), NEW v \in SendPcs, StartTransfer(t, k, v),
             pc[t] \in {"issue", "single"}
      PROVE  [Pipe!Next]_(Pipe!vars)
  <2>1. /\ n = <<>> /\ n \o s = s
    BY <1>0, <1>3, ConcatEmptySeq
  <2>2. /\ netbuf'[t] = SubSeq(s, 1, k)
        /\ sendQueue'[t] = SubSeq(s, k + 1, Len(s))
        /\ pc'[t] \in DrainPcs /\ pc[t] \in DrainPcs
        /\ UNCHANGED <<TxQueue, hif, hifCompletions, Status>>
    BY <1>0, <1>3 DEF StartTransfer, busVars, DrainPcs, SendPcs
  <2>3. s = SubSeq(s, 1, k) \o SubSeq(s, k + 1, Len(s))
    <3>1. k \in 0..Len(s)
      BY <1>0, <1>3, LenProperties
    <3> HIDE DEF s
    <3> QED
      BY <1>0, <3>1, ElementsSplit
  <2>4. (netbuf'[t] \o sendQueue'[t]) \o TxQueue' = (n \o s) \o q
    BY <2>1, <2>2, <2>3
  <2> QED
    BY <2>2, <2>4, MoveRefines
<1>4. CASE HTCIssuePacketsBundle(t)
  BY <1>3, <1>4 DEF HTCIssuePacketsBundle, SendPcs
<1>5. CASE IssueSingle(t)
  <2>1. 1 \in 1..Len(s)
    BY <1>0, <1>5, EmptySeq DEF IssueSingle
  <2> QED
    BY <1>3, <1>5, <2>1 DEF IssueSingle, SendPcs
<1>6. CASE HIFSendFails(t) \/ HTCSendBundledNetbufFails(t)
  <2>1. /\ netbuf'[t] = <<>> /\ sendQueue'[t] = n \o s
        /\ pc'[t] \in DrainPcs /\ pc[t] \in DrainPcs
        /\ UNCHANGED <<TxQueue, hif, hifCompletions, Status>>
    BY <1>0, <1>6 DEF HIFSendFails, HTCSendBundledNetbufFails, DrainPcs,
                      HTC_PACKET_QUEUE_TRANSFER_TO_HEAD, RemoveRefused
  <2>2. <<>> \o (n \o s) = n \o s
    BY <1>0, ConcatProperties, ConcatEmptySeq
  <2>3. (netbuf'[t] \o sendQueue'[t]) \o TxQueue' = (n \o s) \o q
    BY <2>1, <2>2
  <2> QED
    BY <2>1, <2>3, MoveRefines
<1>7. CASE Requeue(t)
  <2>1. /\ pc[t] \in DrainPcs /\ n = <<>>
        /\ pc' = [pc EXCEPT ![t] = "idle"]
        /\ TxQueue' = s \o q
        /\ UNCHANGED <<hif, hifCompletions, Status>>
    BY <1>0, <1>7 DEF Requeue, DrainPcs, HTC_PACKET_QUEUE_TRANSFER_TO_HEAD,
                      busVars
  <2> QED
    BY <2>1, StopRefines
<1> QED
  BY <1>1, <1>2, <1>4, <1>5, <1>6, <1>7

(* HIFSend_head takes a transfer: its packets leave.                       *)
LEMMA SendRefines ==
    ASSUME RefInv, RefInv', NEW t \in Threads, HIFSendOk(t)
    PROVE  [Pipe!Next]_(Pipe!vars)
<1> DEFINE x == netbuf[t]
           s == sendQueue[t]
           q == TxQueue
           a == hifCompletions
           b == hif
<1>0. /\ pc \in [Threads -> PcValues]
      /\ netbuf \in [Threads -> Seq(Packets)]
      /\ q \in Seq(Packets) /\ s \in Seq(Packets) /\ x \in Seq(Packets)
      /\ a \in Seq(Seq(Packets)) /\ b \in Seq(Seq(Packets))
  BY DEF RefInv, TypeInv, TypeOK
<1>1. x # <<>> /\ pc[t] \in DrainPcs /\ pc'[t] \in DrainPcs
  BY <1>0 DEF RefInv, TypeInv, HasTransfer, HIFSendOk, DrainPcs
<1>2. /\ netbuf'[t] = <<>> /\ sendQueue' = sendQueue /\ TxQueue' = q
      /\ hif' = Append(b, x) /\ hifCompletions' = a /\ Status' = Status
  BY <1>0 DEF HIFSendOk
<1>3. Waiting = (x \o s) \o q
  BY <1>1, HandOf DEF RefInv, DrainInv, Waiting
<1>4. Waiting' = (<<>> \o s) \o q
  BY <1>1, <1>2, HandOfNext DEF RefInv, DrainInv, Waiting
<1>5. <<>> \o s = s
  BY <1>0, ConcatEmptySeq
<1>6. InFlight = Flatten(a \o b) /\ InFlight' = Flatten(a \o Append(b, x))
  BY <1>2 DEF InFlight
<1> HIDE DEF x, s, q, a, b
<1>7. (x \o s) \o q = x \o (s \o q) /\ s \o q \in Seq(Packets)
  <2>1. x \in Seq(Packets) /\ s \in Seq(Packets) /\ q \in Seq(Packets)
    BY <1>0
  <2>2. (x \o s) \o q = x \o (s \o q)
    BY ONLY <2>1, ConcatAssociative
  <2>3. s \o q \in Seq(Packets)
    BY ONLY <2>1, ConcatProperties
  <2> QED
    BY <2>2, <2>3
<1>8. a \o Append(b, x) = Append(a \o b, x)
  BY <1>0, ConcatAppend, SMTT(40)
<1>9. Flatten(Append(a \o b, x)) = Flatten(a \o b) \o x
  <2> DEFINE f == a \o b
  <2>1. f \in Seq(Seq(Packets))
    BY <1>0, ConcatProperties
  <2> HIDE DEF f
  <2>2. Flatten(Append(f, x)) = Flatten(f) \o x
    BY <1>0, <2>1, FlattenAppend
  <2> QED
    BY <2>2 DEF f
<1>10. /\ Waiting = x \o (s \o q) /\ Waiting' = s \o q
       /\ InFlight' = InFlight \o x
  BY <1>3, <1>4, <1>5, <1>6, <1>7, <1>8, <1>9
<1> QED
  BY <1>0, <1>1, <1>2, <1>7, <1>10, PipeDeparts

(* Steps that move nothing in or out of the drainer's hands leave them.    *)
LEMMA HandKept ==
    ASSUME RefInv, RefInv', NEW t \in Threads, NEW v \in PcValues,
           pc[t] \notin DrainPcs, v \notin DrainPcs,
           pc' = [pc EXCEPT ![t] = v], UNCHANGED <<netbuf, sendQueue>>
    PROVE  AllInHand' = AllInHand
<1>0. pc \in [Threads -> PcValues]
  BY DEF RefInv, TypeInv, TypeOK
<1>1. pc'[t] \notin DrainPcs /\ \A u \in Threads : u # t => pc'[u] = pc[u]
  BY <1>0
<1> QED
  BY <1>1, HandOfOther DEF RefInv, DrainInv

(* The oldest packets that left are completed.                             *)
LEMMA CompletionRefines ==
    ASSUME RefInv, RefInv', HTCTxCompletionHandler
    PROVE  [Pipe!Next]_(Pipe!vars)
<1> DEFINE a == hifCompletions
           b == hif
           x == Head(hifCompletions)
           r == Tail(hifCompletions)
<1>0. /\ a \in Seq(Seq(Packets)) /\ b \in Seq(Seq(Packets)) /\ a # <<>>
  BY DEF RefInv, TypeInv, TypeOK, HTCTxCompletionHandler
<1>1. /\ x \in Seq(Packets) /\ r \in Seq(Seq(Packets))
      /\ Elements(a) = {x} \cup Elements(r)
  BY <1>0, ElementsTail
<1>2. x \in Transfers /\ x # <<>>
  BY <1>1 DEF RefInv, OwnInv, BusInv, DistinctInv
<1>3. /\ hifCompletions' = r /\ hif' = b /\ UNCHANGED TxQueue
      /\ Status' = Complete(Elements(x), "A_OK")
  <2>1. TxLookupQueue # <<>>
    <3>1. LookupInv /\ pc[CompThread] = "idle"
      BY DEF RefInv, HTCTxCompletionHandler
    <3>2. Transfers = Elements(TxLookupQueue)
      BY <3>1, NoSearch
    <3> QED
      BY <1>2, <3>2, ElementsEmpty
  <2> QED
    BY <2>1 DEF HTCTxCompletionHandler, Completed
<1>4. AllInHand' = AllInHand
  <2>1. PICK v \in {"idle", "resources"} :
           pc' = [pc EXCEPT ![CompThread] = v]
    BY DEF HTCTxCompletionHandler, AfterCompletionPc
  <2>2. /\ CompThread \in Threads /\ pc[CompThread] \notin DrainPcs
        /\ v \in PcValues /\ v \notin DrainPcs
        /\ UNCHANGED <<netbuf, sendQueue>>
    BY DEF HTCTxCompletionHandler, Threads, DrainPcs, PcValues
  <2> QED
    BY <2>1, <2>2, HandKept
<1>5. UNCHANGED Waiting
  BY <1>3, <1>4 DEF Waiting
<1>6. InFlight = Flatten(a \o b) /\ InFlight' = Flatten(r \o b)
  BY <1>3 DEF InFlight
<1>7. Head(a \o b) = x /\ Tail(a \o b) = r \o b
  BY <1>0, HeadTailConcat
<1> HIDE DEF a, b, x, r
<1>8. a \o b \in Seq(Seq(Packets)) /\ a \o b # <<>>
  BY <1>0, ConcatProperties, ConcatEqualIffEmpty
<1>9. Flatten(a \o b) = x \o Flatten(r \o b)
  <2> DEFINE f == a \o b
  <2>1. f \in Seq(Seq(Packets)) /\ f # <<>>
    BY <1>8
  <2> HIDE DEF f
  <2>2. Flatten(f) = Head(f) \o Flatten(Tail(f))
    BY <2>1, FlattenTail
  <2> QED
    BY <1>7, <2>2 DEF f
<1>10. Flatten(r \o b) \in Seq(Packets)
  BY <1>0, <1>1, ConcatProperties, FlattenType
<1> QED
  BY <1>1, <1>2, <1>3, <1>5, <1>6, <1>9, <1>10, PipeArrives

(* A transfer that the bus completes stays in flight until its completion  *)
(* is handled.                                                             *)
LEMMA BusRefines ==
    ASSUME RefInv, RefInv', BusCompletes
    PROVE  [Pipe!Next]_(Pipe!vars)
<1> DEFINE a == hifCompletions
           b == hif
<1>0. /\ a \in Seq(Seq(Packets)) /\ b \in Seq(Seq(Packets)) /\ b # <<>>
  BY DEF RefInv, TypeInv, TypeOK, BusCompletes
<1>1. /\ hifCompletions' = Append(a, Head(b)) /\ hif' = Tail(b)
      /\ UNCHANGED <<TxQueue, pc, sendQueue, netbuf, Status>>
  BY DEF BusCompletes, threadVars
<1>2. AllInHand' = AllInHand
  BY <1>1 DEF AllInHand, InHand, Draining
<1>3. InFlight = Flatten(a \o b) /\ InFlight' = Flatten(Append(a, Head(b)) \o Tail(b))
  BY <1>1 DEF InFlight
<1> HIDE DEF a, b
<1>4. Append(a, Head(b)) \o Tail(b) = a \o b
  BY <1>0, ConcatMoveHead
<1>5. UNCHANGED <<Waiting, InFlight, Status>>
  BY <1>1, <1>2, <1>3, <1>4 DEF Waiting
<1> QED
  BY <1>5, PipeStutters

(* A flush cancels what has not left, except what the drainer has in hand. *)
LEMMA FlushRefines ==
    ASSUME RefInv, RefInv', HTCFlushEndpointTX
    PROVE  [Pipe!Next]_(Pipe!vars)
<1> DEFINE h == AllInHand
           q == TxQueue
<1>0. h \in Seq(Packets) /\ q \in Seq(Packets) /\ q # <<>>
  BY HandType DEF RefInv, TypeInv, TypeOK, HTCFlushEndpointTX
<1>1. /\ Status' = Complete(Elements(q), "A_ECANCELED") /\ TxQueue' = <<>>
      /\ UNCHANGED <<hif, hifCompletions, pc, sendQueue, netbuf>>
  BY DEF HTCFlushEndpointTX, threadVars, busVars
<1>2. AllInHand' = h
  BY <1>1 DEF AllInHand, InHand, Draining
<1>3. UNCHANGED InFlight
  BY <1>1 DEF InFlight
<1>4. Waiting = h \o q /\ Waiting' = h \o <<>>
  BY <1>1, <1>2 DEF Waiting
<1> HIDE DEF h, q
<1>5. h \o <<>> = h
  BY <1>0, ConcatEmptySeq
<1> QED
  BY <1>0, <1>1, <1>3, <1>4, <1>5, PipeCancels

(* Every step of HtcSend is a step of the pipe, or none.                   *)
LEMMA StepRefines ==
    RefInv /\ RefInv' /\ [Next]_vars => [Pipe!Next]_(Pipe!vars)
<1> SUFFICES ASSUME RefInv, RefInv', [Next]_vars
             PROVE  [Pipe!Next]_(Pipe!vars)
  OBVIOUS
<1>1. CASE \E t \in Senders, p \in Packets : HTCSendPkt(t, p)
  BY <1>1, OutsideRefines DEF Threads
<1>2. ASSUME NEW t \in Threads, ThreadStep(t)
      PROVE  [Pipe!Next]_(Pipe!vars)
  BY <1>2, OutsideRefines, EnterRefines, DrainRefines, SendRefines
  DEF ThreadStep
<1>3. CASE CreditReport
  <2>1. PICK n \in 1..TotalCredits : HTCProcessCreditRpt(n)
    BY <1>3 DEF CreditReport
  <2>2. PICK v \in {"idle", "lock", "resources"} :
           pc' = [pc EXCEPT ![RxThread] = v]
    BY <2>1 DEF HTCProcessCreditRpt, TrySendPc
  <2>3. /\ RxThread \in Threads /\ pc[RxThread] \notin DrainPcs
        /\ v \in PcValues /\ v \notin DrainPcs
        /\ UNCHANGED <<netbuf, sendQueue>>
    BY <2>1 DEF HTCProcessCreditRpt, Threads, DrainPcs, PcValues
  <2>4. AllInHand' = AllInHand
    BY <2>2, <2>3, HandKept
  <2>5. UNCHANGED <<Waiting, InFlight, Status>>
    BY <2>1, <2>4 DEF HTCProcessCreditRpt, Waiting, InFlight
  <2> QED
    BY <2>5, PipeStutters
<1>4. CASE Quiescent \/ UNCHANGED vars
  <2>1. UNCHANGED <<Waiting, InFlight, Status>>
    BY <1>4 DEF Quiescent, vars, Waiting, InFlight, AllInHand, InHand, Draining
  <2> QED
    BY <2>1, PipeStutters
<1> QED
  BY <1>1, <1>2, <1>3, <1>4, CompletionRefines, FlushRefines, BusRefines
  DEF Next

LEMMA InitRefines == Init => Pipe!Init
<1> SUFFICES ASSUME Init PROVE Pipe!Init
  OBVIOUS
<1>1. AllInHand = <<>>
  BY HandOfNobody DEF Init, DrainPcs
<1>2. <<>> \o <<>> = <<>>
  BY ConcatEmptySeq, EmptySeq
<1>3. AllInHand \o TxQueue = <<>> /\ Flatten(hifCompletions \o hif) = <<>>
  BY <1>1, <1>2, FlattenEmpty DEF Init
<1> QED
  BY <1>3 DEF Init, Pipe!Init

(* The transmit path implements the pipe: whatever the number of threads,  *)
(* packets and credits, with or without bundles and refused transfers,     *)
(* packets leave in the order they were accepted in, owners are told in    *)
(* that order, and only packets that have not left are cancelled.          *)
THEOREM SendImplementsPipe == Spec => ImplementsPipe
<1>1. Spec => []RefInv
  BY RefInit, RefStep, PTL DEF Spec
<1> QED
  BY <1>1, InitRefines, StepRefines, PTL DEF Spec, ImplementsPipe, Pipe!Spec
-----------------------------------------------------------------------------
(* The order of completions.  With one drainer the transfers stand in      *)
(* TxLookupQueue in the order in which the bus has them, the one that is   *)
(* being handed over behind them, so HTCLookupTxPacket has its packet at   *)
(* the head and never starts to search.                                    *)

OrderInv ==
    /\ (\A t \in Threads : pc[t] \notin SendPcs) =>
          TxLookupQueue = hifCompletions \o hif
    /\ \A t \in Threads : pc[t] \in SendPcs =>
          TxLookupQueue = Append(hifCompletions \o hif, netbuf[t])

(* Unlinking the last item of a list.                                      *)
LEMMA RemoveLast ==
    ASSUME NEW S, NEW q \in Seq(S), NEW x \in S, x \notin Elements(q)
    PROVE  HTC_PACKET_REMOVE(Append(q, x), x) = q
<1> DEFINE a == Append(q, x)
           n == Len(q)
           i == CHOOSE j \in 1..Len(a) : a[j] = x
<1>1. /\ a \in Seq(S) /\ n \in Nat /\ Len(a) = n + 1 /\ a[n + 1] = x
      /\ \A j \in 1..n : a[j] = q[j]
  BY AppendProperties, LenProperties
<1>2. \A j \in 1..n : q[j] # x
  BY DEF Elements
<1> HIDE DEF a, n
<1>3. i = n + 1
  <2>1. \A j \in 1..Len(a) : a[j] = x <=> j = n + 1
    BY <1>1, <1>2
  <2>2. n + 1 \in 1..Len(a)
    BY <1>1
  <2> QED
    BY <2>1, <2>2
<1>4. x \in Elements(a)
  BY <1>1 DEF Elements
<1>5. HTC_PACKET_REMOVE(a, x) = SubSeq(a, 1, n) \o SubSeq(a, n + 2, n + 1)
  <2>1. i - 1 = n /\ i + 1 = n + 2
    <3> HIDE DEF i
    <3> QED
      BY <1>1, <1>3
  <2>2. HTC_PACKET_REMOVE(a, x) = SubSeq(a, 1, i - 1) \o SubSeq(a, i + 1, Len(a))
    BY <1>4 DEF HTC_PACKET_REMOVE, DL_ListRemove
  <2> HIDE DEF i
  <2> QED
    BY <1>1, <2>1, <2>2
<1>6. SubSeq(a, 1, n) = q
  <2>1. \A j \in 1..n : a[j] \in S
    BY <1>1, ElementOfSeq
  <2> DEFINE f == SubSeq(a, 1, n)
  <2>2. f \in Seq(S) /\ Len(f) = n /\ \A j \in 1..n : f[j] = a[j]
    BY <1>1, <2>1
  <2> HIDE DEF f
  <2> QED
    BY <1>1, <2>2, SeqEqual DEF f, n
<1>7. SubSeq(a, n + 2, n + 1) = <<>>
  BY <1>1
<1> QED
  BY <1>5, <1>6, <1>7, ConcatEmptySeq DEF a

(* Nothing that concerns the order.                                        *)
LEMMA OrderKept ==
    ASSUME OrderInv, UNCHANGED <<TxLookupQueue, hif, hifCompletions>>,
           \A u \in Threads : /\ pc'[u] \in SendPcs <=> pc[u] \in SendPcs
                              /\ pc[u] \in SendPcs => netbuf'[u] = netbuf[u]
    PROVE  OrderInv'
BY DEF OrderInv

(* The one thread that drains starts a transfer, hands it over, or has it  *)
(* refused.                                                                *)
LEMMA OrderSend ==
    ASSUME RefInv, OrderInv, NEW t \in Threads,
           \/ HTCIssuePacketsBundle(t) \/ IssueSingle(t)
           \/ HIFSendOk(t) \/ HIFSendFails(t) \/ HTCSendBundledNetbufFails(t)
    PROVE  OrderInv'
<1> DEFINE c == hifCompletions
           h == hif
           x == netbuf[t]
<1>0. /\ pc \in [Threads -> PcValues] /\ netbuf \in [Threads -> Seq(Packets)]
      /\ c \in Seq(Seq(Packets)) /\ h \in Seq(Seq(Packets))
      /\ x \in Seq(Packets) /\ SingleDrainer
  BY DEF RefInv, TypeInv, TypeOK, DrainInv
<1>1. Draining(t)
  BY DEF HTCIssuePacketsBundle, IssueSingle, HIFSendOk, HIFSendFails,
         HTCSendBundledNetbufFails, Draining, DrainPcs
<1>2. \A u \in Threads : u # t => pc[u] \notin SendPcs
  BY <1>0, <1>1 DEF SingleDrainer, Draining, DrainPcs, SendPcs
<1>3. \A v : pc' = [pc EXCEPT ![t] = v] =>
         \A u \in Threads : pc'[u] = IF u = t THEN v ELSE pc[u]
  BY <1>0
<1>4. CASE HTCIssuePacketsBundle(t) \/ IssueSingle(t)
  <2>1. PICK k \in Nat, v \in SendPcs : StartTransfer(t, k, v)
    BY <1>4 DEF HTCIssuePacketsBundle, IssueSingle, SendPcs
  <2> DEFINE y == SubSeq(sendQueue[t], 1, k)
  <2>2. /\ netbuf' = [netbuf EXCEPT ![t] = y]
        /\ TxLookupQueue' = Append(TxLookupQueue, y)
        /\ pc' = [pc EXCEPT ![t] = v] /\ UNCHANGED <<hif, hifCompletions>>
    BY <2>1 DEF StartTransfer, HTC_PACKET_ENQUEUE, busVars
  <2> HIDE DEF y
  <2>3. netbuf'[t] = y
    BY <1>0, <2>2
  <2>4. pc[t] \notin SendPcs
    BY <1>4 DEF HTCIssuePacketsBundle, IssueSingle, SendPcs
  <2>5. TxLookupQueue = c \o h
    BY <1>2, <2>4 DEF OrderInv
  <2>6. TxLookupQueue' = Append(c' \o h', netbuf'[t])
    BY <2>2, <2>3, <2>5
  <2> QED
    BY <1>2, <1>3, <2>2, <2>6 DEF OrderInv
<1>5. CASE HIFSendOk(t)
  <2>1. /\ pc[t] \in SendPcs /\ hif' = Append(h, x) /\ hifCompletions' = c
        /\ TxLookupQueue' = TxLookupQueue
        /\ pc' = [pc EXCEPT ![t] = "issue"]
    BY <1>5 DEF HIFSendOk, SendPcs
  <2>2. TxLookupQueue = Append(c \o h, x)
    BY <2>1 DEF OrderInv
  <2>3. \A u \in Threads : pc'[u] \notin SendPcs
    <3>1. \A u \in Threads : pc'[u] = IF u = t THEN "issue" ELSE pc[u]
      BY <1>3, <2>1
    <3> QED
      BY <1>2, <3>1 DEF SendPcs
  <2>4. c \o Append(h, x) = Append(c \o h, x)
    BY <1>0, ConcatAppend
  <2> QED
    BY <2>1, <2>2, <2>3, <2>4 DEF OrderInv
<1>6. CASE HIFSendFails(t) \/ HTCSendBundledNetbufFails(t)
  <2>1. /\ pc[t] \in SendPcs /\ hif' = h /\ hifCompletions' = c
        /\ TxLookupQueue' = HTC_PACKET_REMOVE(TxLookupQueue, x)
    BY <1>6 DEF HIFSendFails, HTCSendBundledNetbufFails, RemoveRefused,
                SendPcs
  <2>2. PICK v \in {"requeue", "single"} : pc' = [pc EXCEPT ![t] = v]
    BY <1>6 DEF HIFSendFails, HTCSendBundledNetbufFails
  <2>3. TxLookupQueue = Append(c \o h, x)
    BY <2>1 DEF OrderInv
  <2>4. \A u \in Threads : pc'[u] \notin SendPcs
    BY <1>2, <1>3, <2>2 DEF SendPcs
  <2>5. c \o h \in Seq(Seq(Packets)) /\ x \notin Elements(c \o h)
    <3>1. x \notin Elements(h) /\ x \notin Elements(c)
      BY <2>1 DEF RefInv, OwnInv, BusInv
    <3> QED
      BY <1>0, <3>1, ElementsConcat
  <2>6. TxLookupQueue' = c \o h
    BY <1>0, <2>1, <2>3, <2>5, RemoveLast
  <2> QED
    BY <2>1, <2>4, <2>6 DEF OrderInv
<1> QED
  BY <1>4, <1>5, <1>6

(* The oldest transfer completes or its completion is handled.             *)
LEMMA OrderComplete ==
    ASSUME RefInv, OrderInv, HTCTxCompletionHandler \/ BusCompletes
    PROVE  OrderInv'
<1> DEFINE c == hifCompletions
           h == hif
<1>0. /\ pc \in [Threads -> PcValues] /\ netbuf \in [Threads -> Seq(Packets)]
      /\ c \in Seq(Seq(Packets)) /\ h \in Seq(Seq(Packets))
  BY DEF RefInv, TypeInv, TypeOK
<1>1. CASE BusCompletes
  <2>1. /\ h # <<>> /\ hif' = Tail(h) /\ hifCompletions' = Append(c, Head(h))
        /\ UNCHANGED <<TxLookupQueue, pc, netbuf>>
    BY <1>1 DEF BusCompletes, threadVars
  <2>2. hifCompletions' \o hif' = c \o h
    BY <1>0, <2>1, ConcatMoveHead
  <2> QED
    BY <2>1, <2>2 DEF OrderInv
<1>2. CASE HTCTxCompletionHandler
  <2>1. /\ c # <<>> /\ hif' = h /\ hifCompletions' = Tail(c)
        /\ TxLookupQueue' = HTC_PACKET_DEQUEUE(TxLookupQueue)
        /\ pc[CompThread] = "idle"
        /\ pc' = [pc EXCEPT ![CompThread] = AfterCompletionPc]
        /\ UNCHANGED netbuf
    BY <1>2 DEF HTCTxCompletionHandler
  <2>2. \A u \in Threads : pc'[u] \in SendPcs <=> pc[u] \in SendPcs
    BY <1>0, <2>1 DEF AfterCompletionPc, SendPcs
  <2> DEFINE q == c \o h
             r == Tail(c) \o h
  <2>3. /\ q \in Seq(Seq(Packets)) /\ q # <<>> /\ Tail(q) = r
        /\ r \in Seq(Seq(Packets))
    BY <1>0, <2>1, HeadTailConcat, ConcatProperties, ConcatEqualIffEmpty,
       HeadTailProperties
  <2> HIDE DEF q, r
  <2>4. ASSUME \A u \in Threads : pc[u] \notin SendPcs
        PROVE  TxLookupQueue' = r
    <3>1. TxLookupQueue = q
      BY <2>4 DEF OrderInv, q
    <3> QED
      BY <2>1, <2>3, <3>1 DEF HTC_PACKET_DEQUEUE
  <2>5. ASSUME NEW u \in Threads, pc[u] \in SendPcs
        PROVE  TxLookupQueue' = Append(r, netbuf[u])
    <3> DEFINE x == netbuf[u]
               o == <<x>>
    <3>1. x \in Seq(Packets) /\ o \in Seq(Seq(Packets))
      BY <1>0
    <3>2. TxLookupQueue = Append(q, x)
      BY <2>5 DEF OrderInv, q
    <3>3. Append(q, x) = q \o o /\ Append(r, x) = r \o o
          /\ Append(q, x) # <<>>
      BY ONLY <2>3, <3>1, AppendIsConcat, AppendProperties, SMTT(40)
    <3>4. Tail(q \o o) = Tail(q) \o o
      BY <2>3, <3>1, HeadTailConcat
    <3> HIDE DEF x, o
    <3> QED
      BY <2>1, <2>3, <3>2, <3>3, <3>4 DEF HTC_PACKET_DEQUEUE, x
  <2>6. r = hifCompletions' \o hif'
    BY <2>1 DEF r
  <2> QED
    BY <2>1, <2>2, <2>4, <2>5, <2>6 DEF OrderInv
<1> QED
  BY <1>1, <1>2

LEMMA OrderStep ==
    ASSUME RefInv, OrderInv, [Next]_vars
    PROVE  OrderInv'
<1>0. pc \in [Threads -> PcValues]
  BY DEF RefInv, TypeInv, TypeOK
<1>1. ASSUME NEW t \in Threads, NEW v, pc[t] \notin SendPcs, v \notin SendPcs,
             pc' = [pc EXCEPT ![t] = v],
             UNCHANGED <<TxLookupQueue, hif, hifCompletions, netbuf>>
      PROVE  OrderInv'
  <2>1. \A u \in Threads : pc'[u] \in SendPcs <=> pc[u] \in SendPcs
    BY <1>0, <1>1
  <2> QED
    BY <1>1, <2>1, OrderKept
<1>2. CASE \E t \in Senders, p \in Packets : HTCSendPkt(t, p)
  BY <1>1, <1>2 DEF HTCSendPkt, Threads, SendPcs, busVars
<1>3. ASSUME NEW t \in Threads,
             \/ CheckOverflow(t) \/ RejectPacket(t) \/ ReadResources(t)
             \/ EnterTrySend(t) \/ EndGet(t) \/ Requeue(t) \/ Reread(t)
             \/ Relock(t)
      PROVE  OrderInv'
  <2>1. PICK v \in PcValues \ SendPcs : pc' = [pc EXCEPT ![t] = v]
    <3> USE DEF PcValues, SendPcs
    <3>1. CASE CheckOverflow(t)
      BY <3>1 DEF CheckOverflow, TrySendPc
    <3>2. CASE EnterTrySend(t) \/ EndGet(t)
      BY <3>2 DEF EnterTrySend, EndGet
    <3>3. CASE RejectPacket(t) \/ ReadResources(t) \/ Requeue(t)
               \/ Reread(t) \/ Relock(t)
      BY <3>3 DEF RejectPacket, ReadResources, Requeue, Reread, Relock
    <3> QED
      BY <1>3, <3>1, <3>2, <3>3
  <2>2. pc[t] \notin SendPcs
        /\ UNCHANGED <<TxLookupQueue, hif, hifCompletions, netbuf>>
    BY <1>3 DEF CheckOverflow, RejectPacket, ReadResources, EnterTrySend,
                EndGet, Requeue, Reread, Relock, busVars, SendPcs
  <2> QED
    BY <1>1, <2>1, <2>2
<1>4. ASSUME NEW t \in Threads,
             GetHTCSendPacketsCreditBased(t) \/ GetHTCSendPackets(t)
      PROVE  OrderInv'
  <2>1. UNCHANGED <<pc, netbuf, TxLookupQueue, hif, hifCompletions>>
    BY <1>4 DEF GetHTCSendPacketsCreditBased, GetHTCSendPackets, busVars
  <2> QED
    BY <2>1, OrderKept
<1>5. CASE CreditReport
  <2>1. PICK n \in 1..TotalCredits : HTCProcessCreditRpt(n)
    BY <1>5 DEF CreditReport
  <2>2. PICK v \in {"idle", TrySendPc} : pc' = [pc EXCEPT ![RxThread] = v]
    BY <2>1 DEF HTCProcessCreditRpt
  <2>3. /\ RxThread \in Threads /\ v \notin SendPcs
        /\ pc[RxThread] \notin SendPcs
        /\ UNCHANGED <<TxLookupQueue, hif, hifCompletions, netbuf>>
    BY <2>1 DEF HTCProcessCreditRpt, Threads, SendPcs, TrySendPc
  <2> QED
    BY <1>1, <2>2, <2>3
<1>6. CASE HTCFlushEndpointTX \/ Quiescent \/ UNCHANGED vars
  <2>1. UNCHANGED <<pc, netbuf, TxLookupQueue, hif, hifCompletions>>
    BY <1>6 DEF HTCFlushEndpointTX, Quiescent, vars, busVars, threadVars
  <2> QED
    BY <2>1, OrderKept
<1> QED
  BY <1>2, <1>3, <1>4, <1>5, <1>6, OrderSend, OrderComplete
     DEF Next, ThreadStep

(* "because of in-order completion" (HTCLookupTxPacket): while HTCTrySend  *)
(* alone drains an endpoint, whoever calls it and whatever HIF refuses,    *)
(* the transfer whose completion is handled next is the head of            *)
(* TxLookupQueue, so that the search without the lock is never started.    *)
THEOREM CompletesInOrder ==
    Spec => [](hifCompletions # <<>> =>
                  TxLookupQueue # <<>> /\ Head(TxLookupQueue) = Completed)
<1>1. Init => OrderInv
  BY ConcatEmptySeq, EmptySeq DEF Init, OrderInv, SendPcs
<1>2. RefInv /\ OrderInv /\ [Next]_vars => OrderInv'
  BY OrderStep
<1>3. RefInv /\ OrderInv => (hifCompletions # <<>> =>
          TxLookupQueue # <<>> /\ Head(TxLookupQueue) = Completed)
  <2> SUFFICES ASSUME RefInv, OrderInv, hifCompletions # <<>>
               PROVE  TxLookupQueue # <<>> /\ Head(TxLookupQueue) = Completed
    OBVIOUS
  <2> DEFINE c == hifCompletions
             q == hifCompletions \o hif
  <2>1. /\ c \in Seq(Seq(Packets)) /\ hif \in Seq(Seq(Packets))
        /\ netbuf \in [Threads -> Seq(Packets)]
    BY DEF RefInv, TypeInv, TypeOK
  <2>2. q \in Seq(Seq(Packets)) /\ q # <<>> /\ Head(q) = Head(c)
    BY <2>1, HeadTailConcat, ConcatProperties, ConcatEqualIffEmpty
  <2>3. TxLookupQueue = q \/ \E x \in Seq(Packets) : TxLookupQueue = Append(q, x)
    BY <2>1 DEF OrderInv
  <2> HIDE DEF q
  <2>4. ASSUME NEW x \in Seq(Packets)
        PROVE  Append(q, x) # <<>> /\ Head(Append(q, x)) = Head(q)
    BY <2>2
  <2> QED
    BY <2>2, <2>3, <2>4 DEF Completed
<1>4. Spec => []RefInv
  BY RefInit, RefStep, PTL DEF Spec
<1> QED
  BY <1>1, <1>2, <1>3, <1>4, PTL DEF Spec

-----------------------------------------------------------------------------
(* The request for credits.                                                *)

(* The packets that were charged, in the order they were.                  *)
Charging == delivered \o Flatten(hif) \o AllInHand
Last(q) == q[Len(q)]

(* The packet that was charged last asks for credits, unless the host has  *)
(* more than the longest message needs.                                    *)
RequestInv ==
    TxCreditFlowEnabled /\ ~IsEndpoint0 /\ Charging # <<>> =>
        SendFlags[Last(Charging)] \/ TxCredits > TxCreditsPerMaxMsg

(* What a step may do to that order: nothing, or add a packet at its end.  *)
Charges(p) ==
    /\ p \in Packets
    /\ Charging' = Append(Charging, p)
    /\ SendFlags' = [SendFlags EXCEPT ![p] = NeedCreditUpdate(p)]
    /\ TxCredits' = TxCredits - CreditsRequired(p)
ChargesNothing ==
    Charging' = Charging /\ SendFlags' = SendFlags /\ TxCredits' >= TxCredits

LEMMA ChargingType == ASSUME RefInv PROVE Charging \in Seq(Packets)
<1> DEFINE d == delivered
           f == Flatten(hif)
           h == AllInHand
           e == d \o f
<1>1. d \in Seq(Packets) /\ hif \in Seq(Seq(Packets))
  BY DEF RefInv, TypeInv, TypeOK
<1>2. f \in Seq(Packets) /\ h \in Seq(Packets)
  BY <1>1, FlattenType, HandType
<1>3. Charging = e \o h
  BY DEF Charging
<1> HIDE DEF d, f, h
<1>4. e \in Seq(Packets)
  BY <1>1, <1>2, ElementsConcat
<1> HIDE DEF e
<1> QED
  BY <1>2, <1>3, <1>4, ElementsConcat

(* Steps that leave the bus and the drainer's hands alone.                 *)
LEMMA ChargesNot ==
    ASSUME AllInHand' = AllInHand,
           UNCHANGED <<delivered, hif, SendFlags>>, TxCredits' >= TxCredits
    PROVE  ChargesNothing
BY DEF ChargesNothing, Charging

LEMMA ChargeOutside ==
    ASSUME RefInv, RefInv', NEW t \in Threads,
           \/ \E p \in Packets : HTCSendPkt(t, p)
           \/ CheckOverflow(t) \/ RejectPacket(t) \/ ReadResources(t)
           \/ EnterTrySend(t)
    PROVE  ChargesNothing
<1>0. /\ pc \in [Threads -> PcValues] /\ TxCredits \in Int
      /\ sendQueue \in [Threads -> Seq(Packets)]
      /\ netbuf \in [Threads -> Seq(Packets)]
      /\ TxProcessCount \in {0, 1} /\ SingleDrainer /\ SingleDrainer'
  BY DEF RefInv, TypeInv, TypeOK, DrainInv
<1>1. /\ pc[t] \notin DrainPcs
      /\ UNCHANGED <<delivered, hif, SendFlags, TxCredits, netbuf>>
  BY DEF HTCSendPkt, CheckOverflow, RejectPacket, ReadResources, EnterTrySend,
         DrainPcs, busVars
<1>2. \A u \in Threads : u # t => /\ pc'[u] = pc[u] /\ netbuf'[u] = netbuf[u]
                                  /\ sendQueue'[u] = sendQueue[u]
  BY <1>0 DEF HTCSendPkt, CheckOverflow, RejectPacket, ReadResources, EnterTrySend
<1>3. CASE pc'[t] \notin DrainPcs
  <2>1. AllInHand' = AllInHand
    BY <1>0, <1>1, <1>2, <1>3, HandOfOther
  <2> QED
    BY <1>0, <1>1, <2>1, ChargesNot
<1>4. CASE pc'[t] \in DrainPcs
  <2>1. EnterTrySend(t) /\ ~Busy
    BY <1>0, <1>4 DEF HTCSendPkt, CheckOverflow, RejectPacket, ReadResources,
                      EnterTrySend, DrainPcs, TrySendPc
  <2>2. /\ pc[t] = "lock" /\ sendQueue'[t] = <<>> /\ TxProcessCount = 0
        /\ netbuf[t] = <<>>
    <3>1. HandInv
      BY DEF RefInv
    <3> QED
      <4>1. pc[t] = "lock" /\ sendQueue'[t] = <<>>
        BY <1>0, <2>1 DEF EnterTrySend
      <4>2. TxProcessCount = 0
        BY <1>0, <2>1 DEF Busy
      <4>3. netbuf[t] = <<>>
        BY <3>1, <4>1 DEF HandInv, SendPcs
      <4> QED
        BY <4>1, <4>2, <4>3
  <2>3. \A u \in Threads : pc[u] \notin DrainPcs
    BY <1>0, <2>2 DEF SingleDrainer, Draining
  <2>4. AllInHand = <<>>
    BY <2>3, HandOfNobody
  <2>5. AllInHand' = <<>> \o <<>>
    BY <1>0, <1>1, <1>4, <2>2, HandOfNext
  <2>6. <<>> \o <<>> = <<>>
    BY ConcatEmptySeq, EmptySeq
  <2>7. AllInHand' = AllInHand
    BY <2>4, <2>5, <2>6
  <2> QED
    BY <1>0, <1>1, <2>7, ChargesNot
<1> QED
  BY <1>3, <1>4

LEMMA ChargeDrain ==
    ASSUME RefInv, RefInv', TxCreditFlowEnabled, NEW t \in Threads,
           \/ GetHTCSendPacketsCreditBased(t) \/ GetHTCSendPackets(t)
           \/ EndGet(t) \/ HTCIssuePacketsBundle(t) \/ IssueSingle(t)
           \/ Reread(t) \/ Relock(t)
    PROVE  ChargesNothing \/ \E p : Charges(p)
<1> DEFINE n == netbuf[t]
           s == sendQueue[t]
           q == TxQueue
<1>0. /\ pc \in [Threads -> PcValues] /\ TxCredits \in Int
      /\ sendQueue \in [Threads -> Seq(Packets)]
      /\ netbuf \in [Threads -> Seq(Packets)]
      /\ q \in Seq(Packets) /\ s \in Seq(Packets) /\ n \in Seq(Packets)
      /\ pc[t] \notin {"hifSend", "hifSendBundle"} => n = <<>>
      /\ SingleDrainer /\ SingleDrainer'
  BY DEF RefInv, TypeInv, TypeOK, HandInv, SendPcs, DrainInv
<1>1. pc[t] \in DrainPcs /\ n = <<>> /\ AllInHand = s
  <2>1. /\ pc[t] \in DrainPcs /\ pc[t] \notin {"hifSend", "hifSendBundle"}
    BY DEF GetHTCSendPacketsCreditBased, GetHTCSendPackets, EndGet,
           HTCIssuePacketsBundle, IssueSingle, Reread, Relock, DrainPcs
  <2> QED
    BY <1>0, <2>1, HandOf, ConcatEmptySeq
<1>2. UNCHANGED <<delivered, hif>>
  BY DEF GetHTCSendPacketsCreditBased, GetHTCSendPackets, EndGet,
           HTCIssuePacketsBundle, IssueSingle, StartTransfer, Reread, Relock, busVars
<1>3. CASE GetHTCSendPacketsCreditBased(t) \/ GetHTCSendPackets(t)
  <2> DEFINE p == Head(q)
  <2>1. GetHTCSendPacketsCreditBased(t)
    BY <1>3 DEF GetHTCSendPackets
  <2>2. /\ q # <<>> /\ pc' = pc /\ netbuf' = netbuf
        /\ sendQueue'[t] = Append(s, p)
        /\ SendFlags' = [SendFlags EXCEPT ![p] = NeedCreditUpdate(p)]
        /\ TxCredits' = TxCredits - CreditsRequired(p)
    BY <1>0, <2>1 DEF GetHTCSendPacketsCreditBased, CanGet, HTC_PACKET_ENQUEUE,
                      CreditsAfter
  <2>3. p \in Packets
    BY <1>0, <2>2, ElementsTail
  <2>4. AllInHand' = Append(s, p)
    <3>1. AllInHand' = netbuf'[t] \o sendQueue'[t]
      BY <1>0, <1>1, <2>2, HandOfNext
    <3>2. sendQueue'[t] \in Seq(Packets)
      BY DEF RefInv, TypeInv, TypeOK
    <3> QED
      BY <1>1, <2>2, <3>1, <3>2, ConcatEmptySeq
  <2> DEFINE e == delivered \o Flatten(hif)
  <2>5. Charging = e \o s /\ Charging' = e \o Append(s, p)
    BY <1>1, <1>2, <2>4 DEF Charging
  <2>6. e \in Seq(Packets)
    <3> DEFINE d == delivered
               f == Flatten(hif)
    <3>1. d \in Seq(Packets) /\ hif \in Seq(Seq(Packets))
      BY DEF RefInv, TypeInv, TypeOK
    <3>2. f \in Seq(Packets)
      BY <3>1, FlattenType
    <3> HIDE DEF d, f
    <3>3. d \o f \in Seq(Packets)
      BY <3>1, <3>2, ElementsConcat
    <3> QED
      BY <3>3 DEF d, f
  <2> HIDE DEF e, p, s, q
  <2>7. e \o Append(s, p) = Append(e \o s, p)
    BY <1>0, <2>3, <2>6, ConcatAppend
  <2>8. Charges(p)
    BY <2>2, <2>3, <2>5, <2>7 DEF Charges
  <2> QED
    BY <2>8
<1>4. CASE EndGet(t) \/ Reread(t) \/ Relock(t)
  <2>1. UNCHANGED <<sendQueue, netbuf, SendFlags, TxCredits>>
    BY <1>4 DEF EndGet, Reread, Relock
  <2>2. AllInHand' = AllInHand
    <3>1. CASE pc'[t] \in DrainPcs
      <4>1. AllInHand' = netbuf'[t] \o sendQueue'[t]
        BY <1>0, <3>1, HandOfNext
      <4> QED
        BY <1>0, <1>1, <2>1, <4>1, ConcatEmptySeq
    <3>2. CASE pc'[t] \notin DrainPcs
      <4>1. s = <<>> /\ pc' = [pc EXCEPT ![t] = "idle"]
        BY <1>0, <1>4, <3>2 DEF EndGet, Reread, Relock, DrainPcs
      <4>2. \A u \in Threads : pc'[u] \notin DrainPcs
        BY <1>0, <1>1, <4>1 DEF SingleDrainer, Draining, DrainPcs
      <4> QED
        BY <1>1, <4>1, <4>2, HandOfNobodyNext
    <3> QED
      BY <3>1, <3>2
  <2> QED
    BY <1>0, <1>2, <2>1, <2>2, ChargesNot
<1>5. ASSUME NEW k \in 1..Len(s), NEW v \in SendPcs, StartTransfer(t, k, v)
      PROVE  ChargesNothing
  <2>1. /\ netbuf'[t] = SubSeq(s, 1, k)
        /\ sendQueue'[t] = SubSeq(s, k + 1, Len(s))
        /\ pc'[t] \in DrainPcs /\ UNCHANGED <<SendFlags, TxCredits>>
    BY <1>0, <1>5 DEF StartTransfer, DrainPcs, SendPcs
  <2>2. s = SubSeq(s, 1, k) \o SubSeq(s, k + 1, Len(s))
    <3>1. k \in 0..Len(s)
      BY <1>0, <1>5, LenProperties
    <3> HIDE DEF s
    <3> QED
      BY <1>0, <3>1, ElementsSplit
  <2>3. AllInHand' = netbuf'[t] \o sendQueue'[t]
    BY <1>0, <2>1, HandOfNext
  <2>4. AllInHand' = AllInHand
    BY <1>1, <2>1, <2>2, <2>3
  <2> QED
    BY <1>0, <1>2, <2>1, <2>4, ChargesNot
<1>6. CASE HTCIssuePacketsBundle(t)
  BY <1>5, <1>6 DEF HTCIssuePacketsBundle, SendPcs
<1>7. CASE IssueSingle(t)
  <2>1. 1 \in 1..Len(s)
    BY <1>0, <1>7, EmptySeq DEF IssueSingle
  <2> QED
    BY <1>5, <1>7, <2>1 DEF IssueSingle, SendPcs
<1> QED
  BY <1>3, <1>4, <1>6, <1>7

(* HIFSend_head takes the first packets in hand; the bus takes the oldest  *)
(* transfer to the target.                                                 *)
LEMMA ChargeBus ==
    ASSUME RefInv, RefInv', (\E t \in Threads : HIFSendOk(t)) \/ BusCompletes
    PROVE  ChargesNothing
<1> DEFINE d == delivered
           b == hif
<1>0. /\ d \in Seq(Packets) /\ b \in Seq(Seq(Packets)) /\ TxCredits \in Int
      /\ pc \in [Threads -> PcValues] /\ netbuf \in [Threads -> Seq(Packets)]
      /\ sendQueue \in [Threads -> Seq(Packets)]
      /\ SingleDrainer /\ SingleDrainer'
      /\ Flatten(b) \in Seq(Packets) /\ AllInHand \in Seq(Packets)
  BY FlattenType, HandType DEF RefInv, TypeInv, TypeOK, DrainInv
<1>1. ASSUME NEW t \in Threads, HIFSendOk(t) PROVE ChargesNothing
  <2> DEFINE x == netbuf[t]
             s == sendQueue[t]
             f == Flatten(b)
  <2>1. /\ pc[t] \in DrainPcs /\ pc'[t] \in DrainPcs
        /\ netbuf'[t] = <<>> /\ sendQueue' = sendQueue /\ delivered' = d
        /\ hif' = Append(b, x) /\ UNCHANGED <<SendFlags, TxCredits>>
    BY <1>0, <1>1 DEF HIFSendOk, DrainPcs
  <2>2. AllInHand = x \o s
    BY <1>0, <2>1, HandOf
  <2>3. AllInHand' = <<>> \o s
    BY <1>0, <2>1, HandOfNext
  <2>4. <<>> \o s = s /\ s \in Seq(Packets) /\ x \in Seq(Packets)
    BY <1>0, ConcatEmptySeq
  <2>5. Flatten(Append(b, x)) = f \o x
    <3> HIDE DEF b, x
    <3> QED
      BY <1>0, <2>4, FlattenAppend
  <2>6. /\ Charging = (d \o f) \o (x \o s)
        /\ Charging' = (d \o (f \o x)) \o s
    BY <2>1, <2>2, <2>3, <2>4, <2>5 DEF Charging
  <2>7. (d \o f) \o (x \o s) = (d \o (f \o x)) \o s
    <3> HIDE DEF d, f, x, s, b
    <3>1. d \in Seq(Packets) /\ f \in Seq(Packets)
      BY <1>0 DEF f
    <3>2. (d \o f) \o x = d \o (f \o x)
      BY <2>4, <3>1, ConcatAssociative, SMTT(40)
    <3> DEFINE e == d \o f
    <3>3. e \in Seq(Packets)
      BY <3>1, ElementsConcat
    <3> HIDE DEF e
    <3>4. (e \o x) \o s = e \o (x \o s)
      BY <2>4, <3>3, ConcatAssociative
    <3> QED
      BY <3>2, <3>4 DEF e
  <2>8. Charging' = Charging
    BY <2>6, <2>7
  <2> QED
    BY <1>0, <2>1, <2>8 DEF ChargesNothing
<1>2. CASE BusCompletes
  <2> DEFINE x == Head(b)
             r == Tail(b)
             h == AllInHand
             f == Flatten(r)
  <2>1. /\ b # <<>> /\ hif' = r /\ delivered' = d \o x
        /\ UNCHANGED <<pc, netbuf, sendQueue, SendFlags, TxCredits>>
    BY <1>2 DEF BusCompletes, threadVars
  <2>2. AllInHand' = h
    BY <2>1 DEF AllInHand, InHand, Draining
  <2>3. x \in Seq(Packets) /\ r \in Seq(Seq(Packets))
    BY <1>0, <2>1, ElementsTail
  <2>4. Flatten(b) = x \o f
    BY <1>0, <2>1, FlattenTail
  <2>5. f \in Seq(Packets)
    BY <2>3, FlattenType
  <2>6. /\ Charging = (d \o (x \o f)) \o h
        /\ Charging' = ((d \o x) \o f) \o h
    BY <2>1, <2>2, <2>4 DEF Charging
  <2>7. (d \o x) \o f = d \o (x \o f)
    <3>1. d \in Seq(Packets) /\ x \in Seq(Packets) /\ f \in Seq(Packets)
      BY <1>0, <2>3, <2>5
    <3> HIDE DEF d, f, x
    <3> QED
      BY <3>1, ConcatAssociative, SMTT(30)
  <2>8. Charging' = Charging
    BY <2>6, <2>7
  <2> QED
    BY <1>0, <2>1, <2>8 DEF ChargesNothing
<1> QED
  BY <1>1, <1>2

LEMMA ChargeStep ==
    ASSUME RefInv, RefInv', NothingFailed, ~HIFSendCanFail, TxCreditFlowEnabled,
           [Next]_vars
    PROVE  ChargesNothing \/ \E p : Charges(p)
<1>0. TxCredits \in Int
  BY DEF RefInv, TypeInv, TypeOK
<1>1. CASE \E t \in Senders, p \in Packets : HTCSendPkt(t, p)
  BY <1>1, ChargeOutside DEF Threads
<1>2. ASSUME NEW t \in Threads, ThreadStep(t)
      PROVE  ChargesNothing \/ \E p : Charges(p)
  <2>1. ~HIFSendFails(t) /\ ~HTCSendBundledNetbufFails(t) /\ ~Requeue(t)
    BY DEF HIFSendFails, HTCSendBundledNetbufFails, Requeue, NothingFailed
  <2>2. CASE \/ CheckOverflow(t) \/ RejectPacket(t) \/ ReadResources(t)
             \/ EnterTrySend(t)
    BY <2>2, ChargeOutside
  <2>3. CASE HIFSendOk(t)
    BY <2>3, ChargeBus
  <2>4. CASE \/ GetHTCSendPacketsCreditBased(t) \/ GetHTCSendPackets(t)
             \/ EndGet(t) \/ HTCIssuePacketsBundle(t) \/ IssueSingle(t)
             \/ Reread(t) \/ Relock(t)
    BY <2>4, ChargeDrain
  <2> QED
    BY <1>2, <2>1, <2>2, <2>3, <2>4 DEF ThreadStep
<1>3. CASE HTCTxCompletionHandler
  <2>1. PICK v \in {"idle", "resources"} :
           pc' = [pc EXCEPT ![CompThread] = v]
    BY <1>3 DEF HTCTxCompletionHandler, AfterCompletionPc
  <2>2. /\ CompThread \in Threads /\ pc[CompThread] \notin DrainPcs
        /\ v \in PcValues /\ v \notin DrainPcs
        /\ UNCHANGED <<netbuf, sendQueue, delivered, hif, SendFlags, TxCredits>>
    BY <1>3 DEF HTCTxCompletionHandler, Threads, DrainPcs, PcValues
  <2>3. AllInHand' = AllInHand
    BY <2>1, <2>2, HandKept
  <2> QED
    BY <1>0, <2>2, <2>3, ChargesNot
<1>4. CASE CreditReport
  <2>1. PICK n \in 1..TotalCredits : HTCProcessCreditRpt(n)
    BY <1>4 DEF CreditReport
  <2>2. PICK v \in {"idle", "lock", "resources"} :
           pc' = [pc EXCEPT ![RxThread] = v]
    BY <2>1 DEF HTCProcessCreditRpt, TrySendPc
  <2>3. /\ RxThread \in Threads /\ pc[RxThread] \notin DrainPcs
        /\ v \in PcValues /\ v \notin DrainPcs
        /\ UNCHANGED <<netbuf, sendQueue, delivered, hif, SendFlags>>
        /\ TxCredits' = TxCredits + n
    BY <2>1 DEF HTCProcessCreditRpt, Threads, DrainPcs, PcValues
  <2>4. AllInHand' = AllInHand
    BY <2>2, <2>3, HandKept
  <2>5. TxCredits' >= TxCredits
    BY <1>0, <2>1, <2>3, SizeAssumption DEF SizeAssumption
  <2> QED
    BY <2>3, <2>4, <2>5, ChargesNot
<1>5. CASE HTCFlushEndpointTX \/ Quiescent \/ UNCHANGED vars
  <2>1. UNCHANGED <<delivered, hif, SendFlags, TxCredits, pc, netbuf, sendQueue>>
    BY <1>5 DEF HTCFlushEndpointTX, Quiescent, vars, threadVars, busVars
  <2>2. AllInHand' = AllInHand
    BY <2>1 DEF AllInHand, InHand, Draining
  <2> QED
    BY <1>0, <2>1, <2>2, ChargesNot
<1> QED
  BY <1>1, <1>2, <1>3, <1>4, <1>5, ChargeBus DEF Next

LEMMA RequestStep ==
    ASSUME RefInv, RefInv', NothingFailed, ~HIFSendCanFail, RequestInv, [Next]_vars
    PROVE  RequestInv'
<1> SUFFICES ASSUME TxCreditFlowEnabled, ~IsEndpoint0, Charging' # <<>>
             PROVE  SendFlags'[Last(Charging')] \/ TxCredits' > TxCreditsPerMaxMsg
  BY DEF RequestInv, Last
<1>0. TxCredits \in Int /\ TxCredits' \in Int /\ TxCreditsPerMaxMsg \in Nat
  BY SizeAssumption DEF RefInv, TypeInv, TypeOK, SizeAssumption
<1>1. CASE ChargesNothing
  BY <1>0, <1>1 DEF ChargesNothing, RequestInv
<1>2. ASSUME NEW p, Charges(p)
      PROVE  SendFlags'[Last(Charging')] \/ TxCredits' > TxCreditsPerMaxMsg
  <2> DEFINE c == Charging
             a == Append(c, p)
  <2>1. /\ c \in Seq(Packets) /\ p \in Packets /\ Charging' = a
        /\ SendFlags' = [SendFlags EXCEPT ![p] = NeedCreditUpdate(p)]
        /\ TxCredits' = TxCredits - CreditsRequired(p)
    BY <1>2, ChargingType DEF Charges
  <2> HIDE DEF c
  <2>2. Last(a) = p
    BY <2>1, AppendProperties DEF Last
  <2>3. SendFlags'[p] = NeedCreditUpdate(p)
    BY <2>1 DEF RefInv, TypeInv, TypeOK
  <2>4. CASE TxCredits - CreditsRequired(p) <= TxCreditsPerMaxMsg
    <3>1. NeedCreditUpdate(p)
      BY <2>4 DEF NeedCreditUpdate
    <3> QED
      BY <2>1, <2>2, <2>3, <3>1
  <2>5. CASE ~(TxCredits - CreditsRequired(p) <= TxCreditsPerMaxMsg)
    BY <1>0, <2>1, <2>5
  <2> QED
    BY <2>4, <2>5
<1> QED
  BY <1>1, <1>2, ChargeStep

(* Whenever the head of TxQueue cannot be paid for, the packet that was    *)
(* charged last carried HTC_FLAGS_NEED_CREDIT_UPDATE to the target: the    *)
(* host is never stuck without having asked, if no message is longer than  *)
(* the longest the service was connected for and HIF has resources.        *)
THEOREM UpdatesAreRequested ==
    ASSUME \A p \in Packets : CreditsRequired(p) <= TxCreditsPerMaxMsg
    PROVE  Spec /\ [](~HIFSendCanFail) => []CreditUpdateRequested
<1> DEFINE Inv == RefInv /\ FlowInv /\ RequestInv
<1>1. Init => Inv
  <2> SUFFICES ASSUME Init PROVE RequestInv
    BY RefInit, FlowInit
  <2>1. AllInHand = <<>>
    BY HandOfNobody DEF Init, DrainPcs
  <2>2. <<>> \o <<>> = <<>>
    BY ConcatEmptySeq, EmptySeq
  <2>3. Charging = <<>>
    BY <2>1, <2>2, FlattenEmpty DEF Init, Charging
  <2> QED
    BY <2>3 DEF RequestInv
<1>2. Inv /\ ~HIFSendCanFail /\ [Next]_vars => Inv'
  <2> SUFFICES ASSUME RefInv, FlowInv, RequestInv, ~HIFSendCanFail, [Next]_vars
               PROVE  Inv'
    OBVIOUS
  <2>1. RefInv'
    BY RefStep
  <2>2. FlowInv'
    BY FlowStep DEF RefInv
  <2>3. RequestInv'
    BY <2>1, RequestStep DEF FlowInv
  <2> QED
    BY <2>1, <2>2, <2>3
<1>3. Inv => CreditUpdateRequested
  <2> SUFFICES ASSUME RefInv, FlowInv, RequestInv, TxCreditFlowEnabled,
                      TxQueue # <<>>, Charging # <<>>,
                      TxCredits < CreditsRequired(Head(TxQueue))
               PROVE  SendFlags[Last(Charging)]
    BY DEF CreditUpdateRequested, Charging, Last
  <2> DEFINE p == Head(TxQueue)
  <2>1. p \in Packets
    BY ElementsTail DEF RefInv, TypeInv, TypeOK
  <2>2. CreditsRequired(p) \in Nat /\ CreditsRequired(p) <= TxCreditsPerMaxMsg
    BY <2>1, CreditsRequiredNat
  <2>3. /\ TxCredits \in Int /\ TxCredits >= 0 /\ TxCreditsPerMaxMsg \in Nat
    BY SizeAssumption DEF RefInv, TypeInv, TypeOK, FlowInv, CreditsConserved,
                          SizeAssumption
  <2>4. ~IsEndpoint0
    <3>1. IsEndpoint0 => CreditsRequired(p) = 0
      BY DEF CreditsRequired
    <3> QED
      BY <2>3, <3>1
  <2>5. ~(TxCredits > TxCreditsPerMaxMsg)
    <3> HIDE DEF p
    <3>1. TxCredits < CreditsRequired(p)
      BY DEF p
    <3> QED
      BY <2>2, <2>3, <3>1
  <2> QED
    BY <2>4, <2>5 DEF RequestInv
<1> QED
  BY <1>1, <1>2, <1>3, PTL DEF Spec
=============================================================================
