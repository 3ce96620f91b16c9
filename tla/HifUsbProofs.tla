---------------------------- MODULE HifUsbProofs ----------------------------
(***************************************************************************)
(* Proofs about the USB transport (HifUsb): for every number of URBs, of   *)
(* packets and of prestart transfers.                                      *)
(***************************************************************************)
EXTENDS HifUsb, ListTheorems

RxKinds == {"prestart", "recv", "bundle"}
Statuses == {"none", "ok", "error", "cancelled"}
Bufs == Packets \cup {"skb", None}

(* What belongs to each pipe: its URBs, the completion routines of its     *)
(* transfers, and what it hands up, which is a numbered message or a       *)
(* packet.                                                                 *)
UrbsOn(p) == IF p = "rx" THEN RxUrbs ELSE TxUrbs
KindsOn(p) == IF p = "rx" THEN RxKinds ELSE {"transmit"}
ItemsOn(p) == IF p = "rx" THEN Nat ELSE Bufs

TransfersOn(p) == [urb : UrbsOn(p), kind : KindsOn(p)]
FinishedOn(p) == [urb : UrbsOn(p), kind : KindsOn(p), status : Statuses,
                  msgs : IF p = "rx" THEN Seq(Nat) ELSE {<<>>}]
FinishedTransfers == FinishedOn("rx") \cup FinishedOn("tx")

ListTypes ==
    /\ DOMAIN urb_list_head = Pipes /\ DOMAIN urb_pending_list = Pipes
    /\ DOMAIN io_comp_queue = Pipes /\ DOMAIN core = Pipes
    /\ \A p \in Pipes : /\ urb_list_head[p] \in Seq(UrbsOn(p))
                        /\ urb_pending_list[p] \in Seq(UrbsOn(p))
                        /\ io_comp_queue[p] \in Seq(ItemsOn(p))
                        /\ core[p] \in Seq(TransfersOn(p))
    /\ giveback \in Seq(FinishedTransfers)

(* The completion routine: which of them runs tells where it may be and    *)
(* what it has in hand.                                                    *)
CompType ==
    /\ comp \in [pc : {"idle", "cleanup", "queue", "schedule", "prestart",
                       "repost", "posting"},
                 urb : Urbs \cup {None}, kind : RxKinds \cup {"transmit", "none"},
                 status : Statuses, msgs : Seq(Nat) \cup Seq(Bufs)]
    /\ comp.pc = "idle" => comp = CompIdle
    /\ comp.kind = "none" => comp.pc = "idle"
    /\ comp.kind \in RxKinds => comp.urb \in RxUrbs /\ comp.msgs \in Seq(Nat)
    /\ comp.kind = "transmit" => /\ comp.urb \in TxUrbs
                                 /\ comp.msgs \in Seq(Bufs)
                                 /\ comp.pc \in {"cleanup", "queue", "schedule"}
    /\ comp.pc = "prestart" => comp.kind = "prestart"
    /\ comp.pc = "repost" => comp.kind \in {"recv", "bundle"}

PostType ==
    /\ post \in [Contexts -> [pc : {"off", "alloc", "enqueue", "submit"},
                              urb : RxUrbs \cup {None},
                              kind : RxKinds \cup {"none"}, left : Int]]
    /\ \A c \in Contexts :
          /\ post[c].pc \in {"enqueue", "submit"} => post[c].urb \in RxUrbs
          /\ post[c].pc \in {"off", "alloc"} => post[c].urb = None
          /\ post[c].pc # "off" => post[c].kind \in RxKinds
    /\ post["comp"].pc # "off" <=> comp.pc = "posting"
    /\ post["control"].pc # "off" <=> control \in {"starting", "resuming"}

ControlType ==
    /\ control \in {"probed", "starting", "up", "suspending", "suspended",
                    "resuming", "stopping", "destroying", "detaching",
                    "detached", "removing", "removed"}
    /\ flush \in [pc : {"off", "take", "kill", "wait", "work", "done"},
                  pipe : Pipes, urb : Urbs \cup {None}]
    /\ flush.pc # "off" <=> control \in {"suspending", "stopping",
                               "destroying", "detaching", "removing"}
    /\ flush.pc \in {"kill", "wait"} => flush.urb \in UrbsOn(flush.pipe)
    /\ flush.pc \notin {"kill", "wait"} => flush.urb = None

PacketRecords == [pc : {"htc", "enqueue", "submit", "hif", "done"},
                  urb : TxUrbs \cup {None}, layers : Int, contexts : Int,
                  pushed : BOOLEAN, refused : Int]

PacketType ==
    /\ packet \in [Packets -> PacketRecords]
    /\ \A p \in Packets :
          /\ packet[p].pc \in {"enqueue", "submit", "hif"} =>
                packet[p].urb \in TxUrbs
          /\ packet[p].pc \in {"htc", "done"} => packet[p].urb = None

FlagTypes ==
    /\ suspend_state \in BOOLEAN /\ htcCallbacks \in BOOLEAN
    /\ is_bundle_enabled \in BOOLEAN /\ enabled \in BOOLEAN
    /\ inOrder \in BOOLEAN /\ allPosted \in BOOLEAN

ValueTypes ==
    /\ buf \in [Urbs -> Bufs]
    /\ io_complete_work \in [Pipes -> BOOLEAN]
    /\ worker \in [Pipes -> BOOLEAN]
    /\ rx_prestart_lock \in Contexts \cup {"free"}
    /\ urb_prestart_cnt \in Int /\ orphans \in Int
    /\ sent \in Nat /\ delivered \in Nat /\ failures \in Nat

TypeOK == /\ ListTypes /\ FlagTypes /\ ValueTypes
          /\ CompType /\ PostType /\ ControlType /\ PacketType

-----------------------------------------------------------------------------
(* Lists of transfers.                                                     *)

LEMMA PipesAre == Pipes = {"tx", "rx"} /\ \A u : PipeOf(u) \in Pipes
  BY DEF Pipes, PipeOf

(* The lists that a step builds are lists of the same things.              *)
LEMMA SeqStep ==
    ASSUME NEW S, NEW q \in Seq(S), NEW x \in S
    PROVE  /\ Append(q, x) \in Seq(S)
           /\ <<x>> \o q \in Seq(S)
           /\ q # <<>> => Head(q) \in S /\ Tail(q) \in Seq(S)
<1>1. <<x>> \in Seq(S)
  OBVIOUS
<1>2. <<x>> \o q \in Seq(S)
  BY <1>1, ElementsConcat
<1>3. Append(q, x) \in Seq(S)
  BY ElementsAppend
<1> QED
  BY <1>2, <1>3, ElementsTail

(* usb_kill_urb and usb_hif_remove_pending_transfer unlink one member.     *)
LEMMA RemoveAtType ==
    ASSUME NEW S, NEW q \in Seq(S), NEW i \in 1..Len(q)
    PROVE  RemoveAt(q, i) \in Seq(S)
<1> DEFINE n == Len(q)
           f == SubSeq(q, 1, i - 1)
           r == SubSeq(q, i + 1, n)
<1>1. n \in Nat /\ \A j \in 1..n : q[j] \in S
  BY LenProperties, ElementOfSeq
<1>2. f \in Seq(S)
  <2>1. 1 \in Int /\ i - 1 \in Int /\ \A j \in 1..(i - 1) : q[j] \in S
    BY <1>1
  <2> QED
    BY <2>1, SubSeqProperties
<1>3. r \in Seq(S)
  <2>1. i + 1 \in Int /\ n \in Int /\ \A j \in (i + 1)..n : q[j] \in S
    BY <1>1
  <2> HIDE DEF n
  <2> QED
    BY <2>1, SubSeqProperties
<1> HIDE DEF f, r
<1>4. f \o r \in Seq(S)
  BY <1>2, <1>3, ElementsConcat
<1> QED
  BY <1>4 DEF RemoveAt, f, r, n

LEMMA ListRemoveType ==
    ASSUME NEW S, NEW q \in Seq(S), NEW x
    PROVE  DL_ListRemove(q, x) \in Seq(S)
<1>1. CASE x \notin Elements(q)
  BY <1>1 DEF DL_ListRemove
<1>2. CASE x \in Elements(q)
  <2> DEFINE i == CHOOSE j \in 1..Len(q) : q[j] = x
  <2>1. i \in 1..Len(q)
    BY <1>2 DEF Elements
  <2>2. DL_ListRemove(q, x) = RemoveAt(q, i)
    BY <1>2 DEF DL_ListRemove, RemoveAt
  <2> HIDE DEF i
  <2> QED
    BY <2>1, <2>2, RemoveAtType
<1> QED
  BY <1>1, <1>2

(* What unlinking the transfers of a pipe makes of them.                   *)
LEMMA CancelledType ==
    ASSUME NEW p \in Pipes, NEW q \in Seq(TransfersOn(p))
    PROVE  /\ Cancelled(q) \in Seq(FinishedTransfers)
           /\ Len(Cancelled(q)) = Len(q)
           /\ \A i \in 1..Len(q) :
                 Cancelled(q)[i] = Finished(q[i], "cancelled", <<>>)
<1>1. Len(q) \in Nat /\ \A i \in 1..Len(q) : q[i] \in TransfersOn(p)
  BY LenProperties, ElementOfSeq
<1>2. <<>> \in Seq(Nat)
  BY EmptySeq
<1>3. \A i \in 1..Len(q) :
         Finished(q[i], "cancelled", <<>>) \in FinishedTransfers
  BY <1>1, <1>2 DEF TransfersOn, FinishedTransfers, FinishedOn, Finished,
                    Statuses, UrbsOn, KindsOn, Pipes
<1>4. \A i \in 1..Len(q) :
         Cancelled(q)[i] = Finished(q[i], "cancelled", <<>>)
  BY DEF Cancelled
<1>5. Cancelled(q) \in [1..Len(q) -> FinishedTransfers]
  BY <1>3 DEF Cancelled
<1>6. Cancelled(q) \in Seq(FinishedTransfers) /\ Len(Cancelled(q)) = Len(q)
  BY <1>1, <1>5, LenProperties
<1> QED
  BY <1>4, <1>6

-----------------------------------------------------------------------------
(* Types.                                                                  *)

LEMMA TypeInit == Init => TypeOK
<1> SUFFICES ASSUME Init PROVE TypeOK
  OBVIOUS
<1>1. \A S : <<>> \in Seq(S)
  BY EmptySeq
<1>2. ListTypes
  <2>1. PICK rx \in SetToSeqs(RxUrbs), tx \in SetToSeqs(TxUrbs) :
           urb_list_head = [p \in Pipes |-> IF p = "rx" THEN rx ELSE tx]
    BY DEF Init
  <2>2. rx \in Seq(RxUrbs) /\ tx \in Seq(TxUrbs)
    <3>1. /\ rx \in [1..Cardinality(RxUrbs) -> RxUrbs]
          /\ tx \in [1..Cardinality(TxUrbs) -> TxUrbs]
      BY DEF SetToSeqs
    <3>2. Cardinality(RxUrbs) \in Nat /\ Cardinality(TxUrbs) \in Nat
      BY HifUsbAssumption, FS_CardinalityType DEF HifUsbAssumption
    <3> QED
      BY <3>1, <3>2
  <2>3. /\ DOMAIN urb_list_head = Pipes
        /\ \A p \in Pipes : urb_list_head[p] \in Seq(UrbsOn(p))
    BY <2>1, <2>2 DEF UrbsOn
  <2> QED
    BY <1>1, <2>3 DEF Init, ListTypes
<1>3. FlagTypes /\ ValueTypes
  <2>1. FlagTypes
    BY DEF Init, FlagTypes
  <2>2. ValueTypes
    BY DEF Init, ValueTypes, Bufs
  <2> QED
    BY <2>1, <2>2
<1>4. CompType
  BY <1>1 DEF Init, CompType, CompIdle, Statuses, RxKinds
<1>5. PostType
  BY DEF Init, PostType, CompIdle, PostOff, Contexts
<1>6. ControlType
  BY DEF Init, ControlType, FlushOff, Pipes
<1>7. PacketType
  BY DEF Init, PacketType, PacketRecords
<1> QED
  BY <1>2, <1>3, <1>4, <1>5, <1>6, <1>7 DEF TypeOK

(* A posting loop ends, and its caller goes on.                            *)
LEMMA TypeEndPost ==
    ASSUME TypeOK, NEW c \in Contexts, EndPost(c), post[c].pc # "off",
           UNCHANGED <<flush, packet>>
    PROVE  /\ CompType' /\ PostType' /\ ControlType' /\ PacketType'
           /\ rx_prestart_lock' \in Contexts \cup {"free"}
<1> USE DEF TypeOK
<1>1. post' = [post EXCEPT ![c] = PostOff] /\ post'[c] = PostOff
  BY DEF EndPost, PostType
<1>2. CASE c = "comp"
  <2>1. comp' = CompIdle /\ control' = control
    BY <1>2 DEF EndPost
  <2>2. CompType'
    <3>1. <<>> \in Seq(Nat)
      BY EmptySeq
    <3> QED
      BY <2>1, <3>1 DEF CompType, CompIdle, Statuses, RxKinds
  <2>3. PostType'
    BY <1>1, <1>2, <2>1 DEF PostType, PostOff, Contexts, CompIdle
  <2> QED
    BY <2>1, <2>2, <2>3 DEF ControlType, PacketType, EndPost, Unlocked, ValueTypes
<1>3. CASE c = "control"
  <2>1. comp' = comp /\ control' = "up" /\ control \in {"starting", "resuming"}
    BY <1>3 DEF EndPost, PostType
  <2>2. CompType'
    BY <2>1 DEF CompType
  <2>3. PostType'
    BY <1>1, <1>3, <2>1 DEF PostType, PostOff, Contexts
  <2>4. ControlType'
    BY <2>1 DEF ControlType
  <2> QED
    BY <2>1, <2>2, <2>3, <2>4 DEF PacketType, EndPost, Unlocked, ValueTypes
<1> QED
  BY <1>2, <1>3 DEF Contexts

LEMMA TypePost ==
    ASSUME TypeOK, NEW c \in Contexts, PostStep(c)
    PROVE  TypeOK'
<1> USE DEF TypeOK
<1>0. /\ None \notin Urbs /\ "rx" \in Pipes /\ "tx" \in Pipes
      /\ UrbsOn("rx") = RxUrbs /\ RxUrbs \subseteq Urbs
  BY HifUsbAssumption DEF HifUsbAssumption, Urbs, Pipes, UrbsOn
<1>1. CASE PostNoUrb(c)
  <2>1. ListTypes' /\ FlagTypes'
    BY <1>1 DEF PostNoUrb, ListTypes, FlagTypes, listVars, queueVars, usbVars,
                deliveryVars, stateVars, historyVars
  <2>2. /\ CompType' /\ PostType' /\ ControlType' /\ PacketType'
        /\ rx_prestart_lock' \in Contexts \cup {"free"}
    BY <1>1, TypeEndPost DEF PostNoUrb
  <2>3. ValueTypes'
    BY <1>1, <2>2 DEF PostNoUrb, ValueTypes, queueVars, usbVars, deliveryVars,
                      historyVars
  <2> QED
    BY <2>1, <2>2, <2>3
<1>2. CASE PostAlloc(c)
  <2> DEFINE q == urb_list_head["rx"]
             u == Head(q)
  <2>1. u \in RxUrbs /\ Tail(q) \in Seq(RxUrbs)
    BY <1>0, <1>2, ElementsTail DEF PostAlloc, ListTypes
  <2>2. ListTypes' /\ FlagTypes'
    BY <1>0, <1>2, <2>1 DEF PostAlloc, ListTypes, FlagTypes, queueVars,
                            usbVars, deliveryVars, stateVars, historyVars
  <2>3. PostType'
    <3>1. post' = [post EXCEPT ![c].pc = "enqueue", ![c].urb = u]
      BY <1>2 DEF PostAlloc
    <3>2. UNCHANGED <<comp, control>> /\ post[c].pc = "alloc"
      BY <1>2 DEF PostAlloc
    <3> HIDE DEF u
    <3> QED
      BY <2>1, <3>1, <3>2 DEF PostType, Contexts
  <2>4. CompType' /\ ControlType' /\ PacketType'
    BY <1>2 DEF PostAlloc, CompType, ControlType, PacketType
  <2>5. ValueTypes'
    BY <1>0, <1>2, <2>1 DEF PostAlloc, ValueTypes, queueVars, usbVars,
                            deliveryVars, historyVars, Bufs
  <2> QED
    BY <2>2, <2>3, <2>4, <2>5
<1>3. CASE PostNoBuffer(c)
  <2>1. ListTypes' /\ FlagTypes'
    BY <1>3 DEF PostNoBuffer, ListTypes, FlagTypes, listVars, queueVars,
                usbVars, deliveryVars, stateVars
  <2>2. /\ CompType' /\ PostType' /\ ControlType' /\ PacketType'
        /\ rx_prestart_lock' \in Contexts \cup {"free"}
    BY <1>3, TypeEndPost DEF PostNoBuffer
  <2>3. ValueTypes'
    BY <1>3, <2>2 DEF PostNoBuffer, PostingFails, ValueTypes, queueVars,
                      usbVars, deliveryVars
  <2> QED
    BY <2>1, <2>2, <2>3
<1>4. CASE PostEnqueue(c)
  <2> DEFINE q == urb_pending_list["rx"]
             u == post[c].urb
  <2>1. u \in RxUrbs /\ q \in Seq(RxUrbs)
    BY <1>0, <1>4 DEF PostEnqueue, PostType, ListTypes
  <2>2. Append(q, u) \in Seq(RxUrbs)
    BY <2>1, ElementsAppend
  <2>3. ListTypes' /\ FlagTypes'
    BY <1>0, <1>4, <2>2 DEF PostEnqueue, ListTypes, FlagTypes, queueVars,
                            usbVars, deliveryVars, stateVars, historyVars
  <2>4. PostType'
    BY <1>4, <2>1 DEF PostEnqueue, PostType, Contexts
  <2>5. CompType' /\ ControlType' /\ PacketType'
    BY <1>4 DEF PostEnqueue, CompType, ControlType, PacketType
  <2>6. ValueTypes'
    BY <1>4 DEF PostEnqueue, ValueTypes, queueVars, usbVars, deliveryVars,
                historyVars
  <2> QED
    BY <2>3, <2>4, <2>5, <2>6
<1>5. CASE PostSubmit(c)
  <2> DEFINE t == Transfer(post[c].urb, post[c].kind)
  <2>1. t \in TransfersOn("rx") /\ core["rx"] \in Seq(TransfersOn("rx"))
    BY <1>0, <1>5 DEF PostSubmit, PostType, TransfersOn, KindsOn, Transfer,
                      ListTypes
  <2>2. Append(core["rx"], t) \in Seq(TransfersOn("rx"))
    BY <2>1, ElementsAppend
  <2>3. ListTypes' /\ FlagTypes'
    <3>1. core' = [core EXCEPT !["rx"] = Append(core["rx"], t)]
      BY <1>5 DEF PostSubmit
    <3>2. DOMAIN core' = Pipes /\ \A p \in Pipes : core'[p] \in Seq(TransfersOn(p))
      BY <2>2, <3>1 DEF ListTypes
    <3> QED
      BY <1>5, <3>2 DEF PostSubmit, ListTypes, FlagTypes, listVars, queueVars,
                        deliveryVars, stateVars, historyVars
  <2>4. PostType'
    <3> DEFINE k == post[c].kind
               n == IF k = "prestart" THEN post[c].left - 1 ELSE 0
    <3>1. n \in Int /\ post' = [post EXCEPT ![c] = Post(k, n)]
      BY <1>5 DEF PostSubmit, PostType
    <3>2. UNCHANGED <<comp, control>> /\ post[c].pc = "submit"
      BY <1>5 DEF PostSubmit
    <3> QED
      BY <3>1, <3>2 DEF PostType, Post, Contexts
  <2>5. CompType' /\ ControlType' /\ PacketType'
    BY <1>5 DEF PostSubmit, CompType, ControlType, PacketType
  <2>6. ValueTypes'
    BY <1>5 DEF PostSubmit, ValueTypes, queueVars, deliveryVars, historyVars
  <2> QED
    BY <2>3, <2>4, <2>5, <2>6
<1>6. CASE PostSubmitFails(c)
  <2> DEFINE u == post[c].urb
  <2>1. u \in RxUrbs /\ PipeOf(u) = "rx" /\ post[c].pc # "off"
    BY <1>6 DEF PostSubmitFails, PostType, PipeOf
  <2>2. /\ urb_pending_list' = [urb_pending_list EXCEPT !["rx"] =
                                   DL_ListRemove(@, u)]
        /\ urb_list_head' = [urb_list_head EXCEPT !["rx"] = <<u>> \o @]
    BY <1>6, <2>1 DEF PostSubmitFails, usb_hif_remove_pending_transfer,
                      usb_hif_cleanup_recv_urb, FreeTo
  <2>3. /\ urb_list_head["rx"] \in Seq(RxUrbs)
        /\ urb_pending_list["rx"] \in Seq(RxUrbs)
    BY <1>0 DEF ListTypes
  <2> HIDE DEF u
  <2>4. /\ <<u>> \o urb_list_head["rx"] \in Seq(RxUrbs)
        /\ DL_ListRemove(urb_pending_list["rx"], u) \in Seq(RxUrbs)
    BY <2>1, <2>3, SeqStep, ListRemoveType
  <2>5. ListTypes'
    BY <1>0, <1>6, <2>2, <2>4 DEF PostSubmitFails, ListTypes, queueVars, usbVars
  <2>6. FlagTypes'
    BY <1>6 DEF PostSubmitFails, FlagTypes, usbVars, deliveryVars, stateVars
  <2>7. /\ CompType' /\ PostType' /\ ControlType' /\ PacketType'
        /\ rx_prestart_lock' \in Contexts \cup {"free"}
    BY <1>6, <2>1, TypeEndPost DEF PostSubmitFails
  <2>8. ValueTypes'
    BY <1>0, <1>6, <2>1, <2>7 DEF PostSubmitFails, PostingFails, ValueTypes,
                queueVars, usbVars, deliveryVars, Bufs, u
  <2> QED
    BY <2>5, <2>6, <2>7, <2>8
<1> QED
  BY <1>1, <1>2, <1>3, <1>4, <1>5, <1>6 DEF PostStep

(* A context more, or one less, in front of a packet's data or allocated.  *)
LEMMA ContextAdded ==
    ASSUME NEW r \in PacketRecords, NEW w, w = WithContext(r)
    PROVE  /\ w \in PacketRecords
           /\ w.pc = r.pc /\ w.urb = r.urb /\ w.refused = r.refused
           /\ w.layers + w.contexts = r.layers + r.contexts + 1
<1> USE DEF PacketRecords
<1>1. CASE r.layers < Headroom
  <2>1. w = [r EXCEPT !.layers = r.layers + 1, !.pushed = TRUE]
    BY <1>1 DEF WithContext
  <2>2. /\ w.pc = r.pc /\ w.urb = r.urb /\ w.refused = r.refused
        /\ w.layers + w.contexts = r.layers + r.contexts + 1
    BY <2>1
  <2>3. w \in PacketRecords
    <3> DEFINE x == [r EXCEPT !.layers = r.layers + 1]
    <3>1. x \in PacketRecords
      OBVIOUS
    <3>2. w = [x EXCEPT !.pushed = TRUE]
      BY <2>1
    <3> HIDE DEF x
    <3> QED
      BY <3>1, <3>2, Zenon
  <2> QED
    BY <2>2, <2>3
<1>2. CASE ~(r.layers < Headroom)
  <2>1. w = [r EXCEPT !.contexts = r.contexts + 1, !.pushed = FALSE]
    BY <1>2 DEF WithContext
  <2>2. /\ w.pc = r.pc /\ w.urb = r.urb /\ w.refused = r.refused
        /\ w.layers + w.contexts = r.layers + r.contexts + 1
    BY <2>1
  <2>3. w \in PacketRecords
    <3> DEFINE x == [r EXCEPT !.contexts = r.contexts + 1]
    <3>1. x \in PacketRecords
      OBVIOUS
    <3>2. w = [x EXCEPT !.pushed = FALSE]
      BY <2>1
    <3> HIDE DEF x
    <3> QED
      BY <3>1, <3>2, Zenon
  <2> QED
    BY <2>2, <2>3
<1> QED
  BY <1>1, <1>2

LEMMA ContextRemoved ==
    ASSUME NEW r \in PacketRecords, NEW w, w = WithoutContext(r)
    PROVE  /\ w \in PacketRecords
           /\ w.pc = r.pc /\ w.urb = r.urb /\ w.refused = r.refused
           /\ w.layers + w.contexts = r.layers + r.contexts - 1
<1> USE DEF PacketRecords
<1>1. CASE r.pushed
  <2>1. w = [r EXCEPT !.layers = r.layers - 1]
    BY <1>1 DEF WithoutContext
  <2> QED
    BY <2>1
<1>2. CASE ~r.pushed
  <2>1. w = [r EXCEPT !.contexts = r.contexts - 1]
    BY <1>2 DEF WithoutContext
  <2> QED
    BY <2>1
<1> QED
  BY <1>1, <1>2

LEMMA TypeComp ==
    ASSUME TypeOK, CompStep
    PROVE  TypeOK'
<1> USE DEF TypeOK
<1>0. /\ None \notin Urbs /\ "rx" \in Pipes /\ "tx" \in Pipes
      /\ UrbsOn("rx") = RxUrbs /\ UrbsOn("tx") = TxUrbs
      /\ RxUrbs \subseteq Urbs /\ TxUrbs \subseteq Urbs
      /\ \A u \in Urbs : PipeOf(u) \in Pipes /\ u \in UrbsOn(PipeOf(u))
      /\ \A u \in TxUrbs : PipeOf(u) = "tx"
      /\ \A u \in RxUrbs : PipeOf(u) = "rx"
  BY HifUsbAssumption DEF HifUsbAssumption, Urbs, Pipes, UrbsOn, PipeOf
<1>1. CASE CompBegin
  <2> DEFINE t == Head(giveback)
             p == PipeOf(t.urb)
  <2>1. t \in FinishedTransfers /\ Tail(giveback) \in Seq(FinishedTransfers)
    BY <1>1, ElementsTail DEF CompBegin, ListTypes
  <2>2. t.urb \in Urbs /\ p \in Pipes /\ t \in FinishedOn(p)
    BY <1>0, <2>1 DEF FinishedTransfers, FinishedOn
  <2>3. urb_pending_list' = [urb_pending_list EXCEPT ![p] =
                                DL_ListRemove(@, t.urb)]
    BY <1>1 DEF CompBegin, usb_hif_remove_pending_transfer
  <2>4. comp' = [pc |-> IF t.msgs # <<>> THEN "queue" ELSE "cleanup",
                 urb |-> t.urb, kind |-> t.kind, status |-> t.status,
                 msgs |-> t.msgs]
    BY <1>1 DEF CompBegin
  <2> HIDE DEF t, p
  <2>5. DL_ListRemove(urb_pending_list[p], t.urb) \in Seq(UrbsOn(p))
    BY <2>2, ListRemoveType DEF ListTypes
  <2>6. ListTypes' /\ FlagTypes'
    BY <1>1, <2>1, <2>2, <2>3, <2>5 DEF CompBegin, ListTypes, FlagTypes,
            queueVars, deliveryVars, stateVars, historyVars
  <2>7. CompType'
    <3>1. <<>> \in Seq(Bufs) /\ <<>> \in Seq(Nat)
      BY EmptySeq
    <3>2. CASE p = "rx"
      BY <1>0, <2>2, <2>4, <3>2 DEF CompType, FinishedOn, KindsOn, RxKinds
    <3>3. CASE p = "tx"
      BY <1>0, <2>2, <2>4, <3>1, <3>3 DEF CompType, FinishedOn, KindsOn, RxKinds
    <3> QED
      BY <2>2, <3>2, <3>3 DEF Pipes
  <2>8. PostType'
    <3>1. post' = post /\ control' = control /\ comp.pc # "posting"
      BY <1>1 DEF CompBegin
    <3>2. comp'.pc # "posting"
      BY <2>4
    <3> QED
      BY <3>1, <3>2 DEF PostType
  <2>9. ValueTypes' /\ ControlType' /\ PacketType'
    BY <1>1 DEF CompBegin, ValueTypes, ControlType, PacketType, queueVars,
                deliveryVars, historyVars
  <2> QED
    BY <2>6, <2>7, <2>8, <2>9
<1>2. CASE CompQueue
  <2> DEFINE p == PipeOf(comp.urb)
             m == comp.msgs
  <2>1. p \in Pipes /\ m \in Seq(ItemsOn(p)) /\ comp.urb \in Urbs
    BY <1>0, <1>2 DEF CompQueue, CompType, ItemsOn, CompIdle
  <2>2. PICK n \in 0..Len(m) : io_comp_queue' = [io_comp_queue EXCEPT ![p] =
                                   @ \o SubSeq(m, 1, n)]
    <3>1. Len(m) \in 0..Len(m)
      BY <2>1, LenProperties
    <3> QED
      BY <1>2, <3>1 DEF CompQueue, skb_queue_tail
  <2> HIDE DEF p, m
  <2>3. io_comp_queue[p] \o SubSeq(m, 1, n) \in Seq(ItemsOn(p))
    <3>1. SubSeq(m, 1, n) \in Seq(ItemsOn(p))
      BY <2>1, <2>2, ElementsSplit
    <3>2. io_comp_queue[p] \in Seq(ItemsOn(p))
      BY <2>1 DEF ListTypes
    <3> QED
      BY <3>1, <3>2, ElementsConcat
  <2>4. ListTypes' /\ FlagTypes'
    BY <1>2, <2>1, <2>2, <2>3 DEF CompQueue, ListTypes, FlagTypes, listVars,
            usbVars, deliveryVars, stateVars, historyVars
  <2>5. comp' = [comp EXCEPT !.pc = "schedule"]
    BY <1>2 DEF CompQueue
  <2>6. CompType'
    BY <1>2, <2>5 DEF CompQueue, CompType, CompIdle, RxKinds
  <2>7. PostType'
    <3>1. post' = post /\ control' = control /\ comp.pc # "posting"
      BY <1>2 DEF CompQueue
    <3>2. comp'.pc # "posting"
      BY <2>5 DEF CompType
    <3> QED
      BY <3>1, <3>2 DEF PostType
  <2>8. ValueTypes'
    <3>1. buf' \in [Urbs -> Bufs]
      BY <1>2, <2>1 DEF CompQueue, ValueTypes, Bufs
    <3> QED
      BY <1>2, <3>1 DEF CompQueue, ValueTypes, usbVars, deliveryVars, historyVars
  <2>9. ControlType' /\ PacketType'
    BY <1>2 DEF CompQueue, ControlType, PacketType
  <2> QED
    BY <2>4, <2>6, <2>7, <2>8, <2>9
<1>3. CASE CompSchedule
  <2>1. ListTypes' /\ FlagTypes'
    BY <1>3 DEF CompSchedule, ListTypes, FlagTypes, listVars, usbVars,
                deliveryVars, stateVars, historyVars
  <2>2. CompType'
    <3>1. <<>> \in Seq(Nat)
      BY EmptySeq
    <3> QED
      BY <1>3, <3>1 DEF CompSchedule, CompType, CompIdle, RxKinds, Statuses
  <2>3. PostType'
    BY <1>3 DEF CompSchedule, CompType, PostType, CompIdle
  <2>4. ValueTypes' /\ ControlType' /\ PacketType'
    BY <1>3 DEF CompSchedule, ValueTypes, ControlType, PacketType, usbVars,
                deliveryVars, historyVars
  <2> QED
    BY <2>1, <2>2, <2>3, <2>4
<1>4. CASE CompCleanupRecv
  <2> DEFINE u == comp.urb
  <2>1. u \in RxUrbs /\ PipeOf(u) = "rx" /\ comp.kind \in RxKinds
    BY <1>0, <1>4 DEF CompCleanupRecv, CompType, CompIdle
  <2>2. urb_list_head' = [urb_list_head EXCEPT !["rx"] = <<u>> \o @]
    BY <1>4, <2>1 DEF CompCleanupRecv, FreeTo
  <2> HIDE DEF u
  <2>3. <<u>> \o urb_list_head["rx"] \in Seq(RxUrbs)
    BY <1>0, <2>1, SeqStep DEF ListTypes
  <2>4. ListTypes' /\ FlagTypes'
    BY <1>0, <1>4, <2>2, <2>3 DEF CompCleanupRecv, ListTypes, FlagTypes,
            queueVars, usbVars, deliveryVars, stateVars, historyVars
  <2>5. CompType'
    BY <1>4, <2>1 DEF CompCleanupRecv, CompType, CompIdle, RxKinds
  <2>6. PostType'
    BY <1>4 DEF CompCleanupRecv, CompType, PostType
  <2>7. ValueTypes'
    BY <1>4, <2>1 DEF CompCleanupRecv, ValueTypes, queueVars, usbVars,
                      deliveryVars, historyVars, Bufs
  <2>8. ControlType' /\ PacketType'
    BY <1>4 DEF CompCleanupRecv, ControlType, PacketType
  <2> QED
    BY <2>4, <2>5, <2>6, <2>7, <2>8
<1>5. CASE CompCleanupTransmit
  <2> DEFINE u == comp.urb
             p == buf[u]
  <2>1. u \in TxUrbs /\ PipeOf(u) = "tx" /\ p \in Bufs
    BY <1>0, <1>5 DEF CompCleanupTransmit, CompType, ValueTypes
  <2>2. /\ urb_list_head' = [urb_list_head EXCEPT !["tx"] = <<u>> \o @]
        /\ comp' = [comp EXCEPT !.pc = "queue", !.msgs = <<p>>]
        /\ packet' = [packet EXCEPT ![p] = WithoutContext(@)]
    BY <1>5, <2>1 DEF CompCleanupTransmit, FreeTo
  <2>3. buf' = [buf EXCEPT ![u] = None]
    BY <1>5 DEF CompCleanupTransmit
  <2> HIDE DEF u, p
  <2>4. <<u>> \o urb_list_head["tx"] \in Seq(TxUrbs)
    BY <1>0, <2>1, SeqStep DEF ListTypes
  <2>5. ListTypes' /\ FlagTypes'
    BY <1>0, <1>5, <2>2, <2>4 DEF CompCleanupTransmit, ListTypes, FlagTypes,
            queueVars, usbVars, deliveryVars, stateVars, historyVars
  <2>6. CompType'
    <3>1. <<p>> \in Seq(Bufs)
      BY <2>1
    <3> QED
      BY <1>5, <2>2, <3>1 DEF CompCleanupTransmit, CompType, RxKinds
  <2>7. PostType'
    BY <1>5, <2>2 DEF CompCleanupTransmit, CompType, PostType
  <2>8. PacketType'
    <3>1. CASE p \in Packets
      <4>1. /\ WithoutContext(packet[p]).pc = packet[p].pc
            /\ WithoutContext(packet[p]).urb = packet[p].urb
            /\ WithoutContext(packet[p]) \in PacketRecords
        BY <3>1, ContextRemoved DEF PacketType
      <4> QED
        BY <2>2, <4>1 DEF PacketType
    <3>2. CASE p \notin Packets
      BY <2>2, <3>2 DEF PacketType
    <3> QED
      BY <3>1, <3>2
  <2>9. ValueTypes'
    BY <1>5, <2>3 DEF CompCleanupTransmit, ValueTypes, queueVars, usbVars,
                      deliveryVars, historyVars, Bufs
  <2>10. ControlType'
    BY <1>5 DEF CompCleanupTransmit, ControlType
  <2> QED
    BY <2>5, <2>6, <2>7, <2>8, <2>9, <2>10
<1>6. CASE CompPrestart
  <2>1. ListTypes' /\ FlagTypes'
    BY <1>6 DEF CompPrestart, ListTypes, FlagTypes, listVars, queueVars,
                usbVars, deliveryVars, stateVars, historyVars
  <2>2. CompType'
    <3>1. <<>> \in Seq(Nat)
      BY EmptySeq
    <3>2. /\ comp' = CompIdle \/ comp' = [comp EXCEPT !.pc = "posting"]
          /\ comp.kind \in RxKinds
      BY <1>6 DEF CompPrestart, CompType, RxKinds
    <3>3. CASE comp' = CompIdle
      BY <3>1, <3>3 DEF CompType, CompIdle, RxKinds, Statuses
    <3>4. CASE comp' = [comp EXCEPT !.pc = "posting"]
      BY <3>2, <3>4 DEF CompType, RxKinds
    <3> QED
      BY <3>2, <3>3, <3>4
  <2>3. PostType'
    <3>1. WorkingKind \in RxKinds
      BY DEF WorkingKind, RxKinds
    <3> QED
      BY <1>6, <3>1 DEF CompPrestart, CompType, PostType, CompIdle, Contexts,
                        usb_hif_start_recv_pipes, Post
  <2>4. ValueTypes'
    BY <1>6 DEF CompPrestart, PrestartLeft, ValueTypes, Contexts, queueVars,
                usbVars, deliveryVars, historyVars
  <2>5. ControlType' /\ PacketType'
    BY <1>6 DEF CompPrestart, ControlType, PacketType
  <2> QED
    BY <2>1, <2>2, <2>3, <2>4, <2>5
<1>7. CASE CompRepost
  <2>1. ListTypes' /\ FlagTypes'
    BY <1>7 DEF CompRepost, ListTypes, FlagTypes, listVars, queueVars,
                usbVars, deliveryVars, stateVars
  <2>2. CompType'
    <3>1. <<>> \in Seq(Nat)
      BY EmptySeq
    <3>2. /\ comp' = CompIdle \/ comp' = [comp EXCEPT !.pc = "posting"]
          /\ comp.kind \in RxKinds
      BY <1>7 DEF CompRepost, CompType, RxKinds
    <3>3. CASE comp' = CompIdle
      BY <3>1, <3>3 DEF CompType, CompIdle, RxKinds, Statuses
    <3>4. CASE comp' = [comp EXCEPT !.pc = "posting"]
      BY <3>2, <3>4 DEF CompType, RxKinds
    <3> QED
      BY <3>2, <3>3, <3>4
  <2>3. PostType'
    BY <1>7, SMTT(30) DEF CompRepost, CompType, PostType, CompIdle, Contexts,
                          Post, RxKinds
  <2>4. ValueTypes'
    BY <1>7 DEF CompRepost, ValueTypes, queueVars, usbVars, deliveryVars
  <2>5. ControlType' /\ PacketType'
    BY <1>7 DEF CompRepost, ControlType, PacketType
  <2> QED
    BY <2>1, <2>2, <2>3, <2>4, <2>5
<1> QED
  BY <1>1, <1>2, <1>3, <1>4, <1>5, <1>6, <1>7 DEF CompStep

LEMMA TypeWork ==
    ASSUME TypeOK, NEW p \in Pipes, WorkBegin(p) \/ WorkCallback(p) \/ WorkEnd(p)
    PROVE  TypeOK'
<1> USE DEF TypeOK
<1>1. CASE WorkBegin(p) \/ WorkEnd(p)
  <2>1. ListTypes' /\ FlagTypes'
    BY <1>1 DEF WorkBegin, WorkEnd, ListTypes, FlagTypes, listVars, queueVars,
                usbVars, stateVars, historyVars
  <2>2. ValueTypes'
    BY <1>1 DEF WorkBegin, WorkEnd, ValueTypes, queueVars, usbVars, historyVars
  <2>3. CompType' /\ PostType' /\ ControlType' /\ PacketType'
    BY <1>1 DEF WorkBegin, WorkEnd, CompType, PostType, ControlType, PacketType
  <2> QED
    BY <2>1, <2>2, <2>3
<1>2. CASE WorkCallback(p)
  <2> DEFINE q == io_comp_queue[p]
             b == Head(q)
  <2>1. b \in ItemsOn(p) /\ Tail(q) \in Seq(ItemsOn(p))
    BY <1>2, ElementsTail DEF WorkCallback, ListTypes
  <2>2. io_comp_queue' = [io_comp_queue EXCEPT ![p] = Tail(q)]
    BY <1>2 DEF WorkCallback, skb_dequeue
  <2>3. IF p = "tx"
        THEN /\ packet' = [packet EXCEPT ![b].pc = "done", ![b].urb = None]
             /\ UNCHANGED <<delivered, inOrder>>
        ELSE /\ delivered' = b
             /\ inOrder' = (inOrder /\ b > delivered)
             /\ UNCHANGED packet
    BY <1>2 DEF WorkCallback
  <2>4. orphans' \in Int
    BY <1>2 DEF WorkCallback, ValueTypes
  <2> HIDE DEF q, b
  <2>5. ListTypes'
    BY <1>2, <2>1, <2>2 DEF WorkCallback, ListTypes, listVars, usbVars
  <2>6. FlagTypes'
    BY <1>2, <2>3 DEF WorkCallback, FlagTypes, usbVars, stateVars, historyVars
  <2>7. ValueTypes'
    BY <1>2, <2>1, <2>3, <2>4 DEF WorkCallback, ValueTypes, usbVars,
            historyVars, ItemsOn, Pipes
  <2>8. PacketType'
    <3>1. CASE p = "tx"
      BY <2>3, <3>1 DEF PacketType, PacketRecords
    <3>2. CASE p # "tx"
      BY <2>3, <3>2 DEF PacketType
    <3> QED
      BY <3>1, <3>2
  <2>9. CompType' /\ PostType' /\ ControlType'
    BY <1>2 DEF WorkCallback, CompType, PostType, ControlType
  <2> QED
    BY <2>5, <2>6, <2>7, <2>8, <2>9
<1> QED
  BY <1>1, <1>2

(* What a sender does to its packet keeps the packet's type.               *)
LEMMA PacketUpdate ==
    ASSUME PacketType, NEW p \in Packets, NEW r,
           packet' = [packet EXCEPT ![p] = r],
           r \in PacketRecords,
           r.pc \in {"enqueue", "submit", "hif"} => r.urb \in TxUrbs,
           r.pc \in {"htc", "done"} => r.urb = None
    PROVE  PacketType'
  BY DEF PacketType

LEMMA TypeSend ==
    ASSUME TypeOK, NEW p \in Packets, SendStep(p)
    PROVE  TypeOK'
<1> USE DEF TypeOK
<1>0. /\ None \notin Urbs /\ "rx" \in Pipes /\ "tx" \in Pipes
      /\ UrbsOn("tx") = TxUrbs /\ TxUrbs \subseteq Urbs
      /\ \A u \in TxUrbs : PipeOf(u) = "tx"
  BY HifUsbAssumption DEF HifUsbAssumption, Urbs, Pipes, UrbsOn, PipeOf
<1>1. UNCHANGED <<comp, post, flush, control>> =>
         CompType' /\ PostType' /\ ControlType'
  BY DEF CompType, PostType, ControlType
<1> DEFINE w == WithContext(packet[p])
           v == WithoutContext(packet[p])
<1>2. /\ w \in PacketRecords /\ w.pc = packet[p].pc /\ w.urb = packet[p].urb
      /\ v \in PacketRecords /\ v.pc = packet[p].pc /\ v.urb = packet[p].urb
  <2>1. packet[p] \in PacketRecords
    BY DEF PacketType
  <2> QED
    BY <2>1, ContextAdded, ContextRemoved
<1>3. CASE SendAlloc(p)
  <2> DEFINE q == urb_list_head["tx"]
             u == Head(q)
  <2>1. u \in TxUrbs /\ Tail(q) \in Seq(TxUrbs)
    BY <1>0, <1>3, ElementsTail DEF SendAlloc, ListTypes
  <2>2. ListTypes' /\ FlagTypes'
    BY <1>0, <1>3, <2>1 DEF SendAlloc, ListTypes, FlagTypes, queueVars,
                            usbVars, deliveryVars, stateVars, historyVars
  <2>3. PacketType'
    <3> DEFINE r == [w EXCEPT !.pc = "enqueue", !.urb = u]
    <3>1. packet' = [packet EXCEPT ![p] = r]
      BY <1>3 DEF SendAlloc
    <3> HIDE DEF w, u
    <3>2. r \in PacketRecords /\ r.pc = "enqueue" /\ r.urb = u
      BY <1>2, <2>1 DEF PacketRecords
    <3> HIDE DEF r
    <3> QED
      BY <2>1, <3>1, <3>2, PacketUpdate
  <2>4. ValueTypes'
    BY <1>0, <1>3, <2>1 DEF SendAlloc, ValueTypes, queueVars, usbVars,
                            deliveryVars, historyVars, Bufs
  <2> QED
    BY <1>1, <1>3, <2>2, <2>3, <2>4 DEF SendAlloc
<1>4. CASE SendNoUrb(p)
  <2>1. ListTypes' /\ FlagTypes'
    BY <1>4 DEF SendNoUrb, ListTypes, FlagTypes, listVars, queueVars,
                usbVars, deliveryVars, stateVars, historyVars
  <2>2. PacketType'
    <3> DEFINE r == [w EXCEPT !.refused = packet[p].refused + 1]
    <3>1. packet' = [packet EXCEPT ![p] = r] /\ packet[p].pc = "htc"
      BY <1>4 DEF SendNoUrb
    <3>2. packet[p].urb = None
      BY <3>1 DEF PacketType
    <3> HIDE DEF w
    <3>3. r \in PacketRecords /\ r.pc = "htc" /\ r.urb = None
      BY <1>2, <3>1, <3>2 DEF PacketRecords, PacketType
    <3> HIDE DEF r
    <3> QED
      BY <3>1, <3>3, PacketUpdate
  <2>3. ValueTypes'
    BY <1>4 DEF SendNoUrb, ValueTypes, queueVars, usbVars, deliveryVars,
                historyVars
  <2> QED
    BY <1>1, <1>4, <2>1, <2>2, <2>3 DEF SendNoUrb
<1>5. CASE SendEnqueue(p)
  <2> DEFINE q == urb_pending_list["tx"]
             u == packet[p].urb
  <2>1. u \in TxUrbs /\ q \in Seq(TxUrbs)
    BY <1>0, <1>5 DEF SendEnqueue, PacketType, ListTypes
  <2>2. Append(q, u) \in Seq(TxUrbs)
    BY <2>1, ElementsAppend
  <2>3. ListTypes' /\ FlagTypes'
    BY <1>0, <1>5, <2>2 DEF SendEnqueue, ListTypes, FlagTypes, queueVars,
                            usbVars, deliveryVars, stateVars, historyVars
  <2>4. PacketType'
    BY <1>5 DEF SendEnqueue, PacketType, PacketRecords
  <2>5. ValueTypes'
    BY <1>5 DEF SendEnqueue, ValueTypes, queueVars, usbVars, deliveryVars,
                historyVars
  <2> QED
    BY <1>1, <1>5, <2>3, <2>4, <2>5 DEF SendEnqueue
<1>6. CASE SendSubmit(p)
  <2> DEFINE t == Transfer(packet[p].urb, "transmit")
  <2>1. t \in TransfersOn("tx") /\ core["tx"] \in Seq(TransfersOn("tx"))
    BY <1>0, <1>6 DEF SendSubmit, PacketType, TransfersOn, KindsOn, Transfer,
                      ListTypes
  <2>2. Append(core["tx"], t) \in Seq(TransfersOn("tx"))
    BY <2>1, ElementsAppend
  <2>3. ListTypes' /\ FlagTypes'
    <3>1. core' = [core EXCEPT !["tx"] = Append(core["tx"], t)]
      BY <1>6 DEF SendSubmit
    <3>2. DOMAIN core' = Pipes /\ \A o \in Pipes : core'[o] \in Seq(TransfersOn(o))
      BY <2>2, <3>1 DEF ListTypes
    <3> QED
      BY <1>6, <3>2 DEF SendSubmit, ListTypes, FlagTypes, listVars, queueVars,
                        deliveryVars, stateVars, historyVars
  <2>4. PacketType'
    BY <1>6 DEF SendSubmit, PacketType, PacketRecords
  <2>5. ValueTypes'
    BY <1>6 DEF SendSubmit, ValueTypes, queueVars, deliveryVars, historyVars
  <2> QED
    BY <1>1, <1>6, <2>3, <2>4, <2>5 DEF SendSubmit
<1>7. CASE SendSubmitFails(p)
  <2> DEFINE u == packet[p].urb
  <2>1. u \in TxUrbs /\ PipeOf(u) = "tx"
    BY <1>0, <1>7 DEF SendSubmitFails, PacketType
  <2>2. /\ urb_pending_list' = [urb_pending_list EXCEPT !["tx"] =
                                   DL_ListRemove(@, u)]
        /\ urb_list_head' = [urb_list_head EXCEPT !["tx"] = <<u>> \o @]
        /\ buf' = [buf EXCEPT ![u] = None]
    BY <1>7, <2>1 DEF SendSubmitFails, usb_hif_remove_pending_transfer, FreeTo
  <2>3. /\ urb_list_head["tx"] \in Seq(TxUrbs)
        /\ urb_pending_list["tx"] \in Seq(TxUrbs)
    BY <1>0 DEF ListTypes
  <2> HIDE DEF u
  <2>4. /\ <<u>> \o urb_list_head["tx"] \in Seq(TxUrbs)
        /\ DL_ListRemove(urb_pending_list["tx"], u) \in Seq(TxUrbs)
    BY <2>1, <2>3, SeqStep, ListRemoveType
  <2>5. ListTypes'
    BY <1>0, <1>7, <2>2, <2>4 DEF SendSubmitFails, ListTypes, queueVars, usbVars
  <2>6. FlagTypes'
    BY <1>7 DEF SendSubmitFails, FlagTypes, usbVars, deliveryVars, stateVars,
                historyVars
  <2>7. PacketType'
    <3> DEFINE r == [v EXCEPT !.pc = "htc", !.urb = None]
    <3>1. packet' = [packet EXCEPT ![p] = r]
      BY <1>7 DEF SendSubmitFails, UndoContext
    <3> HIDE DEF v
    <3>2. r \in PacketRecords /\ r.pc = "htc" /\ r.urb = None
      BY <1>2 DEF PacketRecords
    <3> HIDE DEF r
    <3> QED
      BY <3>1, <3>2, PacketUpdate
  <2>8. ValueTypes'
    BY <1>7, <2>2 DEF SendSubmitFails, ValueTypes, queueVars, usbVars,
                      deliveryVars, historyVars, Bufs
  <2> QED
    BY <1>1, <1>7, <2>5, <2>6, <2>7, <2>8 DEF SendSubmitFails
<1> QED
  BY <1>3, <1>4, <1>5, <1>6, <1>7 DEF SendStep

(* The USB core finishes the transfer at the head of a pipe's queue.       *)
LEMMA TypeFinish ==
    ASSUME TypeOK, NEW p \in Pipes, NEW status \in Statuses,
           NEW msgs \in (IF p = "rx" THEN Seq(Nat) ELSE {<<>>}),
           Finish(p, status, msgs), sent' \in Nat, failures' = failures
    PROVE  TypeOK'
<1> USE DEF TypeOK
<1> DEFINE t == Head(core[p])
           f == Finished(t, status, msgs)
<1>1. t \in TransfersOn(p) /\ Tail(core[p]) \in Seq(TransfersOn(p))
  BY ElementsTail DEF Finish, ListTypes
<1>2. /\ core' = [core EXCEPT ![p] = Tail(core[p])]
      /\ giveback' = Append(giveback, f)
  BY DEF Finish
<1>3. f \in FinishedTransfers
  <2> HIDE DEF t
  <2>1. f \in FinishedOn(p)
    BY <1>1 DEF Finished, FinishedOn, TransfersOn
  <2> QED
    BY <2>1 DEF FinishedTransfers, Pipes
<1> HIDE DEF f
<1>4. giveback' \in Seq(FinishedTransfers)
  BY <1>2, <1>3, ElementsAppend DEF ListTypes
<1>5. DOMAIN core' = Pipes /\ \A o \in Pipes : core'[o] \in Seq(TransfersOn(o))
  BY <1>1, <1>2 DEF ListTypes
<1>6. ListTypes'
  BY <1>4, <1>5 DEF Finish, ListTypes, listVars, queueVars
<1>7. FlagTypes' /\ ValueTypes'
  BY DEF Finish, FlagTypes, ValueTypes, queueVars, deliveryVars, stateVars
<1>8. CompType' /\ PostType' /\ ControlType' /\ PacketType'
  BY DEF Finish, CompType, PostType, ControlType, PacketType
<1> QED
  BY <1>6, <1>7, <1>8

LEMMA TypeTarget ==
    ASSUME TypeOK, TargetSends \/ TransferFails \/ TransmitDone
    PROVE  TypeOK'
<1>0. {"ok", "error"} \subseteq Statuses /\ "rx" \in Pipes /\ "tx" \in Pipes
  BY DEF Statuses, Pipes
<1>1. sent \in Nat /\ <<>> \in Seq(Nat)
  BY EmptySeq DEF TypeOK, ValueTypes
<1>2. CASE TargetSends
  <2>1. PICK msgs \in {<<>>, <<2 * sent + 1>>, <<2 * sent + 1, 2 * sent + 2>>} :
           Finish("rx", "ok", msgs)
    BY <1>2 DEF TargetSends
  <2>2. msgs \in Seq(Nat)
    <3>1. 2 * sent + 1 \in Nat /\ 2 * sent + 2 \in Nat
      BY <1>1
    <3>2. <<2 * sent + 1>> \in Seq(Nat) /\ <<2 * sent + 1, 2 * sent + 2>> \in Seq(Nat)
      BY <3>1
    <3> QED
      BY <1>1, <2>1, <3>2
  <2>3. sent' \in Nat /\ failures' = failures
    BY <1>1, <1>2 DEF TargetSends
  <2> QED
    BY <1>0, <2>1, <2>2, <2>3, TypeFinish
<1>3. CASE TransferFails
  <2>1. sent' \in Nat /\ failures' = failures /\ Finish("rx", "error", <<>>)
    BY <1>1, <1>3 DEF TransferFails
  <2> QED
    BY <1>0, <1>1, <2>1, TypeFinish
<1>4. CASE TransmitDone
  <2>1. sent' \in Nat /\ failures' = failures /\ Finish("tx", "ok", <<>>)
    BY <1>1, <1>4 DEF TransmitDone
  <2> QED
    BY <1>0, <2>1, TypeFinish
<1> QED
  BY <1>2, <1>3, <1>4

LEMMA TypeFlush ==
    ASSUME TypeOK, FlushStep
    PROVE  TypeOK'
<1> USE DEF TypeOK
<1> DEFINE p == flush.pipe
<1>0. /\ p \in Pipes /\ UrbsOn(p) \subseteq Urbs
      /\ None \notin Urbs
  BY HifUsbAssumption DEF HifUsbAssumption, ControlType, UrbsOn, Urbs, Pipes
<1>1. UNCHANGED <<comp, post, control, packet>> =>
         CompType' /\ PostType' /\ PacketType'
  BY DEF CompType, PostType, PacketType
<1>2. CASE FlushTake
  <2> DEFINE q == urb_pending_list[p]
  <2>1. q \in Seq(UrbsOn(p))
    BY <1>0 DEF ListTypes
  <2>2. q # <<>> => Head(q) \in UrbsOn(p) /\ Tail(q) \in Seq(UrbsOn(p))
    BY <2>1, ElementsTail
  <2>3. IF q = <<>>
        THEN /\ flush' = [flush EXCEPT !.pc = "work"]
             /\ UNCHANGED urb_pending_list
        ELSE /\ flush' = [flush EXCEPT !.pc = "kill", !.urb = Head(q)]
             /\ urb_pending_list' = [urb_pending_list EXCEPT ![p] = Tail(q)]
    BY <1>2 DEF FlushTake
  <2> HIDE DEF q
  <2>4. ListTypes' /\ FlagTypes'
    BY <1>0, <1>2, <2>2, <2>3 DEF FlushTake, ListTypes, FlagTypes, queueVars,
            usbVars, deliveryVars, stateVars, historyVars
  <2>5. ControlType'
    BY <1>0, <1>2, <2>2, <2>3 DEF FlushTake, ControlType
  <2>6. ValueTypes'
    BY <1>2 DEF FlushTake, ValueTypes, queueVars, usbVars, deliveryVars,
                historyVars
  <2> QED
    BY <1>1, <1>2, <2>4, <2>5, <2>6 DEF FlushTake
<1>3. CASE FlushKill
  <2> DEFINE ts == core[p]
  <2>1. ts \in Seq(TransfersOn(p))
    BY <1>0 DEF ListTypes
  <2>2. \/ UNCHANGED <<core, giveback>>
        \/ \E i \in 1..Len(ts) :
              /\ core' = [core EXCEPT ![p] = RemoveAt(ts, i)]
              /\ giveback' = Append(giveback, Finished(ts[i], "cancelled", <<>>))
    BY <1>3 DEF FlushKill
  <2>3. ListTypes'
    <3>1. CASE UNCHANGED <<core, giveback>>
      BY <1>3, <3>1 DEF FlushKill, ListTypes, listVars, queueVars
    <3>2. ASSUME NEW i \in 1..Len(ts),
                 core' = [core EXCEPT ![p] = RemoveAt(ts, i)],
                 giveback' = Append(giveback, Finished(ts[i], "cancelled", <<>>))
          PROVE  ListTypes'
      <4> DEFINE f == Finished(ts[i], "cancelled", <<>>)
      <4>1. RemoveAt(ts, i) \in Seq(TransfersOn(p)) /\ ts[i] \in TransfersOn(p)
        BY <2>1, <3>2, RemoveAtType, ElementOfSeq
      <4>2. f \in FinishedTransfers
        <5>1. <<>> \in Seq(Nat)
          BY EmptySeq
        <5> HIDE DEF ts
        <5> QED
          BY <1>0, <4>1, <5>1 DEF Finished, FinishedTransfers, FinishedOn,
                                  TransfersOn, Statuses, Pipes
      <4> HIDE DEF f, ts
      <4>3. giveback' \in Seq(FinishedTransfers)
        BY <3>2, <4>2, ElementsAppend DEF ListTypes, f
      <4>4. /\ DOMAIN core' = Pipes
            /\ \A o \in Pipes : core'[o] \in Seq(TransfersOn(o))
        BY <3>2, <4>1 DEF ListTypes
      <4> QED
        BY <1>3, <4>3, <4>4 DEF FlushKill, ListTypes, listVars, queueVars
    <3> QED
      BY <2>2, <3>1, <3>2
  <2>4. FlagTypes' /\ ValueTypes'
    BY <1>3 DEF FlushKill, FlagTypes, ValueTypes, queueVars, deliveryVars,
                stateVars, historyVars
  <2>5. ControlType'
    BY <1>3 DEF FlushKill, ControlType
  <2> QED
    BY <1>1, <1>3, <2>3, <2>4, <2>5 DEF FlushKill
<1>4. CASE FlushWait \/ FlushWork
  <2>1. ListTypes' /\ FlagTypes' /\ ValueTypes'
    BY <1>4 DEF FlushWait, FlushWork, ListTypes, FlagTypes, ValueTypes,
                listVars, queueVars, usbVars, deliveryVars, stateVars,
                historyVars
  <2>2. ControlType'
    BY <1>4 DEF FlushWait, FlushWork, ControlType, Pipes
  <2> QED
    BY <1>1, <1>4, <2>1, <2>2 DEF FlushWait, FlushWork
<1> QED
  BY <1>2, <1>3, <1>4 DEF FlushStep

LEMMA TypeCancelAll ==
    ASSUME TypeOK, CancelAll
    PROVE  /\ giveback' \in Seq(FinishedTransfers)
           /\ DOMAIN core' = Pipes
           /\ \A p \in Pipes : core'[p] \in Seq(TransfersOn(p))
<1>1. /\ Cancelled(core["tx"]) \in Seq(FinishedTransfers)
      /\ Cancelled(core["rx"]) \in Seq(FinishedTransfers)
  BY CancelledType DEF TypeOK, ListTypes, Pipes
<1>2. giveback' = giveback \o Cancelled(core["tx"]) \o Cancelled(core["rx"])
  BY DEF CancelAll
<1>3. giveback' \in Seq(FinishedTransfers)
  <2>1. giveback \in Seq(FinishedTransfers)
    BY DEF TypeOK, ListTypes
  <2>2. giveback \o Cancelled(core["tx"]) \in Seq(FinishedTransfers)
    BY <1>1, <2>1, ElementsConcat
  <2> QED
    BY <1>1, <1>2, <2>2, ElementsConcat
<1>4. \A S : <<>> \in Seq(S)
  BY EmptySeq
<1> QED
  BY <1>3, <1>4 DEF CancelAll

LEMMA TypeControl ==
    ASSUME TypeOK,
           HIFStart \/ hif_usb_suspend \/ Suspended \/ hif_usb_resume
              \/ Disconnect \/ HTCStop \/ StopStep
    PROVE  TypeOK'
<1> USE DEF TypeOK
<1>1. CASE HIFStart
  <2>1. ListTypes' /\ FlagTypes'
    BY <1>1 DEF HIFStart, ListTypes, FlagTypes, listVars, queueVars, usbVars,
                deliveryVars, stateVars, historyVars
  <2>2. ValueTypes'
    BY <1>1 DEF HIFStart, ValueTypes, Contexts, queueVars, usbVars,
                deliveryVars, historyVars
  <2>3. PostType'
    BY <1>1, HifUsbAssumption
       DEF HIFStart, PostType, Post, Contexts, RxKinds, HifUsbAssumption
  <2>4. CompType' /\ ControlType' /\ PacketType'
    BY <1>1 DEF HIFStart, CompType, ControlType, PacketType
  <2> QED
    BY <2>1, <2>2, <2>3, <2>4
<1>2. CASE hif_usb_suspend
  <2>1. ListTypes' /\ FlagTypes' /\ ValueTypes'
    BY <1>2 DEF hif_usb_suspend, ListTypes, FlagTypes, ValueTypes, listVars,
                queueVars, usbVars, deliveryVars
  <2>2. CompType' /\ PacketType' /\ PostType'
    BY <1>2 DEF hif_usb_suspend, CompType, PacketType, PostType
  <2>3. ControlType'
    BY <1>2 DEF hif_usb_suspend, usb_hif_flush_all, FirstPipe, ControlType, Pipes
  <2> QED
    BY <2>1, <2>2, <2>3
<1>3. CASE Suspended \/ Disconnect
  <2>1. ListTypes'
    <3>1. CancelAll /\ UNCHANGED <<listVars, queueVars>>
      BY <1>3 DEF Suspended, Disconnect
    <3> QED
      BY <3>1, TypeCancelAll DEF ListTypes, listVars, queueVars
  <2>2. FlagTypes' /\ ValueTypes'
    <3>1. enabled' = FALSE /\ allPosted' \in {allPosted, FALSE}
      BY <1>3 DEF Suspended, Disconnect, CancelAll, historyVars
    <3>2. UNCHANGED <<stateVars, inOrder>>
      BY <1>3 DEF Suspended, Disconnect, deliveryVars
    <3>3. FlagTypes'
      BY <3>1, <3>2 DEF FlagTypes, stateVars
    <3>4. ValueTypes'
      BY <1>3 DEF Suspended, Disconnect, CancelAll, ValueTypes, queueVars,
                  deliveryVars, historyVars
    <3> QED
      BY <3>3, <3>4
  <2>3. CompType' /\ PacketType' /\ PostType'
    BY <1>3 DEF Suspended, Disconnect, CompType, PacketType, PostType
  <2>4. ControlType'
    BY <1>3 DEF Suspended, Disconnect, FlushOff, ControlType, Pipes
  <2> QED
    BY <2>1, <2>2, <2>3, <2>4
<1>4. CASE hif_usb_resume
  <2>1. ListTypes' /\ FlagTypes' /\ ValueTypes'
    BY <1>4 DEF hif_usb_resume, ListTypes, FlagTypes, ValueTypes, listVars,
                queueVars, deliveryVars
  <2>2. CompType' /\ PacketType'
    BY <1>4 DEF hif_usb_resume, CompType, PacketType
  <2>3. PostType'
    <3>1. WorkingKind \in RxKinds
      BY DEF WorkingKind, RxKinds
    <3> QED
      BY <1>4, <3>1 DEF hif_usb_resume, usb_hif_start_recv_pipes, Post,
                        PostType, Contexts
  <2>4. ControlType'
    BY <1>4 DEF hif_usb_resume, ControlType
  <2> QED
    BY <2>1, <2>2, <2>3, <2>4
<1>5. CASE HTCStop \/ HTCDestroy \/ HIFDetachHTC \/ usb_hif_destroy
  <2>1. ListTypes' /\ FlagTypes' /\ ValueTypes'
    <3>1. UNCHANGED <<listVars, queueVars, usbVars, buf, deliveryVars, stateVars,
                      urb_prestart_cnt, rx_prestart_lock>>
      BY <1>5 DEF HTCStop, HTCDestroy, HIFDetachHTC, usb_hif_destroy
    <3>2. allPosted' \in {allPosted, FALSE} /\ failures' \in {failures, 0}
      BY <1>5 DEF HTCStop, HTCDestroy, HIFDetachHTC, usb_hif_destroy, historyVars
    <3>3. ListTypes'
      BY <3>1 DEF ListTypes, listVars, queueVars, usbVars
    <3>4. FlagTypes'
      BY <3>1, <3>2 DEF FlagTypes, usbVars, deliveryVars, stateVars
    <3>5. ValueTypes'
      BY <3>1, <3>2 DEF ValueTypes, queueVars, usbVars, deliveryVars
    <3> QED
      BY <3>3, <3>4, <3>5
  <2>2. CompType' /\ PacketType' /\ PostType'
    BY <1>5 DEF HTCStop, HTCDestroy, HIFDetachHTC, usb_hif_destroy, CompType,
                PacketType, PostType
  <2>3. ControlType'
    BY <1>5 DEF HTCStop, HTCDestroy, HIFDetachHTC, usb_hif_destroy,
                usb_hif_flush_all, FirstPipe, ControlType, Pipes
  <2> QED
    BY <2>1, <2>2, <2>3
<1>6. CASE Detached
  <2>1. ListTypes' /\ FlagTypes' /\ ValueTypes'
    BY <1>6 DEF Detached, ListTypes, FlagTypes, ValueTypes, listVars,
                queueVars, usbVars, deliveryVars, historyVars
  <2>2. CompType' /\ PacketType' /\ PostType'
    BY <1>6 DEF Detached, CompType, PacketType, PostType
  <2>3. ControlType'
    BY <1>6 DEF Detached, FlushOff, ControlType, Pipes
  <2> QED
    BY <2>1, <2>2, <2>3
<1>7. CASE usb_hif_cleanup_pipe_resources
  <2>0. \A S : <<>> \in Seq(S)
    BY EmptySeq
  <2>1. ListTypes' /\ FlagTypes'
    BY <1>7, <2>0 DEF usb_hif_cleanup_pipe_resources, ListTypes, FlagTypes,
                      queueVars, usbVars, deliveryVars, stateVars, historyVars
  <2>2. ValueTypes'
    BY <1>7 DEF usb_hif_cleanup_pipe_resources, ValueTypes, Bufs, queueVars,
                usbVars, deliveryVars, historyVars
  <2>3. CompType' /\ PacketType' /\ PostType'
    BY <1>7 DEF usb_hif_cleanup_pipe_resources, CompType, PacketType, PostType
  <2>4. ControlType'
    BY <1>7 DEF usb_hif_cleanup_pipe_resources, FlushOff, ControlType, Pipes
  <2> QED
    BY <2>1, <2>2, <2>3, <2>4
<1> QED
  BY <1>1, <1>2, <1>3, <1>4, <1>5, <1>6, <1>7 DEF StopStep

LEMMA TypeStutter == TypeOK /\ UNCHANGED vars => TypeOK'
  BY DEF TypeOK, ListTypes, FlagTypes, ValueTypes, CompType, PostType,
         ControlType, PacketType, vars, listVars, queueVars, deliveryVars,
         stateVars, usbVars, historyVars
-----------------------------------------------------------------------------
(* The URBs of a list of transfers.                                        *)

HasUrbs(T) == \A t \in T : t.urb \in Urbs

LEMMA TransfersHaveUrbs ==
    HasUrbs(FinishedTransfers) /\ \A p \in Pipes : HasUrbs(TransfersOn(p))
  BY DEF HasUrbs, FinishedTransfers, FinishedOn, TransfersOn, UrbsOn, Urbs

LEMMA UrbsAre ==
    ASSUME NEW T, HasUrbs(T), NEW q \in Seq(T)
    PROVE  /\ UrbsOf(q) \in Seq(Urbs) /\ Len(UrbsOf(q)) = Len(q)
           /\ \A i \in 1..Len(q) : UrbsOf(q)[i] = q[i].urb /\ q[i] \in T
           /\ Len(q) \in Nat
<1>1. Len(q) \in Nat /\ \A i \in 1..Len(q) : q[i] \in T
  BY LenProperties, ElementOfSeq
<1>2. \A i \in 1..Len(q) : q[i].urb \in Urbs
  BY <1>1 DEF HasUrbs
<1>3. UrbsOf(q) \in [1..Len(q) -> Urbs]
  BY <1>2 DEF UrbsOf
<1>4. UrbsOf(q) \in Seq(Urbs) /\ Len(UrbsOf(q)) = Len(q)
  BY <1>1, <1>3, LenProperties
<1> QED
  BY <1>1, <1>4 DEF UrbsOf

LEMMA UrbsAppend ==
    ASSUME NEW T, HasUrbs(T), NEW q \in Seq(T), NEW t \in T
    PROVE  UrbsOf(Append(q, t)) = Append(UrbsOf(q), t.urb)
<1> DEFINE a == UrbsOf(Append(q, t))
           n == Len(q)
<1>0. t.urb \in Urbs
  BY DEF HasUrbs
<1>1. /\ Append(q, t) \in Seq(T) /\ Len(Append(q, t)) = n + 1
      /\ \A i \in 1..(n + 1) : Append(q, t)[i] = IF i <= n THEN q[i] ELSE t
  BY AppendProperties, LenProperties
<1>2. /\ a \in Seq(Urbs) /\ Len(a) = n + 1 /\ n \in Nat
      /\ \A i \in 1..(n + 1) : a[i] = Append(q, t)[i].urb
  BY <1>1, UrbsAre, LenProperties
<1>3. /\ UrbsOf(q) \in Seq(Urbs) /\ Len(UrbsOf(q)) = n
      /\ \A i \in 1..n : UrbsOf(q)[i] = q[i].urb
  BY UrbsAre
<1> DEFINE b == Append(UrbsOf(q), t.urb)
<1>4. /\ b \in Seq(Urbs) /\ Len(b) = n + 1
      /\ \A i \in 1..(n + 1) : b[i] = IF i <= n THEN UrbsOf(q)[i] ELSE t.urb
  BY <1>0, <1>3, AppendProperties, LenProperties
<1> HIDE DEF a, b, n
<1>5. ASSUME NEW i \in 1..(n + 1) PROVE a[i] = b[i]
  <2>1. CASE i <= n
    <3>1. i \in 1..n
      BY <1>2, <2>1
    <3>2. Append(q, t)[i] = q[i] /\ b[i] = UrbsOf(q)[i]
      BY <1>1, <1>4, <2>1
    <3> QED
      BY <1>2, <1>3, <3>1, <3>2, Zenon
  <2>2. CASE ~(i <= n)
    <3>1. Append(q, t)[i] = t /\ b[i] = t.urb
      BY <1>1, <1>4, <2>2
    <3> QED
      BY <1>2, <3>1, Zenon
  <2> QED
    BY <2>1, <2>2
<1>6. a = b
  BY <1>2, <1>4, <1>5, SeqEqual
<1> QED
  BY <1>6 DEF a, b

LEMMA UrbsConcat ==
    ASSUME NEW T, HasUrbs(T), NEW q \in Seq(T), NEW s \in Seq(T)
    PROVE  UrbsOf(q \o s) = UrbsOf(q) \o UrbsOf(s)
<1> DEFINE a == UrbsOf(q \o s)
           m == Len(q)
           n == Len(s)
           b == UrbsOf(q) \o UrbsOf(s)
<1>1. /\ q \o s \in Seq(T) /\ Len(q \o s) = m + n
      /\ \A i \in 1..(m + n) : (q \o s)[i] = IF i <= m THEN q[i] ELSE s[i - m]
  BY ConcatProperties
<1>2. /\ a \in Seq(Urbs) /\ Len(a) = m + n
      /\ \A i \in 1..(m + n) : a[i] = (q \o s)[i].urb
  BY <1>1, UrbsAre
<1>3. /\ UrbsOf(q) \in Seq(Urbs) /\ Len(UrbsOf(q)) = m /\ m \in Nat
      /\ \A i \in 1..m : UrbsOf(q)[i] = q[i].urb
  BY UrbsAre
<1>4. /\ UrbsOf(s) \in Seq(Urbs) /\ Len(UrbsOf(s)) = n /\ n \in Nat
      /\ \A i \in 1..n : UrbsOf(s)[i] = s[i].urb
  BY UrbsAre
<1>5. /\ b \in Seq(Urbs) /\ Len(b) = m + n
      /\ \A i \in 1..(m + n) :
            b[i] = IF i <= m THEN UrbsOf(q)[i] ELSE UrbsOf(s)[i - m]
  <2> DEFINE x == UrbsOf(q)
             y == UrbsOf(s)
  <2>1. x \in Seq(Urbs) /\ y \in Seq(Urbs) /\ Len(x) = m /\ Len(y) = n
    BY <1>3, <1>4
  <2> HIDE DEF x, y, m, n
  <2>2. /\ x \o y \in Seq(Urbs) /\ Len(x \o y) = m + n
        /\ \A i \in 1..(m + n) : (x \o y)[i] = IF i <= m THEN x[i] ELSE y[i - m]
    BY <2>1, ConcatProperties
  <2> QED
    BY <2>2 DEF x, y
<1> HIDE DEF a, b, m, n
<1>6. ASSUME NEW i \in 1..(m + n) PROVE a[i] = b[i]
  <2>1. CASE i <= m
    <3>1. i \in 1..m
      BY <1>3, <2>1
    <3>2. (q \o s)[i] = q[i] /\ b[i] = UrbsOf(q)[i]
      BY <1>1, <1>5, <2>1
    <3> QED
      BY <1>2, <1>3, <3>1, <3>2, Zenon
  <2>2. CASE ~(i <= m)
    <3>1. i - m \in 1..n
      BY <1>3, <1>4, <2>2
    <3>2. a[i] = s[i - m].urb
      <4>1. (q \o s)[i] = s[i - m]
        BY <1>1, <2>2
      <4> QED
        BY <1>2, <4>1, Zenon
    <3>3. b[i] = UrbsOf(s)[i - m]
      BY <1>5, <2>2
    <3> QED
      BY <1>4, <3>1, <3>2, <3>3
  <2> QED
    BY <2>1, <2>2
<1>7. a = b
  BY <1>2, <1>5, <1>6, SeqEqual
<1> QED
  BY <1>7 DEF a, b

LEMMA UrbsTail ==
    ASSUME NEW T, HasUrbs(T), NEW q \in Seq(T), q # <<>>
    PROVE  /\ UrbsOf(q) # <<>> /\ Head(UrbsOf(q)) = Head(q).urb
           /\ UrbsOf(Tail(q)) = Tail(UrbsOf(q))
<1> DEFINE n == Len(q)
           b == UrbsOf(q)
           a == UrbsOf(Tail(q))
           c == Tail(b)
<1>1. /\ n \in Nat \ {0} /\ Tail(q) \in Seq(T) /\ Len(Tail(q)) = n - 1
      /\ \A i \in 1..(n - 1) : Tail(q)[i] = q[i + 1]
      /\ Head(q) = q[1]
  BY HeadTailProperties, EmptySeq
<1>2. /\ b \in Seq(Urbs) /\ Len(b) = n
      /\ \A i \in 1..n : b[i] = q[i].urb
  BY UrbsAre
<1>3. b # <<>>
  BY <1>1, <1>2
<1>4. /\ a \in Seq(Urbs) /\ Len(a) = n - 1
      /\ \A i \in 1..(n - 1) : a[i] = Tail(q)[i].urb
  BY <1>1, UrbsAre
<1> HIDE DEF a, b, n
<1>5. /\ c \in Seq(Urbs) /\ Len(c) = n - 1
      /\ \A i \in 1..(n - 1) : c[i] = b[i + 1]
      /\ Head(b) = b[1]
  BY <1>2, <1>3, HeadTailProperties
<1> HIDE DEF c
<1>6. ASSUME NEW i \in 1..(n - 1) PROVE a[i] = c[i]
  <2>1. i + 1 \in 1..n
    BY <1>1
  <2>2. Tail(q)[i] = q[i + 1] /\ c[i] = b[i + 1]
    BY <1>1, <1>5
  <2>3. b[i + 1] = q[i + 1].urb
    BY <1>2, <2>1, Zenon
  <2>4. a[i] = Tail(q)[i].urb
    BY <1>4, Zenon
  <2> QED
    BY <2>2, <2>3, <2>4, Zenon
<1>7. a = c
  BY <1>4, <1>5, <1>6, SeqEqual
<1>8. Head(b) = Head(q).urb
  BY <1>1, <1>2, <1>5
<1> QED
  BY <1>3, <1>7, <1>8 DEF a, b, c

LEMMA UrbsCancelled ==
    ASSUME NEW p \in Pipes, NEW q \in Seq(TransfersOn(p))
    PROVE  UrbsOf(Cancelled(q)) = UrbsOf(q)
<1> DEFINE a == UrbsOf(Cancelled(q))
           b == UrbsOf(q)
           n == Len(q)
<1>1. /\ Cancelled(q) \in Seq(FinishedTransfers) /\ Len(Cancelled(q)) = n
      /\ \A i \in 1..n : Cancelled(q)[i] = Finished(q[i], "cancelled", <<>>)
  BY CancelledType
<1>2. ASSUME NEW i \in 1..n PROVE Cancelled(q)[i].urb = q[i].urb
  <2>1. Cancelled(q)[i] = Finished(q[i], "cancelled", <<>>)
    BY <1>1, Zenon
  <2>2. Finished(q[i], "cancelled", <<>>).urb = q[i].urb
    BY DEF Finished
  <2> QED
    BY <2>1, <2>2, Zenon
<1>3. /\ a \in Seq(Urbs) /\ Len(a) = n
      /\ \A i \in 1..n : a[i] = Cancelled(q)[i].urb
  BY <1>1, UrbsAre, TransfersHaveUrbs
<1>4. /\ b \in Seq(Urbs) /\ Len(b) = n /\ \A i \in 1..n : b[i] = q[i].urb
  BY UrbsAre, TransfersHaveUrbs
<1> HIDE DEF a, b, n
<1>5. \A i \in 1..n : a[i] = b[i]
  BY <1>2, <1>3, <1>4
<1>6. a = b
  BY <1>3, <1>4, <1>5, SeqEqual
<1> QED
  BY <1>6 DEF a, b

LEMMA UrbsRemoveAt ==
    ASSUME NEW T, HasUrbs(T), NEW q \in Seq(T), NEW i \in 1..Len(q)
    PROVE  UrbsOf(RemoveAt(q, i)) = RemoveAt(UrbsOf(q), i)
<1> DEFINE n == Len(q)
           f == SubSeq(q, 1, i - 1)
           r == SubSeq(q, i + 1, n)
           b == UrbsOf(q)
           g == SubSeq(b, 1, i - 1)
           s == SubSeq(b, i + 1, n)
<1>1. n \in Nat /\ (\A j \in 1..n : q[j] \in T) /\ i \in 1..n
  BY LenProperties, ElementOfSeq
<1>2. /\ b \in Seq(Urbs) /\ Len(b) = n
      /\ \A j \in 1..n : b[j] = q[j].urb /\ b[j] \in Urbs
  BY UrbsAre, ElementOfSeq
<1> HIDE DEF b, n
<1>3. /\ f \in Seq(T) /\ Len(f) = i - 1 /\ \A j \in 1..(i - 1) : f[j] = q[j]
  <2>1. 1 \in Int /\ i - 1 \in Int /\ \A j \in 1..(i - 1) : q[j] \in T
    BY <1>1
  <2>2. /\ f \in Seq(T) /\ Len(f) = IF 1 <= i - 1 THEN i - 1 - 1 + 1 ELSE 0
        /\ \A j \in 1..(i - 1 - 1 + 1) : f[j] = q[1 + j - 1]
    BY <2>1, SubSeqProperties
  <2> HIDE DEF f
  <2> QED
    BY <1>1, <2>2
<1>4. /\ g \in Seq(Urbs) /\ Len(g) = i - 1 /\ \A j \in 1..(i - 1) : g[j] = b[j]
  <2>1. 1 \in Int /\ i - 1 \in Int /\ \A j \in 1..(i - 1) : b[j] \in Urbs
    BY <1>1, <1>2
  <2>2. /\ g \in Seq(Urbs) /\ Len(g) = IF 1 <= i - 1 THEN i - 1 - 1 + 1 ELSE 0
        /\ \A j \in 1..(i - 1 - 1 + 1) : g[j] = b[1 + j - 1]
    BY <2>1, SubSeqProperties
  <2> HIDE DEF g
  <2> QED
    BY <1>1, <2>2
<1>5. /\ r \in Seq(T) /\ Len(r) = n - i /\ \A j \in 1..(n - i) : r[j] = q[i + j]
  <2>1. i + 1 \in Int /\ n \in Int /\ \A j \in (i + 1)..n : q[j] \in T
    BY <1>1
  <2>2. /\ r \in Seq(T) /\ Len(r) = IF i + 1 <= n THEN n - (i + 1) + 1 ELSE 0
        /\ \A j \in 1..(n - (i + 1) + 1) : r[j] = q[i + 1 + j - 1]
    BY <2>1, SubSeqProperties
  <2> HIDE DEF r
  <2> QED
    BY <1>1, <2>2
<1>6. /\ s \in Seq(Urbs) /\ Len(s) = n - i
      /\ \A j \in 1..(n - i) : s[j] = b[i + j]
  <2>1. i + 1 \in Int /\ n \in Int /\ \A j \in (i + 1)..n : b[j] \in Urbs
    BY <1>1, <1>2
  <2>2. /\ s \in Seq(Urbs) /\ Len(s) = IF i + 1 <= n THEN n - (i + 1) + 1 ELSE 0
        /\ \A j \in 1..(n - (i + 1) + 1) : s[j] = b[i + 1 + j - 1]
    BY <2>1, SubSeqProperties
  <2> HIDE DEF s
  <2> QED
    BY <1>1, <2>2
<1> HIDE DEF f, g, r, s
<1>7. UrbsOf(f) = g
  <2>1. /\ UrbsOf(f) \in Seq(Urbs) /\ Len(UrbsOf(f)) = i - 1
        /\ \A j \in 1..(i - 1) : UrbsOf(f)[j] = f[j].urb
    BY <1>3, UrbsAre
  <2>2. ASSUME NEW j \in 1..(i - 1) PROVE UrbsOf(f)[j] = g[j]
    <3>1. j \in 1..n
      BY <1>1
    <3>2. f[j] = q[j] /\ g[j] = b[j]
      BY <1>3, <1>4
    <3>3. b[j] = q[j].urb
      BY <1>2, <3>1, Zenon
    <3>4. UrbsOf(f)[j] = f[j].urb
      BY <2>1, Zenon
    <3> QED
      BY <3>2, <3>3, <3>4, Zenon
  <2> QED
    BY <1>4, <2>1, <2>2, SeqEqual
<1>8. UrbsOf(r) = s
  <2>1. /\ UrbsOf(r) \in Seq(Urbs) /\ Len(UrbsOf(r)) = n - i
        /\ \A j \in 1..(n - i) : UrbsOf(r)[j] = r[j].urb
    BY <1>5, UrbsAre
  <2>2. ASSUME NEW j \in 1..(n - i) PROVE UrbsOf(r)[j] = s[j]
    <3>1. i + j \in 1..n
      BY <1>1
    <3>2. r[j] = q[i + j] /\ s[j] = b[i + j]
      BY <1>5, <1>6
    <3>3. b[i + j] = q[i + j].urb
      BY <1>2, <3>1, Zenon
    <3>4. UrbsOf(r)[j] = r[j].urb
      BY <2>1, Zenon
    <3> QED
      BY <3>2, <3>3, <3>4, Zenon
  <2> QED
    BY <1>6, <2>1, <2>2, SeqEqual
<1>9. UrbsOf(f \o r) = g \o s
  BY <1>3, <1>5, <1>7, <1>8, UrbsConcat
<1> QED
  BY <1>2, <1>9 DEF RemoveAt, f, g, r, s, b, n

(* In a list without duplicates, unlinking a member leaves the others.     *)
LEMMA ElementsRemoveAt ==
    ASSUME NEW S, NEW q \in Seq(S), Distinct(q), NEW i \in 1..Len(q)
    PROVE  /\ Elements(RemoveAt(q, i)) = Elements(q) \ {q[i]}
           /\ Distinct(RemoveAt(q, i)) /\ q[i] \in Elements(q)
<1> DEFINE j == CHOOSE k \in 1..Len(q) : q[k] = q[i]
<1>1. q[i] \in Elements(q)
  BY DEF Elements
<1>2. j \in 1..Len(q) /\ q[j] = q[i]
  OBVIOUS
<1>3. j = i
  BY <1>2 DEF Distinct
<1>4. DL_ListRemove(q, q[i]) = RemoveAt(q, i)
  BY <1>1, <1>3 DEF DL_ListRemove, RemoveAt
<1> QED
  BY <1>1, <1>4, ElementsRemove
-----------------------------------------------------------------------------
(* Where a URB context is.  A token names a place: the free list of a      *)
(* pipe, the USB core's queue of a pipe, a posting loop, a sender, the     *)
(* completion routine, and the finished transfers.                         *)
Tokens == ({"free", "core"} \X Pipes) \cup ({"post"} \X Contexts)
          \cup ({"packet"} \X Packets)
          \cup {<<"comp", None>>, <<"giveback", None>>}

FreeUrbs(p) == Elements(urb_list_head[p])
CoreUrbs(p) == Elements(UrbsOf(core[p]))
PostUrbs(c) == {post[c].urb} \ {None}
PacketUrbs(p) == IF packet[p].pc = "hif" THEN {} ELSE {packet[p].urb} \ {None}
CompUrbs == IF \/ comp.pc = "cleanup"
               \/ comp.kind # "transmit" /\ comp.pc \in {"queue", "schedule"}
            THEN {comp.urb} ELSE {}
GivebackUrbs == Elements(UrbsOf(giveback))

(* The URBs that are at each place.                                        *)
Held == [k \in Tokens |-> CASE k[1] = "free" -> FreeUrbs(k[2])
                            [] k[1] = "core" -> CoreUrbs(k[2])
                            [] k[1] = "post" -> PostUrbs(k[2])
                            [] k[1] = "packet" -> PacketUrbs(k[2])
                            [] k[1] = "comp" -> CompUrbs
                            [] OTHER -> GivebackUrbs]

Apart(H) == \A k, l \in Tokens : \A u : u \in H[k] /\ u \in H[l] => k = l

Kept(H) == \A u \in Urbs : \E k \in Tokens : u \in H[k]

(* The URBs that may be on a pending list: their submission is under way,  *)
(* or the USB core has them.                                               *)
InFlight(u) == \/ \E c \in Contexts : post[c].pc = "submit" /\ post[c].urb = u
               \/ \E p \in Packets : packet[p].pc = "submit" /\ packet[p].urb = u
               \/ \E p \in Pipes : u \in CoreUrbs(p)
               \/ u \in GivebackUrbs

NoDuplicates ==
    /\ \A p \in Pipes : /\ Distinct(urb_list_head[p])
                        /\ Distinct(urb_pending_list[p])
                        /\ Distinct(UrbsOf(core[p]))
    /\ Distinct(UrbsOf(giveback))

PendingInFlight ==
    \A p \in Pipes : \A u \in Elements(urb_pending_list[p]) : InFlight(u)

PlaceInv ==
    /\ NoDuplicates
    /\ Apart(Held)
    /\ control # "removed" => Kept(Held)
    /\ PendingInFlight

LEMMA TokenKinds ==
    ASSUME NEW k \in Tokens
    PROVE  \/ \E p \in Pipes : k = <<"free", p>> \/ k = <<"core", p>>
           \/ \E c \in Contexts : k = <<"post", c>>
           \/ \E p \in Packets : k = <<"packet", p>>
           \/ k = <<"comp", None>> \/ k = <<"giveback", None>>
  BY DEF Tokens

LEMMA TokensAre ==
    /\ \A p \in Pipes : <<"free", p>> \in Tokens /\ <<"core", p>> \in Tokens
    /\ \A c \in Contexts : <<"post", c>> \in Tokens
    /\ \A p \in Packets : <<"packet", p>> \in Tokens
    /\ <<"comp", None>> \in Tokens /\ <<"giveback", None>> \in Tokens
  BY DEF Tokens

(* What is at each place.                                                  *)
LEMMA HeldAt ==
    /\ \A p \in Pipes : Held[<<"free", p>>] = FreeUrbs(p)
    /\ \A p \in Pipes : Held[<<"core", p>>] = CoreUrbs(p)
    /\ \A c \in Contexts : Held[<<"post", c>>] = PostUrbs(c)
    /\ \A p \in Packets : Held[<<"packet", p>>] = PacketUrbs(p)
    /\ Held[<<"comp", None>>] = CompUrbs
    /\ Held[<<"giveback", None>>] = GivebackUrbs
<1>1. ASSUME NEW p \in Pipes
      PROVE  /\ Held[<<"free", p>>] = FreeUrbs(p)
             /\ Held[<<"core", p>>] = CoreUrbs(p)
  BY TokensAre DEF Held
<1>2. ASSUME NEW c \in Contexts PROVE Held[<<"post", c>>] = PostUrbs(c)
  BY TokensAre DEF Held
<1>3. ASSUME NEW p \in Packets PROVE Held[<<"packet", p>>] = PacketUrbs(p)
  BY TokensAre DEF Held
<1>4. /\ Held[<<"comp", None>>] = CompUrbs
      /\ Held[<<"giveback", None>>] = GivebackUrbs
  BY TokensAre DEF Held
<1> QED
  BY <1>1, <1>2, <1>3, <1>4

LEMMA HeldAtNext ==
    /\ \A p \in Pipes : Held'[<<"free", p>>] = FreeUrbs(p)'
    /\ \A p \in Pipes : Held'[<<"core", p>>] = CoreUrbs(p)'
    /\ \A c \in Contexts : Held'[<<"post", c>>] = PostUrbs(c)'
    /\ \A p \in Packets : Held'[<<"packet", p>>] = PacketUrbs(p)'
    /\ Held'[<<"comp", None>>] = CompUrbs'
    /\ Held'[<<"giveback", None>>] = GivebackUrbs'
<1>1. ASSUME NEW p \in Pipes
      PROVE  /\ Held'[<<"free", p>>] = FreeUrbs(p)'
             /\ Held'[<<"core", p>>] = CoreUrbs(p)'
  BY TokensAre DEF Held
<1>2. ASSUME NEW c \in Contexts PROVE Held'[<<"post", c>>] = PostUrbs(c)'
  BY TokensAre DEF Held
<1>3. ASSUME NEW p \in Packets PROVE Held'[<<"packet", p>>] = PacketUrbs(p)'
  BY TokensAre DEF Held
<1>4. /\ Held'[<<"comp", None>>] = CompUrbs'
      /\ Held'[<<"giveback", None>>] = GivebackUrbs'
  BY TokensAre DEF Held
<1> QED
  BY <1>1, <1>2, <1>3, <1>4

(* The places that a step leaves alone.                                    *)
Untouched(a, c) ==
    /\ \A p \in Pipes : <<"free", p>> \notin {a, c} => FreeUrbs(p)' = FreeUrbs(p)
    /\ \A p \in Pipes : <<"core", p>> \notin {a, c} => CoreUrbs(p)' = CoreUrbs(p)
    /\ \A x \in Contexts :
          <<"post", x>> \notin {a, c} => PostUrbs(x)' = PostUrbs(x)
    /\ \A p \in Packets :
          <<"packet", p>> \notin {a, c} => PacketUrbs(p)' = PacketUrbs(p)
    /\ <<"comp", None>> \notin {a, c} => CompUrbs' = CompUrbs
    /\ <<"giveback", None>> \notin {a, c} => GivebackUrbs' = GivebackUrbs

LEMMA OthersHeld ==
    ASSUME NEW a, NEW c, Untouched(a, c)
    PROVE  \A k \in Tokens : k # a /\ k # c => Held'[k] = Held[k]
<1> SUFFICES ASSUME NEW k \in Tokens, k # a, k # c PROVE Held'[k] = Held[k]
  OBVIOUS
<1> USE DEF Untouched
<1>1. ASSUME NEW p \in Pipes, k = <<"free", p>> PROVE Held'[k] = Held[k]
  <2>1. FreeUrbs(p)' = FreeUrbs(p)
    BY <1>1
  <2> QED
    BY <1>1, <2>1, HeldAt, HeldAtNext, Zenon
<1>2. ASSUME NEW p \in Pipes, k = <<"core", p>> PROVE Held'[k] = Held[k]
  <2>1. CoreUrbs(p)' = CoreUrbs(p)
    BY <1>2
  <2> QED
    BY <1>2, <2>1, HeldAt, HeldAtNext, Zenon
<1>3. ASSUME NEW x \in Contexts, k = <<"post", x>> PROVE Held'[k] = Held[k]
  <2>1. PostUrbs(x)' = PostUrbs(x)
    BY <1>3
  <2> QED
    BY <1>3, <2>1, HeldAt, HeldAtNext, Zenon
<1>4. ASSUME NEW p \in Packets, k = <<"packet", p>> PROVE Held'[k] = Held[k]
  <2>1. PacketUrbs(p)' = PacketUrbs(p)
    BY <1>4
  <2> QED
    BY <1>4, <2>1, HeldAt, HeldAtNext, Zenon
<1>5. ASSUME k = <<"comp", None>> PROVE Held'[k] = Held[k]
  <2>1. CompUrbs' = CompUrbs
    BY <1>5
  <2> QED
    BY <1>5, <2>1, HeldAt, HeldAtNext, Zenon
<1>6. ASSUME k = <<"giveback", None>> PROVE Held'[k] = Held[k]
  <2>1. GivebackUrbs' = GivebackUrbs
    BY <1>6
  <2> QED
    BY <1>6, <2>1, HeldAt, HeldAtNext, Zenon
<1> QED
  BY <1>1, <1>2, <1>3, <1>4, <1>5, <1>6, TokenKinds

(* Some URBs go from one place to another.                                 *)
Moves(H, G, a, c, S) ==
    /\ a \in Tokens /\ c \in Tokens /\ a # c
    /\ S \subseteq H[a]
    /\ G[a] = H[a] \ S /\ G[c] = H[c] \cup S
    /\ \A k \in Tokens : k # a /\ k # c => G[k] = H[k]

LEMMA Moved ==
    ASSUME NEW H, NEW G, NEW a, NEW c, NEW S, Moves(H, G, a, c, S), Apart(H)
    PROVE  Apart(G) /\ (Kept(H) => Kept(G))
<1> USE DEF Moves
<1>1. ASSUME NEW k \in Tokens, NEW u, u \in G[k]
      PROVE  IF u \in S THEN k = c ELSE u \in H[k]
  <2>1. CASE k = a
    BY <1>1, <2>1
  <2>2. CASE k = c
    BY <1>1, <2>2
  <2>3. CASE k # a /\ k # c
    BY <1>1, <2>3 DEF Apart
  <2> QED
    BY <2>1, <2>2, <2>3
<1>2. Apart(G)
  BY <1>1 DEF Apart
<1>3. ASSUME Kept(H), NEW u \in Urbs PROVE \E k \in Tokens : u \in G[k]
  <2>1. PICK k \in Tokens : u \in H[k]
    BY <1>3 DEF Kept
  <2>2. CASE k = a
    BY <2>1, <2>2
  <2>3. CASE k = c
    BY <2>1, <2>3
  <2>4. CASE k # a /\ k # c
    BY <2>1, <2>4
  <2> QED
    BY <2>2, <2>3, <2>4
<1> QED
  BY <1>2, <1>3 DEF Kept

(* A step that moves the URBs S from place a to place c.                   *)
LEMMA PlaceMoves ==
    ASSUME PlaceInv, NoDuplicates', PendingInFlight',
           control' # "removed" => control # "removed",
           NEW a \in Tokens, NEW c \in Tokens, a # c, Untouched(a, c),
           NEW S, S \subseteq Held[a],
           Held'[a] = Held[a] \ S, Held'[c] = Held[c] \cup S
    PROVE  PlaceInv'
<1>1. \A k \in Tokens : k # a /\ k # c => Held'[k] = Held[k]
  BY OthersHeld
<1>2. Moves(Held, Held', a, c, S)
  BY <1>1 DEF Moves
<1>3. Apart(Held') /\ (Kept(Held) => Kept(Held'))
  BY <1>2, Moved DEF PlaceInv
<1> QED
  BY <1>3 DEF PlaceInv

Nowhere == <<"nowhere", None>>

(* A step that moves no URB.                                               *)
LEMMA PlaceStays ==
    ASSUME PlaceInv, NoDuplicates', PendingInFlight',
           control' # "removed" => control # "removed",
           Untouched(Nowhere, Nowhere)
    PROVE  PlaceInv'
<1>1. \A k \in Tokens : Held'[k] = Held[k]
  <2>1. \A k \in Tokens : k # Nowhere
    BY TokenKinds DEF Nowhere
  <2> QED
    BY <2>1, OthersHeld
<1>2. Apart(Held') /\ (Kept(Held) => Kept(Held'))
  BY <1>1 DEF PlaceInv, Apart, Kept
<1> QED
  BY <1>2 DEF PlaceInv

(* What the changes of each list do to the URBs that are on it.            *)
LEMMA FreeTake ==
    ASSUME TypeOK, NoDuplicates, NEW p \in Pipes, urb_list_head[p] # <<>>,
           urb_list_head' = [urb_list_head EXCEPT ![p] = Tail(@)]
    PROVE  /\ Head(urb_list_head[p]) \in FreeUrbs(p)
           /\ Head(urb_list_head[p]) \in UrbsOn(p)
           /\ FreeUrbs(p)' = FreeUrbs(p) \ {Head(urb_list_head[p])}
           /\ \A o \in Pipes : o # p => FreeUrbs(o)' = FreeUrbs(o)
           /\ \A o \in Pipes : Distinct(urb_list_head'[o])
<1> DEFINE q == urb_list_head[p]
<1>1. /\ q \in Seq(UrbsOn(p)) /\ Distinct(q) /\ q # <<>>
      /\ urb_list_head'[p] = Tail(q)
      /\ \A o \in Pipes : o # p => urb_list_head'[o] = urb_list_head[o]
  BY DEF TypeOK, ListTypes, NoDuplicates
<1> HIDE DEF q
<1>2. /\ Head(q) \in UrbsOn(p) /\ Head(q) \in Elements(q)
      /\ Elements(Tail(q)) = Elements(q) \ {Head(q)}
      /\ Distinct(Tail(q))
  BY <1>1, ElementsTail
<1>3. \A o \in Pipes : Distinct(urb_list_head'[o])
  BY <1>1, <1>2 DEF NoDuplicates
<1> QED
  BY <1>1, <1>2, <1>3 DEF FreeUrbs, q

LEMMA FreeGive ==
    ASSUME TypeOK, NoDuplicates, NEW p \in Pipes, NEW u \in UrbsOn(p),
           u \notin FreeUrbs(p), urb_list_head' = FreeTo(urb_list_head, u)
    PROVE  /\ FreeUrbs(p)' = FreeUrbs(p) \cup {u}
           /\ \A o \in Pipes : o # p => FreeUrbs(o)' = FreeUrbs(o)
           /\ \A o \in Pipes : Distinct(urb_list_head'[o])
<1> DEFINE q == urb_list_head[p]
           w == <<u>>
<1>1. PipeOf(u) = p
  BY HifUsbAssumption DEF HifUsbAssumption, PipeOf, UrbsOn, Pipes
<1>2. /\ q \in Seq(UrbsOn(p)) /\ Distinct(q) /\ u \notin Elements(q)
      /\ urb_list_head'[p] = w \o q
      /\ \A o \in Pipes : o # p => urb_list_head'[o] = urb_list_head[o]
  BY <1>1 DEF TypeOK, ListTypes, NoDuplicates, FreeTo, FreeUrbs
<1> HIDE DEF q
<1>3. w \in Seq(UrbsOn(p)) /\ Elements(w) = {u} /\ Distinct(w)
  BY ElementsOne
<1> HIDE DEF w
<1>4. Elements(w \o q) = Elements(q) \cup {u} /\ Distinct(w \o q)
  BY <1>2, <1>3, ElementsConcat
<1>5. \A o \in Pipes : Distinct(urb_list_head'[o])
  BY <1>2, <1>4 DEF NoDuplicates
<1> QED
  BY <1>2, <1>4, <1>5 DEF FreeUrbs, q

LEMMA CoreAdd ==
    ASSUME TypeOK, NoDuplicates, NEW p \in Pipes, NEW t \in TransfersOn(p),
           t.urb \notin CoreUrbs(p),
           core' = [core EXCEPT ![p] = Append(@, t)]
    PROVE  /\ CoreUrbs(p)' = CoreUrbs(p) \cup {t.urb}
           /\ \A o \in Pipes : o # p => CoreUrbs(o)' = CoreUrbs(o)
           /\ \A o \in Pipes : Distinct(UrbsOf(core'[o]))
<1> DEFINE q == core[p]
           b == UrbsOf(q)
<1>1. /\ q \in Seq(TransfersOn(p)) /\ Distinct(b) /\ t.urb \notin Elements(b)
      /\ core'[p] = Append(q, t)
      /\ \A o \in Pipes : o # p => core'[o] = core[o]
  BY DEF TypeOK, ListTypes, NoDuplicates, CoreUrbs
<1>2. /\ UrbsOf(Append(q, t)) = Append(b, t.urb)
      /\ b \in Seq(Urbs) /\ t.urb \in Urbs
  BY <1>1, TransfersHaveUrbs, UrbsAppend, UrbsAre DEF HasUrbs
<1> HIDE DEF b, q
<1>3. /\ Elements(Append(b, t.urb)) = Elements(b) \cup {t.urb}
      /\ Distinct(Append(b, t.urb))
  BY <1>1, <1>2, ElementsAppend
<1>4. UrbsOf(core'[p]) = Append(b, t.urb)
  BY <1>1, <1>2
<1>5. \A o \in Pipes : o # p => UrbsOf(core'[o]) = UrbsOf(core[o])
  BY <1>1
<1>6. \A o \in Pipes : Distinct(UrbsOf(core'[o]))
  BY <1>3, <1>4, <1>5 DEF NoDuplicates
<1> QED
  BY <1>3, <1>4, <1>5, <1>6 DEF CoreUrbs, b, q

LEMMA PendingAdd ==
    ASSUME TypeOK, NoDuplicates, NEW p \in Pipes, NEW u \in UrbsOn(p),
           u \notin Elements(urb_pending_list[p]),
           urb_pending_list' = [urb_pending_list EXCEPT ![p] = Append(@, u)]
    PROVE  /\ Elements(urb_pending_list'[p])
                = Elements(urb_pending_list[p]) \cup {u}
           /\ \A o \in Pipes : o # p => urb_pending_list'[o] = urb_pending_list[o]
           /\ \A o \in Pipes : Distinct(urb_pending_list'[o])
<1> DEFINE q == urb_pending_list[p]
<1>1. /\ q \in Seq(UrbsOn(p)) /\ Distinct(q) /\ u \notin Elements(q)
      /\ urb_pending_list'[p] = Append(q, u)
      /\ \A o \in Pipes : o # p => urb_pending_list'[o] = urb_pending_list[o]
  BY DEF TypeOK, ListTypes, NoDuplicates
<1> HIDE DEF q
<1>2. Elements(Append(q, u)) = Elements(q) \cup {u} /\ Distinct(Append(q, u))
  BY <1>1, ElementsAppend
<1>3. \A o \in Pipes : Distinct(urb_pending_list'[o])
  BY <1>1, <1>2 DEF NoDuplicates
<1> QED
  BY <1>1, <1>2, <1>3 DEF q

LEMMA PendingRemove ==
    ASSUME TypeOK, NoDuplicates, NEW u \in Urbs,
           urb_pending_list' = usb_hif_remove_pending_transfer(u)
    PROVE  \A o \in Pipes :
              /\ Elements(urb_pending_list'[o])
                   = Elements(urb_pending_list[o]) \ {u}
              /\ Distinct(urb_pending_list'[o])
<1> DEFINE p == PipeOf(u)
           q == urb_pending_list[p]
<1>1. p \in Pipes /\ \A o \in Pipes : o # p => u \notin UrbsOn(o)
  BY HifUsbAssumption DEF HifUsbAssumption, PipeOf, UrbsOn, Pipes, Urbs
<1>2. /\ q \in Seq(UrbsOn(p)) /\ Distinct(q)
      /\ urb_pending_list'[p] = DL_ListRemove(q, u)
      /\ \A o \in Pipes : o # p => urb_pending_list'[o] = urb_pending_list[o]
  BY <1>1 DEF TypeOK, ListTypes, NoDuplicates, usb_hif_remove_pending_transfer
<1> HIDE DEF q, p
<1>3. /\ Elements(DL_ListRemove(q, u)) = Elements(q) \ {u}
      /\ Distinct(DL_ListRemove(q, u))
  BY <1>2, ElementsRemove
<1>4. ASSUME NEW o \in Pipes, o # p
      PROVE  u \notin Elements(urb_pending_list[o])
  <2>1. urb_pending_list[o] \in Seq(UrbsOn(o))
    BY DEF TypeOK, ListTypes
  <2> QED
    BY <1>1, <1>4, <2>1, ElementsType
<1> SUFFICES ASSUME NEW o \in Pipes
             PROVE  /\ Elements(urb_pending_list'[o])
                         = Elements(urb_pending_list[o]) \ {u}
                    /\ Distinct(urb_pending_list'[o])
  OBVIOUS
<1>5. CASE o = p
  BY <1>2, <1>3, <1>5 DEF q
<1>6. CASE o # p
  BY <1>2, <1>4, <1>6 DEF NoDuplicates
<1> QED
  BY <1>5, <1>6

LEMMA GivebackTake ==
    ASSUME TypeOK, NoDuplicates, giveback # <<>>, giveback' = Tail(giveback)
    PROVE  /\ Head(giveback).urb \in GivebackUrbs
           /\ Head(giveback).urb \in Urbs
           /\ GivebackUrbs' = GivebackUrbs \ {Head(giveback).urb}
           /\ Distinct(UrbsOf(giveback'))
<1> DEFINE b == UrbsOf(giveback)
<1>1. /\ UrbsOf(giveback') = Tail(b) /\ Head(b) = Head(giveback).urb
      /\ b # <<>> /\ b \in Seq(Urbs) /\ Distinct(b)
  BY TransfersHaveUrbs, UrbsTail, UrbsAre DEF TypeOK, ListTypes, NoDuplicates
<1> HIDE DEF b
<1>2. /\ Head(b) \in Urbs /\ Head(b) \in Elements(b)
      /\ Elements(Tail(b)) = Elements(b) \ {Head(b)}
      /\ Distinct(Tail(b))
  BY <1>1, ElementsTail
<1> QED
  BY <1>1, <1>2 DEF GivebackUrbs, b

LEMMA GivebackAdd ==
    ASSUME TypeOK, NoDuplicates, NEW t \in FinishedTransfers,
           t.urb \notin GivebackUrbs, giveback' = Append(giveback, t)
    PROVE  /\ GivebackUrbs' = GivebackUrbs \cup {t.urb}
           /\ Distinct(UrbsOf(giveback'))
<1> DEFINE b == UrbsOf(giveback)
<1>1. /\ UrbsOf(giveback') = Append(b, t.urb)
      /\ b \in Seq(Urbs) /\ Distinct(b) /\ t.urb \in Urbs
      /\ t.urb \notin Elements(b)
  BY TransfersHaveUrbs, UrbsAppend, UrbsAre
     DEF TypeOK, ListTypes, NoDuplicates, GivebackUrbs, HasUrbs
<1> HIDE DEF b
<1>2. /\ Elements(Append(b, t.urb)) = Elements(b) \cup {t.urb}
      /\ Distinct(Append(b, t.urb))
  BY <1>1, ElementsAppend
<1> QED
  BY <1>1, <1>2 DEF GivebackUrbs, b

(* A URB that one place has is at no other, and not on a pending list      *)
(* unless it may be.                                                       *)
LEMMA OnlyThere ==
    ASSUME PlaceInv, NEW k \in Tokens, NEW u, u \in Held[k]
    PROVE  /\ \A p \in Pipes : u \in FreeUrbs(p) => k = <<"free", p>>
           /\ \A p \in Pipes : u \in CoreUrbs(p) => k = <<"core", p>>
           /\ \A c \in Contexts : u \in PostUrbs(c) => k = <<"post", c>>
           /\ \A p \in Packets : u \in PacketUrbs(p) => k = <<"packet", p>>
           /\ u \in CompUrbs => k = <<"comp", None>>
           /\ u \in GivebackUrbs => k = <<"giveback", None>>
<1>1. \A l \in Tokens : u \in Held[l] => k = l
  BY DEF PlaceInv, Apart
<1>2. ASSUME NEW p \in Pipes
      PROVE  /\ u \in FreeUrbs(p) => k = <<"free", p>>
             /\ u \in CoreUrbs(p) => k = <<"core", p>>
  BY <1>1, TokensAre, HeldAt, Zenon
<1>3. ASSUME NEW c \in Contexts PROVE u \in PostUrbs(c) => k = <<"post", c>>
  BY <1>1, TokensAre, HeldAt, Zenon
<1>4. ASSUME NEW p \in Packets PROVE u \in PacketUrbs(p) => k = <<"packet", p>>
  BY <1>1, TokensAre, HeldAt, Zenon
<1>5. /\ u \in CompUrbs => k = <<"comp", None>>
      /\ u \in GivebackUrbs => k = <<"giveback", None>>
  BY <1>1, TokensAre, HeldAt, Zenon
<1> QED
  BY <1>2, <1>3, <1>4, <1>5

(* The end of a posting loop moves no URB but the one of the loop.         *)
LEMMA EndPostPlaces ==
    ASSUME TypeOK, NEW c \in Contexts, EndPost(c), post[c].pc # "off"
    PROVE  /\ CompUrbs' = CompUrbs /\ PostUrbs(c)' = {}
           /\ post'[c].pc = "off"
           /\ \A x \in Contexts : x # c => post'[x] = post[x]
           /\ \/ control' # "removed" /\ control # "removed"
              \/ control' = control
<1>1. /\ post'[c] = PostOff
      /\ \A x \in Contexts : x # c => post'[x] = post[x]
  BY DEF EndPost, TypeOK, PostType
<1>2. PostUrbs(c)' = {} /\ post'[c].pc = "off"
  BY <1>1 DEF PostUrbs, PostOff
<1>3. CASE c = "comp"
  <2>1. comp' = CompIdle /\ control' = control /\ comp.pc = "posting"
    BY <1>3 DEF EndPost, TypeOK, PostType
  <2>2. CompUrbs = {} /\ CompUrbs' = {}
    BY <2>1 DEF CompUrbs, CompIdle
  <2> QED
    BY <1>1, <1>2, <2>1, <2>2
<1>4. CASE c = "control"
  <2>1. comp' = comp /\ control' = "up" /\ control # "removed"
    BY <1>4 DEF EndPost, TypeOK, PostType
  <2> QED
    BY <1>1, <1>2, <2>1 DEF CompUrbs
<1> QED
  BY <1>3, <1>4 DEF Contexts

(* A step that touches no list of URBs.                                    *)
LEMMA ListsStay ==
    ASSUME TypeOK, PlaceInv, UNCHANGED <<urb_list_head, core, giveback>>
    PROVE  /\ \A p \in Pipes : FreeUrbs(p)' = FreeUrbs(p) /\ CoreUrbs(p)' = CoreUrbs(p)
           /\ GivebackUrbs' = GivebackUrbs
           /\ UNCHANGED urb_pending_list => NoDuplicates'
  BY DEF FreeUrbs, CoreUrbs, GivebackUrbs, NoDuplicates, PlaceInv

LEMMA PlacePost ==
    ASSUME TypeOK, PlaceInv, NEW c \in Contexts, PostStep(c)
    PROVE  PlaceInv'
<1>0. /\ "rx" \in Pipes /\ UrbsOn("rx") = RxUrbs /\ None \notin RxUrbs
      /\ RxUrbs \subseteq Urbs /\ \A p \in Pipes : p # "rx" => p = "tx"
      /\ NoDuplicates
  BY HifUsbAssumption DEF HifUsbAssumption, Pipes, UrbsOn, Urbs, PlaceInv
<1> DEFINE x == <<"free", "rx">>
           y == <<"post", c>>
           z == <<"core", "rx">>
<1>1. /\ x \in Tokens /\ y \in Tokens /\ z \in Tokens
      /\ x # y /\ y # x /\ y # z
      /\ Held[x] = FreeUrbs("rx") /\ Held'[x] = FreeUrbs("rx")'
      /\ Held[y] = PostUrbs(c) /\ Held'[y] = PostUrbs(c)'
      /\ Held[z] = CoreUrbs("rx") /\ Held'[z] = CoreUrbs("rx")'
  BY <1>0, TokensAre, HeldAt, HeldAtNext
<1>2. UNCHANGED packet => \A p \in Packets : PacketUrbs(p)' = PacketUrbs(p)
  BY DEF PacketUrbs
<1>3. CASE PostNoUrb(c) \/ PostNoBuffer(c)
  <2>1. /\ EndPost(c) /\ post[c].pc = "alloc" /\ UNCHANGED packet
        /\ UNCHANGED <<urb_list_head, core, giveback, urb_pending_list>>
    BY <1>3 DEF PostNoUrb, PostNoBuffer, listVars, usbVars
  <2>2. PostUrbs(c) = {}
    BY <2>1 DEF PostUrbs, TypeOK, PostType
  <2>3. /\ CompUrbs' = CompUrbs /\ PostUrbs(c)' = {}
        /\ post'[c].pc = "off"
        /\ \A w \in Contexts : w # c => post'[w] = post[w]
        /\ control' # "removed" => control # "removed"
    BY <2>1, EndPostPlaces
  <2>4. \A w \in Contexts : PostUrbs(w)' = PostUrbs(w)
    BY <2>2, <2>3 DEF PostUrbs
  <2>5. Untouched(Nowhere, Nowhere) /\ NoDuplicates'
    BY <1>2, <2>1, <2>3, <2>4, ListsStay DEF Untouched
  <2>6. PendingInFlight'
    <3>1. \A u : InFlight(u) => InFlight(u)'
      BY <2>1, <2>3, ListsStay DEF InFlight
    <3> QED
      BY <2>1, <3>1 DEF PendingInFlight, PlaceInv
  <2> QED
    BY <2>3, <2>5, <2>6, PlaceStays
<1>4. CASE PostAlloc(c)
  <2> DEFINE u == Head(urb_list_head["rx"])
  <2>1. /\ urb_list_head["rx"] # <<>> /\ post[c].pc = "alloc"
        /\ urb_list_head' = [urb_list_head EXCEPT !["rx"] = Tail(@)]
        /\ post' = [post EXCEPT ![c].pc = "enqueue", ![c].urb = u]
        /\ UNCHANGED <<urb_pending_list, core, giveback, comp, control, packet>>
    BY <1>4 DEF PostAlloc, usbVars
  <2>2. /\ u \in FreeUrbs("rx") /\ u \in RxUrbs
        /\ FreeUrbs("rx")' = FreeUrbs("rx") \ {u}
        /\ \A o \in Pipes : o # "rx" => FreeUrbs(o)' = FreeUrbs(o)
        /\ \A o \in Pipes : Distinct(urb_list_head'[o])
    BY <1>0, <2>1, FreeTake
  <2> HIDE DEF u
  <2>3. /\ post'[c].urb = u /\ post'[c].pc = "enqueue" /\ post[c].urb = None
        /\ \A w \in Contexts : w # c => post'[w] = post[w]
    BY <2>1 DEF TypeOK, PostType
  <2>4. PostUrbs(c) = {} /\ PostUrbs(c)' = {u}
    BY <1>0, <2>2, <2>3 DEF PostUrbs
  <2>5. NoDuplicates'
    BY <2>1, <2>2 DEF NoDuplicates, PlaceInv
  <2>6. /\ CompUrbs' = CompUrbs /\ GivebackUrbs' = GivebackUrbs
        /\ \A p \in Pipes : CoreUrbs(p)' = CoreUrbs(p)
    BY <2>1 DEF CompUrbs, GivebackUrbs, CoreUrbs
  <2>7. Untouched(x, y)
    <3>1. \A w \in Contexts : w # c => PostUrbs(w)' = PostUrbs(w)
      BY <2>3 DEF PostUrbs
    <3> QED
      BY <1>2, <2>1, <2>2, <2>6, <3>1 DEF Untouched
  <2>8. PendingInFlight'
    <3>1. \A v : InFlight(v) => InFlight(v)'
      BY <2>1, <2>3, <2>6 DEF InFlight
    <3> QED
      BY <2>1, <3>1 DEF PendingInFlight, PlaceInv
  <2>9. control' # "removed" => control # "removed"
    BY <2>1
  <2> DEFINE S == {u}
  <2>10. S \subseteq Held[x] /\ Held'[x] = Held[x] \ S /\ Held'[y] = Held[y] \cup S
    BY <1>1, <2>2, <2>4
  <2> HIDE DEF x, y, S
  <2> QED
    BY <1>1, <2>5, <2>7, <2>8, <2>9, <2>10, PlaceMoves
<1>5. CASE PostEnqueue(c)
  <2> DEFINE u == post[c].urb
  <2>1. /\ urb_pending_list' = [urb_pending_list EXCEPT !["rx"] = Append(@, u)]
        /\ post' = [post EXCEPT ![c].pc = "submit"] /\ post[c].pc = "enqueue"
        /\ UNCHANGED <<urb_list_head, core, giveback, comp, control, packet>>
        /\ u \in RxUrbs
    BY <1>5 DEF PostEnqueue, usbVars, TypeOK, PostType
  <2>2. u \in Held[y]
    BY <1>0, <1>1, <2>1 DEF PostUrbs
  <2>3. ~InFlight(u)
    <3>1. ASSUME NEW w \in Contexts, post[w].pc = "submit", post[w].urb = u
          PROVE  FALSE
      <4>1. u \in PostUrbs(w)
        BY <1>0, <2>1, <3>1 DEF PostUrbs
      <4>2. y = <<"post", w>>
        BY <1>1, <2>2, <4>1, OnlyThere
      <4> QED
        BY <2>1, <3>1, <4>2
    <3>2. ASSUME NEW p \in Packets, packet[p].pc = "submit", packet[p].urb = u
          PROVE  FALSE
      <4>1. u \in PacketUrbs(p)
        BY <1>0, <2>1, <3>2 DEF PacketUrbs
      <4>2. y = <<"packet", p>>
        BY <1>1, <2>2, <4>1, OnlyThere
      <4> QED
        BY <4>2
    <3>3. ASSUME NEW p \in Pipes, u \in CoreUrbs(p) PROVE FALSE
      <4>1. y = <<"core", p>>
        BY <1>1, <2>2, <3>3, OnlyThere
      <4> QED
        BY <4>1
    <3>4. u \notin GivebackUrbs
      BY <1>1, <2>2, OnlyThere
    <3> QED
      BY <3>1, <3>2, <3>3, <3>4 DEF InFlight
  <2>4. u \notin Elements(urb_pending_list["rx"])
    BY <1>0, <2>3 DEF PlaceInv, PendingInFlight
  <2>5. /\ Elements(urb_pending_list'["rx"])
             = Elements(urb_pending_list["rx"]) \cup {u}
        /\ \A o \in Pipes : o # "rx" => urb_pending_list'[o] = urb_pending_list[o]
        /\ \A o \in Pipes : Distinct(urb_pending_list'[o])
    BY <1>0, <2>1, <2>4, PendingAdd
  <2> HIDE DEF u
  <2>6. /\ post'[c].urb = u /\ post'[c].pc = "submit"
        /\ \A w \in Contexts : w # c => post'[w] = post[w]
        /\ post[c].urb = u
    BY <2>1 DEF TypeOK, PostType, u
  <2>7. \A w \in Contexts : PostUrbs(w)' = PostUrbs(w)
    BY <2>6 DEF PostUrbs
  <2>8. /\ CompUrbs' = CompUrbs /\ GivebackUrbs' = GivebackUrbs
        /\ \A p \in Pipes : CoreUrbs(p)' = CoreUrbs(p) /\ FreeUrbs(p)' = FreeUrbs(p)
    BY <2>1 DEF CompUrbs, GivebackUrbs, CoreUrbs, FreeUrbs
  <2>9. Untouched(Nowhere, Nowhere)
    BY <1>2, <2>1, <2>7, <2>8 DEF Untouched
  <2>10. NoDuplicates'
    BY <2>1, <2>5 DEF NoDuplicates, PlaceInv
  <2>11. PendingInFlight'
    <3>1. \A v : InFlight(v) => InFlight(v)'
      BY <2>1, <2>6, <2>8 DEF InFlight
    <3>2. \A v : v = u => InFlight(v)'
      BY <2>6 DEF InFlight
    <3> QED
      BY <2>5, <3>1, <3>2 DEF PendingInFlight, PlaceInv
  <2>12. control' # "removed" => control # "removed"
    BY <2>1
  <2> QED
    BY <2>9, <2>10, <2>11, <2>12, PlaceStays
<1>6. CASE PostSubmit(c)
  <2> DEFINE u == post[c].urb
             t == Transfer(u, post[c].kind)
  <2>1. /\ core' = [core EXCEPT !["rx"] = Append(@, t)]
        /\ post[c].pc = "submit" /\ u \in RxUrbs
        /\ UNCHANGED <<urb_list_head, urb_pending_list, giveback, comp, control,
                       packet>>
    BY <1>6 DEF PostSubmit, listVars, TypeOK, PostType
  <2>2. t \in TransfersOn("rx") /\ t.urb = u
    BY <1>0, <2>1 DEF TypeOK, PostType, TransfersOn, KindsOn, Transfer
  <2>3. u \in Held[y] /\ Held[y] = {u}
    BY <1>0, <1>1, <2>1 DEF PostUrbs
  <2>4. u \notin CoreUrbs("rx")
    BY <1>0, <1>1, <2>3, OnlyThere
  <2> HIDE DEF t
  <2>5. /\ CoreUrbs("rx")' = CoreUrbs("rx") \cup {u}
        /\ \A o \in Pipes : o # "rx" => CoreUrbs(o)' = CoreUrbs(o)
        /\ \A o \in Pipes : Distinct(UrbsOf(core'[o]))
    BY <1>0, <2>1, <2>2, <2>4, CoreAdd
  <2>6. /\ post'[c].urb = None /\ post'[c].pc = "alloc"
        /\ \A w \in Contexts : w # c => post'[w] = post[w]
    BY <1>6 DEF PostSubmit, Post, TypeOK, PostType
  <2>7. PostUrbs(c)' = {} /\ \A w \in Contexts : w # c => PostUrbs(w)' = PostUrbs(w)
    BY <2>6 DEF PostUrbs
  <2> HIDE DEF u
  <2>8. /\ CompUrbs' = CompUrbs /\ GivebackUrbs' = GivebackUrbs
        /\ \A p \in Pipes : FreeUrbs(p)' = FreeUrbs(p)
    BY <2>1 DEF CompUrbs, GivebackUrbs, FreeUrbs
  <2>9. Untouched(y, z)
    BY <1>2, <2>1, <2>5, <2>7, <2>8 DEF Untouched
  <2>10. NoDuplicates'
    BY <2>1, <2>5 DEF NoDuplicates, PlaceInv
  <2>11. PendingInFlight'
    <3>1. ASSUME NEW v, InFlight(v) PROVE InFlight(v)'
      <4>1. CASE v = u
        BY <1>0, <2>5, <4>1 DEF InFlight
      <4>2. CASE v # u
        <5>1. \A w \in Contexts : post[w].pc = "submit" /\ post[w].urb = v =>
                 post'[w] = post[w]
          BY <2>6, <4>2 DEF u
        <5>2. \A p \in Pipes : v \in CoreUrbs(p) => v \in CoreUrbs(p)'
          BY <2>5
        <5> QED
          BY <2>1, <2>8, <3>1, <5>1, <5>2 DEF InFlight
      <4> QED
        BY <4>1, <4>2
    <3> QED
      BY <2>1, <3>1 DEF PendingInFlight, PlaceInv
  <2>12. control' # "removed" => control # "removed"
    BY <2>1
  <2> DEFINE S == {u}
  <2>13. S \subseteq Held[y] /\ Held'[y] = Held[y] \ S /\ Held'[z] = Held[z] \cup S
    BY <1>1, <2>3, <2>5, <2>7
  <2> HIDE DEF x, y, z, S
  <2> QED
    BY <1>1, <2>9, <2>10, <2>11, <2>12, <2>13, PlaceMoves
<1>7. CASE PostSubmitFails(c)
  <2> DEFINE u == post[c].urb
  <2>1. /\ urb_pending_list' = usb_hif_remove_pending_transfer(u)
        /\ urb_list_head' = FreeTo(urb_list_head, u)
        /\ post[c].pc = "submit" /\ u \in RxUrbs /\ EndPost(c)
        /\ UNCHANGED <<core, giveback, packet>>
    BY <1>7 DEF PostSubmitFails, usb_hif_cleanup_recv_urb, usbVars, TypeOK,
                PostType
  <2>2. Held[y] = {u}
    BY <1>0, <1>1, <2>1 DEF PostUrbs
  <2>3. u \notin FreeUrbs("rx")
    BY <1>0, <1>1, <2>2, OnlyThere
  <2>4. /\ FreeUrbs("rx")' = FreeUrbs("rx") \cup {u}
        /\ \A o \in Pipes : o # "rx" => FreeUrbs(o)' = FreeUrbs(o)
        /\ \A o \in Pipes : Distinct(urb_list_head'[o])
    BY <1>0, <2>1, <2>3, FreeGive
  <2>5. \A o \in Pipes :
              /\ Elements(urb_pending_list'[o])
                   = Elements(urb_pending_list[o]) \ {u}
              /\ Distinct(urb_pending_list'[o])
    BY <1>0, <2>1, PendingRemove
  <2>6. /\ CompUrbs' = CompUrbs /\ PostUrbs(c)' = {}
        /\ post'[c].pc = "off"
        /\ \A w \in Contexts : w # c => post'[w] = post[w]
        /\ control' # "removed" => control # "removed"
    BY <2>1, EndPostPlaces
  <2>7. \A w \in Contexts : w # c => PostUrbs(w)' = PostUrbs(w)
    BY <2>6 DEF PostUrbs
  <2>8. /\ GivebackUrbs' = GivebackUrbs
        /\ \A p \in Pipes : CoreUrbs(p)' = CoreUrbs(p)
    BY <2>1 DEF GivebackUrbs, CoreUrbs
  <2>9. Untouched(y, x)
    BY <1>2, <2>1, <2>4, <2>6, <2>7, <2>8 DEF Untouched
  <2>10. NoDuplicates'
    BY <2>1, <2>4, <2>5 DEF NoDuplicates, PlaceInv
  <2>11. PendingInFlight'
    <3>1. ASSUME NEW v, InFlight(v), v # u PROVE InFlight(v)'
      <4>1. \A w \in Contexts : post[w].pc = "submit" /\ post[w].urb = v =>
               post'[w] = post[w]
        BY <2>6, <3>1
      <4> QED
        BY <2>1, <2>8, <3>1, <4>1 DEF InFlight
    <3> QED
      BY <2>5, <3>1 DEF PendingInFlight, PlaceInv
  <2> DEFINE S == {u}
  <2>12. S \subseteq Held[y] /\ Held'[y] = Held[y] \ S /\ Held'[x] = Held[x] \cup S
    BY <1>1, <2>2, <2>4, <2>6
  <2> HIDE DEF x, y, z, S
  <2> QED
    BY <1>1, <2>6, <2>9, <2>10, <2>11, <2>12, PlaceMoves
<1> QED
  BY <1>3, <1>4, <1>5, <1>6, <1>7 DEF PostStep

LEMMA PlaceComp ==
    ASSUME TypeOK, PlaceInv, CompStep
    PROVE  PlaceInv'
<1>0. /\ "rx" \in Pipes /\ "tx" \in Pipes
      /\ UrbsOn("rx") = RxUrbs /\ UrbsOn("tx") = TxUrbs
      /\ RxUrbs \subseteq Urbs /\ TxUrbs \subseteq Urbs /\ None \notin Urbs
      /\ NoDuplicates
  BY HifUsbAssumption DEF HifUsbAssumption, Pipes, UrbsOn, Urbs, PlaceInv
<1> DEFINE z == <<"comp", None>>
           g == <<"giveback", None>>
<1>1. /\ z \in Tokens /\ g \in Tokens /\ z # g
      /\ Held[z] = CompUrbs /\ Held'[z] = CompUrbs'
      /\ Held[g] = GivebackUrbs /\ Held'[g] = GivebackUrbs'
      /\ \A p \in Pipes : /\ <<"free", p>> \in Tokens
                          /\ Held[<<"free", p>>] = FreeUrbs(p)
                          /\ Held'[<<"free", p>>] = FreeUrbs(p)'
  <2>1. z \in Tokens /\ g \in Tokens /\ z # g
    BY TokensAre
  <2> QED
    BY <2>1, TokensAre, HeldAt, HeldAtNext, Zenon
<1>2. ASSUME UNCHANGED <<urb_list_head, urb_pending_list, core, giveback, packet>>,
             CompUrbs' = CompUrbs,
             \A c \in Contexts : PostUrbs(c)' = PostUrbs(c),
             \A c \in Contexts : post[c].pc = "submit" => post'[c] = post[c],
             control' = control
      PROVE  PlaceInv'
  <2>1. \A p \in Packets : PacketUrbs(p)' = PacketUrbs(p)
    BY <1>2 DEF PacketUrbs
  <2>2. Untouched(Nowhere, Nowhere) /\ NoDuplicates'
    BY <1>2, <2>1, ListsStay DEF Untouched
  <2>3. \A u : InFlight(u) => InFlight(u)'
    BY <1>2, ListsStay DEF InFlight
  <2>4. PendingInFlight'
    BY <1>2, <2>3 DEF PendingInFlight, PlaceInv
  <2> QED
    BY <1>2, <2>2, <2>4, PlaceStays
<1>3. UNCHANGED post => \A c \in Contexts : PostUrbs(c)' = PostUrbs(c)
  BY DEF PostUrbs
<1>4. CASE CompBegin
  <2> DEFINE t == Head(giveback)
             u == t.urb
  <2>1. /\ giveback # <<>> /\ giveback' = Tail(giveback) /\ comp.pc = "idle"
        /\ urb_pending_list' = usb_hif_remove_pending_transfer(u)
        /\ UNCHANGED <<urb_list_head, core, post, packet, control>>
    BY <1>4 DEF CompBegin
  <2>2. /\ u \in GivebackUrbs /\ u \in Urbs
        /\ GivebackUrbs' = GivebackUrbs \ {u}
        /\ Distinct(UrbsOf(giveback'))
    BY <1>0, <2>1, GivebackTake
  <2>3. \A o \in Pipes :
              /\ Elements(urb_pending_list'[o])
                   = Elements(urb_pending_list[o]) \ {u}
              /\ Distinct(urb_pending_list'[o])
    BY <1>0, <2>1, <2>2, PendingRemove
  <2>4. CompUrbs = {}
    BY <2>1 DEF CompUrbs
  <2>5. CompUrbs' = {u}
    <3>1. /\ comp'.urb = u /\ comp'.pc = IF t.msgs # <<>> THEN "queue" ELSE "cleanup"
          /\ comp'.kind = t.kind
      BY <1>4 DEF CompBegin
    <3>2. t.msgs # <<>> => t.kind # "transmit"
      <4>1. t \in FinishedTransfers
        BY <2>1, ElementsTail DEF TypeOK, ListTypes
      <4> QED
        BY <4>1 DEF FinishedTransfers, FinishedOn, KindsOn, RxKinds
    <3> QED
      BY <3>1, <3>2 DEF CompUrbs
  <2> HIDE DEF u
  <2>6. /\ \A p \in Pipes : FreeUrbs(p)' = FreeUrbs(p) /\ CoreUrbs(p)' = CoreUrbs(p)
        /\ \A p \in Packets : PacketUrbs(p)' = PacketUrbs(p)
    BY <2>1 DEF FreeUrbs, CoreUrbs, PacketUrbs
  <2>7. Untouched(g, z)
    BY <1>3, <2>1, <2>6 DEF Untouched
  <2>8. NoDuplicates'
    BY <2>1, <2>2, <2>3 DEF NoDuplicates, PlaceInv
  <2>9. PendingInFlight'
    <3>1. \A v : InFlight(v) /\ v # u => InFlight(v)'
      BY <2>1, <2>2, <2>6 DEF InFlight
    <3> QED
      BY <2>3, <3>1 DEF PendingInFlight, PlaceInv
  <2>10. control' # "removed" => control # "removed"
    BY <2>1
  <2> DEFINE S == {u}
  <2>11. S \subseteq Held[g] /\ Held'[g] = Held[g] \ S /\ Held'[z] = Held[z] \cup S
    BY <1>1, <2>2, <2>4, <2>5
  <2> HIDE DEF z, g, S
  <2> QED
    BY <1>1, <2>7, <2>8, <2>9, <2>10, <2>11, PlaceMoves
<1>5. CASE CompQueue
  <2>1. comp' = [comp EXCEPT !.pc = "schedule"] /\ comp.pc = "queue"
    BY <1>5 DEF CompQueue
  <2>2. CompUrbs' = CompUrbs
    BY <2>1 DEF CompUrbs, TypeOK, CompType
  <2> QED
    BY <1>2, <1>3, <1>5, <2>2 DEF CompQueue, listVars, usbVars
<1>6. CASE CompSchedule
  <2>1. /\ comp' = IF comp.kind = "transmit" THEN CompIdle
                   ELSE [comp EXCEPT !.pc = "cleanup"]
        /\ comp.pc = "schedule"
    BY <1>6 DEF CompSchedule
  <2>2. CompUrbs' = CompUrbs
    BY <2>1 DEF CompUrbs, TypeOK, CompType, CompIdle
  <2> QED
    BY <1>2, <1>3, <1>6, <2>2 DEF CompSchedule, listVars, usbVars
<1>7. ASSUME NEW p \in Pipes, comp.urb \in UrbsOn(p), comp.pc = "cleanup",
             urb_list_head' = FreeTo(urb_list_head, comp.urb),
             comp'.pc \in {"queue", "prestart", "repost"},
             comp'.pc = "queue" => comp'.kind = "transmit",
             UNCHANGED <<urb_pending_list, core, giveback, post, control>>,
             \A q \in Packets : PacketUrbs(q)' = PacketUrbs(q),
             \A q \in Packets : packet[q].pc = "submit" =>
                packet'[q].pc = "submit" /\ packet'[q].urb = packet[q].urb
      PROVE  PlaceInv'
  <2> DEFINE u == comp.urb
             x == <<"free", p>>
  <2>1. CompUrbs = {u} /\ CompUrbs' = {}
    BY <1>7 DEF CompUrbs
  <2>2. u \notin FreeUrbs(p)
    <3>1. u \in Held[z]
      BY <1>1, <2>1
    <3>2. u \in FreeUrbs(p) => z = x
      BY <1>1, <3>1, OnlyThere
    <3> QED
      BY <3>2
  <2>3. /\ FreeUrbs(p)' = FreeUrbs(p) \cup {u}
        /\ \A o \in Pipes : o # p => FreeUrbs(o)' = FreeUrbs(o)
        /\ \A o \in Pipes : Distinct(urb_list_head'[o])
    BY <1>0, <1>7, <2>2, FreeGive
  <2> HIDE DEF u
  <2>4. /\ GivebackUrbs' = GivebackUrbs
        /\ \A o \in Pipes : CoreUrbs(o)' = CoreUrbs(o)
    BY <1>7 DEF GivebackUrbs, CoreUrbs
  <2>5. Untouched(z, x)
    BY <1>3, <1>7, <2>3, <2>4 DEF Untouched
  <2>6. NoDuplicates'
    BY <1>7, <2>3 DEF NoDuplicates, PlaceInv
  <2>7. PendingInFlight'
    <3>1. \A v : InFlight(v) => InFlight(v)'
      BY <1>7, <2>4 DEF InFlight
    <3> QED
      BY <1>7, <3>1 DEF PendingInFlight, PlaceInv
  <2>8. control' # "removed" => control # "removed"
    BY <1>7
  <2> DEFINE S == {u}
  <2>9. /\ S \subseteq Held[z] /\ Held'[z] = Held[z] \ S
        /\ Held'[x] = Held[x] \cup S /\ x \in Tokens /\ z # x
    BY <1>1, <2>1, <2>3
  <2> HIDE DEF z, x, S
  <2> QED
    BY <1>1, <2>5, <2>6, <2>7, <2>8, <2>9, PlaceMoves
<1>8. CASE CompCleanupRecv
  <2>1. /\ comp.urb \in UrbsOn("rx") /\ comp.pc = "cleanup"
        /\ urb_list_head' = FreeTo(urb_list_head, comp.urb)
        /\ UNCHANGED <<urb_pending_list, core, giveback, post, control, packet>>
    BY <1>0, <1>8 DEF CompCleanupRecv, usbVars, TypeOK, CompType
  <2>2. comp'.pc \in {"prestart", "repost"}
    BY <1>8 DEF CompCleanupRecv, TypeOK, CompType
  <2>3. \A q \in Packets : PacketUrbs(q)' = PacketUrbs(q)
    BY <2>1 DEF PacketUrbs
  <2> QED
    BY <1>0, <1>7, <2>1, <2>2, <2>3
<1>9. CASE CompCleanupTransmit
  <2> DEFINE b == buf[comp.urb]
  <2>1. /\ comp.urb \in UrbsOn("tx") /\ comp.pc = "cleanup" /\ comp.kind = "transmit"
        /\ urb_list_head' = FreeTo(urb_list_head, comp.urb)
        /\ comp' = [comp EXCEPT !.pc = "queue", !.msgs = <<b>>]
        /\ packet' = [packet EXCEPT ![b] = WithoutContext(@)]
        /\ UNCHANGED <<urb_pending_list, core, giveback, post, control>>
    BY <1>0, <1>9 DEF CompCleanupTransmit, usbVars, TypeOK, CompType
  <2>2. comp'.pc = "queue" /\ comp'.kind = "transmit"
    BY <2>1 DEF TypeOK, CompType
  <2> HIDE DEF b
  <2>3. ASSUME NEW q \in Packets
        PROVE  packet'[q].pc = packet[q].pc /\ packet'[q].urb = packet[q].urb
    <3>1. CASE q = b
      BY <2>1, <3>1, ContextRemoved DEF TypeOK, PacketType
    <3>2. CASE q # b
      BY <2>1, <3>2 DEF TypeOK, PacketType
    <3> QED
      BY <3>1, <3>2
  <2>4. \A q \in Packets : PacketUrbs(q)' = PacketUrbs(q)
    BY <2>3 DEF PacketUrbs
  <2> QED
    BY <1>0, <1>7, <2>1, <2>2, <2>3, <2>4
<1>10. CASE CompPrestart \/ CompRepost
  <2>1. comp'.pc \in {"idle", "posting"} /\ comp.pc \in {"prestart", "repost"}
    BY <1>10 DEF CompPrestart, CompRepost, TypeOK, CompType, CompIdle
  <2>2. CompUrbs = {} /\ CompUrbs' = {}
    BY <2>1 DEF CompUrbs
  <2>3. /\ UNCHANGED <<urb_list_head, urb_pending_list, core, giveback, packet,
                       control>>
        /\ \A c \in Contexts : c # "comp" => post'[c] = post[c]
        /\ post'["comp"] = post["comp"] \/ post'["comp"].urb = None
    BY <1>10 DEF CompPrestart, CompRepost, TypeOK, PostType, listVars, usbVars,
                 usb_hif_start_recv_pipes, Post
  <2>4. post["comp"].pc = "off" /\ post["comp"].urb = None
    BY <2>1 DEF TypeOK, PostType, Contexts
  <2>5. \A c \in Contexts : PostUrbs(c)' = PostUrbs(c)
    BY <2>3, <2>4 DEF PostUrbs
  <2>6. \A c \in Contexts : post[c].pc = "submit" => post'[c] = post[c]
    BY <2>3, <2>4
  <2> QED
    BY <1>2, <2>2, <2>3, <2>5, <2>6
<1> QED
  BY <1>4, <1>5, <1>6, <1>8, <1>9, <1>10 DEF CompStep

(* A step of a worker or of the control thread that moves no URB.          *)
LEMMA PlaceKept ==
    ASSUME TypeOK, PlaceInv,
           UNCHANGED <<urb_list_head, urb_pending_list, core, giveback, comp>>,
           \A c \in Contexts : PostUrbs(c)' = PostUrbs(c),
           \A c \in Contexts : post[c].pc = "submit" => post'[c] = post[c],
           \A p \in Packets : PacketUrbs(p)' = PacketUrbs(p),
           \A p \in Packets : packet[p].pc = "submit" =>
              packet'[p].pc = "submit" /\ packet'[p].urb = packet[p].urb,
           control' # "removed" => control # "removed"
    PROVE  PlaceInv'
<1>1. CompUrbs' = CompUrbs
  BY DEF CompUrbs
<1>2. Untouched(Nowhere, Nowhere) /\ NoDuplicates'
  BY <1>1, ListsStay DEF Untouched
<1>3. \A u : InFlight(u) => InFlight(u)'
  BY ListsStay DEF InFlight
<1>4. PendingInFlight'
  BY <1>3 DEF PendingInFlight, PlaceInv
<1> QED
  BY <1>2, <1>4, PlaceStays

LEMMA PlaceSend ==
    ASSUME TypeOK, PlaceInv, NEW p \in Packets, SendStep(p)
    PROVE  PlaceInv'
<1>0. /\ "tx" \in Pipes /\ UrbsOn("tx") = TxUrbs /\ None \notin TxUrbs
      /\ TxUrbs \subseteq Urbs /\ NoDuplicates
  BY HifUsbAssumption DEF HifUsbAssumption, Pipes, UrbsOn, Urbs, PlaceInv
<1> DEFINE x == <<"free", "tx">>
           y == <<"packet", p>>
           z == <<"core", "tx">>
<1>1. /\ x \in Tokens /\ y \in Tokens /\ z \in Tokens
      /\ x # y /\ y # x /\ y # z
      /\ Held[x] = FreeUrbs("tx") /\ Held'[x] = FreeUrbs("tx")'
      /\ Held[y] = PacketUrbs(p) /\ Held'[y] = PacketUrbs(p)'
      /\ Held[z] = CoreUrbs("tx") /\ Held'[z] = CoreUrbs("tx")'
  BY <1>0, TokensAre, HeldAt, HeldAtNext
<1>2. UNCHANGED post => \A c \in Contexts : PostUrbs(c)' = PostUrbs(c)
  BY DEF PostUrbs
<1>3. CASE SendNoUrb(p)
  <2> DEFINE r == [WithContext(packet[p]) EXCEPT !.refused = packet[p].refused + 1]
  <2>1. /\ packet' = [packet EXCEPT ![p] = r]
        /\ UNCHANGED <<urb_list_head, urb_pending_list, core, giveback, comp, post,
                       control>>
    BY <1>3 DEF SendNoUrb, listVars, usbVars
  <2>2. r.pc = packet[p].pc /\ r.urb = packet[p].urb
    <3>1. packet[p] \in PacketRecords
      BY DEF TypeOK, PacketType
    <3> DEFINE w == WithContext(packet[p])
    <3>2. w \in PacketRecords /\ w.pc = packet[p].pc /\ w.urb = packet[p].urb
      BY <3>1, ContextAdded
    <3> HIDE DEF w
    <3> QED
      BY <3>2 DEF PacketRecords, w
  <2> HIDE DEF r
  <2>3. \A q \in Packets : packet'[q].pc = packet[q].pc /\ packet'[q].urb = packet[q].urb
    BY <2>1, <2>2 DEF TypeOK, PacketType
  <2>4. \A q \in Packets : PacketUrbs(q)' = PacketUrbs(q)
    BY <2>3 DEF PacketUrbs
  <2> QED
    BY <1>2, <2>1, <2>3, <2>4, PlaceKept
<1>4. CASE SendAlloc(p)
  <2> DEFINE u == Head(urb_list_head["tx"])
             w == WithContext(packet[p])
  <2>1. /\ urb_list_head["tx"] # <<>> /\ packet[p].pc = "htc"
        /\ urb_list_head' = [urb_list_head EXCEPT !["tx"] = Tail(@)]
        /\ packet' = [packet EXCEPT ![p] = [w EXCEPT !.pc = "enqueue", !.urb = u]]
        /\ UNCHANGED <<urb_pending_list, core, giveback, comp, control, post>>
    BY <1>4 DEF SendAlloc, usbVars
  <2>2. /\ u \in FreeUrbs("tx") /\ u \in TxUrbs
        /\ FreeUrbs("tx")' = FreeUrbs("tx") \ {u}
        /\ \A o \in Pipes : o # "tx" => FreeUrbs(o)' = FreeUrbs(o)
        /\ \A o \in Pipes : Distinct(urb_list_head'[o])
    BY <1>0, <2>1, FreeTake
  <2> HIDE DEF u
  <2>3. w \in PacketRecords /\ packet[p].urb = None
    BY <2>1, ContextAdded DEF TypeOK, PacketType
  <2> HIDE DEF w
  <2>4. /\ packet'[p].urb = u /\ packet'[p].pc = "enqueue"
        /\ \A q \in Packets : q # p => packet'[q] = packet[q]
    BY <2>1, <2>3 DEF TypeOK, PacketType, PacketRecords
  <2>5. /\ PacketUrbs(p) = {} /\ PacketUrbs(p)' = {u}
        /\ \A q \in Packets : q # p => PacketUrbs(q)' = PacketUrbs(q)
    BY <1>0, <2>2, <2>3, <2>4 DEF PacketUrbs
  <2>6. NoDuplicates'
    BY <2>1, <2>2 DEF NoDuplicates, PlaceInv
  <2>7. /\ CompUrbs' = CompUrbs /\ GivebackUrbs' = GivebackUrbs
        /\ \A o \in Pipes : CoreUrbs(o)' = CoreUrbs(o)
    BY <2>1 DEF CompUrbs, GivebackUrbs, CoreUrbs
  <2>8. Untouched(x, y)
    BY <1>2, <2>1, <2>2, <2>5, <2>7 DEF Untouched
  <2>9. PendingInFlight'
    <3>1. \A v : InFlight(v) => InFlight(v)'
      BY <2>1, <2>4, <2>7 DEF InFlight
    <3> QED
      BY <2>1, <3>1 DEF PendingInFlight, PlaceInv
  <2>10. control' # "removed" => control # "removed"
    BY <2>1
  <2> DEFINE S == {u}
  <2>11. S \subseteq Held[x] /\ Held'[x] = Held[x] \ S /\ Held'[y] = Held[y] \cup S
    BY <1>1, <2>2, <2>5
  <2> HIDE DEF x, y, S
  <2> QED
    BY <1>1, <2>6, <2>8, <2>9, <2>10, <2>11, PlaceMoves
<1>5. CASE SendEnqueue(p)
  <2> DEFINE u == packet[p].urb
  <2>1. /\ urb_pending_list' = [urb_pending_list EXCEPT !["tx"] = Append(@, u)]
        /\ packet' = [packet EXCEPT ![p].pc = "submit"] /\ packet[p].pc = "enqueue"
        /\ UNCHANGED <<urb_list_head, core, giveback, comp, control, post>>
        /\ u \in TxUrbs
    BY <1>5 DEF SendEnqueue, usbVars, TypeOK, PacketType
  <2>2. u \in Held[y]
    BY <1>0, <1>1, <2>1 DEF PacketUrbs
  <2>3. ~InFlight(u)
    <3>1. ASSUME NEW w \in Packets, packet[w].pc = "submit", packet[w].urb = u
          PROVE  FALSE
      <4>1. u \in PacketUrbs(w)
        BY <1>0, <2>1, <3>1 DEF PacketUrbs
      <4>2. y = <<"packet", w>>
        BY <1>1, <2>2, <4>1, OnlyThere
      <4> QED
        BY <2>1, <3>1, <4>2
    <3>2. ASSUME NEW c \in Contexts, post[c].pc = "submit", post[c].urb = u
          PROVE  FALSE
      <4>1. u \in PostUrbs(c)
        BY <1>0, <2>1, <3>2 DEF PostUrbs
      <4>2. y = <<"post", c>>
        BY <1>1, <2>2, <4>1, OnlyThere
      <4> QED
        BY <4>2
    <3>3. ASSUME NEW o \in Pipes, u \in CoreUrbs(o) PROVE FALSE
      <4>1. y = <<"core", o>>
        BY <1>1, <2>2, <3>3, OnlyThere
      <4> QED
        BY <4>1
    <3>4. u \notin GivebackUrbs
      BY <1>1, <2>2, OnlyThere
    <3> QED
      BY <3>1, <3>2, <3>3, <3>4 DEF InFlight
  <2>4. u \notin Elements(urb_pending_list["tx"])
    BY <1>0, <2>3 DEF PlaceInv, PendingInFlight
  <2>5. /\ Elements(urb_pending_list'["tx"])
             = Elements(urb_pending_list["tx"]) \cup {u}
        /\ \A o \in Pipes : o # "tx" => urb_pending_list'[o] = urb_pending_list[o]
        /\ \A o \in Pipes : Distinct(urb_pending_list'[o])
    BY <1>0, <2>1, <2>4, PendingAdd
  <2> HIDE DEF u
  <2>6. /\ packet'[p].urb = u /\ packet'[p].pc = "submit"
        /\ \A q \in Packets : q # p => packet'[q] = packet[q]
        /\ packet[p].urb = u
    BY <2>1 DEF TypeOK, PacketType, PacketRecords, u
  <2>7. \A q \in Packets : PacketUrbs(q)' = PacketUrbs(q)
    BY <2>1, <2>6 DEF PacketUrbs
  <2>8. /\ CompUrbs' = CompUrbs /\ GivebackUrbs' = GivebackUrbs
        /\ \A o \in Pipes : CoreUrbs(o)' = CoreUrbs(o) /\ FreeUrbs(o)' = FreeUrbs(o)
    BY <2>1 DEF CompUrbs, GivebackUrbs, CoreUrbs, FreeUrbs
  <2>9. Untouched(Nowhere, Nowhere)
    BY <1>2, <2>1, <2>7, <2>8 DEF Untouched
  <2>10. NoDuplicates'
    BY <2>1, <2>5 DEF NoDuplicates, PlaceInv
  <2>11. PendingInFlight'
    <3>1. \A v : InFlight(v) => InFlight(v)'
      BY <2>1, <2>6, <2>8 DEF InFlight
    <3>2. \A v : v = u => InFlight(v)'
      BY <2>6 DEF InFlight
    <3> QED
      BY <2>5, <3>1, <3>2 DEF PendingInFlight, PlaceInv
  <2>12. control' # "removed" => control # "removed"
    BY <2>1
  <2> QED
    BY <2>9, <2>10, <2>11, <2>12, PlaceStays
<1>6. CASE SendSubmit(p)
  <2> DEFINE u == packet[p].urb
             t == Transfer(u, "transmit")
  <2>1. /\ core' = [core EXCEPT !["tx"] = Append(@, t)]
        /\ packet' = [packet EXCEPT ![p].pc = "hif"]
        /\ packet[p].pc = "submit" /\ u \in TxUrbs
        /\ UNCHANGED <<urb_list_head, urb_pending_list, giveback, comp, control,
                       post>>
    BY <1>6 DEF SendSubmit, listVars, TypeOK, PacketType
  <2>2. t \in TransfersOn("tx") /\ t.urb = u
    BY <1>0, <2>1 DEF TransfersOn, KindsOn, Transfer
  <2>3. u \in Held[y] /\ Held[y] = {u}
    BY <1>0, <1>1, <2>1 DEF PacketUrbs
  <2>4. u \notin CoreUrbs("tx")
    BY <1>0, <1>1, <2>3, OnlyThere
  <2> HIDE DEF t
  <2>5. /\ CoreUrbs("tx")' = CoreUrbs("tx") \cup {u}
        /\ \A o \in Pipes : o # "tx" => CoreUrbs(o)' = CoreUrbs(o)
        /\ \A o \in Pipes : Distinct(UrbsOf(core'[o]))
    BY <1>0, <2>1, <2>2, <2>4, CoreAdd
  <2>6. /\ packet'[p].pc = "hif"
        /\ \A q \in Packets : q # p => packet'[q] = packet[q]
    BY <2>1 DEF TypeOK, PacketType, PacketRecords
  <2>7. /\ PacketUrbs(p)' = {}
        /\ \A q \in Packets : q # p => PacketUrbs(q)' = PacketUrbs(q)
    BY <2>6 DEF PacketUrbs
  <2> HIDE DEF u
  <2>8. /\ CompUrbs' = CompUrbs /\ GivebackUrbs' = GivebackUrbs
        /\ \A o \in Pipes : FreeUrbs(o)' = FreeUrbs(o)
    BY <2>1 DEF CompUrbs, GivebackUrbs, FreeUrbs
  <2>9. Untouched(y, z)
    BY <1>2, <2>1, <2>5, <2>7, <2>8 DEF Untouched
  <2>10. NoDuplicates'
    BY <2>1, <2>5 DEF NoDuplicates, PlaceInv
  <2>11. PendingInFlight'
    <3>1. ASSUME NEW v, InFlight(v) PROVE InFlight(v)'
      <4>1. CASE v = u
        BY <1>0, <2>5, <4>1 DEF InFlight
      <4>2. CASE v # u
        <5>1. \A w \in Packets : packet[w].pc = "submit" /\ packet[w].urb = v =>
                 packet'[w] = packet[w]
          BY <2>6, <4>2 DEF u
        <5>2. \A o \in Pipes : v \in CoreUrbs(o) => v \in CoreUrbs(o)'
          BY <2>5
        <5> QED
          BY <2>1, <2>8, <3>1, <5>1, <5>2 DEF InFlight
      <4> QED
        BY <4>1, <4>2
    <3> QED
      BY <2>1, <3>1 DEF PendingInFlight, PlaceInv
  <2>12. control' # "removed" => control # "removed"
    BY <2>1
  <2> DEFINE S == {u}
  <2>13. S \subseteq Held[y] /\ Held'[y] = Held[y] \ S /\ Held'[z] = Held[z] \cup S
    BY <1>1, <2>3, <2>5, <2>7
  <2> HIDE DEF x, y, z, S
  <2> QED
    BY <1>1, <2>9, <2>10, <2>11, <2>12, <2>13, PlaceMoves
<1>7. CASE SendSubmitFails(p)
  <2> DEFINE u == packet[p].urb
             v == WithoutContext(packet[p])
  <2>1. /\ urb_pending_list' = usb_hif_remove_pending_transfer(u)
        /\ urb_list_head' = FreeTo(urb_list_head, u)
        /\ packet[p].pc = "submit" /\ u \in TxUrbs
        /\ packet' = [packet EXCEPT ![p] = [v EXCEPT !.pc = "htc", !.urb = None]]
        /\ UNCHANGED <<core, giveback, post, comp, control>>
    BY <1>7 DEF SendSubmitFails, UndoContext, usbVars, TypeOK, PacketType
  <2>2. Held[y] = {u}
    BY <1>0, <1>1, <2>1 DEF PacketUrbs
  <2>3. u \notin FreeUrbs("tx")
    BY <1>0, <1>1, <2>2, OnlyThere
  <2>4. /\ FreeUrbs("tx")' = FreeUrbs("tx") \cup {u}
        /\ \A o \in Pipes : o # "tx" => FreeUrbs(o)' = FreeUrbs(o)
        /\ \A o \in Pipes : Distinct(urb_list_head'[o])
    BY <1>0, <2>1, <2>3, FreeGive
  <2>5. \A o \in Pipes :
              /\ Elements(urb_pending_list'[o])
                   = Elements(urb_pending_list[o]) \ {u}
              /\ Distinct(urb_pending_list'[o])
    BY <1>0, <2>1, PendingRemove
  <2>6. v \in PacketRecords
    BY ContextRemoved DEF TypeOK, PacketType
  <2> HIDE DEF v
  <2>7. /\ packet'[p].pc = "htc" /\ packet'[p].urb = None
        /\ \A q \in Packets : q # p => packet'[q] = packet[q]
    BY <2>1, <2>6 DEF TypeOK, PacketType, PacketRecords
  <2>8. /\ PacketUrbs(p)' = {}
        /\ \A q \in Packets : q # p => PacketUrbs(q)' = PacketUrbs(q)
    BY <2>7 DEF PacketUrbs
  <2>9. /\ GivebackUrbs' = GivebackUrbs /\ CompUrbs' = CompUrbs
        /\ \A o \in Pipes : CoreUrbs(o)' = CoreUrbs(o)
    BY <2>1 DEF GivebackUrbs, CoreUrbs, CompUrbs
  <2>10. Untouched(y, x)
    BY <1>2, <2>1, <2>4, <2>8, <2>9 DEF Untouched
  <2>11. NoDuplicates'
    BY <2>1, <2>4, <2>5 DEF NoDuplicates, PlaceInv
  <2>12. PendingInFlight'
    <3>1. ASSUME NEW w, InFlight(w), w # u PROVE InFlight(w)'
      <4>1. \A q \in Packets : packet[q].pc = "submit" /\ packet[q].urb = w =>
               packet'[q] = packet[q]
        BY <2>7, <3>1
      <4> QED
        BY <2>1, <2>9, <3>1, <4>1 DEF InFlight
    <3> QED
      BY <2>5, <3>1 DEF PendingInFlight, PlaceInv
  <2>13. control' # "removed" => control # "removed"
    BY <2>1
  <2> DEFINE S == {u}
  <2>14. S \subseteq Held[y] /\ Held'[y] = Held[y] \ S /\ Held'[x] = Held[x] \cup S
    BY <1>1, <2>2, <2>4, <2>8
  <2> HIDE DEF x, y, z, S
  <2> QED
    BY <1>1, <2>10, <2>11, <2>12, <2>13, <2>14, PlaceMoves
<1> QED
  BY <1>3, <1>4, <1>5, <1>6, <1>7 DEF SendStep

(* A transfer leaves the queue of the USB core and is finished.            *)
LEMMA PlaceReturned ==
    ASSUME TypeOK, PlaceInv, NEW p \in Pipes, NEW u, u \in CoreUrbs(p),
           NEW q, core' = [core EXCEPT ![p] = q],
           Elements(UrbsOf(q)) = CoreUrbs(p) \ {u}, Distinct(UrbsOf(q)),
           NEW t \in FinishedTransfers, t.urb = u,
           giveback' = Append(giveback, t),
           UNCHANGED <<urb_list_head, urb_pending_list, comp, post, packet, control>>
    PROVE  PlaceInv'
<1> DEFINE z == <<"core", p>>
           g == <<"giveback", None>>
<1>1. /\ z \in Tokens /\ g \in Tokens /\ z # g
      /\ Held[z] = CoreUrbs(p) /\ Held'[z] = CoreUrbs(p)'
      /\ Held[g] = GivebackUrbs /\ Held'[g] = GivebackUrbs'
  <2>1. z \in Tokens /\ g \in Tokens /\ z # g
    BY TokensAre
  <2> QED
    BY <2>1, TokensAre, HeldAt, HeldAtNext, Zenon
<1>2. u \notin GivebackUrbs
  <2>1. u \in Held[z]
    BY <1>1
  <2>2. u \in GivebackUrbs => z = g
    BY <1>1, <2>1, OnlyThere
  <2> QED
    BY <2>2
<1>3. GivebackUrbs' = GivebackUrbs \cup {u} /\ Distinct(UrbsOf(giveback'))
  BY <1>2, GivebackAdd DEF PlaceInv
<1>4. /\ core'[p] = q
      /\ \A o \in Pipes : o # p => core'[o] = core[o]
  BY DEF TypeOK, ListTypes
<1>5. /\ CoreUrbs(p)' = CoreUrbs(p) \ {u}
      /\ \A o \in Pipes : o # p => CoreUrbs(o)' = CoreUrbs(o)
      /\ \A o \in Pipes : Distinct(UrbsOf(core'[o]))
  BY <1>4 DEF CoreUrbs, PlaceInv, NoDuplicates
<1>6. NoDuplicates'
  BY <1>3, <1>5 DEF NoDuplicates, PlaceInv
<1>7. /\ \A o \in Pipes : FreeUrbs(o)' = FreeUrbs(o)
      /\ \A c \in Contexts : PostUrbs(c)' = PostUrbs(c)
      /\ \A o \in Packets : PacketUrbs(o)' = PacketUrbs(o)
      /\ CompUrbs' = CompUrbs
  BY DEF FreeUrbs, PostUrbs, PacketUrbs, CompUrbs
<1>8. Untouched(z, g)
  BY <1>5, <1>7 DEF Untouched
<1>9. PendingInFlight'
  <2>1. ASSUME NEW v, InFlight(v) PROVE InFlight(v)'
    <3>1. CASE v = u
      BY <1>3, <3>1 DEF InFlight
    <3>2. CASE v # u
      <4>1. \A o \in Pipes : v \in CoreUrbs(o) => v \in CoreUrbs(o)'
        BY <1>5, <3>2
      <4> QED
        BY <1>3, <2>1, <4>1 DEF InFlight
    <3> QED
      BY <3>1, <3>2
  <2> QED
    BY <2>1 DEF PendingInFlight, PlaceInv
<1> DEFINE S == {u}
<1>10. S \subseteq Held[z] /\ Held'[z] = Held[z] \ S /\ Held'[g] = Held[g] \cup S
  BY <1>1, <1>3, <1>5
<1> HIDE DEF z, g, S
<1> QED
  BY <1>1, <1>6, <1>8, <1>9, <1>10, PlaceMoves

(* The first transfer of a queue of the USB core finishes.                 *)
LEMMA PlaceFinish ==
    ASSUME TypeOK, PlaceInv, NEW p \in Pipes, NEW status \in Statuses,
           NEW msgs \in IF p = "rx" THEN Seq(Nat) ELSE {<<>>},
           Finish(p, status, msgs)
    PROVE  PlaceInv'
<1> DEFINE b == UrbsOf(core[p])
           h == Head(core[p])
           t == Finished(h, status, msgs)
<1>1. /\ core[p] # <<>> /\ core[p] \in Seq(TransfersOn(p))
      /\ core' = [core EXCEPT ![p] = Tail(core[p])]
      /\ giveback' = Append(giveback, t)
      /\ UNCHANGED <<urb_list_head, urb_pending_list, comp, post, packet, control>>
  BY DEF Finish, listVars, TypeOK, ListTypes
<1>2. /\ b # <<>> /\ Head(b) = h.urb /\ UrbsOf(Tail(core[p])) = Tail(b)
      /\ b \in Seq(Urbs) /\ Distinct(b)
  BY <1>1, UrbsTail, UrbsAre, TransfersHaveUrbs DEF PlaceInv, NoDuplicates
<1>3. h \in TransfersOn(p)
  BY <1>1, ElementsTail
<1>4. t \in FinishedTransfers /\ t.urb = h.urb
  BY <1>3 DEF Finished, FinishedTransfers, FinishedOn, TransfersOn, Pipes
<1> HIDE DEF b, h, t
<1>5. /\ Head(b) \in Elements(b) /\ Elements(Tail(b)) = Elements(b) \ {Head(b)}
      /\ Distinct(Tail(b))
  BY <1>2, ElementsTail
<1>6. /\ h.urb \in CoreUrbs(p)
      /\ Elements(UrbsOf(Tail(core[p]))) = CoreUrbs(p) \ {h.urb}
      /\ Distinct(UrbsOf(Tail(core[p])))
  BY <1>2, <1>5 DEF CoreUrbs, b
<1> QED
  BY <1>1, <1>4, <1>6, PlaceReturned

(* What the target and the USB core do by themselves.                      *)
LEMMA PlaceTarget ==
    ASSUME TypeOK, PlaceInv, TargetSends \/ TransferFails \/ TransmitDone
    PROVE  PlaceInv'
<1>1. "rx" \in Pipes /\ "tx" \in Pipes /\ "ok" \in Statuses /\ "error" \in Statuses
  BY DEF Pipes, Statuses
<1>2. ASSUME NEW msgs, msgs \in Seq(Nat), NEW s \in Statuses, Finish("rx", s, msgs)
      PROVE  PlaceInv'
  BY <1>1, <1>2, PlaceFinish
<1>3. CASE TargetSends
  <2>1. 2 * sent + 1 \in Nat /\ 2 * sent + 2 \in Nat
    BY DEF TypeOK, ValueTypes
  <2> DEFINE m == 2 * sent + 1
             n == 2 * sent + 2
  <2>2. m \in Nat /\ n \in Nat
    BY <2>1
  <2> HIDE DEF m, n
  <2>3. <<>> \in Seq(Nat) /\ <<m>> \in Seq(Nat) /\ <<m, n>> \in Seq(Nat)
    BY <2>2
  <2>4. \E msgs \in {<<>>, <<m>>, <<m, n>>} : Finish("rx", "ok", msgs)
    BY <1>3 DEF TargetSends, m, n
  <2> QED
    BY <1>1, <1>2, <2>3, <2>4
<1>4. CASE TransferFails
  BY <1>1, <1>2, <1>4, EmptySeq DEF TransferFails
<1>5. CASE TransmitDone
  BY <1>1, <1>5, PlaceFinish DEF TransmitDone
<1> QED
  BY <1>3, <1>4, <1>5

(* The flush takes URBs off the pending lists and unlinks transfers.       *)
LEMMA PlaceFlush ==
    ASSUME TypeOK, PlaceInv, FlushStep
    PROVE  PlaceInv'
<1> DEFINE p == flush.pipe
<1>0. UNCHANGED post => \A c \in Contexts : PostUrbs(c)' = PostUrbs(c)
  BY DEF PostUrbs
<1>1. UNCHANGED packet => \A o \in Packets : PacketUrbs(o)' = PacketUrbs(o)
  BY DEF PacketUrbs
<1>2. p \in Pipes
  BY DEF TypeOK, ControlType
<1>3. CASE FlushTake
  <2> DEFINE q == urb_pending_list[p]
  <2>1. /\ \/ urb_pending_list' = urb_pending_list
           \/ /\ q # <<>>
              /\ urb_pending_list' = [urb_pending_list EXCEPT ![p] = Tail(q)]
        /\ UNCHANGED <<urb_list_head, core, giveback, comp, post, packet, control>>
    BY <1>3 DEF FlushTake, usbVars
  <2>2. CASE urb_pending_list' = urb_pending_list
    BY <1>0, <1>1, <1>2, <2>1, <2>2, PlaceKept
  <2>3. CASE q # <<>> /\ urb_pending_list' = [urb_pending_list EXCEPT ![p] = Tail(q)]
    <3>1. q \in Seq(UrbsOn(p)) /\ Distinct(q)
      BY <1>2 DEF TypeOK, ListTypes, PlaceInv, NoDuplicates
    <3>2. /\ urb_pending_list'[p] = Tail(q)
          /\ \A o \in Pipes : o # p => urb_pending_list'[o] = urb_pending_list[o]
      BY <1>2, <2>3 DEF TypeOK, ListTypes
    <3> HIDE DEF q
    <3>3. Elements(Tail(q)) = Elements(q) \ {Head(q)} /\ Distinct(Tail(q))
      BY <2>3, <3>1, ElementsTail
    <3>4. \A o \in Pipes :
             /\ Elements(urb_pending_list'[o]) \subseteq Elements(urb_pending_list[o])
             /\ Distinct(urb_pending_list'[o])
      BY <3>2, <3>3 DEF PlaceInv, NoDuplicates, q
    <3>5. NoDuplicates'
      BY <2>1, <3>4 DEF PlaceInv, NoDuplicates
    <3>6. \A v : InFlight(v) => InFlight(v)'
      BY <2>1, ListsStay DEF InFlight
    <3>7. PendingInFlight'
      BY <3>4, <3>6 DEF PendingInFlight, PlaceInv
    <3>8. CompUrbs' = CompUrbs
      BY <2>1 DEF CompUrbs
    <3>9. Untouched(Nowhere, Nowhere)
      BY <1>0, <1>1, <1>2, <2>1, <3>8, ListsStay DEF Untouched
    <3> QED
      BY <2>1, <3>5, <3>7, <3>9, PlaceStays
  <2> QED
    BY <2>1, <2>2, <2>3
<1>4. CASE FlushKill
  <2> DEFINE ts == core[p]
             b == UrbsOf(ts)
  <2>1. /\ \/ UNCHANGED <<core, giveback>>
           \/ \E i \in 1..Len(ts) :
                 /\ core' = [core EXCEPT ![p] = RemoveAt(ts, i)]
                 /\ giveback' = Append(giveback, Finished(ts[i], "cancelled", <<>>))
        /\ UNCHANGED <<urb_list_head, urb_pending_list, comp, post, packet, control>>
    BY <1>4 DEF FlushKill, listVars
  <2>2. CASE UNCHANGED <<core, giveback>>
    BY <1>0, <1>1, <1>2, <2>1, <2>2, PlaceKept
  <2>3. ASSUME NEW i \in 1..Len(ts), core' = [core EXCEPT ![p] = RemoveAt(ts, i)],
               giveback' = Append(giveback, Finished(ts[i], "cancelled", <<>>))
        PROVE  PlaceInv'
    <3> DEFINE x == ts[i]
               t == Finished(x, "cancelled", <<>>)
    <3>1. ts \in Seq(TransfersOn(p)) /\ Distinct(b)
      BY <1>2 DEF TypeOK, ListTypes, PlaceInv, NoDuplicates
    <3>2. /\ b \in Seq(Urbs) /\ Len(b) = Len(ts) /\ b[i] = x.urb
          /\ x \in TransfersOn(p)
          /\ UrbsOf(RemoveAt(ts, i)) = RemoveAt(b, i)
      BY <1>2, <3>1, UrbsAre, UrbsRemoveAt, TransfersHaveUrbs
    <3>3. t \in FinishedTransfers /\ t.urb = x.urb
      <4>1. "cancelled" \in Statuses /\ <<>> \in Seq(Nat)
        BY EmptySeq DEF Statuses
      <4> HIDE DEF x
      <4> QED
        BY <1>2, <3>2, <4>1 DEF Finished, FinishedTransfers, FinishedOn, TransfersOn,
                                Pipes
    <3> HIDE DEF b, t, x
    <3>4. /\ Elements(RemoveAt(b, i)) = Elements(b) \ {b[i]}
          /\ Distinct(RemoveAt(b, i)) /\ b[i] \in Elements(b)
      BY <3>1, <3>2, ElementsRemoveAt
    <3>5. /\ x.urb \in CoreUrbs(p)
          /\ Elements(UrbsOf(RemoveAt(ts, i))) = CoreUrbs(p) \ {x.urb}
          /\ Distinct(UrbsOf(RemoveAt(ts, i)))
      BY <3>2, <3>4 DEF CoreUrbs, b
    <3>6. giveback' = Append(giveback, t)
      BY <2>3 DEF t, x
    <3> QED
      BY <1>2, <2>1, <2>3, <3>3, <3>5, <3>6, PlaceReturned
  <2> QED
    BY <2>1, <2>2, <2>3
<1>5. CASE FlushWait \/ FlushWork
  BY <1>0, <1>1, <1>2, <1>5, PlaceKept
     DEF FlushWait, FlushWork, listVars, usbVars
<1> QED
  BY <1>3, <1>4, <1>5 DEF FlushStep

(* What the USB core makes of its queues when it unlinks all transfers.    *)
LEMMA CancelAllUrbs ==
    ASSUME TypeOK, CancelAll
    PROVE  /\ UrbsOf(giveback') = (UrbsOf(giveback) \o UrbsOf(core["tx"]))
                                     \o UrbsOf(core["rx"])
           /\ GivebackUrbs' = (GivebackUrbs \cup CoreUrbs("tx")) \cup CoreUrbs("rx")
           /\ \A p \in Pipes : UrbsOf(core'[p]) = <<>>
           /\ CoreUrbs("tx")' = {} /\ CoreUrbs("rx")' = {}
<1> DEFINE a == UrbsOf(giveback)
           b == UrbsOf(core["tx"])
           d == UrbsOf(core["rx"])
           m == Cancelled(core["tx"])
           n == Cancelled(core["rx"])
<1>0. "tx" \in Pipes /\ "rx" \in Pipes
  BY DEF Pipes
<1>1. /\ m \in Seq(FinishedTransfers) /\ n \in Seq(FinishedTransfers)
      /\ giveback \in Seq(FinishedTransfers)
      /\ UrbsOf(m) = b /\ UrbsOf(n) = d
  BY <1>0, CancelledType, UrbsCancelled DEF TypeOK, ListTypes
<1>2. giveback' = (giveback \o m) \o n
  BY DEF CancelAll
<1> HIDE DEF m, n
<1>3. giveback \o m \in Seq(FinishedTransfers)
  BY <1>1, ElementsConcat
<1>4. UrbsOf(giveback \o m) = a \o b
  BY <1>1, UrbsConcat, TransfersHaveUrbs
<1>5. UrbsOf((giveback \o m) \o n) = UrbsOf(giveback \o m) \o d
  BY <1>1, <1>3, UrbsConcat, TransfersHaveUrbs
<1>6. UrbsOf(giveback') = (a \o b) \o d
  BY <1>2, <1>4, <1>5
<1>7. a \in Seq(Urbs) /\ b \in Seq(Urbs) /\ d \in Seq(Urbs)
  BY <1>0, UrbsAre, TransfersHaveUrbs DEF TypeOK, ListTypes
<1>8. GivebackUrbs' = (Elements(a) \cup Elements(b)) \cup Elements(d)
  <2> HIDE DEF a, b, d
  <2> DEFINE e == a \o b
  <2>1. e \in Seq(Urbs) /\ Elements(e) = Elements(a) \cup Elements(b)
    BY <1>7, ElementsConcat
  <2>2. UrbsOf(giveback') = e \o d
    BY <1>6
  <2> HIDE DEF e
  <2>3. Elements(e \o d) = Elements(e) \cup Elements(d)
    BY <1>7, <2>1, ElementsConcat
  <2> QED
    BY <2>1, <2>2, <2>3 DEF GivebackUrbs
<1>9. \A p \in Pipes : core'[p] = <<>>
  BY DEF CancelAll
<1>10. UrbsOf(<<>>) = <<>>
  BY DEF UrbsOf
<1>11. /\ \A p \in Pipes : UrbsOf(core'[p]) = <<>>
       /\ CoreUrbs("tx")' = {} /\ CoreUrbs("rx")' = {}
  BY <1>0, <1>9, <1>10, ElementsEmpty DEF CoreUrbs
<1> QED
  BY <1>6, <1>8, <1>11 DEF GivebackUrbs, CoreUrbs

(* The USB core unlinks all transfers at once.                             *)
LEMMA PlaceCancelAll ==
    ASSUME TypeOK, PlaceInv, CancelAll,
           UNCHANGED <<urb_list_head, urb_pending_list, comp, post, packet>>,
           control' # "removed" => control # "removed"
    PROVE  PlaceInv'
<1> DEFINE a == UrbsOf(giveback)
           b == UrbsOf(core["tx"])
           d == UrbsOf(core["rx"])
           y == <<"core", "tx">>
           z == <<"core", "rx">>
           g == <<"giveback", None>>
<1>0. "tx" \in Pipes /\ "rx" \in Pipes
  BY DEF Pipes
<1>1. /\ y \in Tokens /\ z \in Tokens /\ g \in Tokens
      /\ y # z /\ z # g /\ y # g
  BY <1>0, TokensAre
<1>2. /\ Held[y] = Elements(b) /\ Held[z] = Elements(d) /\ Held[g] = Elements(a)
      /\ Held'[y] = CoreUrbs("tx")' /\ Held'[z] = CoreUrbs("rx")'
      /\ Held'[g] = GivebackUrbs'
  BY <1>0, HeldAt, HeldAtNext, Zenon DEF CoreUrbs, GivebackUrbs
<1>3. /\ a \in Seq(Urbs) /\ b \in Seq(Urbs) /\ d \in Seq(Urbs)
      /\ Distinct(a) /\ Distinct(b) /\ Distinct(d)
  BY <1>0, UrbsAre, TransfersHaveUrbs DEF TypeOK, ListTypes, PlaceInv, NoDuplicates
<1>4. UrbsOf(giveback') = (a \o b) \o d
  BY CancelAllUrbs
<1>5. /\ Elements(a) \cap Elements(b) = {}
      /\ (Elements(a) \cup Elements(b)) \cap Elements(d) = {}
  BY <1>1, <1>2 DEF PlaceInv, Apart
<1> HIDE DEF a, b, d
<1>6. /\ Elements((a \o b) \o d) = (Elements(a) \cup Elements(b)) \cup Elements(d)
      /\ Distinct((a \o b) \o d)
  <2> DEFINE e == a \o b
  <2>1. /\ e \in Seq(Urbs) /\ Distinct(e)
        /\ Elements(e) = Elements(a) \cup Elements(b)
    BY <1>3, <1>5, ElementsConcat
  <2> HIDE DEF e
  <2>2. Elements(e \o d) = Elements(e) \cup Elements(d) /\ Distinct(e \o d)
    BY <1>3, <1>5, <2>1, ElementsConcat
  <2> QED
    BY <2>1, <2>2 DEF e
<1>7. /\ \A p \in Pipes : UrbsOf(core'[p]) = <<>>
      /\ CoreUrbs("tx")' = {} /\ CoreUrbs("rx")' = {}
  BY CancelAllUrbs
<1>8. GivebackUrbs' = (Elements(a) \cup Elements(b)) \cup Elements(d)
  BY <1>4, <1>6 DEF GivebackUrbs
<1>9. NoDuplicates'
  BY <1>4, <1>6, <1>7, ElementsEmpty DEF NoDuplicates, PlaceInv
<1>10. /\ \A o \in Pipes : FreeUrbs(o)' = FreeUrbs(o)
       /\ \A c \in Contexts : PostUrbs(c)' = PostUrbs(c)
       /\ \A o \in Packets : PacketUrbs(o)' = PacketUrbs(o)
       /\ CompUrbs' = CompUrbs
  BY DEF FreeUrbs, PostUrbs, PacketUrbs, CompUrbs
<1>11. PendingInFlight'
  <2>1. ASSUME NEW v, InFlight(v) PROVE InFlight(v)'
    <3>1. ASSUME v \in GivebackUrbs \/ \E o \in Pipes : v \in CoreUrbs(o)
          PROVE  v \in GivebackUrbs'
      BY <1>8, <3>1 DEF GivebackUrbs, CoreUrbs, Pipes, a, b, d
    <3> QED
      BY <2>1, <3>1 DEF InFlight
  <2> QED
    BY <2>1 DEF PendingInFlight, PlaceInv
<1>12. ASSUME NEW k \in Tokens, k # y, k # z, k # g PROVE Held'[k] = Held[k]
  <2>1. CASE \E p \in Pipes : k = <<"free", p>>
    BY <1>10, <2>1, HeldAt, HeldAtNext, Zenon
  <2>2. CASE \E c \in Contexts : k = <<"post", c>>
    BY <1>10, <2>2, HeldAt, HeldAtNext, Zenon
  <2>3. CASE \E p \in Packets : k = <<"packet", p>>
    BY <1>10, <2>3, HeldAt, HeldAtNext, Zenon
  <2>4. CASE k = <<"comp", None>>
    BY <1>10, <2>4, HeldAt, HeldAtNext, Zenon
  <2> QED
    BY <1>12, <2>1, <2>2, <2>3, <2>4, TokenKinds DEF Pipes
<1> DEFINE B == Elements(b)
           D == Elements(d)
           M == [k \in Tokens |-> IF k = y THEN {}
                                  ELSE IF k = g THEN Held[g] \cup B ELSE Held[k]]
<1>13. Moves(Held, M, y, g, B)
  BY <1>1, <1>2 DEF Moves
<1>14. Moves(M, Held', z, g, D)
  <2>1. /\ M[y] = {} /\ M[z] = D /\ M[g] = Elements(a) \cup B
        /\ \A k \in Tokens : k # y /\ k # g => M[k] = Held[k]
    BY <1>1, <1>2
  <2>2. Held'[y] = {} /\ Held'[z] = {} /\ Held'[g] = (Elements(a) \cup B) \cup D
    BY <1>2, <1>7, <1>8
  <2>3. ASSUME NEW k \in Tokens, k # z, k # g PROVE Held'[k] = M[k]
    BY <1>12, <2>1, <2>2, <2>3
  <2> HIDE DEF M, B, D, y, z, g
  <2> QED
    BY <1>1, <2>1, <2>2, <2>3 DEF Moves
<1> HIDE DEF M, B, D, y, z, g
<1>15. Apart(M) /\ (Kept(Held) => Kept(M))
  BY <1>13, Moved DEF PlaceInv
<1>16. Apart(Held') /\ (Kept(M) => Kept(Held'))
  BY <1>14, <1>15, Moved
<1> QED
  BY <1>9, <1>11, <1>15, <1>16 DEF PlaceInv

(* The steps of the control thread.                                        *)
LEMMA PlaceControl ==
    ASSUME TypeOK, PlaceInv,
           \/ HIFStart \/ hif_usb_suspend \/ Suspended \/ hif_usb_resume
           \/ Disconnect \/ HTCStop \/ StopStep
    PROVE  PlaceInv'
<1>1. UNCHANGED packet => \A o \in Packets : PacketUrbs(o)' = PacketUrbs(o)
  BY DEF PacketUrbs
<1>2. UNCHANGED post => \A c \in Contexts : PostUrbs(c)' = PostUrbs(c)
  BY DEF PostUrbs
<1>3. CASE Suspended \/ Disconnect
  <2>1. /\ CancelAll
        /\ UNCHANGED <<urb_list_head, urb_pending_list, comp, post, packet>>
    BY <1>3 DEF Suspended, Disconnect, listVars
  <2>2. control' # "removed" => control # "removed"
    BY <1>3 DEF Suspended, Disconnect
  <2> QED
    BY <2>1, <2>2, PlaceCancelAll
<1>4. CASE HIFStart \/ hif_usb_resume
  <2>1. /\ control \in {"probed", "suspended"}
        /\ UNCHANGED <<urb_list_head, urb_pending_list, core, giveback, comp, packet>>
        /\ \A c \in Contexts : c # "control" => post'[c] = post[c]
        /\ post'["control"].urb = None
    BY <1>4 DEF HIFStart, hif_usb_resume, usb_hif_start_recv_pipes, Post, TypeOK,
                PostType, listVars, usbVars, Contexts
  <2>2. post["control"].pc = "off" /\ post["control"].urb = None
    BY <2>1 DEF TypeOK, PostType, Contexts
  <2>3. \A c \in Contexts : PostUrbs(c)' = PostUrbs(c)
    BY <2>1, <2>2 DEF PostUrbs
  <2>4. \A c \in Contexts : post[c].pc = "submit" => post'[c] = post[c]
    BY <2>1, <2>2
  <2>5. control' # "removed" => control # "removed"
    BY <2>1
  <2> QED
    BY <1>1, <2>1, <2>3, <2>4, <2>5, PlaceKept
<1>5. CASE \/ hif_usb_suspend \/ HTCStop \/ HTCDestroy \/ HIFDetachHTC
           \/ Detached \/ usb_hif_destroy
  <2>1. /\ UNCHANGED <<urb_list_head, urb_pending_list, core, giveback, comp, post,
                       packet>>
        /\ control # "removed"
    BY <1>5 DEF hif_usb_suspend, HTCStop, HTCDestroy, HIFDetachHTC, Detached,
                usb_hif_destroy, listVars, usbVars
  <2> QED
    BY <1>1, <1>2, <2>1, PlaceKept
<1>6. CASE usb_hif_cleanup_pipe_resources
  <2>1. /\ control' = "removed" /\ urb_list_head' = [p \in Pipes |-> <<>>]
        /\ UNCHANGED <<urb_pending_list, core, giveback, comp, post, packet>>
    BY <1>6 DEF usb_hif_cleanup_pipe_resources, usbVars
  <2>2. \A p \in Pipes : FreeUrbs(p)' = {} /\ Distinct(urb_list_head'[p])
    BY <2>1, ElementsEmpty DEF FreeUrbs
  <2>3. /\ \A o \in Pipes : CoreUrbs(o)' = CoreUrbs(o)
        /\ CompUrbs' = CompUrbs /\ GivebackUrbs' = GivebackUrbs
    BY <2>1 DEF CoreUrbs, CompUrbs, GivebackUrbs
  <2>4. NoDuplicates'
    BY <2>1, <2>2 DEF NoDuplicates, PlaceInv
  <2>5. \A v : InFlight(v) => InFlight(v)'
    BY <2>1, <2>3 DEF InFlight
  <2>6. PendingInFlight'
    BY <2>1, <2>5 DEF PendingInFlight, PlaceInv
  <2>7. ASSUME NEW k \in Tokens PROVE Held'[k] \subseteq Held[k]
    <3>1. CASE \E p \in Pipes : k = <<"free", p>>
      BY <2>2, <3>1, HeldAtNext, Zenon
    <3>2. CASE \E p \in Pipes : k = <<"core", p>>
      BY <2>3, <3>2, HeldAt, HeldAtNext, Zenon
    <3>3. CASE \E c \in Contexts : k = <<"post", c>>
      BY <1>2, <2>1, <3>3, HeldAt, HeldAtNext, Zenon
    <3>4. CASE \E p \in Packets : k = <<"packet", p>>
      BY <1>1, <2>1, <3>4, HeldAt, HeldAtNext, Zenon
    <3>5. CASE k = <<"comp", None>> \/ k = <<"giveback", None>>
      BY <2>3, <3>5, HeldAt, HeldAtNext, Zenon
    <3> QED
      BY <3>1, <3>2, <3>3, <3>4, <3>5, TokenKinds
  <2>8. Apart(Held')
    BY <2>7 DEF PlaceInv, Apart
  <2> QED
    BY <2>1, <2>4, <2>6, <2>8 DEF PlaceInv
<1> QED
  BY <1>3, <1>4, <1>5, <1>6 DEF StopStep

(* At first all URBs are on the free lists.                                *)
LEMMA PlaceInit == Init => PlaceInv
<1> SUFFICES ASSUME Init PROVE PlaceInv
  OBVIOUS
<1>1. ASSUME NEW S, IsFiniteSet(S), NEW f \in SetToSeqs(S)
      PROVE  Elements(f) = S /\ Distinct(f)
  <2> DEFINE n == Cardinality(S)
  <2>1. n \in Nat /\ Cardinality(1..n) = n
    BY <1>1, FS_CardinalityType, FS_Interval
  <2>2. f \in [1..n -> S] /\ \A i, j \in 1..n : i # j => f[i] # f[j]
    BY DEF SetToSeqs
  <2>3. f \in Injection(1..n, S)
    BY <2>2 DEF Injection, IsInjective
  <2>4. f \in Surjection(1..n, S)
    BY <1>1, <2>1, <2>3, FS_Injection
  <2>5. f \in Seq(S) /\ Len(f) = n
    BY <2>1, <2>2, LenProperties
  <2> HIDE DEF n
  <2>6. \A u \in S : \E i \in 1..n : f[i] = u
    BY <2>4 DEF Surjection
  <2> QED
    BY <2>2, <2>5, <2>6 DEF Elements, Distinct
<1>2. \A p \in Pipes : FreeUrbs(p) = UrbsOn(p) /\ Distinct(urb_list_head[p])
  <2>1. PICK rx \in SetToSeqs(RxUrbs), tx \in SetToSeqs(TxUrbs) :
           urb_list_head = [p \in Pipes |-> IF p = "rx" THEN rx ELSE tx]
    BY DEF Init
  <2>2. /\ Elements(rx) = RxUrbs /\ Distinct(rx)
        /\ Elements(tx) = TxUrbs /\ Distinct(tx)
    BY <1>1, HifUsbAssumption DEF HifUsbAssumption
  <2> QED
    BY <2>1, <2>2 DEF FreeUrbs, UrbsOn
<1>3. UrbsOf(<<>>) = <<>>
  BY DEF UrbsOf
<1>4. /\ \A p \in Pipes : CoreUrbs(p) = {} /\ Distinct(UrbsOf(core[p]))
      /\ GivebackUrbs = {} /\ Distinct(UrbsOf(giveback))
      /\ \A p \in Pipes : /\ Elements(urb_pending_list[p]) = {}
                          /\ Distinct(urb_pending_list[p])
  BY <1>3, ElementsEmpty DEF Init, CoreUrbs, GivebackUrbs
<1>5. /\ \A c \in Contexts : PostUrbs(c) = {}
      /\ \A p \in Packets : PacketUrbs(p) = {}
      /\ CompUrbs = {}
  BY DEF Init, PostUrbs, PostOff, PacketUrbs, CompUrbs, CompIdle
<1>6. ASSUME NEW k \in Tokens, NEW u, u \in Held[k]
      PROVE  k = <<"free", PipeOf(u)>>
  <2>1. CASE \E p \in Pipes : k = <<"free", p>>
    <3>1. PICK p \in Pipes : k = <<"free", p>>
      BY <2>1
    <3>2. u \in UrbsOn(p)
      BY <1>2, <1>6, <3>1, HeldAt, Zenon
    <3>3. PipeOf(u) = p
      BY <3>2, HifUsbAssumption DEF HifUsbAssumption, PipeOf, UrbsOn, Pipes
    <3> QED
      BY <3>1, <3>3
  <2>2. CASE \E p \in Pipes : k = <<"core", p>>
    BY <1>4, <1>6, <2>2, HeldAt, Zenon
  <2>3. CASE \E c \in Contexts : k = <<"post", c>>
    BY <1>5, <1>6, <2>3, HeldAt, Zenon
  <2>4. CASE \E p \in Packets : k = <<"packet", p>>
    BY <1>5, <1>6, <2>4, HeldAt, Zenon
  <2>5. CASE k = <<"comp", None>> \/ k = <<"giveback", None>>
    BY <1>4, <1>5, <1>6, <2>5, HeldAt, Zenon
  <2> QED
    BY <2>1, <2>2, <2>3, <2>4, <2>5, TokenKinds
<1>7. Apart(Held)
  BY <1>6 DEF Apart
<1>8. Kept(Held)
  <2>1. ASSUME NEW u \in Urbs PROVE \E k \in Tokens : u \in Held[k]
    <3>1. u \in UrbsOn(PipeOf(u)) /\ PipeOf(u) \in Pipes
      BY DEF Urbs, UrbsOn, PipeOf, Pipes
    <3> DEFINE k == <<"free", PipeOf(u)>>
    <3>2. k \in Tokens /\ Held[k] = FreeUrbs(PipeOf(u))
      BY <3>1, TokensAre, HeldAt, Zenon
    <3>3. u \in Held[k]
      BY <1>2, <3>1, <3>2
    <3> QED
      BY <3>2, <3>3
  <2> QED
    BY <2>1 DEF Kept
<1>9. NoDuplicates /\ PendingInFlight
  BY <1>2, <1>4 DEF NoDuplicates, PendingInFlight
<1> QED
  BY <1>7, <1>8, <1>9 DEF PlaceInv

(* The workers hold no URB, as long as the packets they hand up are HIF's. *)
LEMMA PlaceWork ==
    ASSUME TypeOK, PlaceInv, NEW p \in Pipes,
           \A b \in Elements(io_comp_queue["tx"]) :
              b \in Packets /\ packet[b].pc = "hif",
           WorkBegin(p) \/ WorkCallback(p) \/ WorkEnd(p)
    PROVE  PlaceInv'
<1>1. /\ UNCHANGED <<urb_list_head, urb_pending_list, core, giveback, comp, post,
                     control>>
      /\ \A c \in Contexts : PostUrbs(c)' = PostUrbs(c)
  BY DEF WorkBegin, WorkCallback, WorkEnd, listVars, usbVars, PostUrbs
<1>2. /\ \A q \in Packets : PacketUrbs(q)' = PacketUrbs(q)
      /\ \A q \in Packets : packet[q].pc = "submit" =>
            packet'[q].pc = "submit" /\ packet'[q].urb = packet[q].urb
  <2>1. CASE packet' = packet
    BY <2>1 DEF PacketUrbs
  <2>2. CASE packet' # packet
    <3> DEFINE b == Head(io_comp_queue["tx"])
    <3>1. /\ io_comp_queue["tx"] # <<>>
          /\ packet' = [packet EXCEPT ![b].pc = "done", ![b].urb = None]
      BY <2>2 DEF WorkBegin, WorkCallback, WorkEnd
    <3>2. b \in Elements(io_comp_queue["tx"])
      BY <3>1, ElementsTail DEF TypeOK, ListTypes, Pipes
    <3>3. b \in Packets /\ packet[b].pc = "hif"
      BY <3>2
    <3> HIDE DEF b
    <3>4. /\ packet'[b].pc = "done" /\ packet'[b].urb = None
          /\ \A q \in Packets : q # b => packet'[q] = packet[q]
      BY <3>1, <3>3 DEF TypeOK, PacketType, PacketRecords
    <3>5. \A q \in Packets : q = b => PacketUrbs(q) = {} /\ PacketUrbs(q)' = {}
      BY <3>3, <3>4 DEF PacketUrbs
    <3>6. \A q \in Packets : q # b => PacketUrbs(q)' = PacketUrbs(q)
      BY <3>4 DEF PacketUrbs
    <3> QED
      BY <3>3, <3>4, <3>5, <3>6
  <2> QED
    BY <2>1, <2>2
<1> QED
  BY <1>1, <1>2, PlaceKept
-----------------------------------------------------------------------------
(* The packets that HIF has.  Extra is what HIF has put in front of the    *)
(* data or allocated for the transfer, beyond what refusals left there.    *)
Extra(p) == packet[p].layers + packet[p].contexts - packet[p].refused

SendersHold ==
    \A p \in Packets : packet[p].pc \in {"enqueue", "submit"} =>
        buf[packet[p].urb] = p /\ Extra(p) = 1

IdleClean == \A p \in Packets : packet[p].pc \in {"htc", "done"} => Extra(p) = 0

(* The URBs that were submitted and are not free again, and what one of    *)
(* the transmit pipe carries.                                              *)
BusyUrbs == CoreUrbs("tx") \cup GivebackUrbs \cup CompUrbs
Carries(u) == /\ buf[u] \in Packets
              /\ packet[buf[u]].pc = "hif" /\ packet[buf[u]].urb = u
              /\ Extra(buf[u]) = 1

TransfersCarry == \A u \in TxUrbs : u \in BusyUrbs => Carries(u)

(* A packet whose transfer is over, on its way to HTC.                     *)
HandedUp(b) == b \in Packets /\ packet[b].pc = "hif" /\ Extra(b) = 0

QueueHandedUp ==
    /\ Distinct(io_comp_queue["tx"])
    /\ \A b \in Elements(io_comp_queue["tx"]) : HandedUp(b)

RoutineHandsUp ==
    comp.kind = "transmit" /\ comp.pc = "queue" =>
        \E b \in Packets : /\ comp.msgs = <<b>> /\ HandedUp(b)
                           /\ b \notin Elements(io_comp_queue["tx"])

PacketInv == /\ SendersHold /\ IdleClean /\ TransfersCarry
             /\ QueueHandedUp /\ RoutineHandsUp

(* URBs with a sender or in flight are not free.                           *)
LEMMA BusyNotFree ==
    ASSUME TypeOK, PlaceInv, NEW u \in TxUrbs, u \in FreeUrbs("tx")
    PROVE  /\ u \notin BusyUrbs
           /\ \A p \in Packets : packet[p].pc \in {"enqueue", "submit"} =>
                 packet[p].urb # u
<1> DEFINE x == <<"free", "tx">>
<1>1. "tx" \in Pipes /\ None \notin TxUrbs
  BY HifUsbAssumption DEF HifUsbAssumption, Pipes
<1>2. x \in Tokens /\ u \in Held[x]
  BY <1>1, TokensAre, HeldAt, Zenon
<1>3. u \notin BusyUrbs
  BY <1>1, <1>2, OnlyThere DEF BusyUrbs
<1>4. ASSUME NEW p \in Packets, packet[p].pc \in {"enqueue", "submit"},
             packet[p].urb = u
      PROVE  FALSE
  <2>1. u \in PacketUrbs(p)
    BY <1>1, <1>4 DEF PacketUrbs
  <2>2. x = <<"packet", p>>
    BY <1>2, <2>1, OnlyThere
  <2> QED
    BY <2>2
<1> QED
  BY <1>3, <1>4

(* A sender's URB is not in flight, and no other sender has it.            *)
LEMMA SenderAlone ==
    ASSUME TypeOK, PlaceInv, NEW p \in Packets,
           packet[p].pc \in {"enqueue", "submit"}
    PROVE  /\ packet[p].urb \in TxUrbs /\ packet[p].urb \notin BusyUrbs
           /\ \A q \in Packets : /\ packet[q].pc \in {"enqueue", "submit"}
                                 /\ packet[q].urb = packet[p].urb
                                 => q = p
<1> DEFINE u == packet[p].urb
           y == <<"packet", p>>
<1>1. "tx" \in Pipes /\ None \notin TxUrbs /\ u \in TxUrbs
  BY HifUsbAssumption DEF HifUsbAssumption, Pipes, TypeOK, PacketType
<1>2. y \in Tokens /\ u \in Held[y]
  <2>1. u \in PacketUrbs(p)
    BY <1>1 DEF PacketUrbs
  <2> QED
    BY <2>1, TokensAre, HeldAt, Zenon
<1>3. u \notin BusyUrbs
  BY <1>1, <1>2, OnlyThere DEF BusyUrbs
<1>4. ASSUME NEW q \in Packets, packet[q].pc \in {"enqueue", "submit"},
             packet[q].urb = u
      PROVE  q = p
  <2>1. u \in PacketUrbs(q)
    BY <1>1, <1>4 DEF PacketUrbs
  <2>2. y = <<"packet", q>>
    BY <1>2, <2>1, OnlyThere
  <2> QED
    BY <2>2
<1> QED
  BY <1>1, <1>3, <1>4

(* A step that changes no packet.                                          *)
LEMMA PacketsKept ==
    ASSUME TypeOK, PlaceInv, PacketInv, packet' = packet,
           io_comp_queue'["tx"] = io_comp_queue["tx"],
           \A u \in TxUrbs : buf'[u] = buf[u] \/ u \in FreeUrbs("tx"),
           \A u \in TxUrbs : u \in BusyUrbs' => u \in BusyUrbs,
           comp'.kind = "transmit" /\ comp'.pc = "queue" => comp' = comp
    PROVE  PacketInv'
<1>1. \A p : Extra(p)' = Extra(p)
  BY DEF Extra
<1>2. SendersHold'
  <2>1. ASSUME NEW p \in Packets, packet[p].pc \in {"enqueue", "submit"}
        PROVE  buf'[packet[p].urb] = buf[packet[p].urb]
    BY <2>1, SenderAlone, BusyNotFree
  <2> QED
    BY <1>1, <2>1 DEF SendersHold, PacketInv
<1>3. IdleClean'
  BY <1>1 DEF IdleClean, PacketInv
<1>4. TransfersCarry'
  <2> SUFFICES ASSUME NEW u \in TxUrbs, u \in BusyUrbs' PROVE Carries(u)'
    BY DEF TransfersCarry
  <2>1. u \in BusyUrbs /\ buf'[u] = buf[u]
    BY BusyNotFree
  <2>2. Carries(u)
    BY <2>1 DEF PacketInv, TransfersCarry
  <2> QED
    BY <1>1, <2>1, <2>2 DEF Carries
<1>5. \A b : HandedUp(b) => HandedUp(b)'
  BY <1>1 DEF HandedUp
<1>6. QueueHandedUp'
  BY <1>5 DEF QueueHandedUp, PacketInv
<1>7. RoutineHandsUp'
  BY <1>5 DEF RoutineHandsUp, PacketInv
<1> QED
  BY <1>2, <1>3, <1>4, <1>6, <1>7 DEF PacketInv

LEMMA PacketInit == Init => PacketInv
<1> SUFFICES ASSUME Init PROVE PacketInv
  OBVIOUS
<1>1. SendersHold /\ IdleClean
  BY DEF Init, SendersHold, IdleClean, Extra
<1>2. BusyUrbs = {}
  <2>1. UrbsOf(<<>>) = <<>>
    BY DEF UrbsOf
  <2> QED
    BY <2>1, ElementsEmpty DEF Init, BusyUrbs, CoreUrbs, GivebackUrbs, CompUrbs,
                               CompIdle, Pipes
<1>3. QueueHandedUp
  BY ElementsEmpty DEF Init, QueueHandedUp, Pipes
<1>4. RoutineHandsUp
  BY DEF Init, RoutineHandsUp, CompIdle
<1> QED
  BY <1>1, <1>2, <1>3, <1>4 DEF PacketInv, TransfersCarry

LEMMA PacketPost ==
    ASSUME TypeOK, PlaceInv, PacketInv, NEW c \in Contexts, PostStep(c)
    PROVE  PacketInv'
<1>1. /\ packet' = packet /\ io_comp_queue' = io_comp_queue
      /\ giveback' = giveback /\ core'["tx"] = core["tx"]
      /\ comp' = comp \/ comp' = CompIdle
  BY DEF PostStep, PostNoUrb, PostAlloc, PostNoBuffer, PostEnqueue, PostSubmit,
         PostSubmitFails, EndPost, queueVars, usbVars, TypeOK, ListTypes, Pipes
<1>2. \A u \in TxUrbs : u \notin RxUrbs
  BY HifUsbAssumption DEF HifUsbAssumption
<1>3. \A u \in TxUrbs : buf'[u] = buf[u]
  <2>1. CASE PostAlloc(c)
    <3>1. Head(urb_list_head["rx"]) \in RxUrbs
      BY <2>1, ElementsTail DEF PostAlloc, TypeOK, ListTypes, Pipes, UrbsOn
    <3> QED
      BY <1>2, <2>1, <3>1 DEF PostAlloc, TypeOK, ValueTypes, Urbs
  <2>2. CASE PostSubmitFails(c)
    <3>1. post[c].urb \in RxUrbs
      BY <2>2 DEF PostSubmitFails, TypeOK, PostType
    <3> QED
      BY <1>2, <2>2, <3>1 DEF PostSubmitFails, TypeOK, ValueTypes, Urbs
  <2>3. CASE ~PostAlloc(c) /\ ~PostSubmitFails(c)
    BY <2>3 DEF PostStep, PostNoUrb, PostNoBuffer, PostEnqueue, PostSubmit
  <2> QED
    BY <2>1, <2>2, <2>3
<1>4. BusyUrbs' \subseteq BusyUrbs
  BY <1>1 DEF BusyUrbs, CoreUrbs, GivebackUrbs, CompUrbs, CompIdle
<1>5. comp'.kind = "transmit" /\ comp'.pc = "queue" => comp' = comp
  BY <1>1 DEF CompIdle
<1> QED
  BY <1>1, <1>3, <1>4, <1>5, PacketsKept

(* A transfer that finishes, by itself or because it is unlinked, stays    *)
(* with the driver.                                                        *)
LEMMA BusyReturned ==
    ASSUME TypeOK, NEW p \in Pipes, NEW i \in 1..Len(core[p]),
           NEW t \in FinishedTransfers, t.urb = core[p][i].urb,
           giveback' = Append(giveback, t), comp' = comp,
           CoreUrbs("tx")' \subseteq CoreUrbs("tx")
    PROVE  \A u \in TxUrbs : u \in BusyUrbs' => u \in BusyUrbs
<1>1. UrbsOf(giveback') = Append(UrbsOf(giveback), t.urb)
  BY UrbsAppend, TransfersHaveUrbs DEF TypeOK, ListTypes
<1>2. UrbsOf(giveback) \in Seq(Urbs) /\ t.urb \in Urbs
  BY UrbsAre, TransfersHaveUrbs DEF TypeOK, ListTypes, HasUrbs
<1>3. GivebackUrbs' = GivebackUrbs \cup {t.urb}
  BY <1>1, <1>2, ElementsAppend DEF GivebackUrbs
<1>4. core[p] \in Seq(TransfersOn(p))
  BY DEF TypeOK, ListTypes
<1>5. /\ UrbsOf(core[p]) \in Seq(Urbs) /\ Len(UrbsOf(core[p])) = Len(core[p])
      /\ UrbsOf(core[p])[i] = t.urb /\ core[p][i] \in TransfersOn(p)
  BY <1>4, UrbsAre, TransfersHaveUrbs
<1>6. t.urb \in CoreUrbs(p) /\ t.urb \in UrbsOn(p)
  <2>1. core[p][i].urb \in UrbsOn(p)
    BY <1>5 DEF TransfersOn
  <2> QED
    BY <1>5, <2>1, ElementsType DEF CoreUrbs
<1>7. CompUrbs' = CompUrbs
  BY DEF CompUrbs
<1>8. CASE p = "tx"
  BY <1>3, <1>6, <1>7, <1>8 DEF BusyUrbs
<1>9. CASE p = "rx"
  <2>1. t.urb \notin TxUrbs
    BY <1>6, <1>9, HifUsbAssumption DEF HifUsbAssumption, UrbsOn
  <2> QED
    BY <1>3, <1>7, <2>1 DEF BusyUrbs
<1> QED
  BY <1>8, <1>9 DEF Pipes

LEMMA PacketTarget ==
    ASSUME TypeOK, PlaceInv, PacketInv, TargetSends \/ TransferFails \/ TransmitDone
    PROVE  PacketInv'
<1>1. ASSUME NEW p \in Pipes, NEW status \in Statuses,
             NEW msgs, IF p = "rx" THEN msgs \in Seq(Nat) ELSE msgs = <<>>,
             Finish(p, status, msgs)
      PROVE  PacketInv'
  <2> DEFINE q == core[p]
             b == UrbsOf(q)
             h == Head(q)
             t == Finished(h, status, msgs)
  <2>1. /\ q # <<>> /\ q \in Seq(TransfersOn(p))
        /\ core' = [core EXCEPT ![p] = Tail(q)]
        /\ giveback' = Append(giveback, t)
        /\ UNCHANGED <<comp, packet, buf, io_comp_queue>>
    BY <1>1 DEF Finish, listVars, queueVars, TypeOK, ListTypes
  <2>2. h \in TransfersOn(p)
    BY <2>1, ElementsTail
  <2>3. t \in FinishedTransfers /\ t.urb = h.urb
    BY <1>1, <2>2 DEF Finished, FinishedTransfers, FinishedOn, TransfersOn, Pipes
  <2>4. 1 \in 1..Len(q) /\ h = q[1]
    BY <2>1, LenProperties, EmptySeq
  <2>5. /\ UrbsOf(Tail(q)) = Tail(b) /\ b # <<>> /\ b \in Seq(Urbs)
    BY <2>1, UrbsTail, UrbsAre, TransfersHaveUrbs
  <2>6. CoreUrbs("tx")' \subseteq CoreUrbs("tx")
    <3> HIDE DEF b
    <3>1. Elements(Tail(b)) \subseteq Elements(b)
      BY <2>5, ElementsTail
    <3>2. CASE p = "tx"
      BY <2>1, <2>5, <3>1, <3>2 DEF CoreUrbs, TypeOK, ListTypes, b
    <3>3. CASE p # "tx"
      BY <2>1, <3>3 DEF CoreUrbs, TypeOK, ListTypes, Pipes
    <3> QED
      BY <3>2, <3>3
  <2> HIDE DEF b, h, t
  <2>7. \A u \in TxUrbs : u \in BusyUrbs' => u \in BusyUrbs
    BY <2>1, <2>3, <2>4, <2>6, BusyReturned
  <2> QED
    BY <2>1, <2>7, PacketsKept
<1>2. "rx" \in Pipes /\ "tx" \in Pipes /\ "ok" \in Statuses /\ "error" \in Statuses
  BY DEF Pipes, Statuses
<1>3. CASE TargetSends
  <2> DEFINE m == 2 * sent + 1
             n == 2 * sent + 2
  <2>1. m \in Nat /\ n \in Nat
    BY DEF TypeOK, ValueTypes
  <2> HIDE DEF m, n
  <2>2. <<>> \in Seq(Nat) /\ <<m>> \in Seq(Nat) /\ <<m, n>> \in Seq(Nat)
    BY <2>1
  <2>3. \E msgs \in {<<>>, <<m>>, <<m, n>>} : Finish("rx", "ok", msgs)
    BY <1>3 DEF TargetSends, m, n
  <2> QED
    BY <1>1, <1>2, <2>2, <2>3
<1>4. CASE TransferFails
  BY <1>1, <1>2, <1>4, EmptySeq DEF TransferFails
<1>5. CASE TransmitDone
  BY <1>1, <1>2, <1>5 DEF TransmitDone
<1> QED
  BY <1>3, <1>4, <1>5

LEMMA PacketFlush ==
    ASSUME TypeOK, PlaceInv, PacketInv, FlushStep
    PROVE  PacketInv'
<1>1. UNCHANGED <<comp, packet, buf, io_comp_queue>>
  BY DEF FlushStep, FlushTake, FlushKill, FlushWait, FlushWork, queueVars
<1>2. \A u \in TxUrbs : u \in BusyUrbs' => u \in BusyUrbs
  <2>1. CASE UNCHANGED <<core, giveback>>
    BY <1>1, <2>1 DEF BusyUrbs, CoreUrbs, GivebackUrbs, CompUrbs
  <2>2. CASE ~UNCHANGED <<core, giveback>>
    <3> DEFINE p == flush.pipe
               ts == core[p]
               b == UrbsOf(ts)
    <3>1. PICK i \in 1..Len(ts) :
              /\ core' = [core EXCEPT ![p] = RemoveAt(ts, i)]
              /\ giveback' = Append(giveback, Finished(ts[i], "cancelled", <<>>))
      BY <2>2 DEF FlushStep, FlushTake, FlushKill, FlushWait, FlushWork, usbVars
    <3> DEFINE x == ts[i]
               t == Finished(x, "cancelled", <<>>)
    <3>2. p \in Pipes /\ ts \in Seq(TransfersOn(p)) /\ Distinct(b)
      BY DEF TypeOK, ListTypes, ControlType, PlaceInv, NoDuplicates
    <3>3. /\ b \in Seq(Urbs) /\ Len(b) = Len(ts)
          /\ x \in TransfersOn(p)
          /\ UrbsOf(RemoveAt(ts, i)) = RemoveAt(b, i)
      BY <3>2, UrbsAre, UrbsRemoveAt, TransfersHaveUrbs
    <3>4. t \in FinishedTransfers /\ t.urb = x.urb
      <4>1. "cancelled" \in Statuses /\ <<>> \in Seq(Nat)
        BY EmptySeq DEF Statuses
      <4> HIDE DEF x
      <4> QED
        BY <3>2, <3>3, <4>1 DEF Finished, FinishedTransfers, FinishedOn,
                                TransfersOn, Pipes
    <3>5. CoreUrbs("tx")' \subseteq CoreUrbs("tx")
      <4> HIDE DEF b
      <4>1. Elements(RemoveAt(b, i)) \subseteq Elements(b)
        BY <3>2, <3>3, ElementsRemoveAt
      <4>2. CASE p = "tx"
        BY <3>1, <3>2, <3>3, <4>1, <4>2 DEF CoreUrbs, TypeOK, ListTypes, b
      <4>3. CASE p # "tx"
        BY <3>1, <4>3 DEF CoreUrbs, TypeOK, ListTypes, Pipes
      <4> QED
        BY <4>2, <4>3
    <3>6. giveback' = Append(giveback, t) /\ t.urb = core[p][i].urb
      BY <3>1, <3>4
    <3> HIDE DEF t, x, b
    <3> QED
      BY <1>1, <3>2, <3>4, <3>5, <3>6, BusyReturned
  <2> QED
    BY <2>1, <2>2
<1> QED
  BY <1>1, <1>2, PacketsKept

LEMMA PacketControl ==
    ASSUME TypeOK, PlaceInv, PacketInv,
           \/ HIFStart \/ hif_usb_suspend \/ Suspended \/ hif_usb_resume
           \/ Disconnect \/ HTCStop \/ StopStep
    PROVE  PacketInv'
<1>1. UNCHANGED <<comp, packet, io_comp_queue>>
  BY DEF HIFStart, hif_usb_suspend, Suspended, hif_usb_resume, Disconnect, HTCStop,
         StopStep, HTCDestroy, HIFDetachHTC, Detached, usb_hif_destroy,
         usb_hif_cleanup_pipe_resources, queueVars
<1>2. \A u \in TxUrbs : u \in BusyUrbs' => u \in BusyUrbs
  <2>1. CompUrbs' = CompUrbs
    BY <1>1 DEF CompUrbs
  <2>2. CASE Suspended \/ Disconnect
    <3>1. CancelAll
      BY <2>2 DEF Suspended, Disconnect
    <3>2. /\ GivebackUrbs' = (GivebackUrbs \cup CoreUrbs("tx")) \cup CoreUrbs("rx")
          /\ CoreUrbs("tx")' = {}
      BY <3>1, CancelAllUrbs
    <3>3. ASSUME NEW u \in CoreUrbs("rx") PROVE u \in RxUrbs
      <4> DEFINE q == core["rx"]
      <4>1. q \in Seq(TransfersOn("rx")) /\ "rx" \in Pipes
        BY DEF TypeOK, ListTypes, Pipes
      <4> HIDE DEF q
      <4>2. /\ Len(UrbsOf(q)) = Len(q)
            /\ \A i \in 1..Len(q) : UrbsOf(q)[i] = q[i].urb /\ q[i] \in TransfersOn("rx")
        BY <4>1, UrbsAre, TransfersHaveUrbs
      <4>3. PICK i \in 1..Len(q) : UrbsOf(q)[i] = u
        BY <4>2 DEF CoreUrbs, Elements, q
      <4>4. q[i].urb \in RxUrbs
        BY <4>2 DEF TransfersOn, UrbsOn
      <4> QED
        BY <4>2, <4>3, <4>4
    <3> QED
      BY <2>1, <3>2, <3>3, HifUsbAssumption DEF HifUsbAssumption, BusyUrbs
  <2>3. CASE ~(Suspended \/ Disconnect)
    <3>1. UNCHANGED <<core, giveback>>
      BY <2>3 DEF HIFStart, hif_usb_suspend, hif_usb_resume, HTCStop,
         StopStep, HTCDestroy, HIFDetachHTC, Detached, usb_hif_destroy,
         usb_hif_cleanup_pipe_resources, usbVars
    <3> QED
      BY <2>1, <3>1 DEF BusyUrbs, CoreUrbs, GivebackUrbs
  <2> QED
    BY <2>2, <2>3
<1>3. \A u \in TxUrbs : buf'[u] = buf[u] \/ u \in FreeUrbs("tx")
  <2>1. CASE usb_hif_cleanup_pipe_resources
    <3>1. \A u \in TxUrbs : u \in Urbs /\ PipeOf(u) = "tx"
      BY HifUsbAssumption DEF HifUsbAssumption, Urbs, PipeOf
    <3> QED
      BY <2>1, <3>1 DEF usb_hif_cleanup_pipe_resources, FreeUrbs
  <2>2. CASE ~usb_hif_cleanup_pipe_resources
    BY <2>2 DEF HIFStart, hif_usb_suspend, Suspended, hif_usb_resume, Disconnect,
                HTCStop, StopStep, HTCDestroy, HIFDetachHTC, Detached, usb_hif_destroy
  <2> QED
    BY <2>1, <2>2
<1> QED
  BY <1>1, <1>2, <1>3, PacketsKept

(* The packet of a transfer that has come back gives its context up.       *)
LEMMA PacketCleanup ==
    ASSUME TypeOK, PlaceInv, PacketInv, CompCleanupTransmit
    PROVE  PacketInv'
<1> DEFINE u == comp.urb
           b == buf[u]
           w == WithoutContext(packet[b])
<1>1. /\ comp.pc = "cleanup" /\ comp.kind = "transmit" /\ u \in TxUrbs
      /\ packet' = [packet EXCEPT ![b] = w]
      /\ comp' = [comp EXCEPT !.pc = "queue", !.msgs = <<b>>]
      /\ buf' = [buf EXCEPT ![u] = None]
      /\ UNCHANGED <<core, giveback, io_comp_queue>>
  BY DEF CompCleanupTransmit, TypeOK, CompType, queueVars, usbVars
<1>2. CompUrbs = {u} /\ CompUrbs' = {}
  BY <1>1 DEF CompUrbs, TypeOK, CompType
<1>3. b \in Packets /\ packet[b].pc = "hif" /\ packet[b].urb = u /\ Extra(b) = 1
  BY <1>1, <1>2 DEF PacketInv, TransfersCarry, BusyUrbs, Carries
<1>4. /\ w \in PacketRecords /\ w.pc = "hif" /\ w.urb = u
      /\ w.refused = packet[b].refused
      /\ w.layers + w.contexts = packet[b].layers + packet[b].contexts - 1
  BY <1>3, ContextRemoved DEF TypeOK, PacketType
<1>5. /\ comp'.pc = "queue" /\ comp'.msgs = <<b>>
  BY <1>1 DEF TypeOK, CompType
<1> HIDE DEF w, b
<1>6. packet'[b] = w /\ \A q \in Packets : q # b => packet'[q] = packet[q]
  BY <1>1, <1>3 DEF TypeOK, PacketType
<1>7. /\ \A q \in Packets : q = b => packet'[q].pc = "hif" /\ Extra(q)' = 0
      /\ \A q \in Packets : q # b => Extra(q)' = Extra(q)
  <2>1. packet[b] \in PacketRecords
    BY <1>3 DEF TypeOK, PacketType
  <2>2. w.layers + w.contexts - w.refused = 0
    BY <1>3, <1>4, <2>1 DEF Extra, PacketRecords
  <2> QED
    BY <1>4, <1>6, <2>2 DEF Extra
<1>8. \A v \in Urbs : v # u => buf'[v] = buf[v]
  BY <1>1 DEF TypeOK, ValueTypes
<1>9. SendersHold'
  <2> SUFFICES ASSUME NEW p \in Packets, packet'[p].pc \in {"enqueue", "submit"}
               PROVE  buf'[packet'[p].urb] = p /\ Extra(p)' = 1
    BY DEF SendersHold
  <2>1. p # b /\ packet'[p] = packet[p]
    BY <1>6, <1>7
  <2>2. packet[p].urb \in TxUrbs /\ packet[p].urb # u
    BY <1>2, <2>1, SenderAlone DEF BusyUrbs
  <2>3. buf'[packet[p].urb] = buf[packet[p].urb]
    BY <1>8, <2>2 DEF Urbs
  <2> QED
    BY <1>7, <2>1, <2>3 DEF PacketInv, SendersHold
<1>10. IdleClean'
  BY <1>6, <1>7 DEF PacketInv, IdleClean
<1>11. TransfersCarry'
  <2> SUFFICES ASSUME NEW v \in TxUrbs, v \in BusyUrbs' PROVE Carries(v)'
    BY DEF TransfersCarry
  <2>1. v \in CoreUrbs("tx") \/ v \in GivebackUrbs
    BY <1>1, <1>2 DEF BusyUrbs, CoreUrbs, GivebackUrbs
  <2>2. v # u
    <3> DEFINE z == <<"comp", None>>
    <3>1. z \in Tokens /\ u \in Held[z] /\ "tx" \in Pipes
      BY <1>2, TokensAre, HeldAt DEF Pipes
    <3> QED
      BY <2>1, <3>1, OnlyThere
  <2>3. Carries(v)
    BY <2>1 DEF PacketInv, TransfersCarry, BusyUrbs
  <2>4. buf'[v] = buf[v] /\ buf[v] # b
    BY <1>3, <1>8, <2>2, <2>3 DEF Carries, Urbs
  <2> QED
    BY <1>6, <1>7, <2>3, <2>4 DEF Carries
<1>12. b \notin Elements(io_comp_queue["tx"])
  BY <1>3 DEF PacketInv, QueueHandedUp, HandedUp
<1>13. QueueHandedUp'
  <2>1. ASSUME NEW d, d \in Elements(io_comp_queue["tx"]) PROVE HandedUp(d)'
    <3>1. HandedUp(d) /\ d # b
      BY <1>12, <2>1 DEF PacketInv, QueueHandedUp
    <3> QED
      BY <1>6, <1>7, <3>1 DEF HandedUp
  <2> QED
    BY <1>1, <2>1 DEF PacketInv, QueueHandedUp
<1>14. RoutineHandsUp'
  <2>1. \A d : d = b => HandedUp(d)'
    BY <1>3, <1>7 DEF HandedUp
  <2> QED
    BY <1>1, <1>3, <1>5, <1>12, <2>1 DEF RoutineHandsUp
<1> QED
  BY <1>9, <1>10, <1>11, <1>13, <1>14 DEF PacketInv

(* The packet is queued for the worker.                                    *)
LEMMA PacketQueued ==
    ASSUME TypeOK, PlaceInv, PacketInv, CompQueue, comp.kind = "transmit"
    PROVE  PacketInv'
<1> DEFINE q == io_comp_queue["tx"]
<1>1. /\ comp.pc = "queue" /\ comp.urb \in TxUrbs
      /\ comp' = [comp EXCEPT !.pc = "schedule"]
      /\ UNCHANGED <<core, giveback, packet>>
  BY DEF CompQueue, TypeOK, CompType, usbVars
<1>2. PICK b \in Packets : /\ comp.msgs = <<b>> /\ HandedUp(b)
                           /\ b \notin Elements(q)
  BY <1>1 DEF PacketInv, RoutineHandsUp
<1>3. PipeOf(comp.urb) = "tx"
  BY <1>1, HifUsbAssumption DEF HifUsbAssumption, PipeOf
<1> DEFINE y == <<b>>
<1>4. io_comp_queue'["tx"] = q \o y
  <2>1. Len(<<b>>) = 1 /\ <<b>> \in Seq(Packets)
    OBVIOUS
  <2>2. SubSeq(<<b>>, 1, Len(<<b>>)) = <<b>>
    BY <2>1, SubSeqFull
  <2> QED
    BY <1>2, <1>3, <2>2 DEF CompQueue, skb_queue_tail, TypeOK, ListTypes, Pipes
<1>5. buf' = buf
  BY DEF CompQueue, TypeOK, ValueTypes
<1>6. q \in Seq(Bufs) /\ Distinct(q) /\ \A d \in Elements(q) : HandedUp(d)
  BY DEF TypeOK, ListTypes, ItemsOn, Pipes, PacketInv, QueueHandedUp
<1>7. y \in Seq(Bufs) /\ Elements(y) = {b} /\ Distinct(y)
  <2>1. b \in Bufs
    BY DEF Bufs
  <2> QED
    BY <2>1, ElementsOne
<1> HIDE DEF q, y
<1>8. Elements(q \o y) = Elements(q) \cup {b} /\ Distinct(q \o y)
  BY <1>2, <1>6, <1>7, ElementsConcat
<1>9. \A d : HandedUp(d)' <=> HandedUp(d)
  BY <1>1 DEF HandedUp, Extra
<1>10. QueueHandedUp'
  BY <1>2, <1>4, <1>6, <1>8, <1>9 DEF QueueHandedUp
<1>11. comp'.pc = "schedule" /\ comp'.kind = comp.kind /\ comp'.urb = comp.urb
  BY <1>1 DEF TypeOK, CompType
<1>12. RoutineHandsUp'
  BY <1>11 DEF RoutineHandsUp
<1>13. BusyUrbs' = BusyUrbs
  BY <1>1, <1>11 DEF BusyUrbs, CoreUrbs, GivebackUrbs, CompUrbs
<1>14. SendersHold' /\ IdleClean' /\ TransfersCarry'
  BY <1>1, <1>5, <1>13 DEF PacketInv, SendersHold, IdleClean, TransfersCarry,
                           Carries, Extra
<1> QED
  BY <1>10, <1>12, <1>14 DEF PacketInv

LEMMA PacketComp ==
    ASSUME TypeOK, PlaceInv, PacketInv, CompStep
    PROVE  PacketInv'
<1>0. \A u \in TxUrbs : u \notin RxUrbs
  BY HifUsbAssumption DEF HifUsbAssumption
<1>1. CASE CompBegin
  <2> DEFINE t == Head(giveback)
  <2>1. /\ giveback # <<>> /\ giveback' = Tail(giveback)
        /\ UNCHANGED <<core, packet, buf, io_comp_queue>>
        /\ comp' = [pc |-> IF t.msgs # <<>> THEN "queue" ELSE "cleanup",
                    urb |-> t.urb, kind |-> t.kind, status |-> t.status,
                    msgs |-> t.msgs]
    BY <1>1 DEF CompBegin, queueVars
  <2>2. t \in FinishedTransfers
    BY <2>1, ElementsTail DEF TypeOK, ListTypes
  <2>3. t.kind = "transmit" => t.msgs = <<>>
    BY <2>2 DEF FinishedTransfers, FinishedOn, KindsOn, RxKinds
  <2>4. comp'.kind = "transmit" => comp'.pc # "queue"
    BY <2>1, <2>3
  <2>5. /\ t.urb \in GivebackUrbs /\ GivebackUrbs' \subseteq GivebackUrbs
    BY <2>1, GivebackTake DEF PlaceInv
  <2>6. CompUrbs' \subseteq {t.urb}
    BY <2>1 DEF CompUrbs
  <2>7. BusyUrbs' \subseteq BusyUrbs
    BY <2>1, <2>5, <2>6 DEF BusyUrbs, CoreUrbs
  <2> QED
    BY <2>1, <2>4, <2>7, PacketsKept
<1>2. CASE CompQueue /\ comp.kind # "transmit"
  <2>1. /\ comp.pc = "queue" /\ comp.urb \in RxUrbs
        /\ comp' = [comp EXCEPT !.pc = "schedule"]
        /\ UNCHANGED <<core, giveback, packet>>
    BY <1>2 DEF CompQueue, TypeOK, CompType, usbVars
  <2>2. PipeOf(comp.urb) = "rx"
    BY <2>1 DEF PipeOf
  <2>3. io_comp_queue'["tx"] = io_comp_queue["tx"]
    BY <1>2, <2>2 DEF CompQueue, TypeOK, ListTypes, Pipes
  <2>4. \A u \in TxUrbs : buf'[u] = buf[u]
    BY <1>0, <1>2, <2>1 DEF CompQueue, TypeOK, ValueTypes, Urbs
  <2>5. comp'.pc = "schedule" /\ comp'.kind = comp.kind /\ comp'.urb = comp.urb
    BY <2>1 DEF TypeOK, CompType
  <2>6. BusyUrbs' = BusyUrbs
    BY <2>1, <2>5 DEF BusyUrbs, CoreUrbs, GivebackUrbs, CompUrbs
  <2> QED
    BY <2>1, <2>3, <2>4, <2>5, <2>6, PacketsKept
<1>3. CASE CompCleanupRecv
  <2>1. /\ comp.pc = "cleanup" /\ comp.urb \in RxUrbs
        /\ comp'.pc \in {"prestart", "repost"}
        /\ UNCHANGED <<core, giveback, packet, io_comp_queue>>
    BY <1>3 DEF CompCleanupRecv, TypeOK, CompType, usbVars, queueVars
  <2>2. \A u \in TxUrbs : buf'[u] = buf[u]
    BY <1>0, <1>3, <2>1 DEF CompCleanupRecv, TypeOK, ValueTypes, Urbs
  <2>3. BusyUrbs' \subseteq BusyUrbs
    BY <2>1 DEF BusyUrbs, CoreUrbs, GivebackUrbs, CompUrbs
  <2> QED
    BY <2>1, <2>2, <2>3, PacketsKept
<1>4. CASE CompSchedule
  <2>1. /\ comp.pc = "schedule"
        /\ comp' = IF comp.kind = "transmit" THEN CompIdle
                   ELSE [comp EXCEPT !.pc = "cleanup"]
        /\ UNCHANGED <<core, giveback, packet, buf, io_comp_queue>>
    BY <1>4 DEF CompSchedule, usbVars
  <2>2. BusyUrbs' = BusyUrbs /\ comp'.pc # "queue"
    BY <2>1 DEF BusyUrbs, CoreUrbs, GivebackUrbs, CompUrbs, TypeOK, CompType,
                CompIdle
  <2> QED
    BY <2>1, <2>2, PacketsKept
<1>5. CASE CompPrestart \/ CompRepost
  <2>1. comp'.pc \in {"idle", "posting"}
    BY <1>5 DEF CompPrestart, CompRepost, TypeOK, CompType, CompIdle
  <2>2. UNCHANGED <<core, giveback, packet, buf, io_comp_queue>>
    BY <1>5 DEF CompPrestart, CompRepost, queueVars, usbVars
  <2>3. BusyUrbs' \subseteq BusyUrbs
    BY <2>1, <2>2 DEF BusyUrbs, CoreUrbs, GivebackUrbs, CompUrbs
  <2> QED
    BY <2>1, <2>2, <2>3, PacketsKept
<1> QED
  BY <1>1, <1>2, <1>3, <1>4, <1>5, PacketCleanup, PacketQueued DEF CompStep

(* HTC has a packet back.                                                  *)
LEMMA PacketWork ==
    ASSUME TypeOK, PlaceInv, PacketInv, NEW p \in Pipes,
           WorkBegin(p) \/ WorkCallback(p) \/ WorkEnd(p)
    PROVE  PacketInv'
<1>1. UNCHANGED <<core, giveback, comp, buf>>
  BY DEF WorkBegin, WorkCallback, WorkEnd, usbVars
<1>2. BusyUrbs' = BusyUrbs
  BY <1>1 DEF BusyUrbs, CoreUrbs, GivebackUrbs, CompUrbs
<1>3. CASE ~(WorkCallback(p) /\ p = "tx")
  <2>1. packet' = packet /\ io_comp_queue'["tx"] = io_comp_queue["tx"]
    BY <1>3 DEF WorkBegin, WorkCallback, WorkEnd, queueVars, TypeOK, ListTypes, Pipes
  <2> QED
    BY <1>1, <1>2, <2>1, PacketsKept
<1>4. CASE WorkCallback(p) /\ p = "tx"
  <2> DEFINE q == io_comp_queue["tx"]
             b == Head(q)
  <2>1. /\ q # <<>> /\ io_comp_queue'["tx"] = Tail(q)
        /\ packet' = [packet EXCEPT ![b].pc = "done", ![b].urb = None]
    BY <1>4 DEF WorkCallback, skb_dequeue, TypeOK, ListTypes, Pipes
  <2>2. q \in Seq(Bufs) /\ Distinct(q)
    BY DEF TypeOK, ListTypes, ItemsOn, Pipes, PacketInv, QueueHandedUp
  <2>3. /\ Elements(q) = {b} \cup Elements(Tail(q)) /\ Distinct(Tail(q))
        /\ b \notin Elements(Tail(q))
    BY <2>1, <2>2, ElementsTail
  <2>4. HandedUp(b)
    BY <2>3 DEF PacketInv, QueueHandedUp
  <2> HIDE DEF b
  <2>5. /\ packet'[b].pc = "done"
        /\ \A x \in Packets : x # b => packet'[x] = packet[x]
        /\ \A x \in Packets : Extra(x)' = Extra(x)
    <3>1. b \in Packets
      BY <2>4 DEF HandedUp
    <3> QED
      BY <2>1, <3>1 DEF TypeOK, PacketType, PacketRecords, Extra
  <2>6. \A d : HandedUp(d) /\ d # b => HandedUp(d)'
    BY <2>5 DEF HandedUp
  <2>7. SendersHold'
    BY <1>1, <2>5 DEF PacketInv, SendersHold
  <2>8. IdleClean'
    BY <2>4, <2>5 DEF PacketInv, IdleClean, HandedUp
  <2>9. TransfersCarry'
    <3> SUFFICES ASSUME NEW v \in TxUrbs, v \in BusyUrbs PROVE Carries(v)'
      BY <1>2 DEF TransfersCarry
    <3>1. Carries(v)
      BY DEF PacketInv, TransfersCarry
    <3>2. buf[v] # b
      BY <2>4, <3>1 DEF Carries, HandedUp
    <3> QED
      BY <1>1, <2>5, <3>1, <3>2 DEF Carries
  <2>10. QueueHandedUp'
    <3>1. ASSUME NEW d, d \in Elements(Tail(q)) PROVE HandedUp(d)'
      BY <2>3, <2>6, <3>1 DEF PacketInv, QueueHandedUp
    <3> QED
      BY <2>1, <2>3, <3>1 DEF QueueHandedUp
  <2>11. RoutineHandsUp'
    <3> SUFFICES ASSUME comp.kind = "transmit", comp.pc = "queue"
                 PROVE  \E x \in Packets : /\ comp.msgs = <<x>> /\ HandedUp(x)'
                                           /\ x \notin Elements(Tail(q))
      BY <1>1, <2>1 DEF RoutineHandsUp
    <3>1. PICK x \in Packets : /\ comp.msgs = <<x>> /\ HandedUp(x)
                               /\ x \notin Elements(q)
      BY DEF PacketInv, RoutineHandsUp
    <3> QED
      BY <2>3, <2>6, <3>1
  <2> QED
    BY <2>7, <2>8, <2>9, <2>10, <2>11 DEF PacketInv
<1> QED
  BY <1>3, <1>4

LEMMA PacketSend ==
    ASSUME TypeOK, PlaceInv, PacketInv, NEW p \in Packets, SendStep(p)
    PROVE  PacketInv'
<1>0. /\ packet[p] \in PacketRecords /\ None \notin TxUrbs /\ "tx" \in Pipes
      /\ UrbsOn("tx") = TxUrbs /\ TxUrbs \subseteq Urbs
  BY HifUsbAssumption DEF HifUsbAssumption, TypeOK, PacketType, UrbsOn, Urbs, Pipes
<1>1. UNCHANGED <<giveback, comp, io_comp_queue>>
  BY DEF SendStep, SendAlloc, SendNoUrb, SendEnqueue, SendSubmit, SendSubmitFails,
         usbVars, queueVars
(* The packet changes hands; its URB may come or go.                       *)
<1>2. ASSUME NEW r \in PacketRecords, packet' = [packet EXCEPT ![p] = r],
             ~HandedUp(p),
             r.pc \in {"enqueue", "submit"} =>
                /\ buf'[r.urb] = p
                /\ r.layers + r.contexts - r.refused = 1,
             r.pc \in {"htc", "done"} => r.layers + r.contexts - r.refused = 0,
             \A q \in Packets : q # p /\ packet[q].pc \in {"enqueue", "submit"} =>
                buf'[packet[q].urb] = buf[packet[q].urb],
             \A u \in TxUrbs : u \in BusyUrbs' => Carries(u)'
      PROVE  PacketInv'
  <2>1. packet'[p] = r /\ \A q \in Packets : q # p => packet'[q] = packet[q]
    BY <1>2 DEF TypeOK, PacketType
  <2>2. SendersHold'
    <3> SUFFICES ASSUME NEW q \in Packets, packet'[q].pc \in {"enqueue", "submit"}
                 PROVE  buf'[packet'[q].urb] = q /\ Extra(q)' = 1
      BY DEF SendersHold
    <3>1. CASE q = p
      BY <1>2, <2>1, <3>1 DEF Extra
    <3>2. CASE q # p
      BY <1>2, <2>1, <3>2 DEF Extra, PacketInv, SendersHold
    <3> QED
      BY <3>1, <3>2
  <2>3. IdleClean'
    <3> SUFFICES ASSUME NEW q \in Packets, packet'[q].pc \in {"htc", "done"}
                 PROVE  Extra(q)' = 0
      BY DEF IdleClean
    <3>1. CASE q = p
      BY <1>2, <2>1, <3>1 DEF Extra
    <3>2. CASE q # p
      BY <1>2, <2>1, <3>2 DEF Extra, PacketInv, IdleClean
    <3> QED
      BY <3>1, <3>2
  <2>4. \A d : HandedUp(d) => HandedUp(d)'
    BY <1>2, <2>1 DEF HandedUp, Extra
  <2>5. QueueHandedUp' /\ RoutineHandsUp'
    BY <1>1, <2>4 DEF QueueHandedUp, RoutineHandsUp, PacketInv
  <2> QED
    BY <1>2, <2>2, <2>3, <2>5 DEF PacketInv, TransfersCarry
(* The transfers that are under way keep their packets.                    *)
<1>3. ASSUME NEW u \in TxUrbs, u \in BusyUrbs, buf'[u] = buf[u],
             packet[p].pc # "hif", \A q \in Packets : q # p => packet'[q] = packet[q]
      PROVE  Carries(u)'
  <2>1. Carries(u)
    BY <1>3 DEF PacketInv, TransfersCarry
  <2>2. buf[u] # p
    BY <1>3, <2>1 DEF Carries
  <2> QED
    BY <1>3, <2>1, <2>2 DEF Carries, Extra
<1>4. packet[p].pc # "hif" /\ ~HandedUp(p)
  BY DEF SendStep, SendAlloc, SendNoUrb, SendEnqueue, SendSubmit, SendSubmitFails,
         HandedUp
<1>5. CompUrbs' = CompUrbs /\ GivebackUrbs' = GivebackUrbs
  BY <1>1 DEF CompUrbs, GivebackUrbs
<1>6. UNCHANGED core => BusyUrbs' = BusyUrbs
  BY <1>5 DEF BusyUrbs, CoreUrbs
<1>7. CASE SendNoUrb(p)
  <2> DEFINE w == WithContext(packet[p])
             r == [w EXCEPT !.refused = packet[p].refused + 1]
  <2>1. /\ packet' = [packet EXCEPT ![p] = r] /\ packet[p].pc = "htc"
        /\ UNCHANGED <<core, buf>>
    BY <1>7 DEF SendNoUrb, usbVars
  <2>2. /\ w \in PacketRecords /\ w.pc = packet[p].pc /\ w.refused = packet[p].refused
        /\ w.layers + w.contexts = packet[p].layers + packet[p].contexts + 1
    BY <1>0, ContextAdded
  <2>3. packet[p].layers + packet[p].contexts - packet[p].refused = 0
    BY <2>1 DEF PacketInv, IdleClean, Extra
  <2> HIDE DEF w
  <2>4. /\ r \in PacketRecords /\ r.pc = "htc"
        /\ r.layers = w.layers /\ r.contexts = w.contexts
        /\ r.refused = packet[p].refused + 1
    BY <1>0, <2>1, <2>2 DEF PacketRecords
  <2>5. r.layers + r.contexts - r.refused = 0
    BY <1>0, <2>2, <2>3, <2>4 DEF PacketRecords
  <2> HIDE DEF r
  <2>6. \A q \in Packets : q # p => packet'[q] = packet[q]
    BY <2>1 DEF TypeOK, PacketType
  <2> QED
    BY <1>2, <1>3, <1>4, <1>6, <2>1, <2>4, <2>5, <2>6
<1>8. CASE SendAlloc(p)
  <2> DEFINE w == WithContext(packet[p])
             u == Head(urb_list_head["tx"])
             r == [w EXCEPT !.pc = "enqueue", !.urb = u]
  <2>1. /\ packet' = [packet EXCEPT ![p] = r] /\ packet[p].pc = "htc"
        /\ urb_list_head["tx"] # <<>> /\ buf' = [buf EXCEPT ![u] = p]
        /\ UNCHANGED core
    BY <1>8 DEF SendAlloc, usbVars
  <2>2. /\ w \in PacketRecords /\ w.refused = packet[p].refused
        /\ w.layers + w.contexts = packet[p].layers + packet[p].contexts + 1
    BY <1>0, ContextAdded
  <2>3. packet[p].layers + packet[p].contexts - packet[p].refused = 0
    BY <2>1 DEF PacketInv, IdleClean, Extra
  <2>4. u \in TxUrbs /\ u \in FreeUrbs("tx")
    BY <1>0, <2>1, ElementsTail DEF TypeOK, ListTypes, FreeUrbs
  <2> HIDE DEF w, u
  <2>5. /\ r \in PacketRecords /\ r.pc = "enqueue" /\ r.urb = u
        /\ r.layers = w.layers /\ r.contexts = w.contexts /\ r.refused = w.refused
    BY <2>2, <2>4 DEF PacketRecords
  <2>6. r.layers + r.contexts - r.refused = 1
    <3> DEFINE k == packet[p]
    <3>1. /\ k.layers \in Int /\ k.contexts \in Int /\ k.refused \in Int
          /\ w.layers \in Int /\ w.contexts \in Int
      BY <1>0, <2>2 DEF PacketRecords
    <3>2. w.layers + w.contexts - w.refused = 1
      <4> HIDE DEF k
      <4>1. /\ k.layers + k.contexts - k.refused = 0 /\ w.refused = k.refused
            /\ w.layers + w.contexts = k.layers + k.contexts + 1
        BY <2>2, <2>3 DEF k
      <4> QED
        BY ONLY <3>1, <4>1
    <3> QED
      BY <2>5, <3>2
  <2> HIDE DEF r
  <2>7. /\ u \notin BusyUrbs
        /\ \A q \in Packets : packet[q].pc \in {"enqueue", "submit"} =>
              packet[q].urb # u /\ packet[q].urb \in TxUrbs
    BY <2>4, BusyNotFree DEF TypeOK, PacketType
  <2>8. buf'[u] = p /\ \A v \in TxUrbs : v # u => buf'[v] = buf[v]
    BY <1>0, <2>1, <2>4 DEF TypeOK, ValueTypes
  <2>9. \A q \in Packets : q # p => packet'[q] = packet[q]
    BY <2>1 DEF TypeOK, PacketType
  <2>10. \A v \in TxUrbs : v \in BusyUrbs' => Carries(v)'
    BY <1>3, <1>4, <1>6, <2>1, <2>7, <2>8, <2>9
  <2> QED
    BY <1>2, <1>4, <2>1, <2>5, <2>6, <2>7, <2>8, <2>10
<1>9. CASE SendEnqueue(p)
  <2> DEFINE r == [packet[p] EXCEPT !.pc = "submit"]
  <2>1. /\ packet' = [packet EXCEPT ![p] = r] /\ packet[p].pc = "enqueue"
        /\ UNCHANGED <<core, buf>>
    BY <1>9 DEF SendEnqueue, usbVars
  <2>2. /\ r \in PacketRecords /\ r.pc = "submit" /\ r.urb = packet[p].urb
        /\ r.layers = packet[p].layers /\ r.contexts = packet[p].contexts
        /\ r.refused = packet[p].refused
    BY <1>0 DEF PacketRecords
  <2>3. /\ buf[packet[p].urb] = p
        /\ packet[p].layers + packet[p].contexts - packet[p].refused = 1
    BY <2>1 DEF PacketInv, SendersHold, Extra
  <2> HIDE DEF r
  <2>4. \A q \in Packets : q # p => packet'[q] = packet[q]
    BY <2>1 DEF TypeOK, PacketType
  <2> QED
    BY <1>2, <1>3, <1>4, <1>6, <2>1, <2>2, <2>3, <2>4
<1>10. CASE SendSubmit(p)
  <2> DEFINE u == packet[p].urb
             t == Transfer(u, "transmit")
             r == [packet[p] EXCEPT !.pc = "hif"]
  <2>1. /\ core' = [core EXCEPT !["tx"] = Append(@, t)]
        /\ packet' = [packet EXCEPT ![p] = r] /\ packet[p].pc = "submit"
        /\ u \in TxUrbs /\ buf' = buf
    BY <1>10 DEF SendSubmit, TypeOK, PacketType
  <2>2. t \in TransfersOn("tx") /\ t.urb = u
    BY <1>0, <2>1 DEF TransfersOn, KindsOn, Transfer
  <2>3. u \notin CoreUrbs("tx")
    BY <2>1, SenderAlone DEF BusyUrbs
  <2> HIDE DEF t
  <2>4. CoreUrbs("tx")' = CoreUrbs("tx") \cup {u}
    BY <1>0, <2>1, <2>2, <2>3, CoreAdd DEF PlaceInv
  <2>5. /\ r \in PacketRecords /\ r.pc = "hif" /\ r.urb = u
        /\ r.layers = packet[p].layers /\ r.contexts = packet[p].contexts
        /\ r.refused = packet[p].refused
    BY <1>0 DEF PacketRecords
  <2>6. /\ buf[u] = p
        /\ packet[p].layers + packet[p].contexts - packet[p].refused = 1
    BY <2>1 DEF PacketInv, SendersHold, Extra
  <2> HIDE DEF r, u
  <2>7. packet'[p] = r /\ \A q \in Packets : q # p => packet'[q] = packet[q]
    BY <2>1 DEF TypeOK, PacketType
  <2>8. \A v \in TxUrbs : v = u => Carries(v)'
    BY <2>1, <2>5, <2>6, <2>7 DEF Carries, Extra
  <2>9. \A v \in TxUrbs : v \in BusyUrbs' => Carries(v)'
    BY <1>3, <1>4, <1>5, <2>1, <2>4, <2>7, <2>8 DEF BusyUrbs
  <2> QED
    BY <1>2, <1>4, <2>1, <2>5, <2>9
<1>11. CASE SendSubmitFails(p)
  <2> DEFINE u == packet[p].urb
             w == WithoutContext(packet[p])
             r == [w EXCEPT !.pc = "htc", !.urb = None]
  <2>1. /\ packet' = [packet EXCEPT ![p] = r] /\ packet[p].pc = "submit"
        /\ u \in TxUrbs /\ buf' = [buf EXCEPT ![u] = None]
        /\ UNCHANGED core
    BY <1>11 DEF SendSubmitFails, UndoContext, usbVars, TypeOK, PacketType
  <2>2. /\ w \in PacketRecords /\ w.refused = packet[p].refused
        /\ w.layers + w.contexts = packet[p].layers + packet[p].contexts - 1
    BY <1>0, ContextRemoved
  <2>3. packet[p].layers + packet[p].contexts - packet[p].refused = 1
    BY <2>1 DEF PacketInv, SendersHold, Extra
  <2> HIDE DEF w
  <2>4. /\ r \in PacketRecords /\ r.pc = "htc"
        /\ r.layers = w.layers /\ r.contexts = w.contexts /\ r.refused = w.refused
    BY <2>2 DEF PacketRecords
  <2>5. r.layers + r.contexts - r.refused = 0
    BY <1>0, <2>2, <2>3, <2>4 DEF PacketRecords
  <2>6. /\ u \notin BusyUrbs
        /\ \A q \in Packets : q # p /\ packet[q].pc \in {"enqueue", "submit"} =>
              packet[q].urb # u /\ packet[q].urb \in TxUrbs
    BY <2>1, SenderAlone DEF TypeOK, PacketType
  <2> HIDE DEF r, u
  <2>7. \A v \in TxUrbs : v # u => buf'[v] = buf[v]
    BY <1>0, <2>1 DEF TypeOK, ValueTypes
  <2>8. \A q \in Packets : q # p => packet'[q] = packet[q]
    BY <2>1 DEF TypeOK, PacketType
  <2>9. \A v \in TxUrbs : v \in BusyUrbs' => Carries(v)'
    BY <1>3, <1>4, <1>6, <2>1, <2>6, <2>7, <2>8
  <2> QED
    BY <1>2, <1>4, <2>1, <2>4, <2>5, <2>6, <2>7, <2>9
<1> QED
  BY <1>7, <1>8, <1>9, <1>10, <1>11 DEF SendStep

(* The invariants of places and packets need each other: a worker that     *)
(* handed up a packet that a sender has would lose the sender's URB.       *)
HifInv == TypeOK /\ PlaceInv /\ PacketInv

LEMMA HifInvStep == HifInv /\ [Next]_vars => HifInv'
<1> SUFFICES ASSUME TypeOK, PlaceInv, PacketInv, [Next]_vars
             PROVE  TypeOK' /\ PlaceInv' /\ PacketInv'
  BY DEF HifInv
<1>1. CASE \E c \in Contexts : PostStep(c)
  BY <1>1, TypePost, PlacePost, PacketPost
<1>2. CASE CompStep
  BY <1>2, TypeComp, PlaceComp, PacketComp
<1>3. CASE WorkStep
  <2>1. \A b \in Elements(io_comp_queue["tx"]) : b \in Packets /\ packet[b].pc = "hif"
    BY DEF PacketInv, QueueHandedUp, HandedUp
  <2> QED
    BY <1>3, <2>1, TypeWork, PlaceWork, PacketWork DEF WorkStep
<1>4. CASE \E p \in Packets : SendStep(p)
  BY <1>4, TypeSend, PlaceSend, PacketSend
<1>5. CASE TargetSends \/ TransferFails \/ TransmitDone
  BY <1>5, TypeTarget, PlaceTarget, PacketTarget
<1>6. CASE FlushStep
  BY <1>6, TypeFlush, PlaceFlush, PacketFlush
<1>7. CASE \/ HIFStart \/ hif_usb_suspend \/ Suspended \/ hif_usb_resume
           \/ Disconnect \/ HTCStop \/ StopStep
  BY <1>7, TypeControl, PlaceControl, PacketControl
<1>8. CASE UNCHANGED vars
  <2>1. UNCHANGED <<urb_list_head, urb_pending_list, core, giveback, comp, post,
                    packet, control, buf, io_comp_queue>>
    BY <1>8 DEF vars, listVars, usbVars, queueVars
  <2>2. /\ \A c \in Contexts : PostUrbs(c)' = PostUrbs(c)
        /\ \A p \in Packets : PacketUrbs(p)' = PacketUrbs(p)
        /\ BusyUrbs' = BusyUrbs
    BY <2>1 DEF PostUrbs, PacketUrbs, BusyUrbs, CoreUrbs, GivebackUrbs, CompUrbs
  <2>3. TypeOK'
    BY <1>8, TypeStutter
  <2>4. PlaceInv'
    BY <2>1, <2>2, PlaceKept
  <2>5. PacketInv'
    BY <2>1, <2>2, PacketsKept
  <2> QED
    BY <2>3, <2>4, <2>5
<1> QED
  BY <1>1, <1>2, <1>3, <1>4, <1>5, <1>6, <1>7, <1>8 DEF Next, Removed

LEMMA HifInvAlways == Spec => []HifInv
<1>1. Init => HifInv
  BY TypeInit, PlaceInit, PacketInit DEF HifInv
<1> QED
  BY <1>1, HifInvStep, PTL DEF Spec

(* A packet that HTC has back carries no context but the ones that         *)
(* refusals left: usb_hif_usb_transmit_complete and the error path of      *)
(* HIFSend_internal undo what was pushed or allocated, for any headroom    *)
(* and any number of packets.                                              *)
THEOREM ContextsComeBack == Spec => []OnlyRefusalsLeaveContext
<1>1. HifInv => OnlyRefusalsLeaveContext
  <2> SUFFICES ASSUME HifInv, NEW p \in Packets, packet[p].pc \in {"htc", "done"}
               PROVE  packet[p].layers + packet[p].contexts = packet[p].refused
    BY DEF OnlyRefusalsLeaveContext
  <2>1. packet[p] \in PacketRecords /\ Extra(p) = 0
    BY DEF HifInv, TypeOK, PacketType, PacketInv, IdleClean
  <2> QED
    BY <2>1 DEF Extra, PacketRecords
<1> QED
  BY <1>1, HifInvAlways, PTL

(* A list without duplicates has a URB once or not at all.                 *)
LEMMA OccursOnce ==
    ASSUME NEW S, NEW q \in Seq(S), Distinct(q), NEW u
    PROVE  Occurrences(u, q) = IF u \in Elements(q) THEN 1 ELSE 0
<1> DEFINE T == {u}
<1>1. {i \in 1..Len(q) : q[i] = u} = {i \in 1..Len(q) : q[i] \in T}
  OBVIOUS
<1>2. Occurrences(u, q) = Cardinality(Elements(q) \cap T)
  BY <1>1, CountElements DEF Occurrences
<1>3. Elements(q) \cap T = IF u \in Elements(q) THEN {u} ELSE {}
  OBVIOUS
<1> QED
  BY <1>2, <1>3, FS_EmptySet, FS_Singleton

(* Every URB context is in exactly one place, however the posting loops,   *)
(* senders, completion routines and flushes interleave, for any number of  *)
(* URBs and packets: no step loses one and none uses it twice.             *)
THEOREM UrbsInOnePlace == Spec => []UrbInOnePlace
<1>1. HifInv => UrbInOnePlace
  <2> SUFFICES ASSUME TypeOK, PlaceInv, control # "removed", NEW u \in Urbs
               PROVE
        /\ Occurrences(u, urb_list_head[PipeOf(u)]) + Cardinality(Holders(u))
              + Occurrences(u, UrbsOf(core[PipeOf(u)] \o giveback)) = 1
        /\ Occurrences(u, urb_list_head[PipeOf(u)])
              + Occurrences(u, urb_pending_list[PipeOf(u)]) <= 1
    BY DEF HifInv, UrbInOnePlace
  <2> DEFINE p == PipeOf(u)
             a == UrbsOf(core[p])
             b == UrbsOf(giveback)
  <2>1. /\ p \in Pipes /\ u # None
        /\ \A o \in Pipes : u \in UrbsOn(o) => o = p
    BY HifUsbAssumption DEF HifUsbAssumption, PipeOf, Urbs, UrbsOn, Pipes
  <2>2. /\ urb_list_head[p] \in Seq(UrbsOn(p)) /\ Distinct(urb_list_head[p])
        /\ urb_pending_list[p] \in Seq(UrbsOn(p)) /\ Distinct(urb_pending_list[p])
        /\ core[p] \in Seq(TransfersOn(p)) /\ giveback \in Seq(FinishedTransfers)
        /\ Distinct(a) /\ Distinct(b)
    BY <2>1 DEF TypeOK, ListTypes, PlaceInv, NoDuplicates
  <2>3. UrbsOf(core[p] \o giveback) = a \o b
    <3> DEFINE T == TransfersOn(p) \cup FinishedTransfers
    <3>1. HasUrbs(T)
      BY <2>1, TransfersHaveUrbs DEF HasUrbs
    <3>2. core[p] \in Seq(T) /\ giveback \in Seq(T)
      BY <2>2
    <3> HIDE DEF T
    <3> QED
      BY <3>1, <3>2, UrbsConcat
  <2>4. a \in Seq(Urbs) /\ b \in Seq(Urbs)
    BY <2>1, <2>2, UrbsAre, TransfersHaveUrbs
  <2>5. PICK k \in Tokens : u \in Held[k]
    BY DEF PlaceInv, Kept
  <2> DEFINE x == <<"free", p>>
             z == <<"core", p>>
             g == <<"giveback", None>>
  <2>6. /\ u \in FreeUrbs(p) <=> k = x
        /\ u \in CoreUrbs(p) <=> k = z
        /\ \A c \in Contexts : u \in PostUrbs(c) <=> k = <<"post", c>>
        /\ \A q \in Packets : u \in PacketUrbs(q) <=> k = <<"packet", q>>
        /\ u \in CompUrbs <=> k = <<"comp", None>>
        /\ u \in GivebackUrbs <=> k = g
    <3>1. /\ k = x => u \in FreeUrbs(p)
          /\ k = z => u \in CoreUrbs(p)
          /\ \A c \in Contexts : k = <<"post", c>> => u \in PostUrbs(c)
          /\ \A q \in Packets : k = <<"packet", q>> => u \in PacketUrbs(q)
          /\ k = <<"comp", None>> => u \in CompUrbs
          /\ k = g => u \in GivebackUrbs
      BY <2>1, <2>5, HeldAt, Zenon
    <3> QED
      BY <2>1, <2>5, <3>1, OnlyThere
  <2>7. Elements(a) \cap Elements(b) = {}
    <3>1. ASSUME NEW v, v \in Elements(a), v \in Elements(b) PROVE FALSE
      <4>1. z \in Tokens /\ Held[z] = Elements(a)
        BY <2>1, TokensAre, HeldAt, Zenon DEF CoreUrbs
      <4>2. v \in GivebackUrbs => z = g
        BY <3>1, <4>1, OnlyThere
      <4> QED
        BY <3>1, <4>2 DEF GivebackUrbs
    <3> QED
      BY <3>1
  <2>8. /\ a \o b \in Seq(Urbs) /\ Distinct(a \o b)
        /\ u \in Elements(a \o b) <=> k = z \/ k = g
    <3>1. u \in Elements(a) <=> k = z
      BY <2>6 DEF CoreUrbs
    <3>2. u \in Elements(b) <=> k = g
      BY <2>6 DEF GivebackUrbs
    <3> HIDE DEF a, b, z, g
    <3>3. /\ a \o b \in Seq(Urbs) /\ Distinct(a \o b)
          /\ Elements(a \o b) = Elements(a) \cup Elements(b)
      BY <2>2, <2>4, <2>7, ElementsConcat
    <3> QED
      BY <3>1, <3>2, <3>3
  <2>9. Occurrences(u, UrbsOf(core[p] \o giveback)) = IF k = z \/ k = g THEN 1 ELSE 0
    <3> DEFINE e == a \o b
    <3> HIDE DEF e
    <3>1. Occurrences(u, e) = IF u \in Elements(e) THEN 1 ELSE 0
      BY <2>8, OccursOnce DEF e
    <3> QED
      BY <2>3, <2>8, <3>1 DEF e
  <2>10. Occurrences(u, urb_list_head[p]) = IF k = x THEN 1 ELSE 0
    BY <2>2, <2>6, OccursOnce DEF FreeUrbs
  <2>11. Cardinality(Holders(u)) = IF k = x \/ k = z \/ k = g THEN 0 ELSE 1
    <3>1. Holders(u) = {c \in Contexts : k = <<"post", c>>}
                       \cup {q \in Packets : k = <<"packet", q>>}
                       \cup (IF k = <<"comp", None>> THEN {"routine"} ELSE {})
      <4>1. {c \in Contexts : post[c].urb = u} = {c \in Contexts : k = <<"post", c>>}
        BY <2>1, <2>6 DEF PostUrbs
      <4>2. {q \in Packets : packet[q].urb = u /\ packet[q].pc # "hif"}
               = {q \in Packets : k = <<"packet", q>>}
        BY <2>1, <2>6 DEF PacketUrbs
      <4>3. (/\ u = comp.urb
             /\ \/ comp.pc = "cleanup"
                \/ comp.kind # "transmit" /\ comp.pc \in {"queue", "schedule"})
             <=> k = <<"comp", None>>
        BY <2>6 DEF CompUrbs
      <4> QED
        BY <4>1, <4>2, <4>3 DEF Holders
    <3>2. \/ k = x \/ k = z \/ k = g \/ k = <<"comp", None>>
          \/ (\E c \in Contexts : k = <<"post", c>>)
          \/ (\E q \in Packets : k = <<"packet", q>>)
      <4>1. ASSUME NEW o \in Pipes, k = <<"free", o>> PROVE o = p
        <5>1. u \in Elements(urb_list_head[o])
          BY <2>5, <4>1, HeldAt, Zenon DEF FreeUrbs
        <5>2. urb_list_head[o] \in Seq(UrbsOn(o))
          BY DEF TypeOK, ListTypes
        <5> QED
          BY <2>1, <5>1, <5>2, ElementsType
      <4>2. ASSUME NEW o \in Pipes, k = <<"core", o>> PROVE o = p
        <5> DEFINE q == core[o]
        <5>1. u \in Elements(UrbsOf(q)) /\ q \in Seq(TransfersOn(o))
          BY <2>5, <4>2, HeldAt DEF CoreUrbs, TypeOK, ListTypes
        <5>2. /\ Len(UrbsOf(q)) = Len(q)
              /\ \A i \in 1..Len(q) :
                    UrbsOf(q)[i] = q[i].urb /\ q[i] \in TransfersOn(o)
          BY <5>1, UrbsAre, TransfersHaveUrbs
        <5>3. PICK i \in 1..Len(q) : UrbsOf(q)[i] = u
          BY <5>1, <5>2 DEF Elements
        <5>4. q[i].urb \in UrbsOn(o)
          BY <5>2 DEF TransfersOn
        <5> QED
          BY <2>1, <5>2, <5>3, <5>4
      <4> QED
        BY <4>1, <4>2, TokenKinds
    <3>3. CASE k = x \/ k = z \/ k = g
      <4>1. Holders(u) = {}
        BY <3>1, <3>3
      <4> QED
        BY <3>3, <4>1, FS_EmptySet
    <3>4. CASE k = <<"comp", None>>
      <4>1. Holders(u) = {"routine"}
        BY <3>1, <3>4
      <4> QED
        BY <3>4, <4>1, FS_Singleton
    <3>5. ASSUME NEW c \in Contexts, k = <<"post", c>>
          PROVE  Cardinality(Holders(u)) = IF k = x \/ k = z \/ k = g THEN 0 ELSE 1
      <4>1. Holders(u) = {c}
        BY <3>1, <3>5
      <4> QED
        BY <3>5, <4>1, FS_Singleton
    <3>6. ASSUME NEW q \in Packets, k = <<"packet", q>>
          PROVE  Cardinality(Holders(u)) = IF k = x \/ k = z \/ k = g THEN 0 ELSE 1
      <4>1. Holders(u) = {q}
        BY <3>1, <3>6
      <4> QED
        BY <3>6, <4>1, FS_Singleton
    <3> QED
      BY <3>2, <3>3, <3>4, <3>5, <3>6
  <2>12. Occurrences(u, urb_pending_list[p]) =
            IF u \in Elements(urb_pending_list[p]) THEN 1 ELSE 0
    BY <2>2, OccursOnce
  <2>13. k = x => u \notin Elements(urb_pending_list[p])
    <3> SUFFICES ASSUME k = x, InFlight(u) PROVE FALSE
      BY <2>1 DEF PlaceInv, PendingInFlight
    <3>1. ASSUME NEW c \in Contexts, post[c].urb = u PROVE FALSE
      BY <2>1, <2>6, <3>1 DEF PostUrbs
    <3>2. ASSUME NEW q \in Packets, packet[q].pc = "submit", packet[q].urb = u
          PROVE  FALSE
      BY <2>1, <2>6, <3>2 DEF PacketUrbs
    <3>3. ASSUME NEW o \in Pipes, u \in CoreUrbs(o) PROVE FALSE
      <4>1. x = <<"core", o>>
        BY <2>5, <3>3, OnlyThere
      <4> QED
        BY <4>1
    <3>4. u \notin GivebackUrbs
      BY <2>6
    <3> QED
      BY <3>1, <3>2, <3>3, <3>4 DEF InFlight
  <2>14. x # z /\ x # g /\ z # g
    OBVIOUS
  <2> HIDE DEF x, z, g, a, b
  <2> QED
    BY <2>9, <2>10, <2>11, <2>12, <2>13, <2>14
<1> QED
  BY <1>1, HifInvAlways, PTL
-----------------------------------------------------------------------------
(* The completion routine keeps its place while others run.                *)
LEMMA StrandedPost ==
    ASSUME TypeOK, NoBufferStranded, NEW c \in Contexts, PostStep(c)
    PROVE  NoBufferStranded'
<1>1. /\ UNCHANGED <<io_comp_queue, io_complete_work, worker>>
      /\ post[c].pc # "off"
      /\ comp' = comp \/ c = "comp"
  BY DEF PostStep, PostNoUrb, PostAlloc, PostNoBuffer, PostEnqueue, PostSubmit,
         PostSubmitFails, EndPost, queueVars, deliveryVars
<1>2. comp' = comp \/ comp.pc # "schedule"
  BY <1>1 DEF TypeOK, PostType
<1> QED
  BY <1>1, <1>2 DEF NoBufferStranded

LEMMA StrandedComp ==
    ASSUME TypeOK, NoBufferStranded, CompStep
    PROVE  NoBufferStranded'
<1>1. worker' = worker
  BY DEF CompStep, CompBegin, CompQueue, CompSchedule, CompCleanupRecv,
         CompCleanupTransmit, CompPrestart, CompRepost, deliveryVars
<1> DEFINE o == PipeOf(comp.urb)
<1>2. CASE CompQueue
  <2>1. /\ \A p \in Pipes : p # o => io_comp_queue'[p] = io_comp_queue[p]
        /\ comp.pc = "queue" /\ comp'.pc = "schedule" /\ comp'.urb = comp.urb
        /\ UNCHANGED io_complete_work
    BY <1>2 DEF CompQueue, TypeOK, ListTypes, CompType
  <2> QED
    BY <1>1, <2>1 DEF NoBufferStranded
<1>3. CASE CompSchedule
  <2>1. /\ \A p \in Pipes : p = o => io_complete_work'[p]
        /\ \A p \in Pipes : p # o => io_complete_work'[p] = io_complete_work[p]
        /\ UNCHANGED io_comp_queue
    BY <1>3 DEF CompSchedule, TypeOK, ValueTypes
  <2> QED
    BY <1>1, <2>1 DEF NoBufferStranded
<1>4. CASE ~CompQueue /\ ~CompSchedule
  <2>1. UNCHANGED <<io_comp_queue, io_complete_work>> /\ comp.pc # "schedule"
    BY <1>4 DEF CompStep, CompBegin, CompCleanupRecv, CompCleanupTransmit,
                CompPrestart, CompRepost, queueVars
  <2> QED
    BY <1>1, <2>1 DEF NoBufferStranded
<1> QED
  BY <1>2, <1>3, <1>4

LEMMA StrandedWork ==
    ASSUME TypeOK, NoBufferStranded, NEW p \in Pipes,
           WorkBegin(p) \/ WorkCallback(p) \/ WorkEnd(p)
    PROVE  NoBufferStranded'
<1>1. UNCHANGED comp
  BY DEF WorkBegin, WorkCallback, WorkEnd
<1>2. CASE WorkBegin(p)
  <2>1. /\ worker'[p] /\ UNCHANGED io_comp_queue
        /\ \A q \in Pipes : q # p => /\ worker'[q] = worker[q]
                                     /\ io_complete_work'[q] = io_complete_work[q]
    BY <1>2 DEF WorkBegin, TypeOK, ValueTypes
  <2> QED
    BY <1>1, <2>1 DEF NoBufferStranded
<1>3. CASE WorkCallback(p)
  <2>1. /\ worker'[p] /\ UNCHANGED <<worker, io_complete_work>>
        /\ \A q \in Pipes : q # p => io_comp_queue'[q] = io_comp_queue[q]
    BY <1>3 DEF WorkCallback, TypeOK, ListTypes
  <2> QED
    BY <1>1, <2>1 DEF NoBufferStranded
<1>4. CASE WorkEnd(p)
  <2>1. /\ io_comp_queue[p] = <<>> /\ UNCHANGED <<io_comp_queue, io_complete_work>>
        /\ \A q \in Pipes : q # p => worker'[q] = worker[q]
    BY <1>4 DEF WorkEnd, QueueDrained, queueVars, TypeOK, ValueTypes
  <2> QED
    BY <1>1, <2>1 DEF NoBufferStranded
<1> QED
  BY <1>2, <1>3, <1>4

(* A step of anyone else leaves the queues, the work items and the         *)
(* completion routine alone.                                               *)
LEMMA QueuesLeft ==
    ASSUME \/ \E p \in Packets : SendStep(p)
           \/ TargetSends \/ TransferFails \/ TransmitDone
           \/ FlushStep
           \/ HIFStart \/ hif_usb_suspend \/ Suspended \/ hif_usb_resume
           \/ Disconnect \/ HTCStop \/ StopStep
           \/ UNCHANGED vars
    PROVE  UNCHANGED <<io_comp_queue, io_complete_work, worker, comp, delivered,
                       inOrder, orphans>>
<1>1. ASSUME NEW p \in Packets, SendStep(p)
      PROVE  UNCHANGED <<io_comp_queue, io_complete_work, worker, comp, delivered,
                         inOrder, orphans>>
  BY <1>1 DEF SendStep, SendAlloc, SendNoUrb, SendEnqueue, SendSubmit,
              SendSubmitFails, queueVars, deliveryVars
<1>2. CASE TargetSends \/ TransferFails \/ TransmitDone
  BY <1>2 DEF TargetSends, TransferFails, TransmitDone, Finish, queueVars,
              deliveryVars
<1>3. CASE FlushStep
  BY <1>3 DEF FlushStep, FlushTake, FlushKill, FlushWait, FlushWork, queueVars,
              deliveryVars
<1>4. CASE \/ HIFStart \/ hif_usb_suspend \/ Suspended \/ hif_usb_resume
           \/ Disconnect \/ HTCStop \/ StopStep
  BY <1>4 DEF HIFStart, hif_usb_suspend, Suspended, hif_usb_resume, Disconnect,
              HTCStop, StopStep, HTCDestroy, HIFDetachHTC, Detached,
              usb_hif_destroy, usb_hif_cleanup_pipe_resources, queueVars,
              deliveryVars
<1>5. CASE UNCHANGED vars
  BY <1>5 DEF vars, queueVars, deliveryVars
<1> QED
  BY <1>1, <1>2, <1>3, <1>4, <1>5

LEMMA StrandedStep == TypeOK /\ NoBufferStranded /\ [Next]_vars => NoBufferStranded'
<1> SUFFICES ASSUME TypeOK, NoBufferStranded, [Next]_vars PROVE NoBufferStranded'
  OBVIOUS
<1>1. ASSUME UNCHANGED <<io_comp_queue, io_complete_work, worker, comp>>
      PROVE  NoBufferStranded'
  BY <1>1 DEF NoBufferStranded
<1> QED
  BY <1>1, StrandedPost, StrandedComp, StrandedWork, QueuesLeft
     DEF Next, WorkStep, Removed

(* usb_hif_io_comp_work never leaves a buffer behind: whatever is on       *)
(* io_comp_queue has a work item that is queued or runs, or the routine    *)
(* that put it there is about to schedule one.                             *)
THEOREM BuffersAreNotStranded == Spec => []NoBufferStranded
<1>1. Init => NoBufferStranded
  BY DEF Init, NoBufferStranded, Pipes
<1>2. HifInv => TypeOK
  BY DEF HifInv
<1> QED
  BY <1>1, <1>2, StrandedStep, HifInvAlways, PTL DEF Spec
-----------------------------------------------------------------------------
(* A device that is gone, and a suspended one, has no transfer.            *)
StopInv == ~enabled => \A p \in Pipes : core[p] = <<>>

LEMMA StopStepKept ==
    ASSUME TypeOK, StopInv, [Next]_vars
    PROVE  StopInv'
<1>1. CASE \E c \in Contexts : PostStep(c)
  BY <1>1 DEF StopInv, PostStep, PostNoUrb, PostAlloc, PostNoBuffer, PostEnqueue,
              PostSubmit, PostSubmitFails, usbVars
<1>2. CASE CompStep
  BY <1>2 DEF StopInv, CompStep, CompBegin, CompQueue, CompSchedule, CompCleanupRecv,
              CompCleanupTransmit, CompPrestart, CompRepost, usbVars
<1>3. CASE WorkStep
  BY <1>3 DEF StopInv, WorkStep, WorkBegin, WorkCallback, WorkEnd, usbVars
<1>4. CASE \E p \in Packets : SendStep(p)
  BY <1>4 DEF StopInv, SendStep, SendAlloc, SendNoUrb, SendEnqueue, SendSubmit,
              SendSubmitFails, usbVars
<1>5. CASE TargetSends \/ TransferFails \/ TransmitDone
  <2>1. (\E p \in Pipes : core[p] # <<>>) /\ UNCHANGED enabled
    BY <1>5 DEF TargetSends, TransferFails, TransmitDone, Finish, Pipes
  <2> QED
    BY <2>1 DEF StopInv
<1>6. CASE FlushStep
  <2>1. UNCHANGED enabled
    BY <1>6 DEF FlushStep, FlushTake, FlushKill, FlushWait, FlushWork, usbVars
  <2>2. ASSUME ~enabled PROVE core' = core
    <3>1. core[flush.pipe] = <<>>
      BY <2>2 DEF StopInv, TypeOK, ControlType
    <3>2. {i \in 1..Len(<<>>) : <<>>[i].urb = flush.urb} = {}
      OBVIOUS
    <3> QED
      BY <1>6, <3>1, <3>2 DEF FlushStep, FlushTake, FlushKill, FlushWait,
                              FlushWork, usbVars
  <2> QED
    BY <2>1, <2>2 DEF StopInv
<1>7. CASE Suspended \/ Disconnect
  BY <1>7 DEF Suspended, Disconnect, CancelAll, StopInv
<1>8. CASE HIFStart \/ hif_usb_suspend \/ hif_usb_resume \/ HTCStop \/ StopStep
  BY <1>8 DEF HIFStart, hif_usb_suspend, hif_usb_resume, HTCStop, StopStep, HTCDestroy,
              HIFDetachHTC, Detached, usb_hif_destroy, usb_hif_cleanup_pipe_resources,
              StopInv, usbVars
<1>9. CASE UNCHANGED vars
  BY <1>9 DEF vars, usbVars, StopInv
<1> QED
  BY <1>1, <1>2, <1>3, <1>4, <1>5, <1>6, <1>7, <1>8, <1>9 DEF Next, Removed

LEMMA StopAlways == Spec => []StopInv
<1>1. Init => StopInv
  BY DEF Init, StopInv
<1>2. HifInv /\ StopInv /\ [Next]_vars => StopInv'
  BY StopStepKept DEF HifInv
<1> QED
  BY <1>1, <1>2, HifInvAlways, PTL DEF Spec
-----------------------------------------------------------------------------
(* Counting the prestart transfers of a list.                              *)
PrestartAt(ts, i) == ts[i].kind = "prestart"
PrestartSet(ts) == {i \in 1..Len(ts) : PrestartAt(ts, i)}

LEMMA PrestartsAre ==
    ASSUME NEW ts, Len(ts) \in Nat
    PROVE  /\ IsFiniteSet(PrestartSet(ts)) /\ PrestartSet(ts) \subseteq 1..Len(ts)
           /\ Prestarts(ts) = Cardinality(PrestartSet(ts))
           /\ Prestarts(ts) \in Nat
<1> DEFINE I == PrestartSet(ts)
           N == 1..Len(ts)
<1>1. IsFiniteSet(N) /\ I \in SUBSET N
  BY FS_Interval DEF PrestartSet
<1>2. Prestarts(ts) = Cardinality(I)
  BY DEF Prestarts, PrestartSet, PrestartAt
<1> HIDE DEF I, N
<1>3. IsFiniteSet(I)
  BY <1>1, FS_Subset
<1>4. Cardinality(I) \in Nat
  BY <1>3, FS_CardinalityType
<1> QED
  BY <1>1, <1>2, <1>3, <1>4 DEF I, N

(* A list that lacks the i-th member of another.                           *)
LEMMA PrestartsLess ==
    ASSUME NEW q, NEW r, Len(q) \in Nat, Len(r) \in Nat, Len(q) = Len(r) + 1,
           NEW i \in 1..Len(q),
           \A j \in 1..Len(r) : r[j] = IF j < i THEN q[j] ELSE q[j + 1]
    PROVE  Prestarts(q) = Prestarts(r) + (IF q[i].kind = "prestart" THEN 1 ELSE 0)
<1> DEFINE I == PrestartSet(q)
           J == PrestartSet(r)
           D == I \ {i}
           n == Len(r)
<1>1. /\ IsFiniteSet(I) /\ IsFiniteSet(J)
      /\ Prestarts(q) = Cardinality(I) /\ Prestarts(r) = Cardinality(J)
      /\ Prestarts(q) \in Nat
  BY PrestartsAre
<1>2. ASSUME NEW j \in 1..n, j < i PROVE j \in J <=> j \in D
  <2>1. r[j] = q[j]
    BY <1>2
  <2>2. PrestartAt(r, j) <=> PrestartAt(q, j)
    BY <2>1, Zenon DEF PrestartAt
  <2> QED
    BY <1>2, <2>2 DEF PrestartSet
<1>3. ASSUME NEW j \in 1..n, ~(j < i) PROVE j \in J <=> j + 1 \in D
  <2>1. r[j] = q[j + 1]
    BY <1>3
  <2>2. PrestartAt(r, j) <=> PrestartAt(q, j + 1)
    BY <2>1, Zenon DEF PrestartAt
  <2> QED
    BY <1>3, <2>2 DEF PrestartSet
<1>4. J \subseteq 1..n /\ D \subseteq (1..(n + 1)) \ {i}
  BY DEF PrestartSet
<1> HIDE DEF J, D, n
<1> DEFINE f == [j \in J |-> IF j < i THEN j ELSE j + 1]
<1>5. i \in 1..(n + 1) /\ n \in Nat
  BY DEF n
<1>6. f \in [J -> D]
  BY <1>2, <1>3, <1>4, <1>5
<1>7. \A a, b \in J : f[a] = f[b] => a = b
  BY <1>4, <1>5
<1>8. ASSUME NEW d \in D PROVE \E a \in J : f[a] = d
  <2>1. CASE d < i
    <3>1. d \in 1..n
      BY <1>4, <1>5, <2>1
    <3> QED
      BY <1>2, <2>1, <3>1
  <2>2. CASE ~(d < i)
    <3>1. d - 1 \in 1..n /\ ~(d - 1 < i) /\ d = (d - 1) + 1
      BY <1>4, <1>5, <2>2
    <3>2. d - 1 \in J
      BY <1>3, <3>1
    <3>3. f[d - 1] = d
      BY <3>1, <3>2
    <3> QED
      BY <3>2, <3>3
  <2> QED
    BY <2>1, <2>2
<1> HIDE DEF f
<1>9. ExistsBijection(J, D)
  <2>1. f \in Bijection(J, D)
    BY <1>6, <1>7, <1>8 DEF Bijection, Injection, Surjection, IsInjective
  <2> QED
    BY <2>1 DEF ExistsBijection
<1>10. Cardinality(D) = Cardinality(J)
  BY <1>1, <1>9, FS_Bijection
<1> DEFINE P == q[i].kind = "prestart"
<1>11. P <=> i \in I
  BY DEF PrestartSet, PrestartAt
<1> HIDE DEF I, P
<1>12. Cardinality(D) = IF i \in I THEN Cardinality(I) - 1 ELSE Cardinality(I)
  BY <1>1, FS_RemoveElement DEF D
<1>13. Prestarts(q) = Prestarts(r) + (IF P THEN 1 ELSE 0)
  BY <1>1, <1>10, <1>11, <1>12
<1> QED
  BY <1>13 DEF P

LEMMA RemoveAtMembers ==
    ASSUME NEW S, NEW q \in Seq(S), NEW i \in 1..Len(q)
    PROVE  /\ RemoveAt(q, i) \in Seq(S) /\ Len(q) = Len(RemoveAt(q, i)) + 1
           /\ \A j \in 1..Len(RemoveAt(q, i)) :
                 RemoveAt(q, i)[j] = IF j < i THEN q[j] ELSE q[j + 1]
<1> DEFINE n == Len(q)
           f == SubSeq(q, 1, i - 1)
           r == SubSeq(q, i + 1, n)
<1>1. n \in Nat /\ (\A j \in 1..n : q[j] \in S) /\ i \in 1..n
  BY LenProperties, ElementOfSeq
<1> HIDE DEF n
<1>2. /\ f \in Seq(S) /\ Len(f) = i - 1 /\ \A j \in 1..(i - 1) : f[j] = q[j]
  <2>1. 1 \in Int /\ i - 1 \in Int /\ \A j \in 1..(i - 1) : q[j] \in S
    BY <1>1
  <2>2. /\ f \in Seq(S) /\ Len(f) = IF 1 <= i - 1 THEN i - 1 - 1 + 1 ELSE 0
        /\ \A j \in 1..(i - 1 - 1 + 1) : f[j] = q[1 + j - 1]
    BY <2>1, SubSeqProperties
  <2> HIDE DEF f
  <2> QED
    BY <1>1, <2>2
<1>3. /\ r \in Seq(S) /\ Len(r) = n - i /\ \A j \in 1..(n - i) : r[j] = q[i + j]
  <2>1. i + 1 \in Int /\ n \in Int /\ \A j \in (i + 1)..n : q[j] \in S
    BY <1>1
  <2>2. /\ r \in Seq(S) /\ Len(r) = IF i + 1 <= n THEN n - (i + 1) + 1 ELSE 0
        /\ \A j \in 1..(n - (i + 1) + 1) : r[j] = q[i + 1 + j - 1]
    BY <2>1, SubSeqProperties
  <2> HIDE DEF r
  <2> QED
    BY <1>1, <2>2
<1> HIDE DEF f, r
<1> DEFINE w == f \o r
<1>4. /\ w \in Seq(S) /\ Len(w) = (i - 1) + (n - i)
      /\ \A j \in 1..((i - 1) + (n - i)) :
            w[j] = IF j <= i - 1 THEN f[j] ELSE r[j - (i - 1)]
  <2>1. /\ w \in Seq(S) /\ Len(w) = Len(f) + Len(r)
        /\ \A j \in 1..(Len(f) + Len(r)) :
              w[j] = IF j <= Len(f) THEN f[j] ELSE r[j - Len(f)]
    BY <1>2, <1>3, ConcatProperties
  <2>2. Len(f) = i - 1 /\ Len(r) = n - i
    BY <1>2, <1>3
  <2> HIDE DEF w
  <2> QED
    BY <2>1, <2>2
<1>5. RemoveAt(q, i) = w
  BY DEF RemoveAt, f, r, n
<1> HIDE DEF w
<1>6. n = Len(w) + 1
  BY <1>1, <1>4
<1>7. ASSUME NEW j \in 1..Len(w) PROVE w[j] = IF j < i THEN q[j] ELSE q[j + 1]
  <2>1. CASE j < i
    BY <1>1, <1>2, <1>4, <2>1
  <2>2. CASE ~(j < i)
    <3>1. w[j] = r[j - (i - 1)] /\ j - (i - 1) \in 1..(n - i)
      BY <1>1, <1>4, <2>2
    <3>2. r[j - (i - 1)] = q[i + (j - (i - 1))] /\ i + (j - (i - 1)) = j + 1
      BY <1>1, <1>3, <3>1
    <3> QED
      BY <2>2, <3>1, <3>2
  <2> QED
    BY <2>1, <2>2
<1> QED
  BY <1>4, <1>5, <1>6, <1>7 DEF n

(* One transfer more or one less.                                          *)
LEMMA PrestartsStep ==
    ASSUME NEW S, NEW q \in Seq(S)
    PROVE  /\ \A t \in S : Prestarts(Append(q, t))
                 = Prestarts(q) + (IF t.kind = "prestart" THEN 1 ELSE 0)
           /\ q # <<>> => Prestarts(q) = Prestarts(Tail(q))
                             + (IF Head(q).kind = "prestart" THEN 1 ELSE 0)
           /\ \A i \in 1..Len(q) : Prestarts(q) = Prestarts(RemoveAt(q, i))
                             + (IF q[i].kind = "prestart" THEN 1 ELSE 0)
<1>0. Len(q) \in Nat
  BY LenProperties
<1>1. ASSUME NEW t \in S
      PROVE  Prestarts(Append(q, t))
                 = Prestarts(q) + (IF t.kind = "prestart" THEN 1 ELSE 0)
  <2> DEFINE a == Append(q, t)
             n == Len(q) + 1
  <2>1. /\ Len(a) = Len(q) + 1 /\ a[n] = t
        /\ \A j \in 1..Len(q) : a[j] = q[j]
    BY AppendProperties
  <2> HIDE DEF a
  <2>2. /\ Len(a) \in Nat /\ n \in 1..Len(a)
        /\ \A j \in 1..Len(q) : q[j] = IF j < n THEN a[j] ELSE a[j + 1]
    BY <1>0, <2>1
  <2>3. Prestarts(a) = Prestarts(q) + (IF a[n].kind = "prestart" THEN 1 ELSE 0)
    BY <1>0, <2>1, <2>2, PrestartsLess
  <2> HIDE DEF n
  <2> QED
    BY <2>1, <2>3 DEF a
<1>2. ASSUME q # <<>>
      PROVE  Prestarts(q) = Prestarts(Tail(q))
                             + (IF Head(q).kind = "prestart" THEN 1 ELSE 0)
  <2> DEFINE r == Tail(q)
  <2>1. /\ Len(r) = Len(q) - 1 /\ \A j \in 1..Len(r) : r[j] = q[j + 1]
        /\ Len(q) # 0 /\ Head(q) = q[1]
    BY <1>2, HeadTailProperties, EmptySeq
  <2> HIDE DEF r
  <2>2. /\ Len(r) \in Nat /\ Len(q) = Len(r) + 1 /\ 1 \in 1..Len(q)
        /\ \A j \in 1..Len(r) : r[j] = IF j < 1 THEN q[j] ELSE q[j + 1]
    BY <1>0, <2>1
  <2>3. Prestarts(q) = Prestarts(r) + (IF q[1].kind = "prestart" THEN 1 ELSE 0)
    BY <1>0, <2>2, PrestartsLess
  <2> QED
    BY <2>1, <2>3 DEF r
<1>3. ASSUME NEW i \in 1..Len(q)
      PROVE  Prestarts(q) = Prestarts(RemoveAt(q, i))
                             + (IF q[i].kind = "prestart" THEN 1 ELSE 0)
  <2> DEFINE r == RemoveAt(q, i)
  <2>1. /\ r \in Seq(S) /\ Len(q) = Len(r) + 1
        /\ \A j \in 1..Len(r) : r[j] = IF j < i THEN q[j] ELSE q[j + 1]
    BY RemoveAtMembers
  <2> HIDE DEF r
  <2>2. Len(r) \in Nat
    BY <2>1, LenProperties
  <2>3. Prestarts(q) = Prestarts(r) + (IF q[i].kind = "prestart" THEN 1 ELSE 0)
    BY <1>0, <2>1, <2>2, PrestartsLess
  <2> QED
    BY <2>3 DEF r
<1> QED
  BY <1>1, <1>2, <1>3

LEMMA PrestartsConcat ==
    ASSUME NEW S, NEW q \in Seq(S), NEW s \in Seq(S)
    PROVE  Prestarts(q \o s) = Prestarts(q) + Prestarts(s)
<1> DEFINE m == Len(q)
           n == Len(s)
           w == q \o s
           I == PrestartSet(q)
           J == PrestartSet(s)
           K == PrestartSet(w)
           M == K \ I
<1>1. /\ m \in Nat /\ n \in Nat /\ Len(w) = m + n
      /\ \A i \in 1..(m + n) : w[i] = IF i <= m THEN q[i] ELSE s[i - m]
  BY LenProperties, ConcatProperties
<1> HIDE DEF w
<1>2. /\ IsFiniteSet(I) /\ IsFiniteSet(J) /\ IsFiniteSet(K)
      /\ Prestarts(q) = Cardinality(I) /\ Prestarts(s) = Cardinality(J)
      /\ Prestarts(w) = Cardinality(K)
      /\ I \subseteq 1..m /\ J \subseteq 1..n /\ K \subseteq 1..(m + n)
  BY <1>1, PrestartsAre
<1>3. ASSUME NEW i \in 1..m PROVE i \in I <=> i \in K
  <2>1. w[i] = q[i] /\ i \in 1..Len(w)
    BY <1>1
  <2>2. PrestartAt(w, i) <=> PrestartAt(q, i)
    BY <2>1, Zenon DEF PrestartAt
  <2> QED
    BY <2>1, <2>2 DEF PrestartSet
<1>4. ASSUME NEW j \in 1..n PROVE j \in J <=> j + m \in M
  <2>1. w[j + m] = s[j] /\ j + m \in 1..Len(w) /\ j + m \notin 1..m
    <3>1. j + m \in 1..(m + n) /\ ~(j + m <= m) /\ j + m - m = j
      BY <1>1
    <3> QED
      BY <1>1, <3>1
  <2>2. PrestartAt(w, j + m) <=> PrestartAt(s, j)
    BY <2>1, Zenon DEF PrestartAt
  <2>3. j + m \notin I
    BY <1>2, <2>1
  <2> QED
    BY <2>1, <2>2, <2>3 DEF PrestartSet
<1>5. \A k \in M : k - m \in 1..n /\ k = (k - m) + m
  BY <1>1, <1>2, <1>3
<1> HIDE DEF I, J, K, M, m, n
<1> DEFINE f == [j \in J |-> j + m]
<1>6. f \in [J -> M]
  BY <1>2, <1>4
<1>7. \A a, b \in J : f[a] = f[b] => a = b
  BY <1>1, <1>2
<1>8. ASSUME NEW k \in M PROVE \E j \in J : f[j] = k
  <2>1. k - m \in J
    BY <1>4, <1>5
  <2> QED
    BY <1>5, <2>1
<1> HIDE DEF f
<1>9. ExistsBijection(J, M)
  <2>1. f \in Bijection(J, M)
    BY <1>6, <1>7, <1>8 DEF Bijection, Injection, Surjection, IsInjective
  <2> QED
    BY <2>1 DEF ExistsBijection
<1>10. IsFiniteSet(M) /\ Cardinality(M) = Cardinality(J)
  BY <1>2, <1>9, FS_Bijection
<1>11. K = I \cup M /\ I \cap M = {}
  BY <1>2, <1>3 DEF M
<1>12. /\ Cardinality(K) = Cardinality(I) + Cardinality(M) - Cardinality(I \cap M)
       /\ Cardinality({}) = 0
  BY <1>2, <1>10, <1>11, FS_Union, FS_EmptySet
<1>13. Cardinality(I) \in Nat /\ Cardinality(M) \in Nat
  BY <1>2, <1>10, FS_CardinalityType
<1>14. Prestarts(w) = Prestarts(q) + Prestarts(s)
  <2> DEFINE a == Cardinality(I)
             b == Cardinality(M)
             c == Cardinality(K)
             d == Cardinality(I \cap M)
  <2>1. d = 0
    BY <1>11, <1>12, Zenon
  <2>2. c = a + b - d /\ a \in Nat /\ b \in Nat
    BY <1>12, <1>13, Zenon
  <2>3. Prestarts(q) = a /\ Prestarts(s) = b /\ Prestarts(w) = c
    BY <1>2, <1>10, Zenon
  <2> HIDE DEF a, b, c, d
  <2>4. c = a + b
    BY <2>1, <2>2
  <2> QED
    BY <2>3, <2>4, Zenon
<1> QED
  BY <1>14 DEF w

(* Unlinked transfers keep their routine, and those of the transmit pipe   *)
(* have another one.                                                       *)
LEMMA PrestartsCancelled ==
    ASSUME NEW p \in Pipes, NEW q \in Seq(TransfersOn(p))
    PROVE  /\ Prestarts(Cancelled(q)) = Prestarts(q)
           /\ p = "tx" => Prestarts(q) = 0
<1> DEFINE c == Cancelled(q)
           n == Len(q)
<1>1. /\ n \in Nat /\ c \in Seq(FinishedTransfers) /\ Len(c) = n
      /\ \A i \in 1..n : c[i] = Finished(q[i], "cancelled", <<>>)
      /\ \A i \in 1..n : q[i] \in TransfersOn(p)
  BY CancelledType, LenProperties, ElementOfSeq
<1> HIDE DEF c
<1>2. ASSUME NEW i \in 1..n PROVE PrestartAt(c, i) <=> PrestartAt(q, i)
  <2>1. c[i] = Finished(q[i], "cancelled", <<>>)
    BY <1>1, Zenon
  <2>2. Finished(q[i], "cancelled", <<>>).kind = q[i].kind
    BY DEF Finished
  <2> QED
    BY <2>1, <2>2, Zenon DEF PrestartAt
<1>3. PrestartSet(c) = PrestartSet(q)
  BY <1>1, <1>2 DEF PrestartSet
<1>4. Prestarts(c) = Prestarts(q)
  <2>1. Len(c) \in Nat
    BY <1>1
  <2> QED
    BY <1>1, <1>3, <2>1, PrestartsAre
<1>5. ASSUME p = "tx" PROVE Prestarts(q) = 0
  <2>1. ASSUME NEW i \in 1..n PROVE ~PrestartAt(q, i)
    <3>1. q[i] \in TransfersOn("tx")
      BY <1>1, <1>5
    <3>2. q[i].kind = "transmit"
      BY <3>1 DEF TransfersOn, KindsOn
    <3> QED
      BY <3>2 DEF PrestartAt
  <2>2. PrestartSet(q) = {}
    BY <2>1 DEF PrestartSet
  <2> QED
    BY <1>1, <2>2, PrestartsAre, FS_EmptySet
<1> QED
  BY <1>4, <1>5 DEF c
-----------------------------------------------------------------------------
(* urb_prestart_cnt counts the prestart transfers that the USB core has or *)
(* has finished, and the one whose routine has yet to count it down.       *)
CountInv ==
    /\ urb_prestart_cnt =
          Prestarts(core["rx"]) + Prestarts(giveback)
          + (IF comp.kind = "prestart" /\ comp.pc # "posting" THEN 1 ELSE 0)
    /\ comp.kind = "prestart" /\ comp.pc = "posting" => rx_prestart_lock = "comp"

LEMMA CountPost ==
    ASSUME TypeOK, CountInv, NEW c \in Contexts, PostStep(c)
    PROVE  CountInv'
<1>0. giveback' = giveback /\ post[c].pc # "off"
  BY DEF PostStep, PostNoUrb, PostAlloc, PostNoBuffer, PostEnqueue, PostSubmit,
         PostSubmitFails, usbVars
<1>1. CASE PostSubmit(c)
  <2> DEFINE q == core["rx"]
             t == Transfer(post[c].urb, post[c].kind)
  <2>1. /\ core'["rx"] = Append(q, t) /\ q \in Seq(TransfersOn("rx"))
        /\ urb_prestart_cnt' = urb_prestart_cnt
                                   + (IF post[c].kind = "prestart" THEN 1 ELSE 0)
        /\ UNCHANGED <<comp, rx_prestart_lock>>
    BY <1>1 DEF PostSubmit, TypeOK, ListTypes, Pipes
  <2>2. t \in TransfersOn("rx") /\ t.kind = post[c].kind
    BY <1>1 DEF PostSubmit, TypeOK, PostType, Transfer, TransfersOn, UrbsOn, KindsOn
  <2> HIDE DEF q, t
  <2>3. Prestarts(Append(q, t)) = Prestarts(q) + (IF t.kind = "prestart" THEN 1 ELSE 0)
    BY <2>1, <2>2, PrestartsStep
  <2>4. Prestarts(q) \in Nat /\ Prestarts(giveback) \in Nat
    <3>1. Len(q) \in Nat /\ Len(giveback) \in Nat
      BY <2>1, LenProperties DEF TypeOK, ListTypes
    <3> QED
      BY <3>1, PrestartsAre
  <2> QED
    BY <1>0, <2>1, <2>2, <2>3, <2>4 DEF CountInv, q
<1>2. CASE PostAlloc(c) \/ PostEnqueue(c)
  BY <1>2 DEF PostAlloc, PostEnqueue, CountInv, usbVars
<1>3. CASE PostNoUrb(c) \/ PostNoBuffer(c) \/ PostSubmitFails(c)
  <2>1. EndPost(c) /\ UNCHANGED <<core, urb_prestart_cnt>>
    BY <1>3 DEF PostNoUrb, PostNoBuffer, PostSubmitFails, usbVars
  <2>2. CASE c = "comp"
    <3>1. comp' = CompIdle /\ comp.pc = "posting"
      BY <1>0, <2>1, <2>2 DEF EndPost, TypeOK, PostType
    <3> QED
      BY <1>0, <2>1, <3>1 DEF CountInv, CompIdle
  <2>3. CASE c = "control"
    <3>1. comp' = comp /\ (rx_prestart_lock = "comp" => rx_prestart_lock' = "comp")
      BY <2>1, <2>3 DEF EndPost, Unlocked
    <3> QED
      BY <1>0, <2>1, <3>1 DEF CountInv
  <2> QED
    BY <2>2, <2>3 DEF Contexts
<1> QED
  BY <1>1, <1>2, <1>3 DEF PostStep

LEMMA CountComp ==
    ASSUME TypeOK, CountInv, CompStep
    PROVE  CountInv'
<1>1. CASE CompBegin
  <2> DEFINE t == Head(giveback)
             r == Tail(giveback)
  <2>1. /\ giveback # <<>> /\ giveback' = r /\ comp = CompIdle
        /\ UNCHANGED <<core, urb_prestart_cnt>>
        /\ comp'.kind = t.kind /\ comp'.pc \in {"queue", "cleanup"}
    BY <1>1 DEF CompBegin, TypeOK, CompType
  <2>2. Prestarts(giveback) = Prestarts(r) + (IF t.kind = "prestart" THEN 1 ELSE 0)
    BY <2>1, PrestartsStep DEF TypeOK, ListTypes
  <2>3. Prestarts(r) \in Nat /\ Prestarts(core["rx"]) \in Nat
    <3>1. r \in Seq(FinishedTransfers) /\ core["rx"] \in Seq(TransfersOn("rx"))
      BY <2>1, ElementsTail DEF TypeOK, ListTypes, Pipes
    <3> QED
      BY <3>1, LenProperties, PrestartsAre
  <2> HIDE DEF t, r
  <2> QED
    BY <2>1, <2>2, <2>3 DEF CountInv, CompIdle
<1>2. CASE CompQueue \/ CompSchedule \/ CompCleanupRecv \/ CompCleanupTransmit
  <2>1. UNCHANGED <<core, giveback, urb_prestart_cnt>>
    BY <1>2 DEF CompQueue, CompSchedule, CompCleanupRecv, CompCleanupTransmit, usbVars
  <2>2. /\ comp.pc # "posting" /\ comp'.pc # "posting"
        /\ (comp'.kind = "prestart") <=> (comp.kind = "prestart")
    <3>1. CASE CompQueue
      BY <3>1 DEF CompQueue, TypeOK, CompType
    <3>2. CASE CompSchedule
      BY <3>2 DEF CompSchedule, TypeOK, CompType, CompIdle
    <3>3. CASE CompCleanupRecv
      BY <3>3 DEF CompCleanupRecv, TypeOK, CompType, CompIdle
    <3>4. CASE CompCleanupTransmit
      BY <3>4 DEF CompCleanupTransmit, TypeOK, CompType, CompIdle
    <3> QED
      BY <1>2, <3>1, <3>2, <3>3, <3>4
  <2> QED
    BY <2>1, <2>2 DEF CountInv
<1>3. CASE CompPrestart
  <2>1. /\ UNCHANGED <<core, giveback>> /\ urb_prestart_cnt' = urb_prestart_cnt - 1
        /\ comp.pc = "prestart" /\ comp.kind = "prestart"
        /\ \/ comp' = CompIdle
           \/ comp'.pc = "posting" /\ rx_prestart_lock' = "comp"
    BY <1>3 DEF CompPrestart, PrestartLeft, usbVars, TypeOK, CompType
  <2>2. Prestarts(giveback) \in Nat /\ Prestarts(core["rx"]) \in Nat
    <3>1. giveback \in Seq(FinishedTransfers) /\ core["rx"] \in Seq(TransfersOn("rx"))
      BY DEF TypeOK, ListTypes, Pipes
    <3> QED
      BY <3>1, LenProperties, PrestartsAre
  <2> QED
    BY <2>1, <2>2 DEF CountInv, CompIdle
<1>4. CASE CompRepost
  <2>1. /\ UNCHANGED <<core, giveback, urb_prestart_cnt>>
        /\ comp.kind # "prestart" /\ comp'.kind # "prestart"
    BY <1>4 DEF CompRepost, usbVars, TypeOK, CompType, CompIdle
  <2> QED
    BY <2>1 DEF CountInv
<1> QED
  BY <1>1, <1>2, <1>3, <1>4 DEF CompStep

(* A transfer that the USB core gives back is still counted.               *)
LEMMA CountReturned ==
    ASSUME TypeOK, CountInv, NEW p \in Pipes, NEW t \in TransfersOn(p),
           NEW q, q \in Seq(TransfersOn(p)), core' = [core EXCEPT ![p] = q],
           Prestarts(core[p]) = Prestarts(q)
                                  + (IF t.kind = "prestart" THEN 1 ELSE 0),
           NEW status \in Statuses,
           NEW msgs, IF p = "rx" THEN msgs \in Seq(Nat) ELSE msgs = <<>>,
           giveback' = Append(giveback, Finished(t, status, msgs)),
           UNCHANGED <<urb_prestart_cnt, comp, rx_prestart_lock>>
    PROVE  CountInv'
<1> DEFINE x == Finished(t, status, msgs)
<1>1. x \in FinishedTransfers /\ x.kind = t.kind
  BY DEF Finished, FinishedTransfers, FinishedOn, TransfersOn, Pipes
<1> HIDE DEF x
<1>2. Prestarts(giveback') = Prestarts(giveback)
                                + (IF t.kind = "prestart" THEN 1 ELSE 0)
  <2>1. Prestarts(Append(giveback, x)) = Prestarts(giveback)
                                + (IF x.kind = "prestart" THEN 1 ELSE 0)
    BY <1>1, PrestartsStep DEF TypeOK, ListTypes
  <2> QED
    BY <1>1, <2>1 DEF x
<1>3. /\ Prestarts(giveback) \in Nat /\ Prestarts(core["rx"]) \in Nat
      /\ Prestarts(q) \in Nat
  <2>1. giveback \in Seq(FinishedTransfers) /\ core["rx"] \in Seq(TransfersOn("rx"))
    BY DEF TypeOK, ListTypes, Pipes
  <2> QED
    BY <2>1, LenProperties, PrestartsAre
<1>4. CASE p = "rx"
  <2>1. core'["rx"] = q
    BY <1>4 DEF TypeOK, ListTypes
  <2> QED
    BY <1>2, <1>3, <1>4, <2>1 DEF CountInv
<1>5. CASE p = "tx"
  <2>1. core'["rx"] = core["rx"] /\ t.kind = "transmit"
    BY <1>5 DEF TypeOK, ListTypes, TransfersOn, KindsOn, Pipes
  <2> QED
    BY <1>2, <1>3, <2>1 DEF CountInv
<1> QED
  BY <1>4, <1>5 DEF Pipes

LEMMA CountTarget ==
    ASSUME TypeOK, CountInv, TargetSends \/ TransferFails \/ TransmitDone
    PROVE  CountInv'
<1>1. ASSUME NEW p \in Pipes, NEW status \in Statuses,
             NEW msgs, IF p = "rx" THEN msgs \in Seq(Nat) ELSE msgs = <<>>,
             Finish(p, status, msgs)
      PROVE  CountInv'
  <2> DEFINE q == core[p]
             r == Tail(q)
             h == Head(q)
  <2>1. /\ q # <<>> /\ q \in Seq(TransfersOn(p))
        /\ core' = [core EXCEPT ![p] = r]
        /\ giveback' = Append(giveback, Finished(h, status, msgs))
        /\ UNCHANGED <<urb_prestart_cnt, comp, rx_prestart_lock>>
    BY <1>1 DEF Finish, TypeOK, ListTypes
  <2>2. h \in TransfersOn(p) /\ r \in Seq(TransfersOn(p))
    BY <2>1, ElementsTail
  <2>3. Prestarts(core[p]) = Prestarts(r) + (IF h.kind = "prestart" THEN 1 ELSE 0)
    BY <2>1, PrestartsStep
  <2> HIDE DEF r, h
  <2> QED
    BY <1>1, <2>1, <2>2, <2>3, CountReturned
<1>2. "rx" \in Pipes /\ "tx" \in Pipes /\ "ok" \in Statuses /\ "error" \in Statuses
  BY DEF Pipes, Statuses
<1>3. CASE TargetSends
  <2> DEFINE m == 2 * sent + 1
             n == 2 * sent + 2
  <2>1. m \in Nat /\ n \in Nat
    BY DEF TypeOK, ValueTypes
  <2> HIDE DEF m, n
  <2>2. <<>> \in Seq(Nat) /\ <<m>> \in Seq(Nat) /\ <<m, n>> \in Seq(Nat)
    BY <2>1
  <2>3. \E msgs \in {<<>>, <<m>>, <<m, n>>} : Finish("rx", "ok", msgs)
    BY <1>3 DEF TargetSends, m, n
  <2> QED
    BY <1>1, <1>2, <2>2, <2>3
<1>4. CASE TransferFails
  BY <1>1, <1>2, <1>4, EmptySeq DEF TransferFails
<1>5. CASE TransmitDone
  BY <1>1, <1>2, <1>5 DEF TransmitDone
<1> QED
  BY <1>3, <1>4, <1>5

LEMMA CountFlush ==
    ASSUME TypeOK, CountInv, FlushStep
    PROVE  CountInv'
<1>1. UNCHANGED <<urb_prestart_cnt, comp, rx_prestart_lock>>
  BY DEF FlushStep, FlushTake, FlushKill, FlushWait, FlushWork
<1>2. CASE UNCHANGED <<core, giveback>>
  BY <1>1, <1>2 DEF CountInv
<1>3. CASE ~UNCHANGED <<core, giveback>>
  <2> DEFINE p == flush.pipe
             ts == core[p]
  <2>1. PICK i \in 1..Len(ts) :
            /\ core' = [core EXCEPT ![p] = RemoveAt(ts, i)]
            /\ giveback' = Append(giveback, Finished(ts[i], "cancelled", <<>>))
    BY <1>3 DEF FlushStep, FlushTake, FlushKill, FlushWait, FlushWork, usbVars
  <2>2. /\ p \in Pipes /\ ts \in Seq(TransfersOn(p))
        /\ "cancelled" \in Statuses /\ <<>> \in Seq(Nat)
    BY EmptySeq DEF TypeOK, ListTypes, ControlType, Statuses
  <2> DEFINE x == ts[i]
             r == RemoveAt(ts, i)
  <2>3. /\ Prestarts(ts) = Prestarts(r) + (IF x.kind = "prestart" THEN 1 ELSE 0)
        /\ r \in Seq(TransfersOn(p)) /\ x \in TransfersOn(p)
    BY <2>2, PrestartsStep, RemoveAtType, ElementOfSeq
  <2>4. /\ core' = [core EXCEPT ![p] = r]
        /\ giveback' = Append(giveback, Finished(x, "cancelled", <<>>))
    BY <2>1
  <2> HIDE DEF x, r
  <2> QED
    BY <1>1, <2>2, <2>3, <2>4, CountReturned
<1> QED
  BY <1>2, <1>3

LEMMA CountControl ==
    ASSUME TypeOK, CountInv,
           \/ HIFStart \/ hif_usb_suspend \/ Suspended \/ hif_usb_resume
           \/ Disconnect \/ HTCStop \/ StopStep
    PROVE  CountInv'
<1>1. CASE Suspended \/ Disconnect
  <2> DEFINE a == core["tx"]
             b == core["rx"]
             m == Cancelled(a)
             n == Cancelled(b)
             e == giveback \o m
  <2>1. /\ giveback' = (giveback \o m) \o n /\ core'["rx"] = <<>>
        /\ UNCHANGED <<urb_prestart_cnt, comp, rx_prestart_lock>>
    BY <1>1 DEF Suspended, Disconnect, CancelAll, Pipes
  <2>2. /\ a \in Seq(TransfersOn("tx")) /\ b \in Seq(TransfersOn("rx"))
        /\ giveback \in Seq(FinishedTransfers) /\ "tx" \in Pipes /\ "rx" \in Pipes
    BY DEF TypeOK, ListTypes, Pipes
  <2> HIDE DEF a, b
  <2>3. /\ m \in Seq(FinishedTransfers) /\ n \in Seq(FinishedTransfers)
        /\ Prestarts(m) = 0 /\ Prestarts(n) = Prestarts(b)
    BY <2>2, CancelledType, PrestartsCancelled
  <2> HIDE DEF m, n
  <2>4. e \in Seq(FinishedTransfers) /\ Prestarts(e) = Prestarts(giveback) + Prestarts(m)
    BY <2>2, <2>3, ElementsConcat, PrestartsConcat
  <2> HIDE DEF e
  <2>5. Prestarts(e \o n) = Prestarts(e) + Prestarts(n)
    BY <2>3, <2>4, PrestartsConcat
  <2>6. Prestarts(giveback') = Prestarts(e \o n)
    BY <2>1 DEF e
  <2>7. Prestarts(giveback) \in Nat /\ Prestarts(b) \in Nat /\ Prestarts(<<>>) = 0
    <3>1. PrestartSet(<<>>) = {} /\ Len(<<>>) \in Nat
      BY DEF PrestartSet
    <3> QED
      BY <2>2, <3>1, LenProperties, PrestartsAre, FS_EmptySet
  <2> QED
    BY <2>1, <2>3, <2>4, <2>5, <2>6, <2>7 DEF CountInv, b
<1>2. CASE ~(Suspended \/ Disconnect)
  <2>1. UNCHANGED <<core, giveback, urb_prestart_cnt, comp>>
    BY <1>2 DEF HIFStart, hif_usb_suspend, hif_usb_resume, HTCStop,
       StopStep, HTCDestroy, HIFDetachHTC, Detached, usb_hif_destroy,
       usb_hif_cleanup_pipe_resources, usbVars
  <2>2. rx_prestart_lock = "comp" => rx_prestart_lock' = "comp"
    BY <1>2 DEF HIFStart, hif_usb_suspend, hif_usb_resume, HTCStop,
       StopStep, HTCDestroy, HIFDetachHTC, Detached, usb_hif_destroy,
       usb_hif_cleanup_pipe_resources
  <2> QED
    BY <2>1, <2>2 DEF CountInv
<1> QED
  BY <1>1, <1>2

(* The steps that leave the count, the transfers and the routine alone.    *)
LEMMA CountOthers ==
    ASSUME TypeOK, CountInv,
           WorkStep \/ (\E p \in Packets : SendStep(p)) \/ UNCHANGED vars
    PROVE  CountInv'
<1>1. /\ UNCHANGED <<urb_prestart_cnt, comp, rx_prestart_lock, giveback>>
      /\ core'["rx"] = core["rx"]
  <2>1. CASE WorkStep
    BY <2>1 DEF WorkStep, WorkBegin, WorkCallback, WorkEnd, usbVars
  <2>2. ASSUME NEW p \in Packets, SendStep(p)
        PROVE  /\ UNCHANGED <<urb_prestart_cnt, comp, rx_prestart_lock, giveback>>
               /\ core'["rx"] = core["rx"]
    BY <2>2 DEF SendStep, SendAlloc, SendNoUrb, SendEnqueue, SendSubmit,
                SendSubmitFails, usbVars, TypeOK, ListTypes, Pipes
  <2>3. CASE UNCHANGED vars
    BY <2>3 DEF vars, usbVars
  <2> QED
    BY <2>1, <2>2, <2>3
<1> QED
  BY <1>1 DEF CountInv

LEMMA CountAlways == Spec => []CountInv
<1>1. Init => CountInv
  <2>1. PrestartSet(<<>>) = {} /\ Len(<<>>) \in Nat
    BY DEF PrestartSet
  <2>2. Prestarts(<<>>) = 0
    BY <2>1, PrestartsAre, FS_EmptySet
  <2> QED
    BY <2>2 DEF Init, CountInv, CompIdle, Pipes
<1>2. HifInv /\ CountInv /\ [Next]_vars => CountInv'
  BY CountPost, CountComp, CountTarget, CountFlush, CountControl, CountOthers
     DEF HifInv, Next, Removed
<1> QED
  BY <1>1, <1>2, HifInvAlways, PTL DEF Spec

(* Exactly the last prestart transfer starts the working pipe: whenever    *)
(* the lock is free urb_prestart_cnt is the number of prestart transfers   *)
(* that are still to be counted down, for any number of them.              *)
THEOREM PrestartsAreCounted == Spec => []PrestartCounted
<1>1. HifInv /\ CountInv => PrestartCounted
  <2> SUFFICES ASSUME TypeOK, CountInv, rx_prestart_lock = "free"
               PROVE  urb_prestart_cnt =
                         Prestarts(core["rx"] \o giveback)
                         + (IF comp.kind = "prestart" THEN 1 ELSE 0)
    BY DEF HifInv, PrestartCounted
  <2> DEFINE T == TransfersOn("rx") \cup FinishedTransfers
  <2>1. core["rx"] \in Seq(T) /\ giveback \in Seq(T)
    BY DEF TypeOK, ListTypes, Pipes
  <2> HIDE DEF T
  <2>2. Prestarts(core["rx"] \o giveback) = Prestarts(core["rx"]) + Prestarts(giveback)
    BY <2>1, PrestartsConcat
  <2> QED
    BY <2>2 DEF CountInv
<1> QED
  BY <1>1, HifInvAlways, CountAlways, PTL
-----------------------------------------------------------------------------
(* The order of messages.                                                  *)

Increasing(s) == \A i, j \in 1..Len(s) : i < j => s[i] < s[j]
Below(A, B) == \A a \in A, b \in B : a < b
MsgsAt(g, i) == g[i].msgs

(* The messages of finished transfers g come in the order of the           *)
(* transfers, they are numbered up to n, and those of A went before them.  *)
InTransit(g, n) ==
    \A i \in 1..Len(g) :
       /\ Increasing(MsgsAt(g, i)) /\ Below(Elements(MsgsAt(g, i)), {n + 1})
       /\ \A j \in 1..Len(g) :
             i < j => Below(Elements(MsgsAt(g, i)), Elements(MsgsAt(g, j)))
Precede(A, g, n) ==
    /\ Below(A, {n + 1})
    /\ \A i \in 1..Len(g) : Below(A, Elements(MsgsAt(g, i)))

LEMMA IncreasingTail ==
    ASSUME NEW s \in Seq(Nat), s # <<>>, Increasing(s)
    PROVE  Increasing(Tail(s)) /\ Below({Head(s)}, Elements(Tail(s)))
<1> DEFINE n == Len(s)
           t == Tail(s)
<1>1. /\ n \in Nat \ {0} /\ Len(t) = n - 1 /\ Head(s) = s[1]
      /\ \A i \in 1..(n - 1) : t[i] = s[i + 1]
      /\ \A i \in 1..n : s[i] \in Nat
  BY HeadTailProperties, EmptySeq, ElementOfSeq
<1>2. \A i, j \in 1..n : i < j => s[i] < s[j]
  BY DEF Increasing
<1> HIDE DEF n, t
<1>3. ASSUME NEW i \in 1..(n - 1), NEW j \in 1..(n - 1), i < j
      PROVE  t[i] < t[j]
  <2>1. i + 1 \in 1..n /\ j + 1 \in 1..n /\ i + 1 < j + 1
    BY <1>1, <1>3
  <2>2. s[i + 1] < s[j + 1]
    BY <1>2, <2>1
  <2> QED
    BY <1>1, <2>2
<1>4. Increasing(t)
  BY <1>1, <1>3 DEF Increasing
<1>5. ASSUME NEW i \in 1..(n - 1) PROVE s[1] < t[i]
  <2>1. i + 1 \in 1..n /\ 1 \in 1..n /\ 1 < i + 1
    BY <1>1
  <2>2. s[1] < s[i + 1]
    BY <1>2, <2>1
  <2> QED
    BY <1>1, <2>2
<1>6. Below({Head(s)}, Elements(t))
  BY <1>1, <1>5 DEF Below, Elements
<1> QED
  BY <1>4, <1>6 DEF t

LEMMA IncreasingConcat ==
    ASSUME NEW q \in Seq(Nat), NEW p \in Seq(Nat), Increasing(q), Increasing(p),
           Below(Elements(q), Elements(p))
    PROVE  Increasing(q \o p)
<1> DEFINE m == Len(q)
           n == Len(p)
           w == q \o p
<1>1. /\ m \in Nat /\ n \in Nat /\ Len(w) = m + n
      /\ \A i \in 1..(m + n) : w[i] = IF i <= m THEN q[i] ELSE p[i - m]
  BY LenProperties, ConcatProperties
<1>2. /\ \A i, j \in 1..m : i < j => q[i] < q[j]
      /\ \A i, j \in 1..n : i < j => p[i] < p[j]
      /\ \A i \in 1..m, j \in 1..n : q[i] < p[j]
  BY DEF Increasing, Below, Elements
<1> HIDE DEF m, n, w
<1>3. ASSUME NEW i \in 1..(m + n), NEW j \in 1..(m + n), i < j
      PROVE  w[i] < w[j]
  <2>1. CASE j <= m
    <3>1. i \in 1..m /\ j \in 1..m /\ i <= m
      BY <1>1, <1>3, <2>1
    <3> QED
      BY <1>1, <1>2, <1>3, <2>1, <3>1
  <2>2. CASE i <= m /\ ~(j <= m)
    <3>1. i \in 1..m /\ j - m \in 1..n
      BY <1>1, <2>2
    <3>2. w[i] = q[i] /\ w[j] = p[j - m]
      BY <1>1, <2>2
    <3> QED
      BY <1>2, <3>1, <3>2
  <2>3. CASE ~(i <= m)
    <3>1. i - m \in 1..n /\ j - m \in 1..n /\ i - m < j - m /\ ~(j <= m)
      BY <1>1, <1>3, <2>3
    <3>2. w[i] = p[i - m] /\ w[j] = p[j - m]
      BY <1>1, <2>3, <3>1
    <3> QED
      BY <1>2, <3>1, <3>2
  <2> QED
    BY <2>1, <2>2, <2>3
<1>4. Increasing(w)
  BY <1>1, <1>3 DEF Increasing
<1> QED
  BY <1>4 DEF w

LEMMA IncreasingPrefix ==
    ASSUME NEW p \in Seq(Nat), Increasing(p), NEW k \in 0..Len(p)
    PROVE  /\ SubSeq(p, 1, k) \in Seq(Nat) /\ Increasing(SubSeq(p, 1, k))
           /\ Elements(SubSeq(p, 1, k)) \subseteq Elements(p)
<1> DEFINE n == Len(p)
           f == SubSeq(p, 1, k)
<1>1. n \in Nat /\ \A i \in 1..n : p[i] \in Nat
  BY LenProperties, ElementOfSeq
<1>2. f \in Seq(Nat) /\ Len(f) = k /\ \A i \in 1..k : f[i] = p[i]
  <2>1. 1 \in Int /\ k \in Int /\ k \in Nat /\ \A i \in 1..k : p[i] \in Nat
    BY <1>1
  <2> QED
    BY <2>1, SubSeqProperties
<1> HIDE DEF f, n
<1>3. \A i \in 1..k : i \in 1..n
  BY <1>1 DEF n
<1>4. Increasing(f)
  BY <1>2, <1>3 DEF Increasing, n
<1>5. Elements(f) \subseteq Elements(p)
  BY <1>2, <1>3 DEF Elements, n
<1> QED
  BY <1>2, <1>4, <1>5 DEF f

(* Transfers finish: of the new ones at most the one at x has messages,    *)
(* and they have the next numbers.                                         *)
Longer(g, h, n, m, x) ==
    /\ Len(h) >= Len(g) /\ \A i \in 1..Len(g) : h[i] = g[i]
    /\ \A i \in 1..Len(h) : i > Len(g) =>
          /\ Increasing(MsgsAt(h, i))
          /\ \A v \in Elements(MsgsAt(h, i)) : n + 1 <= v /\ v <= m /\ i = x

LEMMA Arrive ==
    ASSUME NEW S, NEW g \in Seq(S), NEW h \in Seq(S),
           NEW n \in Nat, NEW m \in Nat, m >= n, NEW x, Longer(g, h, n, m, x),
           \A i \in 1..Len(h) : MsgsAt(h, i) \in Seq(Nat),
           NEW A \in SUBSET Nat, InTransit(g, n), Precede(A, g, n)
    PROVE  InTransit(h, m) /\ Precede(A, h, m)
<1> DEFINE a == Len(g)
           b == Len(h)
           E(i) == Elements(MsgsAt(h, i))
<1>1. a \in Nat /\ b \in Nat
  BY LenProperties
<1>2. ASSUME NEW i \in 1..a PROVE MsgsAt(h, i) = MsgsAt(g, i) /\ i \in 1..b
  <2>1. h[i] = g[i] /\ b >= a
    BY DEF Longer
  <2>2. MsgsAt(h, i) = MsgsAt(g, i)
    BY <2>1, Zenon DEF MsgsAt
  <2> QED
    BY <1>1, <2>1, <2>2
<1>3. ASSUME NEW i \in 1..b PROVE E(i) \subseteq Nat
  <2>1. MsgsAt(h, i) \in Seq(Nat)
    OBVIOUS
  <2> HIDE DEF MsgsAt
  <2> QED
    BY <2>1, ElementsType
<1>4. ASSUME NEW i \in 1..a
      PROVE  /\ Increasing(MsgsAt(h, i)) /\ Below(E(i), {n + 1}) /\ Below(A, E(i))
             /\ \A j \in 1..a : i < j => Below(E(i), E(j))
  BY <1>2 DEF InTransit, Precede
<1>5. ASSUME NEW i \in 1..b, i > a
      PROVE  /\ Increasing(MsgsAt(h, i))
             /\ \A v \in E(i) : n + 1 <= v /\ v <= m /\ i = x
  BY <1>5 DEF Longer
<1> HIDE DEF E, a, b
<1>6. ASSUME NEW B \in SUBSET Nat, Below(B, {n + 1}), NEW j \in 1..b, j > a
      PROVE  Below(B, E(j))
  BY <1>3, <1>5, <1>6 DEF Below
<1>7. ASSUME NEW B \in SUBSET Nat, Below(B, {n + 1}) PROVE Below(B, {m + 1})
  BY <1>7 DEF Below
<1>8. Below(A, {n + 1})
  BY DEF Precede
<1>9. ASSUME NEW i \in 1..b PROVE Below(A, E(i))
  <2>1. CASE i \in 1..a
    BY <1>4, <2>1
  <2>2. CASE i > a
    BY <1>6, <1>8, <2>2
  <2> QED
    BY <1>1, <2>1, <2>2
<1>10. Precede(A, h, m)
  BY <1>7, <1>8, <1>9 DEF Precede, E, b
<1>11. ASSUME NEW i \in 1..b
       PROVE  /\ Increasing(MsgsAt(h, i)) /\ Below(E(i), {m + 1})
              /\ \A j \in 1..b : i < j => Below(E(i), E(j))
  <2>1. CASE i \in 1..a
    <3>1. Below(E(i), {m + 1})
      BY <1>3, <1>4, <1>7, <2>1
    <3>2. ASSUME NEW j \in 1..b, i < j PROVE Below(E(i), E(j))
      <4>1. CASE j \in 1..a
        BY <1>4, <2>1, <3>2, <4>1
      <4>2. CASE j > a
        <5>1. E(i) \in SUBSET Nat /\ Below(E(i), {n + 1})
          BY <1>3, <1>4, <2>1
        <5> QED
          BY <1>6, <4>2, <5>1
      <4> QED
        BY <1>1, <4>1, <4>2
    <3> QED
      BY <1>4, <2>1, <3>1, <3>2
  <2>2. CASE i > a
    <3>1. Below(E(i), {m + 1})
      BY <1>3, <1>5, <2>2 DEF Below
    <3>2. ASSUME NEW j \in 1..b, i < j PROVE Below(E(i), E(j))
      <4>1. j > a /\ i # j
        BY <1>1, <2>2, <3>2
      <4> QED
        BY <1>5, <2>2, <4>1 DEF Below
    <3> QED
      BY <1>5, <2>2, <3>1, <3>2
  <2> QED
    BY <1>1, <2>1, <2>2
<1>12. InTransit(h, m)
  BY <1>11 DEF InTransit, E, b
<1> QED
  BY <1>10, <1>12

(* A completion routine takes the first of them.                           *)
LEMMA Depart ==
    ASSUME NEW S, NEW g \in Seq(S), g # <<>>, NEW n, InTransit(g, n),
           NEW A, Precede(A, g, n)
    PROVE  /\ InTransit(Tail(g), n) /\ Precede(A, Tail(g), n)
           /\ Increasing(Head(g).msgs) /\ Below(A, Elements(Head(g).msgs))
           /\ Precede(Elements(Head(g).msgs), Tail(g), n)
<1> DEFINE k == Len(g)
           t == Tail(g)
           M(i) == MsgsAt(g, i)
<1>1. /\ k \in Nat \ {0} /\ Len(t) = k - 1 /\ Head(g) = g[1]
      /\ \A i \in 1..(k - 1) : t[i] = g[i + 1]
  BY HeadTailProperties, EmptySeq
<1>2. Head(g).msgs = M(1)
  BY <1>1, Zenon DEF MsgsAt
<1> HIDE DEF t
<1>3. ASSUME NEW i \in 1..(k - 1) PROVE MsgsAt(t, i) = M(i + 1) /\ i + 1 \in 1..k
  <2>1. t[i] = g[i + 1]
    BY <1>1
  <2>2. MsgsAt(t, i) = M(i + 1)
    BY <2>1, Zenon DEF MsgsAt
  <2> QED
    BY <1>1, <2>2
<1>4. /\ \A i \in 1..k : /\ Increasing(M(i)) /\ Below(Elements(M(i)), {n + 1})
                         /\ \A j \in 1..k : i < j =>
                               Below(Elements(M(i)), Elements(M(j)))
      /\ Below(A, {n + 1}) /\ \A i \in 1..k : Below(A, Elements(M(i)))
  BY DEF InTransit, Precede
<1> HIDE DEF k, M
<1>5. ASSUME NEW i \in 1..(k - 1)
      PROVE  /\ Increasing(MsgsAt(t, i)) /\ Below(Elements(MsgsAt(t, i)), {n + 1})
             /\ Below(A, Elements(MsgsAt(t, i)))
             /\ Below(Elements(M(1)), Elements(MsgsAt(t, i)))
  <2>1. 1 \in 1..k /\ 1 < i + 1
    BY <1>1
  <2> QED
    BY <1>3, <1>4, <2>1
<1>6. ASSUME NEW i \in 1..(k - 1), NEW j \in 1..(k - 1), i < j
      PROVE  Below(Elements(MsgsAt(t, i)), Elements(MsgsAt(t, j)))
  <2>1. i + 1 < j + 1
    BY <1>6
  <2> QED
    BY <1>3, <1>4, <2>1
<1>7. InTransit(t, n) /\ Precede(A, t, n) /\ Precede(Elements(M(1)), t, n)
  <2>1. 1 \in 1..k
    BY <1>1
  <2> QED
    BY <1>1, <1>4, <1>5, <1>6, <2>1 DEF InTransit, Precede
<1>8. Increasing(M(1)) /\ Below(A, Elements(M(1)))
  <2>1. 1 \in 1..k
    BY <1>1
  <2> QED
    BY <1>4, <2>1
<1> QED
  BY <1>2, <1>7, <1>8 DEF t

(* From the target to HTC: the message handed up last, the queued ones,    *)
(* those that the receive routine is about to queue, those of finished     *)
(* transfers, and those that the target has yet to send.                   *)
Queue == io_comp_queue["rx"]
InHand == IF comp.kind \in RxKinds /\ comp.pc = "queue" THEN comp.msgs ELSE <<>>
Arrived == {delivered} \cup Elements(Queue) \cup Elements(InHand)

OrderInv ==
    /\ inOrder
    /\ Increasing(Queue) /\ Increasing(InHand)
    /\ Below({delivered}, Elements(Queue)) /\ Below({delivered}, Elements(InHand))
    /\ Below(Elements(Queue), Elements(InHand))
    /\ InTransit(giveback, 2 * sent) /\ Precede(Arrived, giveback, 2 * sent)

LEMMA OrderTypes ==
    ASSUME TypeOK
    PROVE  /\ Queue \in Seq(Nat) /\ InHand \in Seq(Nat) /\ delivered \in Nat
           /\ Arrived \in SUBSET Nat /\ sent \in Nat /\ 2 * sent \in Nat
           /\ giveback \in Seq(FinishedTransfers)
<1>1. Queue \in Seq(Nat) /\ delivered \in Nat /\ sent \in Nat
  BY DEF TypeOK, ListTypes, ValueTypes, ItemsOn, Pipes, Queue
<1>2. InHand \in Seq(Nat)
  BY EmptySeq DEF TypeOK, CompType, InHand
<1>3. Arrived \in SUBSET Nat
  BY <1>1, <1>2, ElementsType DEF Arrived
<1> QED
  BY <1>1, <1>2, <1>3 DEF TypeOK, ListTypes

LEMMA MsgsTypes ==
    ASSUME NEW h \in Seq(FinishedTransfers), NEW i \in 1..Len(h)
    PROVE  MsgsAt(h, i) \in Seq(Nat)
<1>1. h[i] \in FinishedTransfers
  BY ElementOfSeq
<1>2. \A t \in FinishedTransfers : t.msgs \in Seq(Nat)
  BY EmptySeq DEF FinishedTransfers, FinishedOn
<1> QED
  BY <1>1, <1>2, Zenon DEF MsgsAt

(* Transfers finish, and the driver has not seen them yet.                 *)
LEMMA OrderArrive ==
    ASSUME TypeOK, OrderInv, giveback' \in Seq(FinishedTransfers),
           UNCHANGED <<io_comp_queue, comp, delivered, inOrder>>,
           sent' \in Nat, sent' >= sent, NEW x,
           Longer(giveback, giveback', 2 * sent, 2 * sent', x)
    PROVE  OrderInv'
<1> DEFINE h == giveback'
           n == 2 * sent
           m == 2 * sent'
<1>0. sent \in Nat /\ Arrived \in SUBSET Nat /\ giveback \in Seq(FinishedTransfers)
  BY OrderTypes
<1>1. n \in Nat /\ m \in Nat /\ m >= n
  <2>1. \A a, b \in Nat : a >= b => 2 * a \in Nat /\ 2 * b \in Nat /\ 2 * a >= 2 * b
    OBVIOUS
  <2> QED
    BY <1>0, <2>1
<1>2. \A i \in 1..Len(h) : MsgsAt(h, i) \in Seq(Nat)
  BY MsgsTypes
<1>3. h \in Seq(FinishedTransfers) /\ Longer(giveback, h, n, m, x)
  OBVIOUS
<1>4. InTransit(giveback, n) /\ Precede(Arrived, giveback, n)
  BY DEF OrderInv
<1>5. Queue' = Queue /\ InHand' = InHand /\ Arrived' = Arrived
  BY DEF Queue, InHand, Arrived
<1> HIDE DEF h, n, m
<1>6. InTransit(h, m) /\ Precede(Arrived, h, m)
  BY <1>0, <1>1, <1>2, <1>3, <1>4, Arrive
<1> QED
  BY <1>5, <1>6 DEF OrderInv, h, m

LEMMA OrderAppend ==
    ASSUME TypeOK, OrderInv, NEW t \in FinishedTransfers,
           giveback' = Append(giveback, t),
           UNCHANGED <<io_comp_queue, comp, delivered, inOrder>>,
           sent' \in Nat, sent' >= sent, Increasing(t.msgs),
           \A v \in Elements(t.msgs) : 2 * sent + 1 <= v /\ v <= 2 * sent'
    PROVE  OrderInv'
<1> DEFINE h == Append(giveback, t)
           n == Len(giveback)
<1>1. giveback \in Seq(FinishedTransfers)
  BY OrderTypes
<1>2. /\ h \in Seq(FinishedTransfers) /\ n \in Nat /\ Len(h) = n + 1
      /\ \A i \in 1..(n + 1) : h[i] = IF i <= n THEN giveback[i] ELSE t
  BY <1>1, AppendProperties, LenProperties
<1>3. giveback' = h
  OBVIOUS
<1> HIDE DEF h, n
<1>4. ASSUME NEW i \in 1..Len(h), i > n
      PROVE  MsgsAt(h, i) = t.msgs /\ i = n + 1
  <2>1. i = n + 1 /\ h[i] = t
    BY <1>2, <1>4
  <2> QED
    BY <2>1, Zenon DEF MsgsAt
<1>5. \A i \in 1..n : h[i] = giveback[i]
  BY <1>2
<1>6. Len(h) >= n
  BY <1>2
<1>7. \A i \in 1..Len(h) : i > n =>
        /\ Increasing(MsgsAt(h, i))
        /\ \A v \in Elements(MsgsAt(h, i)) :
              2 * sent + 1 <= v /\ v <= 2 * sent' /\ i = n + 1
  BY <1>4
<1> QED
  <2>1. Longer(giveback, giveback', 2 * sent, 2 * sent', n + 1)
    BY <1>3, <1>5, <1>6, <1>7 DEF n, Longer
  <2> QED
    BY <1>2, <1>3, <2>1, OrderArrive

LEMMA OrderTarget ==
    ASSUME TypeOK, OrderInv, TargetSends \/ TransferFails \/ TransmitDone
    PROVE  OrderInv'
<1>0. sent \in Nat /\ "rx" \in Pipes /\ "tx" \in Pipes /\ <<>> \in Seq(Nat)
  BY OrderTypes, EmptySeq DEF Pipes
<1>1. ASSUME NEW p \in Pipes, NEW status \in Statuses,
             NEW msgs \in (IF p = "rx" THEN Seq(Nat) ELSE {<<>>}),
             Finish(p, status, msgs), sent' \in Nat, sent' >= sent,
             Increasing(msgs),
             \A v \in Elements(msgs) : 2 * sent + 1 <= v /\ v <= 2 * sent'
      PROVE  OrderInv'
  <2> DEFINE t == Head(core[p])
             f == Finished(t, status, msgs)
  <2>1. t \in TransfersOn(p)
    BY <1>1, ElementsTail DEF Finish, TypeOK, ListTypes
  <2> HIDE DEF t
  <2>2. f \in FinishedTransfers /\ f.msgs = msgs
    <3>1. f \in FinishedOn(p)
      BY <1>1, <2>1 DEF Finished, FinishedOn, TransfersOn
    <3> QED
      BY <3>1 DEF FinishedTransfers, Pipes, Finished
  <2>3. giveback' = Append(giveback, f)
    BY <1>1 DEF Finish, t
  <2>4. UNCHANGED <<io_comp_queue, comp, delivered, inOrder>>
    BY <1>1 DEF Finish, queueVars, deliveryVars
  <2> HIDE DEF f
  <2> QED
    BY <1>1, <2>2, <2>3, <2>4, OrderAppend
<1>2. Increasing(<<>>) /\ Elements(<<>>) = {}
  BY DEF Increasing, Elements
<1>3. CASE TargetSends
  <2> DEFINE m == 2 * sent + 1
             n == 2 * sent + 2
  <2>1. /\ sent' \in Nat /\ sent' >= sent /\ "ok" \in Statuses
        /\ m \in Nat /\ n \in Nat /\ m < n
        /\ 2 * sent + 1 <= m /\ m <= 2 * sent'
        /\ 2 * sent + 1 <= n /\ n <= 2 * sent'
    BY <1>0, <1>3 DEF TargetSends, Statuses
  <2>2. PICK msgs \in {<<>>, <<m>>, <<m, n>>} : Finish("rx", "ok", msgs)
    BY <1>3 DEF TargetSends
  <2> HIDE DEF m, n
  <2>3. /\ Increasing(<<m>>) /\ Elements(<<m>>) = {m} /\ <<m>> \in Seq(Nat)
    BY <2>1 DEF Increasing, Elements
  <2>4. /\ Increasing(<<m, n>>) /\ Elements(<<m, n>>) = {m, n}
        /\ <<m, n>> \in Seq(Nat)
    BY <2>1 DEF Increasing, Elements
  <2>5. /\ msgs \in Seq(Nat) /\ Increasing(msgs)
        /\ \A v \in Elements(msgs) : v \in {m, n}
    BY <1>0, <1>2, <2>2, <2>3, <2>4
  <2>6. \A v \in {m, n} : 2 * sent + 1 <= v /\ v <= 2 * sent'
    BY <2>1
  <2> QED
    BY <1>0, <1>1, <2>1, <2>2, <2>5, <2>6
<1>4. CASE TransferFails
  <2>1. /\ sent' \in Nat /\ sent' >= sent /\ "error" \in Statuses
        /\ Finish("rx", "error", <<>>)
    BY <1>0, <1>4 DEF TransferFails, Statuses
  <2> QED
    BY <1>0, <1>1, <1>2, <2>1
<1>5. CASE TransmitDone
  <2>1. /\ sent' \in Nat /\ sent' >= sent /\ "ok" \in Statuses
        /\ Finish("tx", "ok", <<>>)
    BY <1>0, <1>5 DEF TransmitDone, Statuses
  <2> QED
    BY <1>0, <1>1, <1>2, <2>1
<1> QED
  BY <1>3, <1>4, <1>5

LEMMA OrderFlush ==
    ASSUME TypeOK, OrderInv, FlushStep
    PROVE  OrderInv'
<1>1. UNCHANGED <<io_comp_queue, comp, delivered, inOrder, sent>>
  BY QueuesLeft DEF FlushStep, FlushTake, FlushKill, FlushWait, FlushWork, usbVars
<1>2. CASE UNCHANGED giveback
  BY <1>1, <1>2 DEF OrderInv, Queue, InHand, Arrived
<1>3. CASE ~UNCHANGED giveback
  <2> DEFINE p == flush.pipe
             ts == core[p]
  <2>1. PICK i \in 1..Len(ts) :
            giveback' = Append(giveback, Finished(ts[i], "cancelled", <<>>))
    BY <1>3 DEF FlushStep, FlushTake, FlushKill, FlushWait, FlushWork, usbVars
  <2> DEFINE x == ts[i]
             f == Finished(x, "cancelled", <<>>)
  <2>2. x \in TransfersOn(p) /\ p \in Pipes
    BY ElementOfSeq DEF TypeOK, ListTypes, ControlType
  <2> HIDE DEF x
  <2>3. f \in FinishedTransfers /\ f.msgs = <<>>
    BY <2>2, EmptySeq DEF Finished, FinishedTransfers, FinishedOn, TransfersOn,
                          Statuses, Pipes
  <2>4. giveback' = Append(giveback, f)
    BY <2>1 DEF x
  <2> HIDE DEF f
  <2>5. Increasing(<<>>) /\ Elements(<<>>) = {}
    BY DEF Increasing, Elements
  <2>6. sent' \in Nat /\ sent' >= sent
    BY <1>1, OrderTypes
  <2> QED
    BY <1>1, <2>3, <2>4, <2>5, <2>6, OrderAppend
<1> QED
  BY <1>2, <1>3

(* The USB core cancels everything: the transfers that it gives back have  *)
(* no messages.                                                            *)
LEMMA CancelledAdded ==
    ASSUME TypeOK, CancelAll
    PROVE  /\ Len(giveback) \in Nat /\ Len(giveback') \in Nat
           /\ Len(giveback') >= Len(giveback)
           /\ \A l \in 1..Len(giveback) : giveback'[l] = giveback[l]
           /\ \A l \in 1..Len(giveback') :
                 l > Len(giveback) => MsgsAt(giveback', l) = <<>>
<1> DEFINE a == core["tx"]
           b == core["rx"]
           m == Cancelled(a)
           n == Cancelled(b)
           e == giveback \o m
           h == e \o n
           k == Len(giveback)
           i == Len(m)
           j == Len(n)
<1>1. giveback' = h
  BY DEF CancelAll
<1>3. /\ a \in Seq(TransfersOn("tx")) /\ b \in Seq(TransfersOn("rx"))
      /\ giveback \in Seq(FinishedTransfers) /\ "tx" \in Pipes /\ "rx" \in Pipes
  BY DEF TypeOK, ListTypes, Pipes
<1>4. /\ m \in Seq(FinishedTransfers) /\ i \in Nat
      /\ \A l \in 1..i : m[l] = Finished(a[l], "cancelled", <<>>)
      /\ n \in Seq(FinishedTransfers) /\ j \in Nat
      /\ \A l \in 1..j : n[l] = Finished(b[l], "cancelled", <<>>)
  <2> HIDE DEF a, b
  <2> QED
    BY <1>3, CancelledType, LenProperties
<1>5. /\ \A l \in 1..i : MsgsAt(m, l) = <<>>
      /\ \A l \in 1..j : MsgsAt(n, l) = <<>>
  <2>1. \A t : Finished(t, "cancelled", <<>>).msgs = <<>>
    BY DEF Finished
  <2> HIDE DEF a, b, m, n, i, j
  <2> QED
    BY <1>4, <2>1, Zenon DEF MsgsAt
<1> HIDE DEF m, n
<1>6. /\ e \in Seq(FinishedTransfers) /\ k \in Nat /\ Len(e) = k + i
      /\ \A l \in 1..(k + i) : e[l] = IF l <= k THEN giveback[l] ELSE m[l - k]
  BY <1>3, <1>4, ConcatProperties, LenProperties
<1> HIDE DEF e
<1>7. /\ Len(h) = k + i + j
      /\ \A l \in 1..(k + i + j) : h[l] = IF l <= k + i THEN e[l] ELSE n[l - (k + i)]
  <2> DEFINE c == Len(e)
  <2>1. /\ Len(h) = c + j
        /\ \A l \in 1..(c + j) : h[l] = IF l <= c THEN e[l] ELSE n[l - c]
    <3>1. e \in Seq(FinishedTransfers) /\ n \in Seq(FinishedTransfers)
      BY <1>4, <1>6
    <3> HIDE DEF i, k
    <3> QED
      BY <3>1, ConcatProperties
  <2>2. c = k + i
    BY <1>6
  <2> HIDE DEF c, h
  <2> QED
    BY <2>1, <2>2
<1> HIDE DEF h, i, j, k
<1>8. Len(h) >= k /\ \A l \in 1..k : h[l] = giveback[l]
  BY <1>4, <1>6, <1>7
<1>9. ASSUME NEW l \in 1..Len(h), l > k PROVE MsgsAt(h, l) = <<>>
  <2>1. CASE l <= k + i
    <3>1. l - k \in 1..i /\ h[l] = m[l - k]
      BY <1>4, <1>6, <1>7, <1>9, <2>1
    <3>2. MsgsAt(h, l) = MsgsAt(m, l - k)
      BY <3>1, Zenon DEF MsgsAt
    <3> QED
      BY <1>5, <3>1, <3>2
  <2>2. CASE ~(l <= k + i)
    <3>1. l - (k + i) \in 1..j /\ h[l] = n[l - (k + i)]
      BY <1>4, <1>6, <1>7, <2>2
    <3>2. MsgsAt(h, l) = MsgsAt(n, l - (k + i))
      BY <3>1, Zenon DEF MsgsAt
    <3> QED
      BY <1>5, <3>1, <3>2
  <2> QED
    BY <2>1, <2>2
<1>10. Len(h) \in Nat
  BY <1>4, <1>6, <1>7
<1> QED
  BY <1>1, <1>6, <1>8, <1>9, <1>10 DEF k

LEMMA OrderControl ==
    ASSUME TypeOK, OrderInv,
           \/ HIFStart \/ hif_usb_suspend \/ Suspended \/ hif_usb_resume
           \/ Disconnect \/ HTCStop \/ StopStep
    PROVE  OrderInv'
<1>0. UNCHANGED <<io_comp_queue, comp, delivered, inOrder>>
  BY QueuesLeft
<1>1. CASE Suspended \/ Disconnect
  <2>1. CancelAll /\ sent' = sent
    BY <1>1 DEF Suspended, Disconnect, CancelAll
  <2>2. giveback' \in Seq(FinishedTransfers)
    BY <2>1, TypeCancelAll
  <2>3. Increasing(<<>>) /\ Elements(<<>>) = {}
    BY DEF Increasing, Elements
  <2>4. Longer(giveback, giveback', 2 * sent, 2 * sent', 0)
    BY <2>1, <2>3, CancelledAdded DEF Longer
  <2>5. sent' \in Nat /\ sent' >= sent
    BY <2>1, OrderTypes
  <2> QED
    BY <1>0, <2>2, <2>4, <2>5, OrderArrive
<1>2. CASE ~(Suspended \/ Disconnect)
  <2>1. UNCHANGED <<giveback, sent>>
    BY <1>2 DEF HIFStart, hif_usb_suspend, hif_usb_resume, HTCStop,
       StopStep, HTCDestroy, HIFDetachHTC, Detached, usb_hif_destroy,
       usb_hif_cleanup_pipe_resources, usbVars
  <2> QED
    BY <1>0, <2>1 DEF OrderInv, Queue, InHand, Arrived
<1> QED
  BY <1>1, <1>2

LEMMA OrderComp ==
    ASSUME TypeOK, OrderInv, CompStep
    PROVE  OrderInv'
<1>0. /\ Queue \in Seq(Nat) /\ InHand \in Seq(Nat)
      /\ UNCHANGED <<delivered, inOrder, sent>>
  BY OrderTypes DEF CompStep, CompBegin, CompQueue, CompSchedule, CompCleanupRecv,
     CompCleanupTransmit, CompPrestart, CompRepost, deliveryVars, usbVars
<1>1. CASE CompBegin
  <2> DEFINE t == Head(giveback)
             m == t.msgs
             g == giveback
             r == Tail(giveback)
             n == 2 * sent
  <2>1. /\ g # <<>> /\ giveback' = r /\ UNCHANGED io_comp_queue /\ comp = CompIdle
        /\ comp'.pc = (IF m # <<>> THEN "queue" ELSE "cleanup")
        /\ comp'.kind = t.kind /\ comp'.msgs = m
    BY <1>1 DEF CompBegin, queueVars, TypeOK, CompType
  <2>2. t \in FinishedTransfers /\ g \in Seq(FinishedTransfers)
    BY <2>1, ElementsTail DEF TypeOK, ListTypes
  <2>3. m # <<>> => t.kind \in RxKinds
    BY <2>2 DEF FinishedTransfers, FinishedOn, KindsOn
  <2>4. InHand' = m /\ Queue' = Queue /\ InHand = <<>>
    BY <2>1, <2>3 DEF InHand, Queue, CompIdle
  <2>5. InTransit(g, n) /\ Precede(Arrived, g, n)
    BY DEF OrderInv
  <2>6. /\ InTransit(r, n) /\ Precede(Arrived, r, n)
        /\ Increasing(m) /\ Below(Arrived, Elements(m))
        /\ Precede(Elements(m), r, n)
    <3> HIDE DEF n
    <3> QED
      BY <2>1, <2>2, <2>5, Depart
  <2> HIDE DEF t, m, g, r, n
  <2>7. Arrived' \subseteq Arrived \cup Elements(m)
    BY <1>0, <2>4 DEF Arrived
  <2>8. Precede(Arrived', r, n)
    BY <2>6, <2>7 DEF Precede, Below
  <2>9. Below({delivered}, Elements(m)) /\ Below(Elements(Queue), Elements(m))
    BY <2>6 DEF Arrived, Below
  <2> QED
    BY <1>0, <2>1, <2>4, <2>6, <2>8, <2>9 DEF OrderInv, n
<1>2. CASE CompQueue /\ comp.kind \in RxKinds
  <2> DEFINE q == Queue
             m == InHand
  <2>1. /\ UNCHANGED giveback /\ m = comp.msgs /\ InHand' = <<>>
        /\ "rx" \in Pipes /\ PipeOf(comp.urb) = "rx"
    BY <1>2 DEF CompQueue, usbVars, InHand, TypeOK, CompType, Pipes, PipeOf
  <2>2. PICK k \in 0..Len(m) :
           io_comp_queue' = [io_comp_queue EXCEPT !["rx"] = q \o SubSeq(m, 1, k)]
    <3>1. Len(m) \in 0..Len(m)
      BY <1>0, LenProperties
    <3> QED
      BY <1>2, <2>1, <3>1 DEF CompQueue, skb_queue_tail, Queue
  <2> DEFINE f == SubSeq(m, 1, k)
  <2>3. Queue' = q \o f
    BY <2>1, <2>2 DEF Queue, TypeOK, ListTypes
  <2>4. Increasing(q) /\ Increasing(m) /\ Below(Elements(q), Elements(m))
    BY DEF OrderInv
  <2>5. f \in Seq(Nat) /\ Increasing(f) /\ Elements(f) \subseteq Elements(m)
    BY <1>0, <2>4, IncreasingPrefix
  <2> HIDE DEF f, m, q
  <2>6. Below(Elements(q), Elements(f))
    BY <2>4, <2>5 DEF Below
  <2>7. Increasing(q \o f) /\ Elements(q \o f) = Elements(q) \cup Elements(f)
    BY <1>0, <2>4, <2>5, <2>6, IncreasingConcat, ElementsConcat DEF q
  <2>8. Increasing(<<>>) /\ Elements(<<>>) = {}
    BY DEF Increasing, Elements
  <2>9. Arrived' \subseteq Arrived
    BY <1>0, <2>1, <2>3, <2>5, <2>7, <2>8 DEF Arrived, q, m
  <2>10. Precede(Arrived', giveback, 2 * sent)
    BY <2>9 DEF OrderInv, Precede, Below
  <2>11. Below({delivered}, Elements(q \o f))
    BY <2>5, <2>7 DEF OrderInv, Below, q, m
  <2>12. \A B : Below(B, Elements(<<>>))
    BY <2>8 DEF Below
  <2> QED
    BY <1>0, <2>1, <2>3, <2>7, <2>8, <2>10, <2>11, <2>12 DEF OrderInv
<1>3. CASE \/ CompQueue /\ comp.kind \notin RxKinds
           \/ CompSchedule \/ CompCleanupRecv
           \/ CompCleanupTransmit \/ CompPrestart \/ CompRepost
  <2>1. UNCHANGED <<giveback, Queue>> /\ InHand = <<>> /\ InHand' = <<>>
    <3>1. CASE CompQueue /\ comp.kind \notin RxKinds
      <4>1. PipeOf(comp.urb) = "tx" /\ comp.kind = "transmit"
        BY <3>1, HifUsbAssumption
           DEF CompQueue, PipeOf, TypeOK, CompType, HifUsbAssumption
      <4> QED
        BY <3>1, <4>1 DEF CompQueue, usbVars, Queue, InHand, TypeOK, CompType, ListTypes
    <3>2. CASE CompSchedule \/ CompCleanupRecv \/ CompPrestart \/ CompRepost
      BY <3>2 DEF CompSchedule, CompCleanupRecv, CompPrestart, CompRepost, CompIdle,
              Queue, InHand, queueVars, usbVars, TypeOK, CompType
    <3>3. CASE CompCleanupTransmit
      BY <3>3 DEF CompCleanupTransmit, Queue, InHand, queueVars, usbVars, TypeOK,
              CompType, RxKinds
    <3> QED
      BY <1>3, <3>1, <3>2, <3>3
  <2> QED
    BY <1>0, <2>1 DEF OrderInv, Arrived
<1> QED
  BY <1>1, <1>2, <1>3 DEF CompStep

LEMMA OrderWork ==
    ASSUME TypeOK, OrderInv, NEW p \in Pipes,
           WorkBegin(p) \/ WorkCallback(p) \/ WorkEnd(p)
    PROVE  OrderInv'
<1>1. UNCHANGED <<comp, giveback, sent>>
  BY DEF WorkBegin, WorkCallback, WorkEnd, usbVars
<1>2. CASE WorkCallback(p) /\ p = "rx"
  <2> DEFINE q == Queue
             h == Head(Queue)
             r == Tail(Queue)
  <2>1. /\ q # <<>> /\ Queue' = r /\ delivered' = h
        /\ inOrder' = (inOrder /\ h > delivered)
    BY <1>2 DEF WorkCallback, skb_dequeue, Queue, TypeOK, ListTypes
  <2>2. /\ q \in Seq(Nat) /\ delivered \in Nat /\ Increasing(q)
        /\ Below({delivered}, Elements(q)) /\ Below(Elements(q), Elements(InHand))
    BY OrderTypes DEF OrderInv
  <2>3. /\ h \in Nat /\ r \in Seq(Nat) /\ Elements(q) = {h} \cup Elements(r)
        /\ Increasing(r) /\ Below({h}, Elements(r))
    BY <2>1, <2>2, ElementsTail, IncreasingTail
  <2> HIDE DEF h, r
  <2>4. h > delivered
    BY <2>2, <2>3 DEF Below
  <2>5. inOrder'
    BY <2>1, <2>4 DEF OrderInv
  <2>6. Below({h}, Elements(InHand)) /\ Below(Elements(r), Elements(InHand))
    BY <2>2, <2>3 DEF Below
  <2>7. InHand' = InHand
    BY <1>1 DEF InHand
  <2>8. Arrived' \subseteq Arrived
    BY <2>1, <2>3, <2>7 DEF Arrived
  <2>9. Precede(Arrived', giveback, 2 * sent)
    BY <2>8 DEF OrderInv, Precede, Below
  <2> QED
    BY <1>1, <2>1, <2>3, <2>5, <2>6, <2>7, <2>9 DEF OrderInv
<1>3. CASE ~(WorkCallback(p) /\ p = "rx")
  <2>1. UNCHANGED <<Queue, delivered, inOrder>>
    BY <1>3 DEF WorkBegin, WorkCallback, WorkEnd, Queue, queueVars, TypeOK,
                ListTypes, Pipes
  <2> QED
    BY <1>1, <2>1 DEF OrderInv, Arrived, InHand
<1> QED
  BY <1>2, <1>3

LEMMA OrderPost ==
    ASSUME TypeOK, OrderInv, NEW c \in Contexts, PostStep(c)
    PROVE  OrderInv'
<1>1. /\ UNCHANGED <<io_comp_queue, delivered, inOrder, giveback, sent>>
      /\ post[c].pc # "off"
      /\ comp' = comp \/ (c = "comp" /\ comp' = CompIdle)
  BY DEF PostStep, PostNoUrb, PostAlloc, PostNoBuffer, PostEnqueue, PostSubmit,
         PostSubmitFails, EndPost, queueVars, deliveryVars, usbVars
<1>2. InHand' = InHand
  BY <1>1 DEF TypeOK, PostType, CompIdle, InHand
<1> QED
  BY <1>1, <1>2 DEF OrderInv, Arrived, Queue

(* Messages reach HTC in the order in which the target sent them, for any  *)
(* number of transfers, bundles and suspends.                              *)
THEOREM MessagesInOrder == Spec => []DeliveredInOrder
<1>1. Init => OrderInv
  <2> SUFFICES ASSUME Init PROVE OrderInv
    OBVIOUS
  <2>1. /\ Queue = <<>> /\ InHand = <<>> /\ delivered = 0 /\ giveback = <<>>
        /\ inOrder /\ sent = 0
    BY DEF Init, Queue, InHand, CompIdle, Pipes, RxKinds
  <2>2. Elements(<<>>) = {} /\ Increasing(<<>>) /\ Len(<<>>) = 0
    BY DEF Elements, Increasing
  <2> QED
    BY <2>1, <2>2 DEF OrderInv, Below, InTransit, Precede, Arrived
<1>2. HifInv /\ OrderInv /\ [Next]_vars => OrderInv'
  <2> SUFFICES ASSUME TypeOK, OrderInv, [Next]_vars PROVE OrderInv'
    BY DEF HifInv
  <2>1. ASSUME UNCHANGED <<io_comp_queue, comp, delivered, inOrder, giveback, sent>>
        PROVE  OrderInv'
    BY <2>1 DEF OrderInv, Arrived, Queue, InHand
  <2>2. ASSUME NEW p \in Packets, SendStep(p) PROVE OrderInv'
    <3>1. UNCHANGED <<giveback, sent>>
      BY <2>2 DEF SendStep, SendAlloc, SendNoUrb, SendEnqueue, SendSubmit,
                  SendSubmitFails, usbVars
    <3> QED
      BY <2>1, <2>2, <3>1, QueuesLeft
  <2>3. CASE UNCHANGED vars
    BY <2>1, <2>3, QueuesLeft DEF vars, usbVars
  <2> QED
    BY <2>2, <2>3, OrderPost, OrderComp, OrderWork, OrderTarget, OrderFlush,
       OrderControl DEF Next, WorkStep, Removed
<1>3. OrderInv => DeliveredInOrder
  BY DEF OrderInv, DeliveredInOrder
<1> QED
  BY <1>1, <1>2, <1>3, HifInvAlways, PTL DEF Spec
-----------------------------------------------------------------------------
(* Nobody sends while the driver starts to stop or is suspended.           *)
SendInv == ~Sending => NobodySends

LEMMA SendKept == TypeOK /\ SendInv /\ [Next]_vars => SendInv'
<1> SUFFICES ASSUME TypeOK, SendInv, [Next]_vars PROVE SendInv'
  OBVIOUS
<1>1. ASSUME \A q \in Packets : \/ packet'[q].pc = packet[q].pc
                               \/ packet'[q].pc \in {"htc", "hif", "done"},
             Sending => Sending' \/ NobodySends
      PROVE  SendInv'
  BY <1>1 DEF SendInv, NobodySends
<1>2. ASSUME UNCHANGED packet, Sending' \/ control' = control PROVE SendInv'
  BY <1>2 DEF SendInv, NobodySends, Sending
<1>3. ASSUME NEW c \in Contexts, PostStep(c) PROVE SendInv'
  <2>1. UNCHANGED packet /\ (control' = control \/ control' = "up")
    BY <1>3 DEF PostStep, PostNoUrb, PostAlloc, PostNoBuffer, PostEnqueue, PostSubmit,
                PostSubmitFails, EndPost
  <2>2. Sending' \/ control' = control
    BY <2>1 DEF Sending
  <2> QED
    BY <1>2, <2>1, <2>2
<1>4. CASE CompStep
  <2>1. control' = control /\ (UNCHANGED packet \/ CompCleanupTransmit)
    BY <1>4 DEF CompStep, CompBegin, CompQueue, CompSchedule, CompCleanupRecv,
                CompCleanupTransmit, CompPrestart, CompRepost
  <2>2. ASSUME CompCleanupTransmit, NEW q \in Packets
        PROVE  packet'[q].pc = packet[q].pc
    BY <2>2 DEF CompCleanupTransmit, WithoutContext, TypeOK, PacketType, PacketRecords
  <2> QED
    BY <1>1, <1>2, <2>1, <2>2 DEF Sending
<1>5. CASE WorkStep
  <2>1. \A q \in Packets : packet'[q] = packet[q] \/ packet'[q].pc = "done"
    BY <1>5 DEF WorkStep, WorkBegin, WorkCallback, WorkEnd, TypeOK, PacketType,
                PacketRecords
  <2>2. control' = control
    BY <1>5 DEF WorkStep, WorkBegin, WorkCallback, WorkEnd
  <2> QED
    BY <1>1, <2>1, <2>2 DEF Sending
<1>6. ASSUME NEW p \in Packets, SendStep(p) PROVE SendInv'
  <2>1. Sending
    BY <1>6 DEF SendStep, SendAlloc, SendNoUrb, SendEnqueue, SendSubmit,
                SendSubmitFails, SendInv, NobodySends
  <2>2. control' = control
    BY <1>6 DEF SendStep, SendAlloc, SendNoUrb, SendEnqueue, SendSubmit,
                SendSubmitFails
  <2> QED
    BY <2>1, <2>2 DEF SendInv, Sending
<1>7. CASE \/ TargetSends \/ TransferFails \/ TransmitDone \/ FlushStep
           \/ UNCHANGED vars
  BY <1>2, <1>7 DEF TargetSends, TransferFails, TransmitDone, Finish, FlushStep,
                    FlushTake, FlushKill, FlushWait, FlushWork, vars
<1>8. CASE \/ HIFStart \/ hif_usb_suspend \/ Suspended \/ hif_usb_resume
           \/ Disconnect \/ HTCStop \/ StopStep
  <2>1. UNCHANGED packet
    BY <1>8 DEF HIFStart, hif_usb_suspend, Suspended, hif_usb_resume, Disconnect,
                HTCStop, StopStep, HTCDestroy, HIFDetachHTC, Detached,
                usb_hif_destroy, usb_hif_cleanup_pipe_resources
  <2>2. Sending => Sending' \/ NobodySends
    BY <1>8 DEF HIFStart, hif_usb_suspend, Suspended, hif_usb_resume, Disconnect,
                HTCStop, StopStep, HTCDestroy, HIFDetachHTC, Detached,
                usb_hif_destroy, usb_hif_cleanup_pipe_resources, Sending
  <2> QED
    BY <1>1, <2>1, <2>2
<1> QED
  BY <1>3, <1>4, <1>5, <1>6, <1>7, <1>8 DEF Next, Removed

LEMMA SendAlways == Spec => []SendInv
<1>1. Init => SendInv
  BY DEF Init, SendInv, NobodySends
<1>2. HifInv /\ SendInv /\ [Next]_vars => SendInv'
  BY SendKept DEF HifInv
<1> QED
  BY <1>1, <1>2, HifInvAlways, PTL DEF Spec
-----------------------------------------------------------------------------
(* The way of a transfer: from the context that submits it to the USB      *)
(* core, from there to the finished transfers, and from there to its       *)
(* completion routine.                                                     *)
Submits(u) ==
    \/ \E c \in Contexts : post[c].pc = "submit" /\ post[c].urb = u
    \/ \E p \in Packets : packet[p].pc = "submit" /\ packet[p].urb = u
InCore == CoreUrbs("tx") \cup CoreUrbs("rx")

Onward ==
    /\ \A u \in InCore' : u \in InCore \/ Submits(u)
    /\ \A u \in GivebackUrbs' : u \in GivebackUrbs \/ u \in InCore
    /\ comp'.urb \in {comp.urb, None} \cup GivebackUrbs

LEMMA OnwardStays ==
    ASSUME UNCHANGED <<core, giveback>>, comp'.urb \in {comp.urb, None}
    PROVE  Onward
  BY DEF Onward, InCore, CoreUrbs, GivebackUrbs

LEMMA CoreUrbsAre ==
    ASSUME TypeOK, NEW p \in Pipes PROVE CoreUrbs(p) \subseteq UrbsOn(p)
<1> DEFINE q == core[p]
<1>1. q \in Seq(TransfersOn(p))
  BY DEF TypeOK, ListTypes
<1>2. CoreUrbs(p) = Elements(UrbsOf(q))
  BY DEF CoreUrbs
<1> HIDE DEF q
<1>3. /\ Len(UrbsOf(q)) = Len(q)
      /\ \A i \in 1..Len(q) : UrbsOf(q)[i] = q[i].urb /\ q[i] \in TransfersOn(p)
  BY <1>1, UrbsAre, TransfersHaveUrbs
<1>4. ASSUME NEW i \in 1..Len(q) PROVE UrbsOf(q)[i] \in UrbsOn(p)
  <2>1. q[i].urb \in UrbsOn(p)
    BY <1>3 DEF TransfersOn
  <2> QED
    BY <1>3, <2>1, Zenon
<1> QED
  BY <1>2, <1>3, <1>4 DEF Elements

LEMMA OnwardPost ==
    ASSUME TypeOK, NEW c \in Contexts, PostStep(c)
    PROVE  Onward
<1>1. comp'.urb \in {comp.urb, None} /\ UNCHANGED giveback
  BY DEF PostStep, PostNoUrb, PostAlloc, PostNoBuffer, PostEnqueue, PostSubmit,
         PostSubmitFails, EndPost, CompIdle, usbVars
<1>2. CASE PostSubmit(c)
  <2> DEFINE u == post[c].urb
             t == Transfer(u, post[c].kind)
             q == core["rx"]
             b == UrbsOf(q)
  <2>1. /\ Submits(u) /\ u \in RxUrbs /\ t \in TransfersOn("rx") /\ t.urb = u
        /\ q \in Seq(TransfersOn("rx")) /\ "rx" \in Pipes
        /\ core'["rx"] = Append(q, t) /\ core'["tx"] = core["tx"]
    BY <1>2 DEF PostSubmit, Submits, Transfer, TransfersOn, UrbsOn, KindsOn, TypeOK,
                PostType, ListTypes, Pipes
  <2> HIDE DEF u, t, q
  <2>2. UrbsOf(Append(q, t)) = Append(b, u) /\ b \in Seq(Urbs) /\ u \in Urbs
    BY <2>1, UrbsAppend, UrbsAre, TransfersHaveUrbs DEF Urbs
  <2>3. Elements(Append(b, u)) = Elements(b) \cup {u}
    BY <2>2, ElementsAppend
  <2>4. CoreUrbs("rx")' = CoreUrbs("rx") \cup {u} /\ CoreUrbs("tx")' = CoreUrbs("tx")
    BY <2>1, <2>2, <2>3 DEF CoreUrbs, q
  <2>5. GivebackUrbs' = GivebackUrbs
    BY <1>1 DEF GivebackUrbs
  <2> QED
    BY <1>1, <2>1, <2>4, <2>5 DEF Onward, InCore
<1>3. CASE ~PostSubmit(c)
  <2>1. UNCHANGED core
    BY <1>3 DEF PostStep, PostNoUrb, PostAlloc, PostNoBuffer, PostEnqueue,
                PostSubmitFails, usbVars
  <2> QED
    BY <1>1, <2>1, OnwardStays
<1> QED
  BY <1>2, <1>3

LEMMA OnwardSend ==
    ASSUME TypeOK, NEW p \in Packets, SendStep(p)
    PROVE  Onward
<1>1. UNCHANGED <<comp, giveback>>
  BY DEF SendStep, SendAlloc, SendNoUrb, SendEnqueue, SendSubmit, SendSubmitFails,
         usbVars
<1>2. CASE SendSubmit(p)
  <2> DEFINE u == packet[p].urb
             t == Transfer(u, "transmit")
             q == core["tx"]
             b == UrbsOf(q)
  <2>1. /\ Submits(u) /\ u \in TxUrbs /\ t \in TransfersOn("tx") /\ t.urb = u
        /\ q \in Seq(TransfersOn("tx")) /\ "tx" \in Pipes
        /\ core'["tx"] = Append(q, t) /\ core'["rx"] = core["rx"]
    BY <1>2 DEF SendSubmit, Submits, Transfer, TransfersOn, UrbsOn, KindsOn, TypeOK,
                PacketType, ListTypes, Pipes
  <2> HIDE DEF u, t, q
  <2>2. UrbsOf(Append(q, t)) = Append(b, u) /\ b \in Seq(Urbs) /\ u \in Urbs
    BY <2>1, UrbsAppend, UrbsAre, TransfersHaveUrbs DEF Urbs
  <2>3. Elements(Append(b, u)) = Elements(b) \cup {u}
    BY <2>2, ElementsAppend
  <2>4. CoreUrbs("tx")' = CoreUrbs("tx") \cup {u} /\ CoreUrbs("rx")' = CoreUrbs("rx")
    BY <2>1, <2>2, <2>3 DEF CoreUrbs, q
  <2>5. GivebackUrbs' = GivebackUrbs
    BY <1>1 DEF GivebackUrbs
  <2> QED
    BY <1>1, <2>1, <2>4, <2>5 DEF Onward, InCore
<1>3. CASE ~SendSubmit(p)
  <2>1. UNCHANGED core
    BY <1>3 DEF SendStep, SendAlloc, SendNoUrb, SendEnqueue, SendSubmitFails, usbVars
  <2> QED
    BY <1>1, <2>1, OnwardStays
<1> QED
  BY <1>2, <1>3

LEMMA OnwardComp ==
    ASSUME TypeOK, PlaceInv, CompStep
    PROVE  Onward
<1>1. UNCHANGED core
  BY DEF CompStep, CompBegin, CompQueue, CompSchedule, CompCleanupRecv,
         CompCleanupTransmit, CompPrestart, CompRepost, usbVars
<1>2. CASE CompBegin
  <2>1. /\ giveback # <<>> /\ giveback' = Tail(giveback)
        /\ comp'.urb = Head(giveback).urb
    BY <1>2 DEF CompBegin
  <2>2. /\ Head(giveback).urb \in GivebackUrbs
        /\ GivebackUrbs' \subseteq GivebackUrbs
    BY <2>1, GivebackTake DEF PlaceInv
  <2> QED
    BY <1>1, <2>1, <2>2 DEF Onward, InCore, CoreUrbs
<1>3. CASE ~CompBegin
  <2>1. UNCHANGED giveback /\ comp'.urb \in {comp.urb, None}
    <3>1. CASE CompQueue \/ CompSchedule
      BY <3>1 DEF CompQueue, CompSchedule, usbVars, CompIdle, TypeOK, CompType
    <3>2. CASE CompCleanupRecv \/ CompCleanupTransmit
      BY <3>2 DEF CompCleanupRecv, CompCleanupTransmit, usbVars, TypeOK, CompType
    <3>3. CASE CompPrestart \/ CompRepost
      BY <3>3 DEF CompPrestart, CompRepost, usbVars, CompIdle, TypeOK, CompType
    <3> QED
      BY <1>3, <3>1, <3>2, <3>3 DEF CompStep
  <2> QED
    BY <1>1, <2>1, OnwardStays
<1> QED
  BY <1>2, <1>3

(* The target finishes a transfer.                                         *)
LEMMA OnwardTarget ==
    ASSUME TypeOK, TargetSends \/ TransferFails \/ TransmitDone
    PROVE  Onward
<1>1. PICK p \in Pipes : \E s, m : Finish(p, s, m)
  BY DEF TargetSends, TransferFails, TransmitDone, Pipes
<1>2. PICK s, m : Finish(p, s, m)
  BY <1>1
<1> DEFINE q == core[p]
           b == UrbsOf(q)
           u == Head(q).urb
           t == Finished(Head(q), s, m)
           g == giveback
<1>3. /\ q # <<>> /\ q \in Seq(TransfersOn(p)) /\ t.urb = u
      /\ core'[p] = Tail(q) /\ \A o \in Pipes : o # p => core'[o] = core[o]
      /\ giveback' = Append(g, t) /\ comp' = comp
      /\ g \in Seq(FinishedTransfers)
  BY <1>2 DEF Finish, Finished, TypeOK, ListTypes
<1>4. Append(g, t) \in Seq(FinishedTransfers)
  <2>1. TypeOK'
    BY TypeTarget
  <2> QED
    BY <1>3, <2>1 DEF TypeOK, ListTypes
<1> HIDE DEF q, t, u
<1>5. t \in FinishedTransfers
  <2>1. /\ Len(g) \in Nat /\ Len(Append(g, t)) = Len(g) + 1
        /\ Append(g, t)[Len(g) + 1] = t
    BY <1>3, LenProperties
  <2>2. Len(g) + 1 \in 1..Len(Append(g, t))
    BY <2>1
  <2> QED
    BY <1>4, <2>1, <2>2, ElementOfSeq
<1>6. /\ b # <<>> /\ b \in Seq(Urbs) /\ Head(b) = u /\ UrbsOf(Tail(q)) = Tail(b)
  BY <1>3, UrbsTail, UrbsAre, TransfersHaveUrbs DEF u
<1> HIDE DEF b
<1>7. u \in Elements(b) /\ Elements(Tail(b)) \subseteq Elements(b) /\ u \in Urbs
  BY <1>6, ElementsTail
<1>8. GivebackUrbs' = GivebackUrbs \cup {u}
  <2>1. UrbsOf(Append(g, t)) = Append(UrbsOf(g), u) /\ UrbsOf(g) \in Seq(Urbs)
    BY <1>3, <1>5, UrbsAppend, UrbsAre, TransfersHaveUrbs
  <2>2. Elements(Append(UrbsOf(g), u)) = Elements(UrbsOf(g)) \cup {u}
    BY <1>7, <2>1, ElementsAppend
  <2> QED
    BY <1>3, <2>1, <2>2 DEF GivebackUrbs
<1>9. /\ u \in CoreUrbs(p) /\ CoreUrbs(p)' \subseteq CoreUrbs(p)
      /\ \A o \in Pipes : o # p => CoreUrbs(o)' = CoreUrbs(o)
  BY <1>3, <1>6, <1>7 DEF CoreUrbs, q, b
<1>10. u \in InCore /\ InCore' \subseteq InCore
  BY <1>9 DEF InCore, Pipes
<1> QED
  BY <1>3, <1>8, <1>10 DEF Onward

(* usb_kill_urb takes the transfer from the USB core.                      *)
LEMMA Kills ==
    ASSUME TypeOK, PlaceInv, FlushKill
    PROVE  /\ InCore' \subseteq InCore /\ flush.urb \notin InCore'
           /\ \A u \in GivebackUrbs' :
                 u \in GivebackUrbs \/ (u \in InCore /\ u = flush.urb)
<1> DEFINE p == flush.pipe
           v == flush.urb
           ts == core[p]
           b == UrbsOf(ts)
<1>1. p \in Pipes /\ ts \in Seq(TransfersOn(p)) /\ Distinct(b) /\ v \in UrbsOn(p)
  BY DEF FlushKill, TypeOK, ListTypes, ControlType, PlaceInv, NoDuplicates
<1>2. /\ b \in Seq(Urbs) /\ Len(b) = Len(ts)
      /\ \A i \in 1..Len(ts) : b[i] = ts[i].urb /\ ts[i] \in TransfersOn(p)
  <2> HIDE DEF ts
  <2> QED
    BY <1>1, UrbsAre, TransfersHaveUrbs
<1>3. \A o \in Pipes : o # p => v \notin CoreUrbs(o)
  BY <1>1, CoreUrbsAre, HifUsbAssumption DEF HifUsbAssumption, UrbsOn, Pipes
<1>4. CASE UNCHANGED <<core, giveback>>
  <2>1. \A i \in 1..Len(ts) : ts[i].urb # v
    <3>1. ASSUME NEW i \in 1..Len(ts), ts[i].urb = v PROVE FALSE
      <4>1. PICK j \in 1..Len(ts) :
               giveback' = Append(giveback, Finished(ts[j], "cancelled", <<>>))
        BY <3>1 DEF FlushKill
      <4>2. giveback \in Seq(FinishedTransfers)
        BY DEF TypeOK, ListTypes
      <4> DEFINE x == Finished(ts[j], "cancelled", <<>>)
      <4>3. Len(giveback) \in Nat /\ Len(Append(giveback, x)) = Len(giveback) + 1
        <5> HIDE DEF x
        <5> QED
          BY <4>2, LenProperties, AppendProperties
      <4>4. giveback = Append(giveback, x)
        BY <1>4, <4>1
      <4> HIDE DEF x
      <4> QED
        BY <4>3, <4>4
    <3> QED
      BY <3>1
  <2>2. v \notin CoreUrbs(p)
    BY <1>2, <2>1 DEF CoreUrbs, Elements
  <2>3. /\ \A o \in Pipes : CoreUrbs(o)' = CoreUrbs(o)
        /\ GivebackUrbs' = GivebackUrbs
    BY <1>4 DEF CoreUrbs, GivebackUrbs
  <2>4. v \notin InCore
    BY <1>3, <2>2 DEF InCore, Pipes
  <2>5. InCore' = InCore
    BY <2>3 DEF InCore, Pipes
  <2> QED
    BY <2>3, <2>4, <2>5
<1>5. CASE ~UNCHANGED <<core, giveback>>
  <2>1. PICK i \in 1..Len(ts) :
            /\ ts[i].urb = v
            /\ core' = [core EXCEPT ![p] = RemoveAt(ts, i)]
            /\ giveback' = Append(giveback, Finished(ts[i], "cancelled", <<>>))
    BY <1>5 DEF FlushKill
  <2> DEFINE x == ts[i]
             t == Finished(x, "cancelled", <<>>)
             g == giveback
  <2>2. t \in FinishedTransfers /\ t.urb = v
    <3>1. x \in TransfersOn(p) /\ x.urb = v /\ <<>> \in Seq(Nat)
      BY <1>2, <2>1, EmptySeq
    <3> HIDE DEF x
    <3> QED
      BY <1>1, <3>1 DEF Finished, FinishedTransfers, FinishedOn,
                        TransfersOn, Pipes, Statuses
  <2>3. g \in Seq(FinishedTransfers) /\ giveback' = Append(g, t)
    BY <2>1 DEF TypeOK, ListTypes
  <2> HIDE DEF t, x
  <2>4. GivebackUrbs' \subseteq GivebackUrbs \cup {v}
    <3>1. UrbsOf(Append(g, t)) = Append(UrbsOf(g), t.urb) /\ UrbsOf(g) \in Seq(Urbs)
      BY <2>2, <2>3, UrbsAppend, UrbsAre, TransfersHaveUrbs
    <3>2. t.urb \in Urbs
      BY <2>2, TransfersHaveUrbs DEF HasUrbs
    <3>3. Elements(Append(UrbsOf(g), t.urb)) = Elements(UrbsOf(g)) \cup {t.urb}
      BY <3>1, <3>2, ElementsAppend
    <3> QED
      BY <2>2, <2>3, <3>1, <3>3 DEF GivebackUrbs
  <2>5. v \in CoreUrbs(p)
    <3>1. b[i] = v /\ i \in 1..Len(b)
      BY <1>2, <2>1
    <3> HIDE DEF b
    <3>2. v \in Elements(b)
      BY <3>1 DEF Elements
    <3> QED
      BY <3>2 DEF CoreUrbs, b
  <2>6. Elements(RemoveAt(b, i)) = Elements(b) \ {v} /\ UrbsOf(RemoveAt(ts, i)) = RemoveAt(b, i)
    <3>1. b[i] = v /\ i \in 1..Len(b)
      BY <1>2, <2>1
    <3>2. UrbsOf(RemoveAt(ts, i)) = RemoveAt(b, i)
      <4> HIDE DEF ts
      <4> QED
        BY <1>1, UrbsRemoveAt, TransfersHaveUrbs
    <3> HIDE DEF b
    <3> QED
      BY <1>1, <1>2, <3>1, <3>2, ElementsRemoveAt
  <2>7. core'[p] = RemoveAt(ts, i) /\ \A o \in Pipes : o # p => core'[o] = core[o]
    BY <1>1, <2>1 DEF TypeOK, ListTypes
  <2>8. \A o \in Pipes : CoreUrbs(o)' = CoreUrbs(o) \ {v}
    <3>1. ASSUME NEW o \in Pipes, o = p PROVE CoreUrbs(o)' = CoreUrbs(o) \ {v}
      <4>1. core'[o] = RemoveAt(ts, i) /\ CoreUrbs(o) = Elements(b)
        BY <2>7, <3>1 DEF CoreUrbs
      <4> QED
        BY <2>6, <4>1 DEF CoreUrbs
    <3>2. ASSUME NEW o \in Pipes, o # p PROVE CoreUrbs(o)' = CoreUrbs(o) \ {v}
      <4>1. CoreUrbs(o)' = CoreUrbs(o)
        BY <2>7, <3>2 DEF CoreUrbs
      <4> QED
        BY <1>3, <3>2, <4>1
    <3> QED
      BY <3>1, <3>2
  <2>9. InCore' \subseteq InCore /\ v \notin InCore' /\ v \in InCore
    BY <1>1, <2>5, <2>8 DEF InCore, Pipes
  <2> QED
    BY <2>4, <2>9
<1> QED
  BY <1>4, <1>5

(* What the bus and the other contexts do with the transfers.              *)
LEMMA OnwardStep == ASSUME TypeOK, PlaceInv, [Next]_vars PROVE Onward
<1>1. CASE FlushStep
  <2>1. UNCHANGED comp
    BY <1>1, QueuesLeft
  <2>2. CASE FlushKill
    BY <2>1, <2>2, Kills DEF Onward
  <2>3. CASE ~FlushKill
    BY <1>1, <2>1, <2>3, OnwardStays
       DEF FlushStep, FlushTake, FlushWait, FlushWork, usbVars
  <2> QED
    BY <2>2, <2>3
<1>2. CASE Suspended \/ Disconnect
  <2>1. UNCHANGED comp
    BY <1>2, QueuesLeft
  <2>2. /\ GivebackUrbs' = (GivebackUrbs \cup CoreUrbs("tx")) \cup CoreUrbs("rx")
        /\ CoreUrbs("tx")' = {} /\ CoreUrbs("rx")' = {}
    BY <1>2, CancelAllUrbs DEF Suspended, Disconnect
  <2> QED
    BY <2>1, <2>2 DEF Onward, InCore
<1>3. CASE HIFStart \/ hif_usb_suspend \/ hif_usb_resume \/ HTCStop \/ StopStep
  BY <1>3, OnwardStays
     DEF HIFStart, hif_usb_suspend, hif_usb_resume, HTCStop, StopStep, HTCDestroy,
         HIFDetachHTC, Detached, usb_hif_destroy, usb_hif_cleanup_pipe_resources,
         usbVars
<1>4. CASE WorkStep \/ UNCHANGED vars
  BY <1>4, OnwardStays DEF WorkStep, WorkBegin, WorkCallback, WorkEnd, vars, usbVars
<1> QED
  BY <1>1, <1>2, <1>3, <1>4, OnwardPost, OnwardComp, OnwardSend, OnwardTarget
     DEF Next, Removed
-----------------------------------------------------------------------------
(* What a flush sees, as long as no transfer has escaped it: every         *)
(* transfer from its submission to the start of its completion routine is  *)
(* on the pending list, or is the one the flush is killing.                *)
Pending == Elements(urb_pending_list["tx"]) \cup Elements(urb_pending_list["rx"])

Seen ==
    /\ \A u : Submits(u) => u \in Pending
    /\ \A u \in InCore : u \in Pending \/ (flush.pc = "kill" /\ flush.urb = u)
    /\ \A u \in GivebackUrbs :
          u \in Pending \/ (flush.pc \in {"kill", "wait"} /\ flush.urb = u)

FlushSees == ~overtaken => Seen

LEMMA SeenKept ==
    ASSUME Seen, Onward, flush' = flush \/ flush.pc \notin {"kill", "wait"},
           \A u : Submits(u)' => Submits(u) \/ u \in Pending',
           \A u \in Pending : \/ u \in Pending'
                              \/ ~Submits(u)' /\ u \notin InCore'
                                 /\ u \notin GivebackUrbs'
    PROVE  Seen'
<1>1. ASSUME NEW u, Submits(u)' PROVE u \in Pending'
  BY <1>1 DEF Seen
<1>2. ASSUME NEW u \in InCore'
      PROVE  u \in Pending' \/ (flush'.pc = "kill" /\ flush'.urb = u)
  BY <1>2 DEF Seen, Onward
<1>3. ASSUME NEW u \in GivebackUrbs'
      PROVE  u \in Pending' \/ (flush'.pc \in {"kill", "wait"} /\ flush'.urb = u)
  BY <1>3 DEF Seen, Onward
<1> QED
  BY <1>1, <1>2, <1>3 DEF Seen

(* A URB that one context holds is not on its way for another one.         *)
LEMMA Alone ==
    ASSUME PlaceInv, NEW k \in Tokens, NEW u, u # None, u \in Held[k]
    PROVE  /\ (\A p \in Pipes : k # <<"core", p>>) => u \notin InCore
           /\ k # <<"giveback", None>> => u \notin GivebackUrbs
           /\ \A c \in Contexts : post[c].urb = u => k = <<"post", c>>
           /\ \A p \in Packets : packet[p].pc = "submit" /\ packet[p].urb = u =>
                 k = <<"packet", p>>
  BY OnlyThere DEF InCore, PostUrbs, PacketUrbs, Pipes

(* The pending lists after a URB was added or removed.                     *)
LEMMA PendingGrows ==
    ASSUME TypeOK, NEW p \in Pipes, NEW u \in UrbsOn(p),
           urb_pending_list' = [urb_pending_list EXCEPT ![p] = Append(@, u)]
    PROVE  Pending' = Pending \cup {u}
<1> DEFINE q == urb_pending_list[p]
<1>1. /\ q \in Seq(UrbsOn(p)) /\ urb_pending_list'[p] = Append(q, u)
      /\ \A o \in Pipes : o # p => urb_pending_list'[o] = urb_pending_list[o]
  BY DEF TypeOK, ListTypes
<1> HIDE DEF q
<1>2. Elements(Append(q, u)) = Elements(q) \cup {u}
  BY <1>1, ElementsAppend
<1> QED
  BY <1>1, <1>2 DEF Pending, Pipes, q

LEMMA PendingShrinks ==
    ASSUME TypeOK, PlaceInv, NEW u \in Urbs,
           urb_pending_list' = usb_hif_remove_pending_transfer(u)
    PROVE  Pending' = Pending \ {u}
<1>1. \A o \in Pipes :
         Elements(urb_pending_list'[o]) = Elements(urb_pending_list[o]) \ {u}
  BY PendingRemove DEF PlaceInv
<1> QED
  BY <1>1 DEF Pending, Pipes

LEMMA SeenPost ==
    ASSUME TypeOK, PlaceInv, Seen, NEW c \in Contexts, PostStep(c)
    PROVE  Seen'
<1>0. PICK u : u = post[c].urb
  OBVIOUS
<1>1. Onward /\ UNCHANGED <<flush, packet, giveback>>
  BY OnwardPost DEF PostStep, PostNoUrb, PostAlloc, PostNoBuffer, PostEnqueue,
                    PostSubmit, PostSubmitFails, usbVars
<1>2. \A d \in Contexts : d # c => post'[d] = post[d]
  BY DEF PostStep, PostNoUrb, PostAlloc, PostNoBuffer, PostEnqueue, PostSubmit,
         PostSubmitFails, EndPost, TypeOK, PostType
<1>3. CASE PostEnqueue(c)
  <2>1. /\ u \in UrbsOn("rx") /\ "rx" \in Pipes /\ post'[c].urb = u
        /\ urb_pending_list' = [urb_pending_list EXCEPT !["rx"] = Append(@, u)]
    BY <1>0, <1>3 DEF PostEnqueue, TypeOK, PostType, UrbsOn, Pipes
  <2>2. Pending' = Pending \cup {u}
    BY <2>1, PendingGrows
  <2>3. \A x : Submits(x)' => Submits(x) \/ x = u
    BY <1>1, <1>2, <2>1 DEF Submits
  <2> QED
    BY <1>1, <2>2, <2>3, SeenKept
<1>4. CASE PostSubmitFails(c)
  <2>1. /\ u \in Urbs /\ u # None /\ post'[c].pc = "off" /\ UNCHANGED core
        /\ urb_pending_list' = usb_hif_remove_pending_transfer(u)
    BY <1>0, <1>4, HifUsbAssumption
       DEF HifUsbAssumption, PostSubmitFails, EndPost, PostOff, usbVars, TypeOK,
           PostType, Urbs
  <2>2. <<"post", c>> \in Tokens /\ u \in Held[<<"post", c>>]
    <3>1. u \in PostUrbs(c)
      BY <1>0, <2>1 DEF PostUrbs
    <3> QED
      BY <3>1, TokensAre, HeldAt, Zenon
  <2>3. Pending' = Pending \ {u}
    BY <2>1, PendingShrinks
  <2>4. \A x : Submits(x)' => Submits(x)
    BY <1>1, <1>2, <2>1 DEF Submits
  <2>5. u \notin InCore /\ u \notin GivebackUrbs
    BY <2>1, <2>2, Alone
  <2>6. \A d \in Contexts : d # c => post[d].urb # u
    BY <2>1, <2>2, Alone
  <2>7. \A p \in Packets : packet[p].pc = "submit" => packet[p].urb # u
    BY <2>1, <2>2, Alone
  <2>8. ~Submits(u)'
    BY <1>1, <1>2, <2>1, <2>6, <2>7 DEF Submits
  <2>9. InCore' = InCore /\ GivebackUrbs' = GivebackUrbs
    BY <1>1, <2>1 DEF InCore, CoreUrbs, GivebackUrbs
  <2> QED
    BY <1>1, <2>3, <2>4, <2>5, <2>8, <2>9, SeenKept
<1>5. CASE ~PostEnqueue(c) /\ ~PostSubmitFails(c)
  <2>1. UNCHANGED urb_pending_list /\ post'[c].pc # "submit"
    BY <1>5 DEF PostStep, PostNoUrb, PostAlloc, PostNoBuffer, PostSubmit, listVars,
                EndPost, PostOff, Post, TypeOK, PostType
  <2>2. Pending' = Pending /\ \A x : Submits(x)' => Submits(x)
    BY <1>1, <1>2, <2>1 DEF Pending, Submits
  <2> QED
    BY <1>1, <2>2, SeenKept
<1> QED
  BY <1>3, <1>4, <1>5

LEMMA SeenComp ==
    ASSUME TypeOK, PlaceInv, Seen, CompStep
    PROVE  Seen'
<1>1. Onward /\ UNCHANGED flush
  BY OnwardComp DEF CompStep, CompBegin, CompQueue, CompSchedule, CompCleanupRecv,
                    CompCleanupTransmit, CompPrestart, CompRepost
<1>2. CASE CompBegin
  <2> DEFINE u == Head(giveback).urb
  <2>1. /\ UNCHANGED <<core, post, packet>> /\ giveback # <<>>
        /\ giveback' = Tail(giveback)
        /\ urb_pending_list' = usb_hif_remove_pending_transfer(u)
    BY <1>2 DEF CompBegin
  <2>2. u \in GivebackUrbs /\ u \in Urbs /\ GivebackUrbs' = GivebackUrbs \ {u}
    BY <2>1, GivebackTake DEF PlaceInv
  <2> HIDE DEF u
  <2>3. Pending' = Pending \ {u}
    BY <2>1, <2>2, PendingShrinks
  <2>4. <<"giveback", None>> \in Tokens /\ u \in Held[<<"giveback", None>>] /\ u # None
    BY <2>2, TokensAre, HeldAt, HifUsbAssumption DEF HifUsbAssumption, Urbs
  <2>5. u \notin InCore
    BY <2>4, Alone
  <2>6. ~Submits(u)
    BY <2>4, Alone DEF Submits
  <2>7. InCore' = InCore /\ \A x : Submits(x)' <=> Submits(x)
    BY <2>1 DEF InCore, CoreUrbs, Submits
  <2> QED
    BY <1>1, <2>2, <2>3, <2>5, <2>6, <2>7, SeenKept
<1>3. CASE ~CompBegin
  <2>1. UNCHANGED urb_pending_list
    BY <1>3 DEF CompStep, CompQueue, CompSchedule, CompCleanupRecv,
                CompCleanupTransmit, CompPrestart, CompRepost, listVars
  <2>2. \A d \in Contexts : post'[d] = post[d] \/ post'[d].pc # "submit"
    BY <1>3 DEF CompStep, CompQueue, CompSchedule, CompCleanupRecv,
                CompCleanupTransmit, CompPrestart, CompRepost,
                usb_hif_start_recv_pipes, Post, TypeOK, PostType
  <2>3. \A q \in Packets : packet'[q].pc = packet[q].pc /\ packet'[q].urb = packet[q].urb
    <3>1. CASE CompCleanupTransmit
      BY <3>1 DEF CompCleanupTransmit, WithoutContext, TypeOK, PacketType,
                  PacketRecords
    <3>2. CASE ~CompCleanupTransmit
      BY <1>3, <3>2 DEF CompStep, CompQueue, CompSchedule, CompCleanupRecv,
                        CompPrestart, CompRepost
    <3> QED
      BY <3>1, <3>2
  <2>4. Pending' = Pending /\ \A x : Submits(x)' => Submits(x)
    BY <2>1, <2>2, <2>3 DEF Pending, Submits
  <2> QED
    BY <1>1, <2>4, SeenKept
<1> QED
  BY <1>2, <1>3

LEMMA SeenSend ==
    ASSUME TypeOK, PlaceInv, Seen, NEW p \in Packets, SendStep(p)
    PROVE  Seen'
<1>0. PICK u : u = packet[p].urb
  OBVIOUS
<1>1. Onward /\ UNCHANGED <<flush, post, giveback>>
  BY OnwardSend DEF SendStep, SendAlloc, SendNoUrb, SendEnqueue, SendSubmit,
                    SendSubmitFails, usbVars
<1>2. /\ \A q \in Packets : q # p => packet'[q] = packet[q]
      /\ packet[p] \in PacketRecords
  BY DEF SendStep, SendAlloc, SendNoUrb, SendEnqueue, SendSubmit,
         SendSubmitFails, TypeOK, PacketType
<1>3. CASE SendEnqueue(p)
  <2>1. /\ u \in UrbsOn("tx") /\ "tx" \in Pipes /\ packet'[p].urb = u
        /\ urb_pending_list' = [urb_pending_list EXCEPT !["tx"] = Append(@, u)]
    BY <1>0, <1>2, <1>3 DEF SendEnqueue, TypeOK, PacketType, UrbsOn, Pipes
  <2>2. Pending' = Pending \cup {u}
    BY <2>1, PendingGrows
  <2>3. \A x : Submits(x)' => Submits(x) \/ x = u
    BY <1>1, <1>2, <2>1 DEF Submits
  <2> QED
    BY <1>1, <2>2, <2>3, SeenKept
<1>4. CASE SendSubmitFails(p)
  <2>1. /\ packet[p].pc = "submit" /\ u \in Urbs /\ u # None /\ UNCHANGED core
        /\ urb_pending_list' = usb_hif_remove_pending_transfer(u)
    BY <1>0, <1>4, HifUsbAssumption
       DEF HifUsbAssumption, SendSubmitFails, usbVars, TypeOK, PacketType, Urbs
  <2>2. packet'[p].pc = "htc"
    BY <1>2, <1>4 DEF SendSubmitFails, UndoContext, WithoutContext, PacketRecords,
                      TypeOK, PacketType
  <2>3. <<"packet", p>> \in Tokens /\ u \in Held[<<"packet", p>>]
    <3>1. u \in PacketUrbs(p)
      BY <1>0, <2>1 DEF PacketUrbs
    <3> QED
      BY <3>1, TokensAre, HeldAt, Zenon
  <2>4. Pending' = Pending \ {u}
    BY <2>1, PendingShrinks
  <2>5. \A x : Submits(x)' => Submits(x)
    BY <1>1, <1>2, <2>2 DEF Submits
  <2>6. u \notin InCore /\ u \notin GivebackUrbs
    BY <2>1, <2>3, Alone
  <2>7. \A c \in Contexts : post[c].urb # u
    BY <2>1, <2>3, Alone
  <2>8. \A q \in Packets : q # p => ~(packet[q].pc = "submit" /\ packet[q].urb = u)
    BY <2>1, <2>3, Alone
  <2>9. ~Submits(u)'
    BY <1>1, <1>2, <2>2, <2>7, <2>8 DEF Submits
  <2>10. InCore' = InCore /\ GivebackUrbs' = GivebackUrbs
    BY <1>1, <2>1 DEF InCore, CoreUrbs, GivebackUrbs
  <2> QED
    BY <1>1, <2>4, <2>5, <2>6, <2>9, <2>10, SeenKept
<1>5. CASE SendAlloc(p) \/ SendNoUrb(p) \/ SendSubmit(p)
  <2>1. UNCHANGED urb_pending_list
    BY <1>5 DEF SendAlloc, SendNoUrb, SendSubmit, listVars
  <2>2. packet'[p].pc # "submit"
    <3> DEFINE w == WithContext(packet[p])
    <3>1. w \in PacketRecords /\ w.pc = packet[p].pc
      BY <1>2, ContextAdded
    <3>2. CASE SendAlloc(p)
      <4>1. \E v : packet'[p] = [w EXCEPT !.pc = "enqueue", !.urb = v]
        BY <3>2 DEF SendAlloc, TypeOK, PacketType
      <4> HIDE DEF w
      <4> QED
        BY <3>1, <4>1 DEF PacketRecords
    <3>3. CASE SendNoUrb(p)
      <4>1. packet'[p] = [w EXCEPT !.refused = packet[p].refused + 1]
            /\ packet[p].pc = "htc"
        BY <3>3 DEF SendNoUrb, TypeOK, PacketType
      <4> HIDE DEF w
      <4> QED
        BY <3>1, <4>1 DEF PacketRecords
    <3>4. CASE SendSubmit(p)
      BY <1>2, <3>4 DEF SendSubmit, TypeOK, PacketType, PacketRecords
    <3> QED
      BY <1>5, <3>2, <3>3, <3>4
  <2>3. Pending' = Pending /\ \A x : Submits(x)' => Submits(x)
    BY <1>1, <1>2, <2>1, <2>2 DEF Pending, Submits
  <2> QED
    BY <1>1, <2>3, SeenKept
<1> QED
  BY <1>3, <1>4, <1>5 DEF SendStep

LEMMA SeenFlush ==
    ASSUME TypeOK, PlaceInv, SendInv, Seen, FlushStep, ~overtaken'
    PROVE  Seen'
<1>1. UNCHANGED <<post, packet>> /\ Onward /\ \A u : Submits(u)' <=> Submits(u)
  <2>1. UNCHANGED <<post, packet>>
    BY DEF FlushStep, FlushTake, FlushKill, FlushWait, FlushWork
  <2> QED
    BY <2>1, OnwardStep DEF Submits, Next
<1>2. NobodySends
  BY DEF FlushStep, FlushTake, FlushKill, FlushWait, FlushWork, TypeOK,
         ControlType, Sending, SendInv
<1>3. CASE FlushTake
  <2> DEFINE p == flush.pipe
             q == urb_pending_list[p]
  <2>1. /\ UNCHANGED <<core, giveback>> /\ flush.pc = "take" /\ p \in Pipes
        /\ ~Overtakes
    BY <1>3 DEF FlushTake, usbVars, TypeOK, ControlType
  <2>2. InCore' = InCore /\ GivebackUrbs' = GivebackUrbs
    BY <2>1 DEF InCore, CoreUrbs, GivebackUrbs
  <2>3. CASE q = <<>>
    <3>1. Pending' = Pending
      BY <1>3, <2>3 DEF FlushTake, Pending
    <3> QED
      BY <1>1, <2>1, <3>1, SeenKept
  <2>4. CASE q # <<>>
    <3>1. /\ urb_pending_list'[p] = Tail(q)
          /\ \A o \in Pipes : o # p => urb_pending_list'[o] = urb_pending_list[o]
          /\ flush'.pc = "kill" /\ flush'.urb = Head(q)
          /\ q \in Seq(UrbsOn(p))
      BY <1>3, <2>1, <2>4 DEF FlushTake, TypeOK, ListTypes, ControlType
    <3>2. Elements(q) = {Head(q)} \cup Elements(Tail(q))
      <4> HIDE DEF q
      <4> QED
        BY <2>4, <3>1, ElementsTail
    <3>3. ~Submits(Head(q))
      BY <1>2, <2>1, <2>4 DEF Submits, Overtakes, NobodySends
    <3> DEFINE h == Head(q)
    <3>4. Pending = {h} \cup Pending'
      BY <2>1, <3>1, <3>2 DEF Pending, Pipes
    <3>5. flush'.urb = h /\ ~Submits(h)
      BY <3>1, <3>3
    <3> HIDE DEF h
    <3> QED
      BY <1>1, <2>1, <2>2, <3>1, <3>4, <3>5 DEF Seen
  <2> QED
    BY <2>3, <2>4
<1>4. CASE FlushKill
  <2>1. UNCHANGED urb_pending_list /\ flush'.pc = "wait" /\ flush'.urb = flush.urb
    BY <1>4 DEF FlushKill, listVars, TypeOK, ControlType
  <2>2. Pending' = Pending
    BY <2>1 DEF Pending
  <2> QED
    BY <1>1, <1>4, <2>1, <2>2, Kills DEF Seen
<1>5. CASE FlushWait
  <2>1. /\ UNCHANGED <<urb_pending_list, core, giveback>> /\ flush.pc = "wait"
        /\ \A i \in 1..Len(giveback) : giveback[i].urb # flush.urb
    BY <1>5 DEF FlushWait, listVars, usbVars
  <2>2. flush.urb \notin GivebackUrbs
    <3>1. /\ Len(UrbsOf(giveback)) = Len(giveback)
          /\ \A i \in 1..Len(giveback) : UrbsOf(giveback)[i] = giveback[i].urb
      BY UrbsAre, TransfersHaveUrbs DEF TypeOK, ListTypes
    <3> QED
      BY <2>1, <3>1 DEF GivebackUrbs, Elements
  <2>3. Pending' = Pending /\ InCore' = InCore /\ GivebackUrbs' = GivebackUrbs
    BY <2>1 DEF Pending, InCore, CoreUrbs, GivebackUrbs
  <2> QED
    BY <1>1, <2>1, <2>2, <2>3 DEF Seen
<1>6. CASE FlushWork
  <2>1. UNCHANGED urb_pending_list /\ flush.pc = "work"
    BY <1>6 DEF FlushWork, listVars
  <2>2. Pending' = Pending
    BY <2>1 DEF Pending
  <2> QED
    BY <1>1, <2>1, <2>2, SeenKept
<1> QED
  BY <1>3, <1>4, <1>5, <1>6 DEF FlushStep

(* A step of the target, of a worker or of the control thread.             *)
LEMMA SeenOther ==
    ASSUME TypeOK, PlaceInv, Seen,
           \/ WorkStep \/ TargetSends \/ TransferFails \/ TransmitDone
           \/ HIFStart \/ hif_usb_suspend \/ Suspended \/ hif_usb_resume
           \/ Disconnect \/ HTCStop \/ StopStep \/ UNCHANGED vars
    PROVE  Seen'
<1>1. Onward
  BY OnwardStep DEF Next
<1>2. CASE WorkStep
  <2>1. UNCHANGED <<flush, post, urb_pending_list>>
    BY <1>2 DEF WorkStep, WorkBegin, WorkCallback, WorkEnd, listVars
  <2>2. \A q \in Packets : packet'[q] = packet[q] \/ packet'[q].pc = "done"
    BY <1>2 DEF WorkStep, WorkBegin, WorkCallback, WorkEnd, TypeOK, PacketType,
                PacketRecords
  <2>3. Pending' = Pending /\ \A x : Submits(x)' => Submits(x)
    BY <2>1, <2>2 DEF Pending, Submits
  <2> QED
    BY <1>1, <2>1, <2>3, SeenKept
<1>3. CASE TargetSends \/ TransferFails \/ TransmitDone \/ UNCHANGED vars
  <2>1. UNCHANGED <<flush, post, packet, urb_pending_list>>
    BY <1>3 DEF TargetSends, TransferFails, TransmitDone, Finish, vars, listVars
  <2>2. Pending' = Pending /\ \A x : Submits(x)' => Submits(x)
    BY <2>1 DEF Pending, Submits
  <2> QED
    BY <1>1, <2>1, <2>2, SeenKept
<1>4. CASE \/ HIFStart \/ hif_usb_suspend \/ Suspended \/ hif_usb_resume
           \/ Disconnect \/ HTCStop \/ StopStep
  <2>1. UNCHANGED <<packet, urb_pending_list>>
    BY <1>4 DEF HIFStart, hif_usb_suspend, Suspended, hif_usb_resume, Disconnect,
                HTCStop, StopStep, HTCDestroy, HIFDetachHTC, Detached,
                usb_hif_destroy, usb_hif_cleanup_pipe_resources, listVars
  <2>2. flush' = flush \/ flush.pc \notin {"kill", "wait"}
    BY <1>4 DEF HIFStart, hif_usb_suspend, Suspended, hif_usb_resume, Disconnect,
                HTCStop, StopStep, HTCDestroy, HIFDetachHTC, Detached,
                usb_hif_destroy, usb_hif_cleanup_pipe_resources, TypeOK, ControlType
  <2>3. \A d \in Contexts : post'[d] = post[d] \/ post'[d].pc # "submit"
    BY <1>4 DEF HIFStart, hif_usb_suspend, Suspended, hif_usb_resume, Disconnect,
                HTCStop, StopStep, HTCDestroy, HIFDetachHTC, Detached,
                usb_hif_destroy, usb_hif_cleanup_pipe_resources,
                usb_hif_start_recv_pipes, Post, TypeOK, PostType
  <2>4. Pending' = Pending /\ \A x : Submits(x)' => Submits(x)
    BY <2>1, <2>3 DEF Pending, Submits
  <2> QED
    BY <1>1, <2>2, <2>4, SeenKept
<1> QED
  BY <1>2, <1>3, <1>4

(* What has escaped a flush stays on record.                               *)
LEMMA OvertakenStays == [Next]_vars /\ ~overtaken' => ~overtaken
<1> SUFFICES ASSUME [Next]_vars, overtaken PROVE overtaken'
  OBVIOUS
<1>1. ASSUME NEW c \in Contexts, PostStep(c) PROVE overtaken'
  BY <1>1 DEF PostStep, PostNoUrb, PostAlloc, PostNoBuffer, PostEnqueue, PostSubmit,
              PostSubmitFails, stateVars
<1>2. CASE CompStep
  BY <1>2 DEF CompStep, CompBegin, CompQueue, CompSchedule, CompCleanupRecv,
              CompCleanupTransmit, CompPrestart, CompRepost, stateVars
<1>3. CASE WorkStep
  BY <1>3 DEF WorkStep, WorkBegin, WorkCallback, WorkEnd, stateVars
<1>4. ASSUME NEW p \in Packets, SendStep(p) PROVE overtaken'
  BY <1>4 DEF SendStep, SendAlloc, SendNoUrb, SendEnqueue, SendSubmit,
              SendSubmitFails, stateVars
<1>5. CASE TargetSends \/ TransferFails \/ TransmitDone \/ FlushStep \/ UNCHANGED vars
  BY <1>5 DEF TargetSends, TransferFails, TransmitDone, Finish, FlushStep, FlushTake,
              FlushKill, FlushWait, FlushWork, vars, stateVars
<1>6. CASE \/ HIFStart \/ hif_usb_suspend \/ Suspended \/ hif_usb_resume
           \/ Disconnect \/ HTCStop \/ StopStep
  BY <1>6 DEF HIFStart, hif_usb_suspend, Suspended, hif_usb_resume, Disconnect,
              HTCStop, StopStep, HTCDestroy, HIFDetachHTC, Detached,
              usb_hif_destroy, usb_hif_cleanup_pipe_resources, stateVars
<1> QED
  BY <1>1, <1>2, <1>3, <1>4, <1>5, <1>6 DEF Next, Removed

LEMMA SeesStep ==
    ASSUME TypeOK, PlaceInv, SendInv, FlushSees, [Next]_vars
    PROVE  FlushSees'
<1> SUFFICES ASSUME ~overtaken' PROVE Seen'
  BY DEF FlushSees
<1>1. Seen
  BY OvertakenStays DEF FlushSees
<1> QED
  BY <1>1, SeenPost, SeenComp, SeenSend, SeenFlush, SeenOther DEF Next, Removed
-----------------------------------------------------------------------------
(* How far the stop has come.  A pipe is past its last flush once          *)
(* HIFDetachHTC has found no pending transfer of it, and it is drained     *)
(* once its work item was flushed after that.                              *)
Detaches == control \in {"detached", "removing", "removed"}

Past(p) ==
    \/ Detaches
    \/ control = "detaching" /\ flush.pipe = p /\ flush.pc \in {"work", "done"}
    \/ control = "detaching" /\ p = "tx" /\ flush.pipe = "rx"

Drained(p) ==
    \/ Detaches
    \/ control = "detaching" /\ flush.pc = "done"
    \/ control = "detaching" /\ p = "tx" /\ flush.pipe = "rx"

(* No transfer of the pipe is under way and none of its routines runs.     *)
Clear(p) ==
    \A u \in UrbsOn(p) : u \notin InCore /\ u \notin GivebackUrbs /\ comp.urb # u

QuietFlags ==
    /\ ~htcCallbacks => Detaches
    /\ flush.pc = "done" => flush.pipe = "rx"

QuietPipe(p) ==
    /\ Past(p) => Clear(p)
    /\ Drained(p) => io_comp_queue[p] = <<>>

QuietInv == QuietFlags /\ (~overtaken => \A p \in Pipes : QuietPipe(p))

(* Where a pipe gets past its last flush, and where it is drained.         *)
PastBegins(p) == /\ FlushTake /\ control = "detaching" /\ flush.pipe = p
                 /\ urb_pending_list[p] = <<>>
DrainBegins(p) == FlushWork /\ control = "detaching" /\ flush.pipe = p

LEMMA FlagsStep ==
    ASSUME TypeOK, QuietFlags, [Next]_vars
    PROVE  /\ QuietFlags'
           /\ \A p \in Pipes : /\ Past(p)' => Past(p) \/ PastBegins(p)
                               /\ Drained(p)' => Drained(p) \/ DrainBegins(p)
<1>1. ASSUME UNCHANGED <<flush, htcCallbacks>>,
             control' = control \/ (control' = "up" /\ ~Detaches)
      PROVE  /\ QuietFlags'
             /\ \A p \in Pipes : (Past(p)' => Past(p)) /\ (Drained(p)' => Drained(p))
  BY <1>1 DEF QuietFlags, Past, Drained, Detaches
<1>2. ASSUME NEW c \in Contexts, PostStep(c)
      PROVE  /\ UNCHANGED <<flush, htcCallbacks>>
             /\ control' = control \/ (control' = "up" /\ ~Detaches)
  <2>1. UNCHANGED <<flush, htcCallbacks>>
    BY <1>2 DEF PostStep, PostNoUrb, PostAlloc, PostNoBuffer, PostEnqueue, PostSubmit,
                PostSubmitFails, stateVars
  <2>2. post[c].pc # "off" /\ (control' = control \/ EndPost(c))
    BY <1>2 DEF PostStep, PostNoUrb, PostAlloc, PostNoBuffer, PostEnqueue, PostSubmit,
                PostSubmitFails
  <2>3. EndPost(c) => control' = control \/ (control' = "up" /\ ~Detaches)
    BY <2>2 DEF EndPost, Detaches, Contexts, TypeOK, PostType
  <2> QED
    BY <2>1, <2>2, <2>3
<1>3. CASE CompStep \/ WorkStep \/ TargetSends \/ TransferFails \/ TransmitDone
           \/ UNCHANGED vars
  BY <1>1, <1>3
     DEF CompStep, CompBegin, CompQueue, CompSchedule, CompCleanupRecv,
         CompCleanupTransmit, CompPrestart, CompRepost, WorkStep, WorkBegin,
         WorkCallback, WorkEnd, TargetSends, TransferFails, TransmitDone, Finish,
         vars, stateVars
<1>4. ASSUME NEW p \in Packets, SendStep(p) PROVE UNCHANGED <<flush, htcCallbacks, control>>
  BY <1>4 DEF SendStep, SendAlloc, SendNoUrb, SendEnqueue, SendSubmit,
              SendSubmitFails, stateVars
<1>5. CASE FlushStep
  <2>1. control' = control /\ htcCallbacks' = htcCallbacks
    BY <1>5 DEF FlushStep, FlushTake, FlushKill, FlushWait, FlushWork, stateVars
  <2>2. CASE FlushTake
    <3>1. /\ flush.pc = "take" /\ flush'.pipe = flush.pipe
          /\ \/ flush'.pc = "kill"
             \/ flush'.pc = "work" /\ urb_pending_list[flush.pipe] = <<>>
      BY <2>2 DEF FlushTake, TypeOK, ControlType
    <3> QED
      BY <2>1, <2>2, <3>1 DEF QuietFlags, Past, Drained, Detaches, PastBegins
  <2>3. CASE FlushKill \/ FlushWait
    <3>1. flush'.pc \in {"wait", "take"} /\ flush'.pipe = flush.pipe
      BY <2>3 DEF FlushKill, FlushWait, TypeOK, ControlType
    <3> QED
      BY <2>1, <3>1 DEF QuietFlags, Past, Drained, Detaches
  <2>4. CASE FlushWork
    <3>1. /\ flush.pc = "work"
          /\ \/ flush.pipe = "tx" /\ flush'.pipe = "rx" /\ flush'.pc = "take"
             \/ flush.pipe = "rx" /\ flush'.pipe = "rx" /\ flush'.pc = "done"
      BY <2>4 DEF FlushWork, TypeOK, ControlType, Pipes
    <3> QED
      BY <2>1, <2>4, <3>1 DEF QuietFlags, Past, Drained, Detaches, DrainBegins, Pipes
  <2> QED
    BY <1>5, <2>2, <2>3, <2>4 DEF FlushStep
<1>6. CASE HIFStart \/ hif_usb_resume \/ Disconnect
  BY <1>6 DEF HIFStart, hif_usb_resume, Disconnect, stateVars, QuietFlags, Past,
              Drained, Detaches
<1>7. CASE hif_usb_suspend \/ HTCStop \/ HTCDestroy \/ HIFDetachHTC \/ usb_hif_destroy
  <2>1. /\ flush'.pc = "take" /\ flush'.pipe = "tx" /\ htcCallbacks' = htcCallbacks
        /\ Detaches' => Detaches
        /\ Detaches => Detaches'
    BY <1>7 DEF hif_usb_suspend, HTCStop, HTCDestroy, HIFDetachHTC, usb_hif_destroy,
                usb_hif_flush_all, FirstPipe, stateVars, Detaches
  <2> QED
    BY <2>1 DEF QuietFlags, Past, Drained
<1>8. CASE Suspended \/ Detached \/ usb_hif_cleanup_pipe_resources
  <2>1. /\ flush.pc = "done" /\ flush'.pc = "off" /\ (Detaches => Detaches')
        /\ \/ htcCallbacks' = htcCallbacks /\ (Detaches' => Detaches) /\ control' # "detaching"
           \/ control = "detaching" /\ Detaches'
    BY <1>8 DEF Suspended, Detached, usb_hif_cleanup_pipe_resources, FlushOff,
                stateVars, Detaches
  <2> QED
    BY <2>1 DEF QuietFlags, Past, Drained, Detaches, Pipes
<1> QED
  BY <1>1, <1>2, <1>3, <1>4, <1>5, <1>6, <1>7, <1>8 DEF Next, StopStep, Removed

(* The URBs of a pipe are not those of the other one.                      *)
LEMMA UrbsApart ==
    /\ \A p, q \in Pipes : \A u : u \in UrbsOn(p) /\ u \in UrbsOn(q) => p = q
    /\ \A u \in Urbs : u \in UrbsOn(PipeOf(u)) /\ PipeOf(u) \in Pipes
    /\ \A p \in Pipes : UrbsOn(p) \subseteq Urbs /\ None \notin UrbsOn(p)
    /\ \A p \in Pipes : \A u \in UrbsOn(p) : PipeOf(u) = p
  BY HifUsbAssumption DEF HifUsbAssumption, UrbsOn, Pipes, Urbs, PipeOf

(* A routine that runs has a URB.                                          *)
LEMMA RoutineHasUrb ==
    ASSUME TypeOK, comp.pc # "idle"
    PROVE  /\ comp.urb \in Urbs
           /\ comp.pc = "posting" => comp.urb \in UrbsOn("rx")
  BY DEF TypeOK, CompType, Urbs, UrbsOn, RxKinds

(* Nothing of a pipe that is past its last flush starts again.             *)
LEMMA ClearKept ==
    ASSUME TypeOK, PlaceInv, SendInv, NEW p \in Pipes, Past(p), Clear(p), [Next]_vars
    PROVE  Clear(p)'
<1>1. Onward
  BY OnwardStep
<1>2. control \notin {"starting", "resuming"} /\ NobodySends
  BY DEF Past, Detaches, SendInv, Sending
<1>3. ASSUME NEW u \in UrbsOn(p) PROVE ~Submits(u)
  <2>1. post["control"].pc = "off"
    BY <1>2 DEF TypeOK, PostType
  <2>2. ASSUME post["comp"].pc = "submit" PROVE post["comp"].urb # u
    <3>1. comp.pc = "posting" /\ post["comp"].urb \in UrbsOn("rx")
      BY <2>2 DEF TypeOK, PostType, UrbsOn, Contexts
    <3>2. comp.urb \in UrbsOn("rx")
      BY <3>1, RoutineHasUrb
    <3>3. p # "rx"
      BY <3>2 DEF Clear
    <3> QED
      BY <3>1, <3>3, UrbsApart DEF Pipes
  <2> QED
    BY <1>2, <2>1, <2>2 DEF Submits, NobodySends, Contexts
<1>4. ASSUME NEW u \in UrbsOn(p)
      PROVE  u \notin InCore' /\ u \notin GivebackUrbs' /\ comp'.urb # u
  <2>1. u \notin InCore /\ u \notin GivebackUrbs /\ comp.urb # u /\ u # None
    BY <1>4, UrbsApart DEF Clear
  <2> QED
    BY <1>1, <1>3, <2>1 DEF Onward
<1> QED
  BY <1>4 DEF Clear, UrbsOn

(* The last flush of a pipe finds nothing, and so there is nothing, unless *)
(* a transfer has escaped.                                                 *)
LEMMA ClearBegins ==
    ASSUME TypeOK, FlushSees, ~overtaken', NEW p \in Pipes, PastBegins(p)
    PROVE  Clear(p)'
<1>1. /\ ~overtaken /\ ~Overtakes /\ flush.pc = "take" /\ flush.pipe = p
      /\ UNCHANGED <<core, giveback, comp>>
  BY DEF PastBegins, FlushTake, usbVars
<1>2. InCore' = InCore /\ GivebackUrbs' = GivebackUrbs
  BY <1>1 DEF InCore, CoreUrbs, GivebackUrbs
<1>3. ASSUME NEW u \in UrbsOn(p)
      PROVE  u \notin InCore /\ u \notin GivebackUrbs /\ comp.urb # u
  <2>1. u \notin Pending
    <3>1. Elements(urb_pending_list[p]) = {}
      BY ElementsEmpty DEF PastBegins
    <3>2. ASSUME NEW o \in Pipes, o # p PROVE u \notin Elements(urb_pending_list[o])
      <4>1. urb_pending_list[o] \in Seq(UrbsOn(o))
        BY DEF TypeOK, ListTypes
      <4>2. Elements(urb_pending_list[o]) \subseteq UrbsOn(o)
        BY <4>1, ElementsType
      <4> QED
        BY <3>2, <4>2, UrbsApart
    <3> QED
      BY <3>1, <3>2 DEF Pending, Pipes
  <2>2. u \notin InCore /\ u \notin GivebackUrbs
    BY <1>1, <2>1 DEF FlushSees, Seen
  <2>3. ASSUME comp.urb = u PROVE FALSE
    <3>1. comp.urb # None /\ PipeOf(comp.urb) = p
      BY <2>3, UrbsApart
    <3>2. comp.pc # "idle"
      BY <3>1 DEF TypeOK, CompType, CompIdle
    <3> QED
      BY <1>1, <3>1, <3>2 DEF Overtakes, PastBegins
  <2> QED
    BY <2>2, <2>3
<1> QED
  BY <1>1, <1>2, <1>3 DEF Clear, UrbsOn

(* A queue that is empty after that stays empty.                           *)
LEMMA QueueDrains ==
    ASSUME TypeOK, NoBufferStranded, NEW p \in Pipes, Clear(p), DrainBegins(p)
    PROVE  io_comp_queue'[p] = <<>>
<1>1. UNCHANGED io_comp_queue /\ ~io_complete_work[p] /\ ~worker[p]
  BY DEF DrainBegins, FlushWork, flush_work, queueVars
<1>2. ASSUME comp.pc = "schedule" PROVE PipeOf(comp.urb) # p
  BY <1>2, RoutineHasUrb, UrbsApart DEF Clear
<1> QED
  BY <1>1, <1>2 DEF NoBufferStranded

LEMMA QueueStaysEmpty ==
    ASSUME TypeOK, NEW p \in Pipes, Clear(p), io_comp_queue[p] = <<>>, [Next]_vars
    PROVE  io_comp_queue'[p] = <<>>
<1>1. CASE CompQueue
  <2>1. PipeOf(comp.urb) # p
    BY <1>1, RoutineHasUrb, UrbsApart DEF Clear, CompQueue
  <2> QED
    BY <1>1, <2>1 DEF CompQueue, TypeOK, ListTypes
<1>2. CASE WorkStep
  <2>1. PICK o \in Pipes : WorkBegin(o) \/ WorkCallback(o) \/ WorkEnd(o)
    BY <1>2 DEF WorkStep
  <2>2. WorkCallback(o) => o # p
    BY DEF WorkCallback
  <2> QED
    BY <2>1, <2>2 DEF WorkBegin, WorkCallback, WorkEnd, queueVars, TypeOK, ListTypes
<1>3. CASE ~CompQueue /\ ~WorkStep
  <2>1. ASSUME NEW c \in Contexts, PostStep(c) PROVE UNCHANGED io_comp_queue
    BY <2>1 DEF PostStep, PostNoUrb, PostAlloc, PostNoBuffer, PostEnqueue, PostSubmit,
                PostSubmitFails, queueVars
  <2>2. CompStep => UNCHANGED io_comp_queue
    BY <1>3 DEF CompStep, CompBegin, CompSchedule, CompCleanupRecv,
                CompCleanupTransmit, CompPrestart, CompRepost, queueVars
  <2> QED
    BY <1>3, <2>1, <2>2, QueuesLeft DEF Next, vars, queueVars, Removed
<1> QED
  BY <1>1, <1>2, <1>3

LEMMA QuietStep ==
    ASSUME TypeOK, PlaceInv, SendInv, NoBufferStranded, FlushSees, QuietInv, [Next]_vars
    PROVE  QuietInv'
<1>1. /\ QuietFlags'
      /\ \A p \in Pipes : /\ Past(p)' => Past(p) \/ PastBegins(p)
                          /\ Drained(p)' => Drained(p) \/ DrainBegins(p)
  BY FlagsStep DEF QuietInv
<1>2. ASSUME ~overtaken', NEW p \in Pipes PROVE QuietPipe(p)'
  <2>1. QuietPipe(p) /\ QuietFlags
    BY <1>2, OvertakenStays DEF QuietInv
  <2>2. Past(p)' => Clear(p)'
    BY <1>1, <1>2, <2>1, ClearKept, ClearBegins DEF QuietPipe
  <2>3. Drained(p) => Past(p)
    BY <2>1 DEF Drained, Past, QuietFlags, Pipes
  <2>4. DrainBegins(p) => Past(p)
    BY DEF DrainBegins, Past, FlushWork
  <2>5. Drained(p)' => io_comp_queue'[p] = <<>>
    BY <1>1, <2>1, <2>3, <2>4, QueueDrains, QueueStaysEmpty DEF QuietPipe
  <2> QED
    BY <2>2, <2>5 DEF QuietPipe
<1> QED
  BY <1>1, <1>2 DEF QuietInv, Pipes

(* What the stop relies on, from the start of the driver on.               *)
StopInvariant == HifInv /\ SendInv /\ NoBufferStranded /\ FlushSees /\ QuietInv

LEMMA StopInvariantAlways == Spec => []StopInvariant
<1>1. Init => FlushSees /\ QuietInv
  <2> SUFFICES ASSUME Init PROVE Seen /\ QuietFlags /\ \A p \in Pipes : QuietPipe(p)
    BY DEF FlushSees, QuietInv
  <2>1. UrbsOf(<<>>) = <<>>
    BY DEF UrbsOf
  <2>2. InCore = {} /\ GivebackUrbs = {}
    BY <2>1, ElementsEmpty DEF Init, InCore, CoreUrbs, GivebackUrbs, Pipes
  <2>3. \A u : ~Submits(u)
    BY DEF Init, Submits, PostOff
  <2>4. Seen
    BY <2>2, <2>3 DEF Seen
  <2>5. \A p \in Pipes : ~Past(p) /\ ~Drained(p)
    BY DEF Init, Past, Drained, Detaches
  <2>6. QuietFlags
    BY DEF Init, QuietFlags, FlushOff
  <2> QED
    BY <2>4, <2>5, <2>6 DEF QuietPipe
<1>2. HifInv /\ SendInv /\ NoBufferStranded /\ FlushSees /\ QuietInv /\ [Next]_vars
         => FlushSees' /\ QuietInv'
  BY SeesStep, QuietStep DEF HifInv
<1> QED
  BY <1>1, <1>2, HifInvAlways, SendAlways, BuffersAreNotStranded, PTL
     DEF Spec, StopInvariant

(* No buffer is handed to HTC once HIFDetachHTC has zeroed the callbacks,  *)
(* whatever the target still sends while the driver stops, for any number  *)
(* of URBs, unless a completion routine escapes the flush that             *)
(* HIFDetachHTC ends with, or a transfer is submitted too late for one.    *)
THEOREM NothingCallsBack == Spec => []NoCallbackAfterDetach
<1>1. Init => NoCallbackAfterDetach
  BY DEF Init, NoCallbackAfterDetach
<1>2. ASSUME StopInvariant, NoCallbackAfterDetach, [Next]_vars
      PROVE  NoCallbackAfterDetach'
  <2> SUFFICES ASSUME ~overtaken' PROVE orphans' = 0
    BY DEF NoCallbackAfterDetach
  <2>1. orphans = 0 /\ ~overtaken
    BY <1>2, OvertakenStays DEF NoCallbackAfterDetach
  <2>2. ASSUME NEW p \in Pipes, WorkCallback(p) PROVE htcCallbacks
    <3>1. io_comp_queue[p] # <<>>
      BY <2>2 DEF WorkCallback
    <3> QED
      BY <1>2, <2>1, <3>1 DEF StopInvariant, QuietInv, QuietFlags, QuietPipe, Drained
  <2>3. WorkStep => orphans' = orphans
    BY <2>1, <2>2 DEF WorkStep, WorkBegin, WorkCallback, WorkEnd
  <2>4. ~WorkStep => orphans' = orphans
    <3>1. ASSUME NEW c \in Contexts, PostStep(c) PROVE orphans' = orphans
      BY <3>1 DEF PostStep, PostNoUrb, PostAlloc, PostNoBuffer, PostEnqueue, PostSubmit,
                  PostSubmitFails, deliveryVars
    <3>2. CompStep => orphans' = orphans
      BY DEF CompStep, CompBegin, CompQueue, CompSchedule, CompCleanupRecv,
             CompCleanupTransmit, CompPrestart, CompRepost, deliveryVars
    <3> QED
      BY <1>2, <3>1, <3>2, QueuesLeft DEF Next, Removed
  <2> QED
    BY <2>1, <2>3, <2>4
<1> QED
  BY <1>1, <1>2, StopInvariantAlways, PTL DEF Spec

(* When the device is removed every URB is on its free list.               *)
LEMMA AllFree ==
    ASSUME StopInvariant, ~overtaken, control = "removing"
    PROVE  \A p \in Pipes : FreeUrbs(p) = UrbsOn(p)
<1>1. TypeOK /\ PlaceInv /\ NobodySends /\ \A p \in Pipes : Clear(p)
  BY DEF StopInvariant, HifInv, SendInv, Sending, QuietInv, QuietPipe, Past, Detaches
<1>2. comp.pc = "idle" /\ CompUrbs = {}
  <2>1. comp.urb \notin Urbs
    BY <1>1, UrbsApart DEF Clear
  <2> QED
    BY <1>1, <2>1, RoutineHasUrb DEF CompUrbs
<1>3. \A c \in Contexts : PostUrbs(c) = {}
  <2>1. \A c \in Contexts : post[c].pc = "off"
    BY <1>1, <1>2 DEF Contexts, TypeOK, PostType
  <2> QED
    BY <1>1, <2>1 DEF PostUrbs, TypeOK, PostType
<1>4. \A p \in Packets : PacketUrbs(p) = {}
  BY <1>1 DEF PacketUrbs, NobodySends, TypeOK, PacketType
<1>5. ASSUME NEW u \in Urbs PROVE u \in FreeUrbs(PipeOf(u))
  <2>1. u \notin InCore /\ u \notin GivebackUrbs
    BY <1>1, UrbsApart DEF Clear
  <2>2. \A p \in Pipes : u \notin CoreUrbs(p)
    BY <2>1 DEF InCore, Pipes
  <2>3. PICK k \in Tokens : u \in Held[k]
    BY <1>1 DEF PlaceInv, Kept
  <2>4. CASE \E p \in Pipes : k = <<"free", p>>
    <3>1. PICK p \in Pipes : u \in FreeUrbs(p)
      BY <2>3, <2>4, HeldAt, Zenon
    <3>2. urb_list_head[p] \in Seq(UrbsOn(p))
      BY <1>1 DEF TypeOK, ListTypes
    <3>3. u \in UrbsOn(p)
      BY <3>1, <3>2, ElementsType DEF FreeUrbs
    <3> QED
      BY <3>1, <3>3, UrbsApart
  <2>5. CASE \E p \in Pipes : k = <<"core", p>>
    BY <2>2, <2>3, <2>5, HeldAt, Zenon
  <2>6. CASE \E c \in Contexts : k = <<"post", c>>
    BY <1>3, <2>3, <2>6, HeldAt, Zenon
  <2>7. CASE \E p \in Packets : k = <<"packet", p>>
    BY <1>4, <2>3, <2>7, HeldAt, Zenon
  <2>8. CASE k = <<"comp", None>> \/ k = <<"giveback", None>>
    BY <1>2, <2>1, <2>3, <2>8, HeldAt, Zenon
  <2> QED
    BY <2>4, <2>5, <2>6, <2>7, <2>8, TokenKinds
<1>6. \A p \in Pipes : FreeUrbs(p) \subseteq UrbsOn(p)
  BY <1>1, ElementsType DEF FreeUrbs, TypeOK, ListTypes
<1>7. \A p \in Pipes : UrbsOn(p) \subseteq FreeUrbs(p)
  BY <1>5, UrbsApart
<1> QED
  BY <1>6, <1>7

(* The buffers that usb_hif_free_pipe_resources gives up.                  *)
LeakInv == ~overtaken /\ control = "removed" => \A u \in Urbs : buf[u] = None

LEMMA LeakStep ==
    ASSUME StopInvariant, LeakInv, [Next]_vars
    PROVE  LeakInv'
<1> SUFFICES ASSUME ~overtaken', control' = "removed"
             PROVE  \A u \in Urbs : buf'[u] = None
  BY DEF LeakInv
<1>1. ~overtaken /\ TypeOK
  BY OvertakenStays DEF StopInvariant, HifInv
<1>2. CASE usb_hif_cleanup_pipe_resources
  <2>1. \A u \in Urbs : u \in FreeUrbs(PipeOf(u))
    BY <1>1, <1>2, AllFree, UrbsApart DEF usb_hif_cleanup_pipe_resources
  <2> QED
    BY <1>2, <2>1 DEF usb_hif_cleanup_pipe_resources, FreeUrbs
<1>3. CASE ~usb_hif_cleanup_pipe_resources
  <2>1. control = "removed"
    <3>1. ASSUME NEW c \in Contexts, PostStep(c) PROVE control = "removed"
      BY <3>1 DEF PostStep, PostNoUrb, PostAlloc, PostNoBuffer, PostEnqueue, PostSubmit,
                  PostSubmitFails, EndPost
    <3>2. CompStep \/ WorkStep => control = "removed"
      BY DEF CompStep, CompBegin, CompQueue, CompSchedule, CompCleanupRecv,
             CompCleanupTransmit, CompPrestart, CompRepost, WorkStep, WorkBegin,
             WorkCallback, WorkEnd
    <3>3. ASSUME NEW p \in Packets, SendStep(p) PROVE control = "removed"
      BY <3>3 DEF SendStep, SendAlloc, SendNoUrb, SendEnqueue, SendSubmit,
                  SendSubmitFails
    <3>4. ASSUME \/ TargetSends \/ TransferFails \/ TransmitDone \/ FlushStep
                 \/ UNCHANGED vars
          PROVE  control = "removed"
      BY <3>4 DEF TargetSends, TransferFails, TransmitDone, Finish, vars,
                  FlushStep, FlushTake, FlushKill, FlushWait, FlushWork
    <3>5. ASSUME \/ HIFStart \/ hif_usb_suspend \/ Suspended \/ hif_usb_resume
                 \/ Disconnect \/ HTCStop \/ StopStep
          PROVE  control = "removed"
      BY <1>3, <3>5 DEF HIFStart, hif_usb_suspend, Suspended, hif_usb_resume,
                        Disconnect, HTCStop, StopStep, HTCDestroy, HIFDetachHTC,
                        Detached, usb_hif_destroy
    <3> QED
      BY <3>1, <3>2, <3>3, <3>4, <3>5 DEF Next, Removed
  <2>2. /\ NobodySends /\ ~Sending /\ \A p \in Pipes : Clear(p)
        /\ \A u \in Urbs : buf[u] = None
    BY <1>1, <2>1 DEF StopInvariant, SendInv, Sending, QuietInv, QuietPipe, Past,
                      Detaches, LeakInv
  <2>3. comp.pc = "idle"
    BY <1>1, <2>2, RoutineHasUrb, UrbsApart DEF Clear
  <2>4. \A c \in Contexts : post[c].pc = "off"
    BY <1>1, <2>1, <2>3 DEF Contexts, TypeOK, PostType
  <2>5. buf' = buf
    <3>1. ASSUME NEW c \in Contexts, PostStep(c) PROVE buf' = buf
      BY <2>4, <3>1 DEF PostStep, PostNoUrb, PostAlloc, PostNoBuffer, PostEnqueue,
                        PostSubmit, PostSubmitFails
    <3>2. CompStep => buf' = buf
      BY <2>3 DEF CompStep, CompBegin, CompQueue, CompSchedule, CompCleanupRecv,
                  CompCleanupTransmit, CompPrestart, CompRepost
    <3>3. ASSUME NEW p \in Packets, SendStep(p) PROVE buf' = buf
      BY <2>2, <3>3 DEF SendStep, SendAlloc, SendNoUrb, SendEnqueue, SendSubmit,
                        SendSubmitFails, NobodySends
    <3>4. ASSUME \/ WorkStep \/ TargetSends \/ TransferFails \/ TransmitDone
                 \/ FlushStep \/ UNCHANGED vars
          PROVE  buf' = buf
      BY <3>4 DEF WorkStep, WorkBegin, WorkCallback, WorkEnd, TargetSends,
                  TransferFails, TransmitDone, Finish, vars, FlushStep, FlushTake,
                  FlushKill, FlushWait, FlushWork
    <3>5. ASSUME \/ HIFStart \/ hif_usb_suspend \/ Suspended \/ hif_usb_resume
                 \/ Disconnect \/ HTCStop \/ StopStep
          PROVE  buf' = buf
      BY <1>3, <3>5 DEF HIFStart, hif_usb_suspend, Suspended, hif_usb_resume,
                        Disconnect, HTCStop, StopStep, HTCDestroy, HIFDetachHTC,
                        Detached, usb_hif_destroy
    <3> QED
      BY <3>1, <3>2, <3>3, <3>4, <3>5 DEF Next, Removed
  <2> QED
    BY <2>2, <2>5
<1> QED
  BY <1>2, <1>3

(* usb_hif_free_pipe_resources finds all URBs of the pool on the free      *)
(* list, so its message "urb leak!" never appears, and no buffer outlives  *)
(* it: whatever the target sends, wherever the posting loops and the       *)
(* completion routines are, unless one of them escapes a flush.            *)
THEOREM UrbsDoNotLeak == Spec => []NoUrbLeak
<1>1. Init => LeakInv
  BY DEF Init, LeakInv
<1>2. StopInvariant /\ LeakInv /\ [Next]_vars => LeakInv'
  BY LeakStep
<1>3. StopInvariant /\ LeakInv => NoUrbLeak
  <2> SUFFICES ASSUME StopInvariant, LeakInv, ~overtaken PROVE NoUrbLeak
    BY DEF NoUrbLeak
  <2>1. ASSUME control = "removing", NEW p \in Pipes PROVE urb_cnt(p) = urb_alloc(p)
    <3> DEFINE q == urb_list_head[p]
               T == UrbsOn(p)
    <3>1. Elements(q) = T /\ q \in Seq(T) /\ Distinct(q)
      BY <2>1, AllFree DEF StopInvariant, HifInv, TypeOK, ListTypes, PlaceInv,
                           NoDuplicates, FreeUrbs
    <3>2. {i \in 1..Len(q) : q[i] \in T} = 1..Len(q) /\ Len(q) \in Nat
      BY <3>1, LenProperties, ElementOfSeq
    <3> HIDE DEF q, T
    <3>3. Cardinality(1..Len(q)) = Cardinality(Elements(q) \cap T)
      BY <3>1, <3>2, CountElements
    <3>4. Cardinality(1..Len(q)) = Len(q)
      <4> DEFINE n == Len(q)
      <4>1. n \in Nat
        BY <3>2
      <4> HIDE DEF n
      <4>2. Cardinality(1..n) = n
        BY <4>1, FS_Interval
      <4> QED
        BY <4>2 DEF n
    <3>5. Elements(q) \cap T = T
      BY <3>1
    <3> QED
      BY <3>3, <3>4, <3>5 DEF urb_cnt, urb_alloc, UrbsOn, q, T
  <2> QED
    BY <2>1 DEF NoUrbLeak, LeakInv
<1> QED
  BY <1>1, <1>2, <1>3, StopInvariantAlways, PTL DEF Spec
-----------------------------------------------------------------------------
(* The working pipe.                                                       *)

WorkingKinds == {"recv", "bundle"}
OtherTransfers ==
    {t \in (TransfersOn("rx") \cup TransfersOn("tx")) \cup FinishedTransfers :
        t.kind \notin WorkingKinds}

(* The working pipe has not been started: nothing posts, carries or        *)
(* completes its transfers.                                                *)
NotBegun ==
    /\ ~allPosted /\ post["comp"].pc = "off"
    /\ post["control"].kind \notin WorkingKinds /\ comp.kind \notin WorkingKinds
    /\ core["rx"] \in Seq(OtherTransfers) /\ giveback \in Seq(OtherTransfers)

(* Once it has been, no prestart transfer is left and none is posted.      *)
BeginInv ==
    /\ NotBegun \/ (urb_prestart_cnt = 0 /\ post["control"].kind # "prestart")
    /\ control = "probed" => /\ NotBegun /\ giveback = <<>> /\ comp.pc = "idle"
                             /\ \A p \in Pipes : core[p] = <<>>
    /\ post["comp"].kind \in WorkingKinds \cup {"none"}
    /\ post["control"].kind = "prestart" => rx_prestart_lock = "control"
    /\ control = "suspended" => ~enabled

LEMMA BeginKept ==
    ASSUME BeginInv, UNCHANGED <<post, comp, urb_prestart_cnt, rx_prestart_lock>>,
           allPosted' => allPosted,
           core["rx"] \in Seq(OtherTransfers) /\ giveback \in Seq(OtherTransfers) =>
              core'["rx"] \in Seq(OtherTransfers) /\ giveback' \in Seq(OtherTransfers),
           control' = "probed" => control = "probed" /\ UNCHANGED <<core, giveback>>,
           control' = "suspended" => ~enabled'
    PROVE  BeginInv'
<1>1. NotBegun => NotBegun'
  BY DEF NotBegun
<1> QED
  BY <1>1 DEF BeginInv

LEMMA BeginPost ==
    ASSUME TypeOK, BeginInv, NEW c \in Contexts, PostStep(c)
    PROVE  BeginInv'
<1>1. /\ UNCHANGED <<giveback, enabled>> /\ post[c].pc # "off"
      /\ comp' = comp \/ comp' = CompIdle
      /\ control' = control \/ control' = "up"
      /\ allPosted' = allPosted \/ post[c].kind # "prestart"
  BY DEF PostStep, PostNoUrb, PostAlloc, PostNoBuffer, PostEnqueue, PostSubmit,
         PostSubmitFails, EndPost, usbVars, historyVars
<1>2. /\ \A d \in Contexts : d # c => post'[d] = post[d]
      /\ post'[c].kind \in {post[c].kind, "none"}
  BY DEF PostStep, PostNoUrb, PostAlloc, PostNoBuffer, PostEnqueue, PostSubmit,
         PostSubmitFails, EndPost, PostOff, Post, TypeOK, PostType
<1>3. \/ post'[c].kind = "none" /\ rx_prestart_lock' = Unlocked(c)
      \/ UNCHANGED rx_prestart_lock
  BY DEF PostStep, PostNoUrb, PostAlloc, PostNoBuffer, PostEnqueue, PostSubmit,
         PostSubmitFails, EndPost, PostOff, TypeOK, PostType
<1>4. \/ UNCHANGED <<core, urb_prestart_cnt>>
      \/ /\ core'["rx"] = Append(core["rx"], Transfer(post[c].urb, post[c].kind))
         /\ post[c].urb \in RxUrbs
         /\ urb_prestart_cnt' = urb_prestart_cnt
                                  + (IF post[c].kind = "prestart" THEN 1 ELSE 0)
  BY DEF PostStep, PostNoUrb, PostAlloc, PostNoBuffer, PostEnqueue, PostSubmit,
         PostSubmitFails, usbVars, TypeOK, ListTypes, PostType, Pipes
<1>5. post[c].kind \in RxKinds /\ "comp" \in Contexts /\ "control" \in Contexts
  BY <1>1 DEF TypeOK, PostType, Contexts
<1>6. control # "probed"
  <2>1. CASE control = "probed"
    BY <1>1, <2>1 DEF BeginInv, NotBegun, TypeOK, PostType, Contexts
  <2> QED
    BY <2>1
<1>7. NotBegun' \/ (urb_prestart_cnt' = 0 /\ post'["control"].kind # "prestart")
  <2>1. CASE NotBegun
    <3>1. c = "control" /\ post[c].kind = "prestart"
      BY <1>1, <1>5, <2>1 DEF NotBegun, Contexts, RxKinds, WorkingKinds
    <3>2. core'["rx"] \in Seq(OtherTransfers)
      <4> DEFINE t == Transfer(post[c].urb, "prestart")
                 q == core["rx"]
      <4>1. CASE UNCHANGED core
        BY <2>1, <4>1 DEF NotBegun
      <4>2. CASE core'["rx"] = Append(q, t) /\ post[c].urb \in RxUrbs
        <5>1. t \in OtherTransfers
          BY <4>2 DEF Transfer, OtherTransfers, TransfersOn, UrbsOn, KindsOn,
                      RxKinds, WorkingKinds
        <5>2. q \in Seq(OtherTransfers)
          BY <2>1 DEF NotBegun
        <5> HIDE DEF t, q
        <5> QED
          BY <4>2, <5>1, <5>2, SeqStep
      <4> QED
        BY <1>4, <3>1, <4>1, <4>2
    <3>3. comp'.kind \notin WorkingKinds /\ post'["comp"].pc = "off"
      BY <1>1, <1>2, <1>5, <2>1, <3>1 DEF NotBegun, CompIdle, WorkingKinds
    <3>4. post'["control"].kind \notin WorkingKinds
      BY <1>2, <3>1 DEF WorkingKinds
    <3> QED
      BY <1>1, <2>1, <3>1, <3>2, <3>3, <3>4 DEF NotBegun
  <2>2. CASE ~NotBegun
    <3>1. urb_prestart_cnt = 0 /\ \A d \in Contexts : post[d].kind # "prestart"
      BY <2>2 DEF BeginInv, Contexts, WorkingKinds
    <3>2. urb_prestart_cnt' = 0
      BY <1>4, <3>1
    <3> QED
      BY <1>2, <1>5, <3>1, <3>2
  <2> QED
    BY <2>1, <2>2
<1>8. post'["comp"].kind \in WorkingKinds \cup {"none"}
  BY <1>2, <1>5 DEF BeginInv
<1>9. post'["control"].kind = "prestart" => rx_prestart_lock' = "control"
  <2>1. CASE c = "control"
    BY <1>2, <1>3, <2>1 DEF BeginInv
  <2>2. CASE c = "comp"
    BY <1>2, <1>3, <1>5, <2>2 DEF BeginInv, Unlocked
  <2> QED
    BY <2>1, <2>2 DEF Contexts
<1> QED
  BY <1>1, <1>6, <1>7, <1>8, <1>9 DEF BeginInv

LEMMA BeginComp ==
    ASSUME TypeOK, CountInv, BeginInv, CompStep
    PROVE  BeginInv'
<1>1. /\ UNCHANGED <<core, enabled, control, allPosted>>
      /\ comp.pc = "idle" => giveback # <<>>
  BY DEF CompStep, CompBegin, CompQueue, CompSchedule, CompCleanupRecv,
         CompCleanupTransmit, CompPrestart, CompRepost, usbVars, historyVars
<1>2. control # "probed"
  BY <1>1 DEF BeginInv
<1>3. post'["control"] = post["control"]
  BY DEF CompStep, CompBegin, CompQueue, CompSchedule, CompCleanupRecv,
         CompCleanupTransmit, CompPrestart, CompRepost, usb_hif_start_recv_pipes,
         TypeOK, PostType, Contexts
<1>4. CASE CompPrestart
  <2>1. /\ rx_prestart_lock = "free" /\ comp.kind = "prestart" /\ comp.pc = "prestart"
        /\ urb_prestart_cnt' = urb_prestart_cnt - 1 /\ UNCHANGED giveback
    BY <1>4 DEF CompPrestart, PrestartLeft, usbVars, TypeOK, CompType
  <2>2. post["control"].kind # "prestart"
    BY <2>1 DEF BeginInv
  <2>3. urb_prestart_cnt > 0
    <3>1. Prestarts(giveback) \in Nat /\ Prestarts(core["rx"]) \in Nat
      <4>1. giveback \in Seq(FinishedTransfers) /\ core["rx"] \in Seq(TransfersOn("rx"))
        BY DEF TypeOK, ListTypes, Pipes
      <4> QED
        BY <4>1, LenProperties, PrestartsAre
    <3> QED
      BY <2>1, <3>1 DEF CountInv
  <2>4. NotBegun
    BY <2>3 DEF BeginInv
  <2>5. CASE PrestartLeft = 0
    <3>1. post'["comp"].kind \in WorkingKinds /\ urb_prestart_cnt' = 0
      BY <1>4, <2>5 DEF CompPrestart, usb_hif_start_recv_pipes, Post, WorkingKind,
                        WorkingKinds, TypeOK, PostType, Contexts
    <3> QED
      BY <1>1, <1>2, <1>3, <2>2, <3>1 DEF BeginInv
  <2>6. CASE PrestartLeft # 0
    <3>1. comp' = CompIdle /\ UNCHANGED <<post, rx_prestart_lock>>
      BY <1>4, <2>6 DEF CompPrestart
    <3>2. NotBegun'
      BY <1>1, <2>1, <2>4, <3>1 DEF NotBegun, CompIdle, WorkingKinds
    <3> QED
      BY <1>1, <1>2, <3>1, <3>2 DEF BeginInv
  <2> QED
    BY <2>5, <2>6
<1>5. CASE CompRepost
  <2>1. comp.kind \in WorkingKinds /\ UNCHANGED <<urb_prestart_cnt, rx_prestart_lock>>
    BY <1>5 DEF CompRepost, TypeOK, CompType, WorkingKinds
  <2>2. urb_prestart_cnt = 0 /\ post["control"].kind # "prestart"
    BY <2>1 DEF BeginInv, NotBegun
  <2>3. post'["comp"].kind \in WorkingKinds \cup {"none"}
    <3>1. CASE UNCHANGED post
      BY <3>1 DEF BeginInv
    <3>2. CASE post' = [post EXCEPT !["comp"] = Post(comp.kind, 0)]
      BY <2>1, <3>2 DEF Post, TypeOK, PostType, Contexts
    <3> QED
      BY <1>5, <3>1, <3>2 DEF CompRepost
  <2> QED
    BY <1>1, <1>2, <1>3, <2>1, <2>2, <2>3 DEF BeginInv
<1>6. CASE ~CompPrestart /\ ~CompRepost
  <2>1. UNCHANGED <<post, urb_prestart_cnt, rx_prestart_lock>>
    BY <1>6 DEF CompStep, CompBegin, CompQueue, CompSchedule, CompCleanupRecv,
                CompCleanupTransmit
  <2>2. CASE ~NotBegun
    BY <1>1, <1>2, <2>1, <2>2 DEF BeginInv
  <2>3. CASE NotBegun
    <3>1. giveback \in Seq(OtherTransfers) /\ comp.kind \notin WorkingKinds
      BY <2>3 DEF NotBegun
    <3>2. giveback' \in Seq(OtherTransfers) /\ comp'.kind \notin WorkingKinds
      <4>1. CASE CompBegin
        <5> DEFINE t == Head(giveback)
        <5>1. /\ giveback # <<>> /\ giveback' = Tail(giveback) /\ comp'.kind = t.kind
          BY <4>1 DEF CompBegin
        <5>2. t \in OtherTransfers /\ giveback' \in Seq(OtherTransfers)
          BY <3>1, <5>1, ElementsTail
        <5>3. t.kind \notin WorkingKinds
          BY <5>2 DEF OtherTransfers
        <5> QED
          BY <5>1, <5>2, <5>3
      <4>2. CASE ~CompBegin
        <5>1. UNCHANGED giveback
          BY <1>6, <4>2 DEF CompStep, CompQueue, CompSchedule, CompCleanupRecv,
                            CompCleanupTransmit, usbVars
        <5>2. comp'.kind = comp.kind \/ comp' = CompIdle
          BY <1>6, <4>2 DEF CompStep, CompQueue, CompSchedule, CompCleanupRecv,
                            CompCleanupTransmit, TypeOK, CompType
        <5> QED
          BY <3>1, <5>1, <5>2 DEF CompIdle, WorkingKinds
      <4> QED
        BY <4>1, <4>2
    <3>3. NotBegun'
      BY <1>1, <2>1, <2>3, <3>2 DEF NotBegun
    <3> QED
      BY <1>1, <1>2, <2>1, <3>3 DEF BeginInv
  <2> QED
    BY <2>2, <2>3
<1> QED
  BY <1>4, <1>5, <1>6

(* A transfer keeps its kind when it finishes.                             *)
LEMMA KindStays ==
    ASSUME NEW p \in Pipes, NEW t \in TransfersOn(p),
           p = "rx" => t \in OtherTransfers, NEW status \in Statuses,
           NEW msgs \in (IF p = "rx" THEN Seq(Nat) ELSE {<<>>})
    PROVE  Finished(t, status, msgs) \in OtherTransfers
<1> DEFINE f == Finished(t, status, msgs)
<1>1. f \in FinishedTransfers
  <2>1. f \in FinishedOn(p)
    BY DEF Finished, FinishedOn, TransfersOn
  <2> QED
    BY <2>1 DEF FinishedTransfers, Pipes
<1>2. f.kind = t.kind
  BY DEF Finished
<1>3. t.kind \notin WorkingKinds
  BY DEF OtherTransfers, TransfersOn, KindsOn, WorkingKinds, Pipes
<1> QED
  BY <1>1, <1>2, <1>3 DEF OtherTransfers

LEMMA BeginReturned ==
    ASSUME TypeOK, NEW p \in Pipes, NEW i \in 1..Len(core[p]), NEW q,
           core' = [core EXCEPT ![p] = q],
           \A S : core[p] \in Seq(S) => q \in Seq(S),
           NEW status \in Statuses,
           NEW msgs \in (IF p = "rx" THEN Seq(Nat) ELSE {<<>>}),
           giveback' = Append(giveback, Finished(core[p][i], status, msgs)),
           core["rx"] \in Seq(OtherTransfers), giveback \in Seq(OtherTransfers)
    PROVE  core'["rx"] \in Seq(OtherTransfers) /\ giveback' \in Seq(OtherTransfers)
<1> DEFINE t == core[p][i]
           f == Finished(t, status, msgs)
<1>1. t \in TransfersOn(p)
  BY ElementOfSeq DEF TypeOK, ListTypes
<1>2. p = "rx" => t \in OtherTransfers
  BY ElementOfSeq
<1> HIDE DEF t
<1>3. f \in OtherTransfers
  BY <1>1, <1>2, KindStays
<1>4. giveback' = Append(giveback, f)
  BY DEF t
<1> HIDE DEF f
<1>5. giveback' \in Seq(OtherTransfers)
  BY <1>3, <1>4, SeqStep
<1>6. core'["rx"] \in Seq(OtherTransfers)
  BY DEF TypeOK, ListTypes, Pipes
<1> QED
  BY <1>5, <1>6

LEMMA BeginTarget ==
    ASSUME TypeOK, StopInv, BeginInv, TargetSends \/ TransferFails \/ TransmitDone
    PROVE  BeginInv'
<1>1. ASSUME NEW p \in Pipes, NEW status \in Statuses,
             NEW msgs \in (IF p = "rx" THEN Seq(Nat) ELSE {<<>>}),
             Finish(p, status, msgs)
      PROVE  core["rx"] \in Seq(OtherTransfers) /\ giveback \in Seq(OtherTransfers) =>
                core'["rx"] \in Seq(OtherTransfers) /\ giveback' \in Seq(OtherTransfers)
  <2> SUFFICES ASSUME core["rx"] \in Seq(OtherTransfers),
                      giveback \in Seq(OtherTransfers)
               PROVE  core'["rx"] \in Seq(OtherTransfers) /\ giveback' \in Seq(OtherTransfers)
    OBVIOUS
  <2> DEFINE q == core[p]
  <2>1. /\ q \in Seq(TransfersOn(p)) /\ q # <<>> /\ core' = [core EXCEPT ![p] = Tail(q)]
        /\ giveback' = Append(giveback, Finished(Head(q), status, msgs))
    BY <1>1 DEF Finish, TypeOK, ListTypes
  <2>2. 1 \in 1..Len(q) /\ Head(q) = q[1]
    <3> HIDE DEF q
    <3>1. Len(q) \in Nat \ {0} /\ Head(q) = q[1]
      BY <2>1, HeadTailProperties, LenProperties, EmptySeq
    <3> QED
      BY <3>1
  <2>3. \A S : q \in Seq(S) => Tail(q) \in Seq(S)
    BY <2>1, ElementsTail
  <2>4. giveback' = Append(giveback, Finished(core[p][1], status, msgs))
    BY <2>1, <2>2
  <2> QED
    BY <1>1, <2>1, <2>2, <2>3, <2>4, BeginReturned
<1>2. /\ "rx" \in Pipes /\ "tx" \in Pipes /\ "ok" \in Statuses
      /\ "error" \in Statuses /\ <<>> \in Seq(Nat)
  BY EmptySeq DEF Pipes, Statuses
<1>3. \E p \in Pipes, status \in Statuses :
         \E msgs \in (IF p = "rx" THEN Seq(Nat) ELSE {<<>>}) : Finish(p, status, msgs)
  <2>1. CASE TargetSends
    <3> DEFINE m == 2 * sent + 1
               n == 2 * sent + 2
    <3>1. m \in Nat /\ n \in Nat
      BY DEF TypeOK, ValueTypes
    <3> HIDE DEF m, n
    <3>2. <<m>> \in Seq(Nat) /\ <<m, n>> \in Seq(Nat)
      BY <3>1
    <3>3. \E msgs \in {<<>>, <<m>>, <<m, n>>} : Finish("rx", "ok", msgs)
      BY <2>1 DEF TargetSends, m, n
    <3> QED
      BY <1>2, <3>2, <3>3
  <2>2. CASE TransferFails
    BY <1>2, <2>2 DEF TransferFails
  <2>3. CASE TransmitDone
    BY <1>2, <2>3 DEF TransmitDone
  <2> QED
    BY <2>1, <2>2, <2>3
<1>4. core["rx"] \in Seq(OtherTransfers) /\ giveback \in Seq(OtherTransfers) =>
         core'["rx"] \in Seq(OtherTransfers) /\ giveback' \in Seq(OtherTransfers)
  BY <1>1, <1>3
<1>5. /\ UNCHANGED <<post, comp, urb_prestart_cnt, rx_prestart_lock, allPosted, control,
                     enabled>>
      /\ \E p \in Pipes : core[p] # <<>>
  BY DEF TargetSends, TransferFails, TransmitDone, Finish, Pipes
<1>6. control # "probed" /\ control # "suspended"
  BY <1>5 DEF BeginInv, StopInv
<1> QED
  BY <1>4, <1>5, <1>6, BeginKept

LEMMA BeginFlush ==
    ASSUME TypeOK, BeginInv, FlushStep
    PROVE  BeginInv'
<1>1. /\ UNCHANGED <<post, comp, urb_prestart_cnt, rx_prestart_lock, allPosted, control>>
      /\ control # "probed" /\ control # "suspended"
  BY DEF FlushStep, FlushTake, FlushKill, FlushWait, FlushWork, historyVars, TypeOK,
         ControlType
<1>2. core["rx"] \in Seq(OtherTransfers) /\ giveback \in Seq(OtherTransfers) =>
         core'["rx"] \in Seq(OtherTransfers) /\ giveback' \in Seq(OtherTransfers)
  <2>1. CASE UNCHANGED <<core, giveback>>
    BY <2>1
  <2>2. CASE ~UNCHANGED <<core, giveback>>
    <3> DEFINE p == flush.pipe
               ts == core[p]
    <3>1. PICK i \in 1..Len(ts) :
              /\ core' = [core EXCEPT ![p] = RemoveAt(ts, i)]
              /\ giveback' = Append(giveback, Finished(ts[i], "cancelled", <<>>))
      BY <2>2 DEF FlushStep, FlushTake, FlushKill, FlushWait, FlushWork, usbVars
    <3>2. /\ p \in Pipes /\ "cancelled" \in Statuses
          /\ <<>> \in (IF p = "rx" THEN Seq(Nat) ELSE {<<>>})
      BY EmptySeq DEF TypeOK, ControlType, Statuses
    <3>3. \A S : ts \in Seq(S) => RemoveAt(ts, i) \in Seq(S)
      BY RemoveAtType
    <3> QED
      BY <3>1, <3>2, <3>3, BeginReturned
  <2> QED
    BY <2>1, <2>2
<1> QED
  BY <1>1, <1>2, BeginKept

LEMMA BeginCancelled ==
    ASSUME TypeOK, CancelAll, core["rx"] \in Seq(OtherTransfers),
           giveback \in Seq(OtherTransfers)
    PROVE  core'["rx"] \in Seq(OtherTransfers) /\ giveback' \in Seq(OtherTransfers)
<1>1. ASSUME NEW p \in Pipes, NEW q \in Seq(TransfersOn(p)),
             p = "rx" => q \in Seq(OtherTransfers)
      PROVE  Cancelled(q) \in Seq(OtherTransfers)
  <2> DEFINE c == Cancelled(q)
             n == Len(q)
  <2>1. /\ n \in Nat /\ c \in Seq(FinishedTransfers) /\ Len(c) = n
        /\ \A i \in 1..n : c[i] = Finished(q[i], "cancelled", <<>>)
    BY CancelledType, LenProperties
  <2>2. /\ "cancelled" \in Statuses
        /\ <<>> \in (IF p = "rx" THEN Seq(Nat) ELSE {<<>>})
    BY EmptySeq DEF Statuses
  <2>3. ASSUME NEW i \in 1..n PROVE c[i] \in OtherTransfers
    <3>1. q[i] \in TransfersOn(p) /\ (p = "rx" => q[i] \in OtherTransfers)
      BY <1>1, ElementOfSeq
    <3>2. Finished(q[i], "cancelled", <<>>) \in OtherTransfers
      BY <2>2, <3>1, KindStays
    <3> QED
      BY <2>1, <3>2, Zenon
  <2> HIDE DEF c
  <2>4. \A i \in 1..Len(c) : c[i] \in OtherTransfers
    BY <2>1, <2>3
  <2>5. c \in [1..n -> OtherTransfers]
    <3>1. c \in [1..n -> FinishedTransfers]
      BY <2>1, LenProperties
    <3> QED
      BY <2>3, <3>1
  <2>6. c \in Seq(OtherTransfers)
    BY <2>1, <2>5
  <2> QED
    BY <2>6 DEF c
<1> DEFINE m == Cancelled(core["tx"])
           n == Cancelled(core["rx"])
<1>2. m \in Seq(OtherTransfers) /\ n \in Seq(OtherTransfers)
  <2>1. /\ core["tx"] \in Seq(TransfersOn("tx")) /\ core["rx"] \in Seq(TransfersOn("rx"))
        /\ "tx" \in Pipes /\ "rx" \in Pipes
    BY DEF TypeOK, ListTypes, Pipes
  <2> QED
    BY <1>1, <2>1
<1>3. giveback' = (giveback \o m) \o n /\ core'["rx"] = <<>>
  BY DEF CancelAll, Pipes
<1> HIDE DEF m, n
<1>4. giveback \o m \in Seq(OtherTransfers)
  BY <1>2, ElementsConcat
<1>5. (giveback \o m) \o n \in Seq(OtherTransfers)
  BY <1>2, <1>4, ElementsConcat
<1> QED
  BY <1>3, <1>5, EmptySeq

LEMMA BeginControl ==
    ASSUME TypeOK, StopInv, CountInv, BeginInv,
           \/ HIFStart \/ hif_usb_suspend \/ Suspended \/ hif_usb_resume
           \/ Disconnect \/ HTCStop \/ StopStep
    PROVE  BeginInv'
<1>1. CASE HIFStart
  <2>1. /\ control = "probed" /\ control' = "starting" /\ rx_prestart_lock' = "control"
        /\ UNCHANGED <<core, giveback, comp, allPosted>>
        /\ post'["control"] = Post("prestart", PrestartUrbs)
        /\ post'["comp"] = post["comp"]
    BY <1>1 DEF HIFStart, usbVars, historyVars, TypeOK, PostType, Contexts
  <2>2. NotBegun'
    BY <2>1 DEF BeginInv, NotBegun, Post, WorkingKinds
  <2> QED
    BY <2>1, <2>2 DEF BeginInv, Post
<1>2. CASE hif_usb_resume
  <2>1. /\ control = "suspended" /\ control' = "resuming"
        /\ giveback = <<>> /\ comp = CompIdle /\ UNCHANGED urb_prestart_cnt
        /\ post'["control"] = Post(WorkingKind, 0)
        /\ post'["comp"] = post["comp"]
    BY <1>2 DEF hif_usb_resume, usb_hif_start_recv_pipes, TypeOK, CompType, PostType,
                Contexts
  <2>2. core["rx"] = <<>>
    BY <2>1 DEF BeginInv, StopInv, Pipes
  <2>3. Prestarts(<<>>) = 0
    <3>1. PrestartSet(<<>>) = {} /\ Len(<<>>) \in Nat
      BY DEF PrestartSet
    <3> QED
      BY <3>1, PrestartsAre, FS_EmptySet
  <2>4. urb_prestart_cnt' = 0
    BY <2>1, <2>2, <2>3 DEF CountInv, CompIdle
  <2>5. post'["control"].kind # "prestart"
    BY <2>1 DEF Post, WorkingKind
  <2> QED
    BY <2>1, <2>4, <2>5 DEF BeginInv
<1>3. CASE hif_usb_suspend \/ Suspended \/ Disconnect \/ HTCStop \/ StopStep
  <2>1. /\ UNCHANGED <<post, comp, urb_prestart_cnt, rx_prestart_lock>>
        /\ allPosted' => allPosted
    BY <1>3 DEF hif_usb_suspend, Suspended, Disconnect, HTCStop, StopStep, HTCDestroy,
       HIFDetachHTC, Detached, usb_hif_destroy, usb_hif_cleanup_pipe_resources,
       historyVars
  <2>2. control' # "probed" /\ (control' = "suspended" => ~enabled')
    BY <1>3 DEF hif_usb_suspend, Suspended, Disconnect, HTCStop, StopStep, HTCDestroy,
       HIFDetachHTC, Detached, usb_hif_destroy, usb_hif_cleanup_pipe_resources,
       CancelAll
  <2>3. CancelAll \/ UNCHANGED <<core, giveback>>
    BY <1>3 DEF hif_usb_suspend, Suspended, Disconnect, HTCStop, StopStep, HTCDestroy,
       HIFDetachHTC, Detached, usb_hif_destroy, usb_hif_cleanup_pipe_resources,
       usbVars
  <2>4. core["rx"] \in Seq(OtherTransfers) /\ giveback \in Seq(OtherTransfers) =>
           core'["rx"] \in Seq(OtherTransfers) /\ giveback' \in Seq(OtherTransfers)
    BY <2>3, BeginCancelled
  <2> QED
    BY <2>1, <2>2, <2>4, BeginKept
<1> QED
  BY <1>1, <1>2, <1>3

(* The workers and the senders leave the receive transfers alone.          *)
LEMMA ReceiveLeft ==
    ASSUME TypeOK, WorkStep \/ (\E p \in Packets : SendStep(p)) \/ UNCHANGED vars
    PROVE  /\ UNCHANGED <<post, comp, urb_prestart_cnt, rx_prestart_lock, giveback,
                          enabled, control, allPosted, failures, suspend_state>>
           /\ core'["rx"] = core["rx"]
           /\ urb_list_head'["rx"] = urb_list_head["rx"]
<1>1. CASE WorkStep
  BY <1>1 DEF WorkStep, WorkBegin, WorkCallback, WorkEnd, usbVars, historyVars,
              stateVars, listVars
<1>2. ASSUME NEW p \in Packets, SendStep(p)
      PROVE  /\ UNCHANGED <<post, comp, urb_prestart_cnt, rx_prestart_lock, giveback,
                            enabled, control, allPosted, failures, suspend_state>>
             /\ core'["rx"] = core["rx"]
  BY <1>2 DEF SendStep, SendAlloc, SendNoUrb, SendEnqueue, SendSubmit,
              SendSubmitFails, usbVars, historyVars, stateVars, TypeOK, ListTypes,
              Pipes
<1>3. ASSUME NEW p \in Packets, SendStep(p)
      PROVE  urb_list_head'["rx"] = urb_list_head["rx"]
  <2>1. CASE SendSubmitFails(p)
    <3>1. PipeOf(packet[p].urb) = "tx"
      BY <2>1, HifUsbAssumption
         DEF SendSubmitFails, TypeOK, PacketType, PipeOf, HifUsbAssumption
    <3> QED
      BY <2>1, <3>1 DEF SendSubmitFails, FreeTo, TypeOK, ListTypes, Pipes
  <2>2. CASE ~SendSubmitFails(p)
    BY <1>3, <2>2 DEF SendStep, SendAlloc, SendNoUrb, SendEnqueue, SendSubmit,
              listVars, TypeOK, ListTypes, Pipes
  <2> QED
    BY <2>1, <2>2
<1>4. CASE UNCHANGED vars
  BY <1>4 DEF vars, usbVars, historyVars, stateVars, listVars
<1> QED
  BY <1>1, <1>2, <1>3, <1>4

LEMMA BeginStep ==
    ASSUME TypeOK, StopInv, SendInv, CountInv, BeginInv, [Next]_vars
    PROVE  BeginInv'
<1>1. CASE WorkStep \/ (\E p \in Packets : SendStep(p)) \/ UNCHANGED vars
  <2>1. /\ UNCHANGED <<post, comp, urb_prestart_cnt, rx_prestart_lock, giveback,
                       enabled, control, allPosted>>
        /\ core'["rx"] = core["rx"]
    BY <1>1, ReceiveLeft
  <2>2. control = "suspended" => ~enabled
    BY DEF BeginInv
  <2>3. control = "probed" => core' = core
    <3>1. CASE \E p \in Packets : SendStep(p)
      BY <3>1 DEF SendStep, SendAlloc, SendNoUrb, SendEnqueue, SendSubmit,
                  SendSubmitFails, SendInv, NobodySends, Sending
    <3>2. CASE WorkStep \/ UNCHANGED vars
      BY <3>2 DEF WorkStep, WorkBegin, WorkCallback, WorkEnd, vars, usbVars
    <3> QED
      BY <1>1, <3>1, <3>2
  <2> QED
    BY <2>1, <2>2, <2>3, BeginKept
<1> QED
  BY <1>1, BeginPost, BeginComp, BeginTarget, BeginFlush, BeginControl
     DEF Next, Removed
-----------------------------------------------------------------------------
(* Reception goes on.                                                      *)

Powered == control \in {"probed", "starting", "up", "resuming"}
Running == Powered /\ enabled
CleanStatus == {"ok", "error"}
Clean == {t \in FinishedTransfers : t.status \in CleanStatus}

(* While the driver is neither suspended nor stopped and the device is     *)
(* there, no transfer is cancelled.                                        *)
RunInv ==
    /\ Powered => ~suspend_state
    /\ Running => giveback \in Seq(Clean)
    /\ Running /\ comp.pc # "idle" => comp.status \in CleanStatus

LEMMA RunPost ==
    ASSUME TypeOK, RunInv, NEW c \in Contexts, PostStep(c)
    PROVE  RunInv'
<1>1. /\ UNCHANGED <<giveback, enabled, suspend_state>> /\ post[c].pc # "off"
      /\ comp' = comp \/ comp' = CompIdle
      /\ control' = control \/ (control' = "up" /\ c = "control")
  BY DEF PostStep, PostNoUrb, PostAlloc, PostNoBuffer, PostEnqueue, PostSubmit,
         PostSubmitFails, EndPost, usbVars, stateVars, Contexts
<1>2. Powered' => Powered
  BY <1>1 DEF Powered, TypeOK, PostType
<1> QED
  BY <1>1, <1>2 DEF RunInv, Running, CompIdle

LEMMA RunComp ==
    ASSUME TypeOK, RunInv, CompStep
    PROVE  RunInv'
<1>1. UNCHANGED <<enabled, suspend_state, control>>
  BY DEF CompStep, CompBegin, CompQueue, CompSchedule, CompCleanupRecv,
         CompCleanupTransmit, CompPrestart, CompRepost, usbVars, stateVars
<1>2. CASE CompBegin
  <2> DEFINE t == Head(giveback)
  <2>1. /\ giveback # <<>> /\ giveback' = Tail(giveback) /\ comp'.status = t.status
    BY <1>2 DEF CompBegin
  <2>2. ASSUME Running PROVE giveback' \in Seq(Clean) /\ comp'.status \in CleanStatus
    <3>1. giveback \in Seq(Clean)
      BY <2>2 DEF RunInv
    <3>2. t \in Clean /\ giveback' \in Seq(Clean)
      BY <2>1, <3>1, ElementsTail
    <3> QED
      BY <2>1, <3>2 DEF Clean
  <2> QED
    BY <1>1, <2>2 DEF RunInv, Running, Powered
<1>3. CASE ~CompBegin
  <2>1. /\ UNCHANGED giveback
        /\ comp.pc # "idle" /\ (comp'.status = comp.status \/ comp' = CompIdle)
    BY <1>3 DEF CompStep, CompQueue, CompSchedule, CompCleanupRecv,
         CompCleanupTransmit, CompPrestart, CompRepost, usbVars, TypeOK, CompType
  <2> QED
    BY <1>1, <2>1 DEF RunInv, Running, Powered, CompIdle
<1> QED
  BY <1>2, <1>3

LEMMA RunTarget ==
    ASSUME TypeOK, RunInv, TargetSends \/ TransferFails \/ TransmitDone
    PROVE  RunInv'
<1>1. UNCHANGED <<enabled, suspend_state, control, comp>>
  BY DEF TargetSends, TransferFails, TransmitDone, Finish, stateVars
<1>2. \E p \in Pipes, status \in CleanStatus : \E msgs \in Seq(Nat) :
         /\ core[p] # <<>> /\ (p = "tx" => msgs = <<>>)
         /\ giveback' = Append(giveback, Finished(Head(core[p]), status, msgs))
  <2>1. /\ "rx" \in Pipes /\ "tx" \in Pipes /\ "ok" \in CleanStatus
        /\ "error" \in CleanStatus /\ <<>> \in Seq(Nat)
    BY EmptySeq DEF Pipes, CleanStatus
  <2>2. CASE TargetSends
    <3> DEFINE m == 2 * sent + 1
               n == 2 * sent + 2
    <3>1. m \in Nat /\ n \in Nat
      BY DEF TypeOK, ValueTypes
    <3> HIDE DEF m, n
    <3>2. <<m>> \in Seq(Nat) /\ <<m, n>> \in Seq(Nat)
      BY <3>1
    <3>3. \E msgs \in {<<>>, <<m>>, <<m, n>>} : Finish("rx", "ok", msgs)
      BY <2>2 DEF TargetSends, m, n
    <3> QED
      BY <2>1, <3>2, <3>3 DEF Finish
  <2>3. CASE TransferFails
    BY <2>1, <2>3 DEF TransferFails, Finish
  <2>4. CASE TransmitDone
    BY <2>1, <2>4 DEF TransmitDone, Finish
  <2> QED
    BY <2>2, <2>3, <2>4
<1>3. ASSUME giveback \in Seq(Clean) PROVE giveback' \in Seq(Clean)
  <2>1. PICK p \in Pipes, status \in CleanStatus : \E msgs \in Seq(Nat) :
           /\ core[p] # <<>> /\ (p = "tx" => msgs = <<>>)
           /\ giveback' = Append(giveback, Finished(Head(core[p]), status, msgs))
    BY <1>2
  <2>2. PICK msgs \in Seq(Nat) :
           /\ core[p] # <<>> /\ (p = "tx" => msgs = <<>>)
           /\ giveback' = Append(giveback, Finished(Head(core[p]), status, msgs))
    BY <2>1
  <2> DEFINE t == Head(core[p])
             g == Finished(t, status, msgs)
  <2>3. t \in TransfersOn(p)
    BY <2>2, ElementsTail DEF TypeOK, ListTypes
  <2> HIDE DEF t
  <2>4. g \in FinishedOn(p) /\ g.status = status
    BY <2>2, <2>3 DEF Finished, FinishedOn, TransfersOn, Pipes, Statuses, CleanStatus
  <2>5. g \in Clean
    BY <2>4 DEF Clean, FinishedTransfers, Pipes
  <2> QED
    BY <1>3, <2>2, <2>5, SeqStep DEF t
<1> QED
  BY <1>1, <1>3 DEF RunInv, Running, Powered

LEMMA RunControl ==
    ASSUME TypeOK, RunInv, BeginInv,
           \/ HIFStart \/ hif_usb_suspend \/ Suspended \/ hif_usb_resume
           \/ Disconnect \/ HTCStop \/ StopStep \/ FlushStep
    PROVE  RunInv'
<1>1. CASE HIFStart
  BY <1>1 DEF HIFStart, RunInv, Running, Powered, usbVars, stateVars
<1>2. CASE hif_usb_suspend \/ Suspended \/ HTCStop \/ StopStep \/ FlushStep
  <2>1. ~Powered'
    BY <1>2 DEF hif_usb_suspend, Suspended, HTCStop, StopStep, HTCDestroy,
         HIFDetachHTC, Detached, usb_hif_destroy, usb_hif_cleanup_pipe_resources,
         FlushStep, FlushTake, FlushKill, FlushWait, FlushWork, Powered, TypeOK,
         ControlType
  <2> QED
    BY <2>1 DEF RunInv, Running
<1>3. CASE hif_usb_resume
  BY <1>3, EmptySeq DEF hif_usb_resume, RunInv, Running, Powered
<1>4. CASE Disconnect
  BY <1>4 DEF Disconnect, CancelAll, RunInv, Running, Powered, stateVars
<1> QED
  BY <1>1, <1>2, <1>3, <1>4

LEMMA RunStep ==
    TypeOK /\ BeginInv /\ RunInv /\ [Next]_vars => RunInv'
<1> SUFFICES ASSUME TypeOK, BeginInv, RunInv, [Next]_vars PROVE RunInv'
  OBVIOUS
<1>1. CASE WorkStep \/ (\E p \in Packets : SendStep(p)) \/ UNCHANGED vars
  BY <1>1, ReceiveLeft DEF RunInv, Running, Powered
<1> QED
  BY <1>1, RunPost, RunComp, RunTarget, RunControl DEF Next, Removed

Count(b) == IF b THEN 1 ELSE 0
Postable == urb_cnt("rx") + Count(post["comp"].urb # None)
            + Count(post["control"].urb # None)
Excused == failures + Count(comp.pc \in {"repost", "posting"})
           + Count(post["control"].pc # "off")

(* Once all URBs were posted, the free ones stay below the threshold, but  *)
(* for one that each failure leaves there and one that a loop or a routine *)
(* is about to look at.                                                    *)
FreeInv == Running /\ allPosted => Postable <= urb_cnt_thresh - 1 + Excused

LEMMA CountsAre ==
    ASSUME TypeOK
    PROVE  /\ urb_cnt("rx") \in Nat /\ failures \in Nat
           /\ urb_alloc("rx") \in Nat /\ urb_cnt_thresh \in Nat
           /\ post["comp"].urb # None => comp.pc = "posting"
           /\ post["control"].urb # None => post["control"].pc # "off"
<1>1. urb_cnt("rx") \in Nat
  BY LenProperties DEF urb_cnt, TypeOK, ListTypes, Pipes
<1>2. urb_alloc("rx") \in Nat
  BY HifUsbAssumption, FS_CardinalityType DEF urb_alloc, HifUsbAssumption
<1>3. \A n \in Nat : n \div 2 \in Nat
  OBVIOUS
<1>4. urb_cnt_thresh \in Nat
  BY <1>2, <1>3 DEF urb_cnt_thresh
<1>5. /\ post["comp"].urb # None => post["comp"].pc # "off"
      /\ post["control"].urb # None => post["control"].pc # "off"
  BY DEF TypeOK, PostType, Contexts
<1>6. post["comp"].pc # "off" => comp.pc = "posting"
  BY DEF TypeOK, PostType
<1> QED
  BY <1>1, <1>2, <1>4, <1>5, <1>6 DEF TypeOK, ValueTypes

(* Taking a URB from the free list and putting it back.                    *)
LEMMA FreeCounts ==
    ASSUME TypeOK, NEW u \in RxUrbs
    PROVE  /\ Len(FreeTo(urb_list_head, u)["rx"]) = urb_cnt("rx") + 1
           /\ urb_list_head["rx"] # <<>> =>
                 Len(Tail(urb_list_head["rx"])) = urb_cnt("rx") - 1
<1> DEFINE q == urb_list_head["rx"]
           v == <<u>>
<1>1. q \in Seq(RxUrbs) /\ v \in Seq(RxUrbs) /\ Len(v) = 1
  BY DEF TypeOK, ListTypes, Pipes, UrbsOn
<1>2. FreeTo(urb_list_head, u)["rx"] = v \o q
  BY DEF FreeTo, PipeOf, TypeOK, ListTypes, Pipes
<1> HIDE DEF q, v
<1>3. Len(v \o q) = Len(q) + 1 /\ (q # <<>> => Len(Tail(q)) = Len(q) - 1)
  <2>1. Len(v \o q) = Len(v) + Len(q) /\ Len(q) \in Nat
    BY <1>1, ConcatProperties, LenProperties
  <2>2. q # <<>> => Len(Tail(q)) = Len(q) - 1
    BY <1>1, HeadTailProperties
  <2> QED
    BY <1>1, <2>1, <2>2
<1> QED
  BY <1>2, <1>3 DEF urb_cnt, q

(* Where a posting loop that ends leaves its context.                      *)
LEMMA PostEnds ==
    ASSUME TypeOK, NEW c \in Contexts, EndPost(c), post[c].pc # "off"
    PROVE  /\ c = "comp" => /\ post'["comp"].urb = None
                            /\ post'["control"] = post["control"]
                            /\ comp.pc = "posting" /\ comp'.pc = "idle"
           /\ c = "control" => /\ post'["control"] = PostOff
                               /\ post'["comp"] = post["comp"] /\ comp' = comp
<1>1. post' = [post EXCEPT ![c] = PostOff] /\ DOMAIN post = Contexts
  BY DEF EndPost, TypeOK, PostType
<1>2. c = "comp" => comp.pc = "posting" /\ comp' = CompIdle
  BY DEF EndPost, TypeOK, PostType
<1>3. c = "control" => comp' = comp
  BY DEF EndPost
<1> QED
  BY <1>1, <1>2, <1>3 DEF Contexts, PostOff, CompIdle

LEMMA FreePost ==
    ASSUME TypeOK, BeginInv, FreeInv, Cardinality(RxUrbs) > 1,
           NEW c \in Contexts, PostStep(c)
    PROVE  FreeInv'
<1> SUFFICES ASSUME Running', allPosted'
             PROVE  Postable' <= urb_cnt_thresh - 1 + Excused'
  BY DEF FreeInv, urb_cnt_thresh, urb_alloc
<1> DEFINE n == urb_cnt("rx")
           m == Len(urb_list_head'["rx"])
           a == Count(post["comp"].urb # None)
           b == Count(post["control"].urb # None)
           aa == Count(post'["comp"].urb # None)
           bb == Count(post'["control"].urb # None)
           r == Count(comp.pc \in {"repost", "posting"})
           rr == Count(comp'.pc \in {"repost", "posting"})
           s == Count(post["control"].pc # "off")
           ss == Count(post'["control"].pc # "off")
<1>1. /\ Postable = n + a + b /\ Excused = failures + r + s
      /\ Postable' = m + aa + bb /\ Excused' = failures' + rr + ss
  BY DEF Postable, Excused, urb_cnt
<1>2. /\ n \in Nat /\ failures \in Nat /\ urb_cnt_thresh \in Nat
      /\ a \in {0, 1} /\ b \in {0, 1} /\ r \in {0, 1} /\ s \in {0, 1}
      /\ a <= r /\ b <= s
  BY CountsAre DEF Count
<1>3. /\ enabled' = enabled /\ post[c].pc # "off"
      /\ control' = control \/ (control' = "up" /\ c = "control")
  BY DEF PostStep, PostNoUrb, PostAlloc, PostNoBuffer, PostEnqueue, PostSubmit,
         PostSubmitFails, EndPost, usbVars, Contexts
<1>4. Running
  BY <1>3 DEF Running, Powered, TypeOK, PostType
<1>5. allPosted => n + a + b <= urb_cnt_thresh - 1 + failures + r + s
  BY <1>1, <1>2, <1>4 DEF FreeInv
<1>6. allPosted => post[c].kind # "prestart"
  BY DEF BeginInv, NotBegun, Contexts, WorkingKinds
<1>7. ASSUME EndPost(c)
      PROVE  \/ /\ c = "comp" /\ aa = 0 /\ bb = b /\ r = 1 /\ rr = 0 /\ ss = s
             \/ /\ c = "control" /\ aa = a /\ bb = 0 /\ rr = r /\ s = 1 /\ ss = 0
  <2>1. CASE c = "comp"
    BY <1>3, <1>7, <2>1, PostEnds DEF Count
  <2>2. CASE c = "control"
    BY <1>3, <1>7, <2>2, PostEnds DEF Count, PostOff
  <2> QED
    BY <2>1, <2>2 DEF Contexts
<1>8. CASE PostNoUrb(c)
  <2>1. post[c].kind # "prestart"
    BY <1>6, <1>8 DEF PostNoUrb, historyVars
  <2>2. m = 0 /\ failures' = 0
    BY <1>8, <2>1 DEF PostNoUrb, listVars
  <2>3. urb_cnt_thresh >= 1
    <3>1. \A k \in Nat : k > 1 => k \div 2 >= 1
      OBVIOUS
    <3> QED
      BY <3>1, CountsAre DEF urb_cnt_thresh, urb_alloc
  <2>4. EndPost(c)
    BY <1>8 DEF PostNoUrb
  <2> HIDE DEF n, m, a, b, aa, bb, r, rr, s, ss
  <2>5. CASE aa = 0 /\ bb = b /\ rr = 0 /\ ss = s
    BY <1>1, <1>2, <2>2, <2>3, <2>5
  <2>6. CASE aa = a /\ bb = 0 /\ rr = r /\ ss = 0
    BY <1>1, <1>2, <2>2, <2>3, <2>6
  <2> QED
    BY <1>7, <2>4, <2>5, <2>6
<1>9. CASE PostAlloc(c)
  <2> DEFINE u == Head(urb_list_head["rx"])
  <2>1. /\ post[c].pc = "alloc" /\ urb_list_head["rx"] # <<>>
        /\ urb_list_head'["rx"] = Tail(urb_list_head["rx"])
        /\ post' = [post EXCEPT ![c].pc = "enqueue", ![c].urb = u]
        /\ UNCHANGED <<allPosted, failures, comp>>
    BY <1>9 DEF PostAlloc, historyVars, TypeOK, ListTypes, Pipes
  <2>2. u \in RxUrbs
    BY <2>1, ElementsTail DEF TypeOK, ListTypes, Pipes, UrbsOn
  <2>3. m = n - 1
    BY <2>1, <2>2, FreeCounts
  <2>4. u # None
    BY <2>2, HifUsbAssumption DEF HifUsbAssumption
  <2>5. post[c].urb = None /\ post'[c].urb = u /\ post'[c].pc = "enqueue"
    BY <2>1 DEF TypeOK, PostType
  <2>6. rr = r
    BY <2>1
  <2>7. \/ aa = a + 1 /\ bb = b /\ ss = s
        \/ aa = a /\ bb = b + 1 /\ ss = s
    <3>1. CASE c = "comp"
      <4>1. post'["control"] = post["control"]
        BY <2>1, <3>1 DEF TypeOK, PostType, Contexts
      <4> QED
        BY <2>4, <2>5, <3>1, <4>1 DEF Count
    <3>2. CASE c = "control"
      <4>1. post'["comp"] = post["comp"]
        BY <2>1, <3>2 DEF TypeOK, PostType, Contexts
      <4> QED
        BY <2>1, <2>4, <2>5, <3>2, <4>1 DEF Count
    <3> QED
      BY <3>1, <3>2 DEF Contexts
  <2>8. allPosted
    BY <2>1
  <2>9. failures' = failures
    BY <2>1
  <2> HIDE DEF n, m, a, b, aa, bb, r, rr, s, ss
  <2> QED
    BY <1>1, <1>2, <1>5, <2>3, <2>6, <2>7, <2>8, <2>9
<1>10. CASE PostNoBuffer(c)
  <2>1. /\ EndPost(c) /\ post[c].urb = None /\ allPosted
        /\ failures' = failures + 1 /\ m = n
    BY <1>10 DEF PostNoBuffer, PostingFails, listVars, urb_cnt, TypeOK, PostType
  <2>2. c = "comp" => a = 0
    BY <2>1 DEF Count
  <2>3. c = "control" => b = 0
    BY <2>1 DEF Count
  <2> HIDE DEF n, m, a, b, aa, bb, r, rr, s, ss
  <2>4. CASE c = "comp" /\ aa = 0 /\ bb = b /\ r = 1 /\ rr = 0 /\ ss = s
    BY <1>1, <1>2, <1>5, <2>1, <2>2, <2>4
  <2>5. CASE c = "control" /\ aa = a /\ bb = 0 /\ rr = r /\ s = 1 /\ ss = 0
    BY <1>1, <1>2, <1>5, <2>1, <2>3, <2>5
  <2> QED
    BY <1>7, <2>1, <2>4, <2>5
<1>11. CASE PostEnqueue(c)
  <2>1. /\ UNCHANGED <<urb_list_head, comp, allPosted, failures>>
        /\ post' = [post EXCEPT ![c].pc = "submit"] /\ post[c].pc = "enqueue"
    BY <1>11 DEF PostEnqueue, historyVars
  <2>2. \A d \in Contexts : /\ post'[d].urb = post[d].urb
                            /\ post'[d].pc # "off" <=> post[d].pc # "off"
    BY <2>1 DEF TypeOK, PostType
  <2>3. m = n /\ aa = a /\ bb = b /\ rr = r /\ ss = s
    BY <2>1, <2>2 DEF Contexts, Count, urb_cnt
  <2>4. allPosted /\ failures' = failures
    BY <2>1
  <2> HIDE DEF n, m, a, b, aa, bb, r, rr, s, ss
  <2> QED
    BY <1>1, <1>2, <1>5, <2>3, <2>4
<1>12. CASE PostSubmit(c)
  <2>1. /\ UNCHANGED <<urb_list_head, comp, allPosted, failures>>
        /\ post[c].pc = "submit"
        /\ post' = [post EXCEPT ![c] = Post(@.kind, IF @.kind = "prestart"
                                                    THEN @.left - 1 ELSE 0)]
    BY <1>12 DEF PostSubmit, historyVars, listVars
  <2>2. post[c].urb # None
    BY <2>1, HifUsbAssumption DEF TypeOK, PostType, HifUsbAssumption
  <2>3. /\ post'[c].urb = None /\ post'[c].pc # "off"
        /\ \A d \in Contexts : d # c => post'[d] = post[d]
    BY <2>1 DEF Post, TypeOK, PostType
  <2>4. m = n /\ rr = r
    BY <2>1 DEF urb_cnt
  <2>5. \/ aa = a - 1 /\ bb = b /\ ss = s
        \/ aa = a /\ bb = b - 1 /\ ss = s
    <3>1. CASE c = "comp"
      <4>1. post'["control"] = post["control"]
        BY <2>3, <3>1 DEF Contexts
      <4> QED
        BY <2>2, <2>3, <3>1, <4>1 DEF Count
    <3>2. CASE c = "control"
      <4>1. post'["comp"] = post["comp"]
        BY <2>3, <3>2 DEF Contexts
      <4> QED
        BY <1>3, <2>2, <2>3, <3>2, <4>1 DEF Count
    <3> QED
      BY <3>1, <3>2 DEF Contexts
  <2>6. allPosted /\ failures' = failures
    BY <2>1
  <2> HIDE DEF n, m, a, b, aa, bb, r, rr, s, ss
  <2> QED
    BY <1>1, <1>2, <1>5, <2>4, <2>5, <2>6
<1>13. CASE PostSubmitFails(c)
  <2>1. /\ EndPost(c) /\ post[c].pc = "submit" /\ allPosted
        /\ urb_list_head' = FreeTo(urb_list_head, post[c].urb)
    BY <1>13 DEF PostSubmitFails, usb_hif_cleanup_recv_urb
  <2>2. post[c].urb \in RxUrbs
    BY <2>1 DEF TypeOK, PostType
  <2>3. ~Killing(post[c].urb)
    BY <1>4 DEF Running, Powered, Killing, TypeOK, ControlType
  <2>4. failures' = failures + 1
    BY <1>4, <1>13, <2>1, <2>3 DEF PostSubmitFails, PostingFails, Running
  <2>5. m = n + 1
    BY <2>1, <2>2, FreeCounts
  <2>6. post[c].urb # None
    BY <2>2, HifUsbAssumption DEF HifUsbAssumption
  <2>7. c = "comp" => a = 1
    BY <2>6 DEF Count
  <2>8. c = "control" => b = 1
    BY <2>6 DEF Count
  <2>9. allPosted
    BY <2>1
  <2> HIDE DEF n, m, a, b, aa, bb, r, rr, s, ss
  <2>10. CASE c = "comp" /\ aa = 0 /\ bb = b /\ r = 1 /\ rr = 0 /\ ss = s
    BY <1>1, <1>2, <1>5, <2>4, <2>5, <2>7, <2>9, <2>10
  <2>11. CASE c = "control" /\ aa = a /\ bb = 0 /\ rr = r /\ s = 1 /\ ss = 0
    BY <1>1, <1>2, <1>5, <2>4, <2>5, <2>8, <2>9, <2>11
  <2> QED
    BY <1>7, <2>1, <2>10, <2>11
<1> QED
  BY <1>8, <1>9, <1>10, <1>11, <1>12, <1>13 DEF PostStep

LEMMA FreeComp ==
    ASSUME TypeOK, CountInv, BeginInv, RunInv, FreeInv, CompStep
    PROVE  FreeInv'
<1> SUFFICES ASSUME Running', allPosted'
             PROVE  Postable' <= urb_cnt_thresh - 1 + Excused'
  BY DEF FreeInv, urb_cnt_thresh, urb_alloc
<1> DEFINE n == urb_cnt("rx")
           m == Len(urb_list_head'["rx"])
           a == Count(post["comp"].urb # None)
           b == Count(post["control"].urb # None)
           r == Count(comp.pc \in {"repost", "posting"})
           rr == Count(comp'.pc \in {"repost", "posting"})
           s == Count(post["control"].pc # "off")
<1>1. /\ Postable = n + a + b /\ Excused = failures + r + s
      /\ Excused' = failures' + rr + s
      /\ Postable' = m + a + b
  <2>1. CASE post' = post
    BY <2>1 DEF Postable, Excused, urb_cnt
  <2>2. CASE post' # post
    <3>1. \E k : post' = [post EXCEPT !["comp"] = Post(k, 0)]
      BY <2>2 DEF CompStep, CompBegin, CompQueue, CompSchedule, CompCleanupRecv,
              CompCleanupTransmit, CompPrestart, CompRepost,
              usb_hif_start_recv_pipes
    <3>2. comp.pc # "posting"
      BY DEF CompStep, CompBegin, CompQueue, CompSchedule, CompCleanupRecv,
              CompCleanupTransmit, CompPrestart, CompRepost
    <3>3. post["comp"].urb = None
      BY <3>2, CountsAre
    <3>4. post'["comp"].urb = None /\ post'["control"] = post["control"]
      BY <3>1 DEF Post, TypeOK, PostType, Contexts
    <3> QED
      BY <3>3, <3>4 DEF Postable, Excused, urb_cnt
  <2> QED
    BY <2>1, <2>2
<1>2. /\ n \in Nat /\ failures \in Nat /\ urb_cnt_thresh \in Nat
      /\ a \in {0, 1} /\ b \in {0, 1} /\ r \in {0, 1} /\ s \in {0, 1}
      /\ rr \in {0, 1} /\ b <= s
      /\ comp.pc # "posting" => a = 0
  BY CountsAre DEF Count
<1>3. UNCHANGED <<enabled, control, allPosted>>
  BY DEF CompStep, CompBegin, CompQueue, CompSchedule, CompCleanupRecv,
         CompCleanupTransmit, CompPrestart, CompRepost, usbVars, historyVars
<1>4. Running /\ allPosted
  BY <1>3 DEF Running, Powered
<1>5. n + a + b <= urb_cnt_thresh - 1 + failures + r + s
  BY <1>1, <1>2, <1>4 DEF FreeInv
<1>6. urb_prestart_cnt = 0
  BY <1>4 DEF BeginInv, NotBegun
<1>7. comp.kind = "prestart" => comp.pc = "posting"
  <2>1. Prestarts(core["rx"]) \in Nat /\ Prestarts(giveback) \in Nat
    <3>1. Len(core["rx"]) \in Nat /\ Len(giveback) \in Nat
      BY LenProperties DEF TypeOK, ListTypes, Pipes
    <3> QED
      BY <3>1, PrestartsAre
  <2> QED
    BY <1>6, <2>1 DEF CountInv
<1>8. CASE CompBegin \/ CompQueue \/ CompSchedule
  <2>1. UNCHANGED <<urb_list_head, failures>>
    BY <1>8 DEF CompBegin, CompQueue, CompSchedule, listVars, historyVars
  <2>2. /\ comp.pc \notin {"repost", "posting"}
        /\ comp'.pc \notin {"repost", "posting"}
    BY <1>8 DEF CompBegin, CompQueue, CompSchedule, CompIdle, TypeOK, CompType
  <2>3. m = n /\ rr = r /\ failures' = failures
    BY <2>1, <2>2 DEF urb_cnt, Count
  <2> HIDE DEF n, m, a, b, r, rr, s
  <2> QED
    BY <1>1, <1>2, <1>5, <2>3
<1>9. CASE CompCleanupRecv
  <2>1. /\ comp.pc = "cleanup" /\ comp.kind # "transmit"
        /\ urb_list_head' = FreeTo(urb_list_head, comp.urb)
        /\ UNCHANGED failures
        /\ comp' = [comp EXCEPT !.pc = IF comp.kind = "prestart"
                                       THEN "prestart" ELSE "repost"]
    BY <1>9 DEF CompCleanupRecv, historyVars
  <2>2. comp.urb \in RxUrbs
    BY <2>1 DEF TypeOK, CompType, CompIdle
  <2>3. comp'.pc = "repost"
    BY <1>7, <2>1 DEF TypeOK, CompType
  <2>4. m = n + 1
    BY <2>1, <2>2, FreeCounts
  <2>5. r = 0 /\ rr = 1 /\ failures' = failures
    BY <2>1, <2>3 DEF Count
  <2> HIDE DEF n, m, a, b, r, rr, s
  <2> QED
    BY <1>1, <1>2, <1>5, <2>4, <2>5
<1>10. CASE CompCleanupTransmit
  <2>1. /\ comp.pc = "cleanup" /\ comp.kind = "transmit" /\ UNCHANGED failures
        /\ urb_list_head' = FreeTo(urb_list_head, comp.urb)
        /\ comp'.pc = "queue"
    BY <1>10 DEF CompCleanupTransmit, historyVars, TypeOK, CompType
  <2>2. PipeOf(comp.urb) = "tx"
    BY <2>1, HifUsbAssumption DEF TypeOK, CompType, PipeOf, HifUsbAssumption
  <2>3. urb_list_head'["rx"] = urb_list_head["rx"]
    BY <2>1, <2>2 DEF FreeTo, TypeOK, ListTypes, Pipes
  <2>4. m = n /\ rr = r /\ failures' = failures
    BY <2>1, <2>3 DEF urb_cnt, Count
  <2> HIDE DEF n, m, a, b, r, rr, s
  <2> QED
    BY <1>1, <1>2, <1>5, <2>4
<1>11. CASE CompPrestart
  BY <1>7, <1>11 DEF CompPrestart, TypeOK, CompType
<1>12. CASE CompRepost
  <2>1. comp.pc = "repost" /\ urb_list_head' = urb_list_head
    BY <1>12 DEF CompRepost, listVars
  <2>2. m = n /\ a = 0 /\ r = 1
    BY <1>2, <2>1 DEF urb_cnt, Count
  <2>3. comp.status \in {"ok", "error"} /\ ~suspend_state
    BY <1>4, <2>1 DEF RunInv, Running, CleanStatus
  <2>4. failures' = failures + (IF comp.status = "error" THEN 1 ELSE 0)
    BY <1>4, <1>12 DEF CompRepost
  <2>5. comp'.pc = "posting" \/ comp' = CompIdle
    BY <1>12 DEF CompRepost, TypeOK, CompType
  <2>6. CASE comp'.pc = "posting"
    <3>1. rr = 1
      BY <2>6 DEF Count
    <3>2. failures' >= failures /\ failures' \in Nat
      BY <1>2, <2>4
    <3> DEFINE g == failures'
    <3>3. Excused' = g + rr + s /\ g \in Nat /\ g >= failures
      BY <1>1, <3>2
    <3> HIDE DEF n, m, a, b, r, rr, s, g
    <3>4. m + a + b <= urb_cnt_thresh - 1 + (g + rr + s)
      BY <1>2, <1>5, <2>2, <3>1, <3>3
    <3> QED
      BY <1>1, <3>3, <3>4
  <2>7. CASE comp' = CompIdle /\ comp.status = "error"
    <3>1. rr = 0 /\ failures' = failures + 1
      BY <2>4, <2>7 DEF Count, CompIdle
    <3> HIDE DEF n, m, a, b, r, rr, s
    <3> QED
      BY <1>1, <1>2, <1>5, <2>2, <3>1
  <2>8. CASE comp' = CompIdle /\ comp.status = "ok"
    <3>1. comp'.pc = "idle"
      BY <2>8 DEF CompIdle
    <3>2. ~(n >= urb_cnt_thresh)
      BY <1>12, <2>3, <2>8, <3>1 DEF CompRepost, TypeOK, CompType
    <3>3. rr = 0 /\ failures' = failures
      BY <1>2, <2>4, <2>8, <3>1 DEF Count
    <3> HIDE DEF n, m, a, b, r, rr, s
    <3> QED
      BY <1>1, <1>2, <2>2, <3>2, <3>3
  <2> QED
    BY <2>3, <2>5, <2>6, <2>7, <2>8
<1> QED
  BY <1>8, <1>9, <1>10, <1>11, <1>12 DEF CompStep

LEMMA FreeStep ==
    ASSUME TypeOK, CountInv, BeginInv, RunInv, FreeInv, Cardinality(RxUrbs) > 1,
           [Next]_vars
    PROVE  FreeInv'
<1>1. CASE \/ WorkStep \/ (\E p \in Packets : SendStep(p)) \/ UNCHANGED vars
           \/ TargetSends \/ TransferFails \/ TransmitDone
  <2>1. /\ UNCHANGED <<post, comp, enabled, control, allPosted, failures>>
        /\ urb_list_head'["rx"] = urb_list_head["rx"]
    <3>1. CASE WorkStep \/ (\E p \in Packets : SendStep(p)) \/ UNCHANGED vars
      BY <3>1, ReceiveLeft
    <3>2. CASE TargetSends \/ TransferFails \/ TransmitDone
      BY <3>2 DEF TargetSends, TransferFails, TransmitDone, Finish, listVars
    <3> QED
      BY <1>1, <3>1, <3>2
  <2> QED
    BY <2>1 DEF FreeInv, Running, Powered, Postable, Excused, urb_cnt, urb_cnt_thresh,
                urb_alloc
<1>2. CASE \/ hif_usb_suspend \/ Suspended \/ hif_usb_resume \/ Disconnect
           \/ HTCStop \/ StopStep \/ FlushStep
  <2>1. ~Powered' \/ ~allPosted'
    BY <1>2 DEF hif_usb_suspend, Suspended, hif_usb_resume, Disconnect, HTCStop,
         StopStep, HTCDestroy, HIFDetachHTC, Detached, usb_hif_destroy,
         usb_hif_cleanup_pipe_resources, FlushStep, FlushTake, FlushKill, FlushWait,
         FlushWork, Powered, TypeOK, ControlType
  <2> QED
    BY <2>1 DEF FreeInv, Running
<1>3. CASE HIFStart
  <2>1. ~allPosted'
    BY <1>3 DEF HIFStart, historyVars, BeginInv, NotBegun
  <2> QED
    BY <2>1 DEF FreeInv
<1> QED
  BY <1>1, <1>2, <1>3, FreePost, FreeComp DEF Next, Removed

(* When nothing of the receive pipe is posted, completed or about to be    *)
(* posted, all its URBs are on the free list.                              *)
LEMMA ReceiveIdle ==
    ASSUME TypeOK, PlaceInv, control # "removed", core["rx"] = <<>>,
           \A i \in 1..Len(giveback) : giveback[i].urb \notin RxUrbs,
           comp.kind \notin RxKinds, \A c \in Contexts : post[c].urb = None
    PROVE  urb_cnt("rx") = Cardinality(RxUrbs)
<1>1. CoreUrbs("rx") = {}
  <2>1. UrbsOf(<<>>) = <<>>
    BY DEF UrbsOf
  <2> QED
    BY <2>1, ElementsEmpty DEF CoreUrbs
<1>2. CoreUrbs("tx") \cap RxUrbs = {}
  <2>1. CoreUrbs("tx") \subseteq TxUrbs
    BY CoreUrbsAre DEF Pipes, UrbsOn
  <2> QED
    BY <2>1, HifUsbAssumption DEF HifUsbAssumption
<1>3. GivebackUrbs \cap RxUrbs = {}
  <2>1. giveback \in Seq(FinishedTransfers)
    BY DEF TypeOK, ListTypes
  <2>2. /\ Len(UrbsOf(giveback)) = Len(giveback)
        /\ \A i \in 1..Len(giveback) : UrbsOf(giveback)[i] = giveback[i].urb
    BY <2>1, UrbsAre, TransfersHaveUrbs
  <2>3. ASSUME NEW u \in GivebackUrbs PROVE u \notin RxUrbs
    <3>1. PICK i \in 1..Len(giveback) : u = UrbsOf(giveback)[i]
      BY <2>2, <2>3, Zenon DEF GivebackUrbs, Elements
    <3> QED
      BY <2>2, <3>1, Zenon
  <2> QED
    BY <2>3
<1>4. CompUrbs \cap RxUrbs = {}
  BY HifUsbAssumption DEF CompUrbs, TypeOK, CompType, CompIdle, HifUsbAssumption
<1>5. \A p \in Packets : PacketUrbs(p) \cap RxUrbs = {}
  BY HifUsbAssumption DEF PacketUrbs, TypeOK, PacketType, PacketRecords,
     HifUsbAssumption
<1>6. \A c \in Contexts : PostUrbs(c) = {}
  BY DEF PostUrbs
<1> DEFINE q == urb_list_head["rx"]
<1>7. q \in Seq(RxUrbs) /\ Distinct(q)
  BY DEF TypeOK, ListTypes, Pipes, UrbsOn, PlaceInv, NoDuplicates
<1>8. Elements(q) = RxUrbs
  <2>1. ASSUME NEW u \in RxUrbs PROVE u \in FreeUrbs("rx")
    <3>1. u \in Urbs /\ "rx" \in Pipes /\ "tx" \in Pipes
      BY DEF Urbs, Pipes
    <3>2. PICK k \in Tokens : u \in Held[k]
      BY <3>1 DEF PlaceInv, Kept
    <3>3. CASE \E p \in Pipes : k = <<"free", p>>
      <4>1. FreeUrbs("tx") \subseteq TxUrbs
        BY ElementsType DEF FreeUrbs, TypeOK, ListTypes, Pipes, UrbsOn
      <4>2. u \notin FreeUrbs("tx")
        BY <4>1, HifUsbAssumption DEF HifUsbAssumption
      <4>3. \A p \in Pipes : p # "tx" => p = "rx"
        BY DEF Pipes
      <4> QED
        BY <3>2, <3>3, <4>2, <4>3, HeldAt, Zenon
    <3>4. CASE \E p \in Pipes : k = <<"core", p>>
      <4>1. \A p \in Pipes : u \notin CoreUrbs(p)
        BY <1>1, <1>2 DEF Pipes
      <4> QED
        BY <3>2, <3>4, <4>1, HeldAt, Zenon
    <3>5. CASE \E c \in Contexts : k = <<"post", c>>
      <4>1. \A c \in Contexts : u \notin PostUrbs(c)
        BY <1>6
      <4> QED
        BY <3>2, <3>5, <4>1, HeldAt, Zenon
    <3>6. CASE \E p \in Packets : k = <<"packet", p>>
      <4>1. \A p \in Packets : u \notin PacketUrbs(p)
        BY <1>5
      <4> QED
        BY <3>2, <3>6, <4>1, HeldAt, Zenon
    <3>7. CASE k = <<"comp", None>> \/ k = <<"giveback", None>>
      <4>1. u \notin CompUrbs /\ u \notin GivebackUrbs
        BY <1>3, <1>4
      <4> QED
        BY <3>2, <3>7, <4>1, HeldAt, Zenon
    <3> QED
      BY <3>3, <3>4, <3>5, <3>6, <3>7, TokenKinds
  <2>2. Elements(q) \subseteq RxUrbs
    BY <1>7, ElementsType
  <2> QED
    BY <2>1, <2>2 DEF FreeUrbs
<1> QED
  <2>1. Len(q) \in Nat /\ {i \in 1..Len(q) : q[i] \in RxUrbs} = 1..Len(q)
    BY <1>7, LenProperties, ElementOfSeq
  <2> DEFINE n == Len(q)
  <2> HIDE DEF q
  <2>2. Cardinality({i \in 1..Len(q) : q[i] \in RxUrbs}) =
           Cardinality(Elements(q) \cap RxUrbs)
    BY <1>7, CountElements
  <2>3. Elements(q) \cap RxUrbs = RxUrbs
    BY <1>8
  <2>4. Cardinality(1..n) = n
    <3>1. n \in Nat
      BY <2>1
    <3> HIDE DEF n
    <3> QED
      BY <3>1, FS_Interval
  <2> QED
    BY <2>1, <2>2, <2>3, <2>4 DEF urb_cnt, q

(* Reception survives failures, for every pool of more than one URB (the   *)
(* driver's has RX_URB_COUNT, 32): after all were posted, as long as       *)
(* no more allocations, submissions and transfers failed in a row than     *)
(* the pool less the threshold, some transfer of the pipe is with the USB  *)
(* core, or finished, or its routine runs and may post again.              *)
THEOREM ReceptionSurvives ==
    ASSUME Cardinality(RxUrbs) > 1
    PROVE  Spec => []ReceiveSurvives
<1> DEFINE Inv == BeginInv /\ RunInv /\ FreeInv
<1>1. Init => Inv
  <2> SUFFICES ASSUME Init PROVE Inv
    OBVIOUS
  <2>1. NotBegun
    BY EmptySeq DEF Init, NotBegun, PostOff, CompIdle, Contexts, Pipes, WorkingKinds
  <2>2. BeginInv
    BY <2>1 DEF Init, BeginInv, PostOff, CompIdle, Contexts, WorkingKinds
  <2>3. RunInv
    BY EmptySeq DEF Init, RunInv, CompIdle
  <2> QED
    BY <2>2, <2>3 DEF Init, FreeInv
<1>2. HifInv /\ StopInv /\ SendInv /\ CountInv /\ Inv /\ [Next]_vars => Inv'
  BY BeginStep, RunStep, FreeStep DEF HifInv
<1>3. HifInv /\ Inv => ReceiveSurvives
  <2> SUFFICES ASSUME TypeOK, PlaceInv, FreeInv, control = "up", enabled, allPosted,
                      failures <= urb_alloc("rx") - urb_alloc("rx") \div 2,
                      core["rx"] = <<>>,
                      \A i \in 1..Len(giveback) : giveback[i].urb \notin RxUrbs,
                      comp.kind \notin RxKinds, post["control"].pc = "off"
               PROVE  FALSE
    BY DEF HifInv, ReceiveSurvives, RxKinds
  <2>1. comp.pc \notin {"repost", "posting"}
    BY DEF TypeOK, CompType, RxKinds
  <2>2. /\ post["comp"].urb = None /\ post["control"].urb = None
        /\ urb_cnt("rx") \in Nat /\ failures \in Nat /\ urb_alloc("rx") \in Nat
        /\ urb_cnt_thresh \in Nat
    BY <2>1, CountsAre
  <2>3. urb_cnt("rx") = urb_alloc("rx")
    <3>1. \A c \in Contexts : post[c].urb = None
      BY <2>2 DEF Contexts
    <3> QED
      BY <3>1, ReceiveIdle DEF urb_alloc
  <2>4. Postable <= urb_cnt_thresh - 1 + Excused
    BY DEF FreeInv, Running, Powered
  <2>5. Postable = urb_cnt("rx") /\ Excused = failures
    BY <2>1, <2>2 DEF Postable, Excused, Count
  <2>6. failures <= urb_alloc("rx") - urb_cnt_thresh
    BY DEF urb_cnt_thresh
  <2> QED
    BY <2>2, <2>3, <2>4, <2>5, <2>6
<1> QED
  BY <1>1, <1>2, <1>3, HifInvAlways, StopAlways, SendAlways, CountAlways, PTL
     DEF Spec
=============================================================================
