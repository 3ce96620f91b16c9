# TLA+ verification of qcacld-2.0

qcacld-2.0 is the host driver of Qualcomm Atheros Wi-Fi chips (QCA9377 and
relatives) as 8devices ships it for USB and SDIO modules (`wlan-usb.ko`,
`wlan-sdio.ko`).  This directory models the parts of the driver where
concurrency, lost or late answers and limited resources make the code hard to
test, checks the models with TLC on small instances and proves every safety property
with TLAPS for every instance.

## 1. The system and its parts

From the bus upwards (line counts are C code):

| Part | Where | State it keeps | Operations | Talks to |
|---|---|---|---|---|
| HIF USB | `CORE/SERVICES/HIF/USB` | URB free and pending lists per pipe, completion queue per pipe, receive URBs | `HIFSend_head`, URB callbacks, completion tasklet or work, suspend, disconnect | USB core below, HTC callbacks above |
| HIF SDIO | `CORE/SERVICES/HIF/sdio` | bus request list, mailbox lookaheads, tx credits per mailbox | async bus task, interrupt handler | MMC core, HTC |
| HIF PCIe, copy engine | `CORE/SERVICES/HIF/PCIe` | descriptor rings | not built for these modules | HTC |
| BMI | `CORE/SERVICES/BMI` | download progress | firmware download before HTC exists | HIF |
| HTC | `CORE/SERVICES/HTC` (4k) | per endpoint: `TxQueue`, `TxLookupQueue`, `TxCredits`, `TxProcessCount`; per target: the control response buffer, packet containers | `HTCSendPkt`, `HTCSendDataPkt`, completion, credit report, flush, connect, start, stop | HIF below, WMI and HTT above |
| WMI | `CORE/SERVICES/WMI` (1.5k without the TLV tables) | pending command count, event queue, handler table, target suspend flag | `wmi_unified_cmd_send`, event work item, register, unregister, remove work, detach | HTC, WMA |
| WMA | `CORE/SERVICES/WMA` (51k) | vdev and peer tables, target request queue with timers | WDA message handlers, WMI event handlers | WMI, VOSS queues |
| HTT | `CORE/CLD_TXRX/HTT` (9k) | message formats, packet pool, receive ring | H2T and T2H messages | HTC, TXRX |
| TXRX | `CORE/CLD_TXRX/TXRX` (19k) | tx descriptors, tx queues and scheduler, receive reorder arrays, peer table with reference counts | send, completion, reorder, timeout, peer map | HTT, TLSHIM |
| TLSHIM, TL | `CORE/CLD_TXRX/TLSHIM`, `CORE/TL` | cached receive buffers per station | register station, receive, management frames | TXRX, HDD, WMA |
| VOSS | `CORE/VOSS` (12k) | message queues and wrapper pool, controller and data threads, timers, events | post, schedule, suspend, shutdown | everybody |
| MAC (PE) | `CORE/MAC` (98k) | MLM and SME states per session, deferred messages, station hash | message handlers | WMA, SME |
| SME | `CORE/SME` (88k) | command queues, roaming, power (PMC) and QoS states | command processing, timeouts | MAC, HDD |
| SAP, DFS | `CORE/SAP`, `CORE/SERVICES/DFS` | access point state machine, non-occupancy list | events, radar | SME, WMA |
| HDD | `CORE/HDD` (125k) | net devices, cfg80211 glue | ioctls, cfg80211 operations, tx and rx | everything above |
| SVC, SYS, EPPING, UTILS, WDA | | logging sockets, frame packing, test tool | | |

What is hard here:

* **HTC transmit.**  Any thread may send; completions and credit reports come
  in tasklet or work context; one endpoint is drained by at most one thread,
  which drops the lock around every call of the bus.  The bus can refuse a
  transfer at any time.  Correct means: one drainer, no packet lost, doubled,
  reordered or forgotten, no credit made or lost.
* **HTC control.**  The driver asks, waits with a timeout, and may go on after
  a timeout; answers carry no request number.  Correct means: an answer is only
  used for its own request, both sides agree on which endpoint has which service
  and how many credits, a hung target cannot stop the driver.
* **WMI.**  A limit on pending commands, a suspended target, events queued
  from one context and handled in another.
* **TXRX.**  A window of sequence numbers with a timeout that moves it,
  descriptor pools at their limit, reference counts of peers that are deleted
  while frames refer to them.
* **VOSS.**  Two kernel threads that are suspended, resumed and shut down
  while others post messages; a fixed pool of message wrappers.
* **SME, MAC.**  Command queues whose commands can time out or be removed while
  the response is under way.

`PROJECT.json` lists every part with its status and every hazard at its line.

## 2. Modules

| Module | Models | Checked by |
|---|---|---|
| `HtcSend` | the transmit path of one HTC endpoint | `MCHtcSend` |
| `HtcSendProofs` | theorems about `HtcSend`, among them the refinement of `HtcPipe` | tlapm |
| `HtcPipe` | abstract: what an endpoint promises to those who send on it | `MCHtcSend` |
| `HtcSendRefinement` | `HtcSend` implements `HtcPipe` | `MCHtcSend` |
| `HtcDataSend` | `HTCSendDataPkt` beside `HTCTrySend` on the USB data endpoint, extends `HtcSend` | `MCHtcDataSend` |
| `HtcQueueProofs` | theorems about the packets of `HtcSend` and `HtcDataSend` | tlapm |
| `HtcControl` | HTC bring-up over endpoint 0 | `MCHtcControl` |
| `HtcControlProofs` | theorems about `HtcControl` | tlapm |
| `WmiEvents` | the event side of WMI, from `wmi_control_rx` to the handlers and to the end of `vos_close` | `MCWmiEvents` |
| `WmiEventsProofs` | theorems about `WmiEvents` | tlapm |
| `VosSched` | the scheduler threads of VOSS, their queues and pools, the suspend handshake with HDD, close and reopen | `MCVosSched` |
| `VosSchedProofs` | theorems about `VosSched` | tlapm |
| `HifUsb` | the USB transport: URB pools, transmit, receive, suspend, stop, disconnect | `MCHifUsb` |
| `HifUsbProofs` | theorems about `HifUsb` | tlapm |
| `TxrxPeer` | the life of the peers of a vdev in the data path, with the WMA calls that create and remove them | `MCTxrxPeer` |
| `TxrxPeerProofs` | theorems about `TxrxPeer` | tlapm |
| `Lists` | the linked lists (`dl_list.h`, `list.h`) that HTC, HIF and VOSS keep | with the modules that use it |
| `ListTheorems` | what the operations of `Lists` and of `Sequences` do to the members of a list | tlapm |

`HtcDataSend`, `HtcSendRefinement` and the proof modules extend the module they
are about; `HtcSend`, `HtcPipe`, `VosSched` and `HifUsb` extend `Lists`.
`HtcSendProofs` builds on `HtcQueueProofs`, and both they and the other proofs
about queues on `ListTheorems`.  What one component assumes of its neighbour
is an action marked external in it: `HtcSend` sees the bus as `HifUsb` shows it
(transfers complete in order, any of them may be refused), and `WmiEvents` sees
HTC as reception that ends with `HTCStop`.

### HtcSend

State: the variables carry the names of the C fields and locals.  `TxQueue`,
`TxLookupQueue`, `TxCredits`, `TxProcessCount`, `ul_outstanding_cnt` are the
fields of `HTC_ENDPOINT`; `lock` is the holder of `HTCTxLock`;
`pCallersSendQueue`, `sendQueue`, `tx_resources` and `netbuf` are per-thread
locals of `HTCTrySend` and `HTCIssuePackets`; `CreditsUsed`, `SendFlags` and
`Status` are fields of the packet.  `hif`, `hifCompletions` and `targetCredits`
stand for the USB core and the firmware.  `charged` and `delivered` are
auxiliary: no guard of the code's actions depends on them.

A thread's `pc` is where it is between two points at which another thread can
interfere.  One action covers the code from one such point to the next:

| Action | Code (`htc_send.c`) |
|---|---|
| `HTCSendPkt` | `HTCSendPkt`, `HTCSendPktsMultiple` up to the call of `HTCTrySend` |
| `CheckOverflow`, `RejectPacket` | the unlocked depth test with `EpSendFull`, and what happens to a packet it refuses |
| `ReadResources` | `HIFGetFreeQueueNumber` before the lock |
| `EnterTrySend` | lock, append, the `TxProcessCount` test |
| `GetHTCSendPacketsCreditBased`, `GetHTCSendPackets`, `EndGet` | one turn of either loop, and its end |
| `HTCIssuePacketsBundle`, `IssueSingle` | building one transfer and storing it in `TxLookupQueue` |
| `HIFSendOk`, `HIFSendFails`, `HTCSendBundledNetbufFails` | the outcomes of `HIFSend_head` |
| `Requeue`, `Reread`, `Relock` | the rest of the loop of `HTCTrySend` |
| `HTCTxCompletionHandler` | with `HTCLookupTxPacket`; then the thread goes on in `HTCTrySend` |
| `HTCProcessCreditRpt` | then, if there is reason to, `HTCTrySend` |
| `HTCFlushEndpointTX` | the flush of `HTCStop`, `HTCFlushSurpriseRemove` and `HTCFlushEndpoint` |

The increment and the test of `TxProcessCount` are one step here: on an endpoint
that only `HTCTrySend` drains every access is made under the lock.  The one
exception is the endpoint of `HTCSendDataPkt`, which has a module of its own.

Abstracted: the contents of packets (only length and number of fragments are
kept), the sequence number in the frame header (the host never reads it back),
DMA mapping, statistics.  Left out: runtime power management and
`ATH_11AC_TXCOMPACT`, which this build does not define.

### HtcPipe and HtcSendRefinement

`HtcPipe` has three variables: packets that wait, packets in flight, and what the
owner of each packet was told.  A submitted packet is accepted or refused;
accepted packets leave in order, one or more at a time; owners are told in
that order; a flush cancels from the end of the pipe.  `HtcSendRefinement` maps
`waiting` to the packets in the drainer's hands followed by `TxQueue`, `inFlight`
to the transfers of the bus and `told` to `Status`.  `ImplementsPipe` is the safety
part; `ImplementsFairPipe` adds that the pipe moves, and holds on a bus that
accepts what it has room for.

### HtcDataSend

`HTCSendDataPkt` makes one pass over `TxQueue` and resets `TxProcessCount`
after it has unlocked.  The increment, the test and the decrement are steps of
their own.  Everything else is taken from `HtcSend` by `EXTENDS`.

### HtcControl

`pc` is where the thread that brings HTC up is: `HIFStart` and the wait for READY
of `HTCWaitTarget` (`cur = 0`), one round of `HTCConnectService` per service,
`HTCStart`.  `rxPc` is the control branch of `HTCRxCompletionHandler`.  They meet
in `CtrlResponseBuffer`, `CtrlResponseProcessing` and `CtrlResponseValid`.  Three
facts of the code shape the module:

* `adf_os_re_init_completion` takes the `struct completion` by value, so it
  re-initializes a copy: `ReInitCompletion` leaves the count alone;
* `HTCConnectService` checks the message id and the status of an answer, but not
  the service it answers;
* on USB the optional service HTT2 is connected between HTT and WMI, and its
  failure is ignored.

### WmiEvents

Three threads.  `rPc` is `wmi_control_rx` in the receive context of HTC: `Receive`
sorts an event (and counts a radar event), `HandleImmediate` calls the handler of
an event that cannot wait, `Enqueue` and `Schedule` hand the others to the work
item.  `wPc` is `__wmi_rx_event_work` with `__wmi_control_rx`: `StartWork`,
`Dequeue`, `Lookup` (one round of the search loop) and `Call` (the slot is read
again).  `cPc` is the thread that registers the handlers and later closes the
driver, in the order of `vos_stop` and `vos_close`: `VosStop`, `RemoveWork`
(cancel, wait, drain), `HTCStop`, `HTCDestroy`, the unregistering of `wma_close` in
the steps a search can tell apart, and `Detach` (cancel, wait, drain).

`vos_flush_work` is `cancel_work_sync`, not `flush_work`: it drops a pending work,
and `schedule_work` does nothing while it waits (`canceling`).  A handler is named
by the id it was registered for, so a call of the wrong handler is visible in
`outcomes`; `outcomes`, `freed` and `leaked` are auxiliary.  The TLV check is the
boolean `tlv`, which also stands for a buffer without a header.  `HTCStop` is
taken to end reception, as its comment says.  `SuspendFails` says whether the
target may go on sending after `wma_stop`: a failed suspend is only logged, FTM
mode does without, and on USB nothing else stops the target.

### VosSched

`mq` are the message queues, `free` the two pools (message wrappers and receive
packets), `evt` the event flags of the two threads `mc` (`VosMCThread`) and `rx`
(`VosTlshimRxThread`), `ack` and `resume` the completions of the suspend handshake,
`suspended` the two flags of HDD.

| Action | Code |
|---|---|
| `PostGet`, `PostPut`, `PostSignal` | `vos_mq_post_message`, `vos_indicate_rxpkt`: take a buffer, put it on a queue, set POST |
| `DropTake`, `DropFree` | `vos_drop_rxpkt_by_staid`: off the queue under the lock, freed after it |
| `Wake`, `Exit`, `StartScan`, `Scan`, `Handled`, `ScanDone` | the loops of the two threads |
| `TestSuspend`, `ClearSuspend`, `Confirm`, `Unpark` | their answer to SUSPEND |
| `SuspendWlan`, `Confirmed`, `WaitTimedOut`, `FwSuspended`, `FwSuspendFails`, `ResumeWlan` | `wlan_hdd_cfg80211_suspend_wlan` and its resume |
| `Shutdown` | `hdd_wlan_shutdown`: wake what is marked as suspended |
| `CloseSet`, `CloseJoin`, `CloseFlush`, `CloseNext`, `Reopen` | `vos_sched_close`, one thread after the other, and a new `vos_sched_open` |

External: the target sends no more data once the scheduler is being closed, and
nobody is still in the middle of a post when it is opened again.

### HifUsb

Per pipe: `urb_list_head` (free URB contexts), `urb_pending_list` (the transfers a
flush kills), `io_comp_queue` and `io_complete_work`.  Four kinds of context
interleave: the control thread, the completion context (`comp`), a worker per
pipe, and the senders.  Every list operation is made under `cs_lock` and is a
step of its own.

| Action | Code (`usbdrv.c`, `hif_usb.c`, `if_usb.c`) |
|---|---|
| `PostNoUrb` .. `PostSubmitFails` | the loops of `usb_hif_post_recv_transfers`, `..._prestart_transfers` and `..._bundle_transfers` |
| `CompBegin`, `CompQueue`, `CompSchedule`, `CompCleanupRecv`, `CompCleanupTransmit`, `CompPrestart`, `CompRepost` | the completion routines |
| `WorkBegin`, `WorkCallback`, `WorkEnd` | `usb_hif_io_comp_work` |
| `SendAlloc`, `SendNoUrb`, `SendEnqueue`, `SendSubmit`, `SendSubmitFails` | `HIFSend_internal`, with the context it pushes in front of the data |
| `FlushTake`, `FlushKill`, `FlushWait`, `FlushWork` | `usb_hif_flush_pending_transfers` and the `flush_work` of `usb_hif_flush_all` |
| `HIFStart`, suspend and resume, `Disconnect`, `HTCStop`, `HTCDestroy`, `HIFDetachHTC`, `usb_hif_destroy` | the control thread |

External: the USB core cancels everything on suspend and disconnect and
accepts nothing then; nobody sends while the device is suspended; routines
cancelled by a suspend are done when the device resumes; the target is silent
once the driver stops, so that no completion routine runs when `HTCStop` or
`usb_hif_destroy` begins (`Calm`).  The last one is needed: a routine between
`usb_hif_remove_pending_transfer` and `schedule_work` is on no list a flush looks
at.

### TxrxPeer

One vdev and the peers attached to it.  `place` says whether an object is free, on
the vdev's `peer_list`, or in `peer_hash` as well; `peer_id_to_obj_map`,
`last_real_peer`, `freelist` (of `local_peer_ids`), `wait_on_peer_id` and
`wait_delete_comp` are the fields of the same names.

| Action | Code (`ol_txrx.c`, `ol_txrx_peer_find.c`, `wma.c`) |
|---|---|
| `AttachBegin`, `AttachWait`, `AttachTimeout`, `AttachList`, `AttachFails`, `AttachHash` | `ol_txrx_peer_attach`, with the wait for a dying peer of the same address |
| `CreateSend`, `CreateFails` | the rest of `wma_create_peer` |
| `RemoveBegin`, `DetachInvalidate`, `DetachForget`, `DetachUnref` | `wma_remove_peer` and `ol_txrx_peer_detach` |
| `PeerMapFind`, `PeerMapAdd`, `PeerUnmap` | the handlers of the target's map and unmap messages |
| `FindByAddr`, `FindAssoc`, `Release` | a sender looks a peer up and gives it back with `ol_txrx_peer_unref_delete` |
| `FindByAddr`, `Drop` | a borrower gives it back with a bare decrement |
| `VdevDetach`, `PdevDetach` | `ol_txrx_vdev_detach`, `ol_txrx_pdev_detach` |

External: the target maps an id before it unmaps it, and otherwise in any order;
WMA removes the peers before it detaches the vdev; nobody uses the data path when
the pdev goes; no frame is classified by `ol_txrx_assoc_peer_find` while the next
peer is being attached, because `last_real_peer` is set before the count is
(`ol_txrx.c:1568`).  The roam synch paths of firmware roaming are not modelled.

## 3. Runs

| Run | Shows |
|---|---|
| `htc_send_credit` | a credit endpoint: one drainer, credits conserved, nothing stranded, the request for credits reaches the target when the queue is stuck; and the endpoint implements the fair pipe, so packets stay in order, none is lost or doubled and each is completed |
| `htc_send_usb` | an endpoint without credits, bundling, and a bus that refuses transfers at any time implements the pipe |
| `htc_send_credit_leak` | *violation*: credits are lost when a transfer is refused with packets behind it |
| `htc_data` | the data endpoint: never busy without a drainer, completions found, each packet in one place |
| `htc_control` | bring-up with refusals and hangs, when answers are in time: an answer is used for its own request, both sides agree on endpoints and credits, only a hung target makes a wait time out, and bring-up ends |
| `htc_control_late` | *violation*: a late answer is taken for the next one |
| `wmi_events` | events of every kind, also malformed, while the driver closes with a target that may go on: no event stranded, no other event's handler, radar events counted, handle not used after it is freed, every event handled or drained (liveness); with a target that stops, the work item ends before HTC and every event reaches its handler |
| `vos_sched` | no wrapper or packet lost or in two hands, no message forgotten, no thread after close; without late confirmations the flags of HDD are right, every parked thread has somebody to resume it, and `vos_sched_close` returns |
| `vos_sched_late_ack` | *violation*: a thread that confirms a suspend too late stays parked |
| `hif_usb_recv` | receive: every URB in one place and none leaked, messages in order and none stranded, the prestart count is right, reception survives failures |
| `hif_usb_send` | transmit: HTC is not called after the callbacks are zeroed, packets come back as they went in, and stopping ends |
| `txrx_peer` | counts equal references, nothing leads to a freed peer, one peer per address, and a vdev whose deletion is pending is deleted |

**Bounds.**  Three packets of one credit, exactly two and a part of a second one,
with three credits in all, so that every packet fits alone and not all fit
together; two senders beside the completion and the report contexts, so that one
can be busy while another queues and a third comes back; queue depth one, so that
the overflow test is met by the second packet; one or three transfers.  With one
credit for four bytes the padding of bundles and the division in
`CreditsRequired` take all their cases.  Every packet is sent at most once, which
bounds the behaviours; a longer run revisits the same states with other packets.
In `HtcControl` the READY message announces 258 credits, more than the 8 bits of
`CreditAllocation` can hold.
In `WmiEvents` three events (one being handled, one waiting, one arriving), a full
handler table of five entries with the two that `wma_close` removes in front of
staying ones, and room for one waiting radar event, so that the limit is reached
and passed.

In `VosSched` two queues of the controller thread (so that one is looked at
before the other), two wrappers and one packet, so that both pools run empty.
In `HifUsb` two receive URBs, both used for prestart transfers, three messages and
two failures in a row (one more than half of the pool); or one transmit URB that
two packets compete for, next to one receive URB.  Its two runs split the pipes
because they share only the control thread and the completion context.
In `TxrxPeer` two objects, addresses, target ids and local ids and three attaches:
enough for an address to be used again while its old peer dies, for a local id
to be handed out again and thereby for a wait that the wrong peer ends, and for a
peer with two ids; one sender and one borrower hold references meanwhile.

**Fairness.**  In `htc_send_credit`, weak fairness of each thread (the kernel runs
a thread that is in HTC; spin locks are held for bounded time), of the bus, of
the completion context and of the target's credit reports (a target that was
told NEED_CREDIT_UPDATE reports; `CreditUpdateRequested` shows that it always is
told when it has to be).  Nobody is obliged to send or to flush.  In
`htc_control`, weak fairness of the bring-up thread (its timeout included), of the
receive context, and of a target that is not hung.  In `wmi_events`, weak
fairness of the receive context, of the work item and of the thread that opens
and closes the driver, except for its decision to close; the target need not
send anything.  In `vos_sched`, of the two kernel threads and of a close that
has begun.  In `hif_usb_send`, of the completion context, the workers, a flush and
a stop that have begun; transfers need not finish by themselves, only those that
were killed.  In `txrx_peer`, of the controller thread within an operation
(its timeout included), of the target's answers and the receive context, and
of users giving back what they hold; nobody is obliged to attach or detach.

## 4. Findings

Shown by a run that expects the violation:

1. **Credits are lost when the bus refuses a transfer** (`htc_send.c:689`).
   `HTCIssuePackets` gives back the failed packet's credits only; the packets
   behind it are queued again with theirs spent, and charged again.
2. **`adf_os_re_init_completion` does nothing**
   (`adf_os_util_pvt.h:118`).  A late answer is used for the next request.
3. **A thread that confirms a suspend too late stays parked**
   (`wlan_hdd_cfg80211.c:31077`).  The withdrawn request may already have been seen;
   nobody marks the thread as suspended, the recovery does not wake it and
   `vos_sched_close` waits for it without a timeout.

Behaviours of the code that the properties are stated around (each property says
so, and `PROJECT.json` lists the hazard):

4. **Stale `tx_resources`** (`htc_send.c:1085`).  The last completion can free
   the transfer and look at an empty queue between a sender's read of the free
   transfers and its enqueue; the packet waits on an idle pipe until the next send.
5. **Two drainers, and a frame left behind, on the data endpoint**
   (`htc_send.c:1583`, `:1464`).  `TxProcessCount` is reset without the lock.
6. **The WMI work item outlives `wmi_unified_remove_work`**
   (`wmi_unified.c:1383`).  Reception ends later, in `HTCStop`; an event in between
   schedules the work again, and the unlocked handler table may be searched while
   `wma_close` unregisters handlers (`wmi_unified.c:1091`).
7. **A refusal for want of a URB leaves a send context behind**
   (`hif_usb.c:332`), in front of the packet's data or allocated.
8. **A flush does not wait for a running completion routine** that has taken its
   transfer off the pending list (`hif_usb.c:437`).
9. **Peers that nobody deletes** (`ol_txrx.c:163`, `wma.c:10443`).  A bare decrement
   that takes the last reference does not delete; a peer whose create or delete
   command was not sent waits for an unmap message for ever.  Only the forced
   detach of the pdev frees them.
10. **A wait for a dying peer can be ended by another one** (`ol_txrx.c:1931`).
    It is for a local id that has already been given back.  Two peers then share an
    address, and the map message of the new one goes to the old one.

## 5. Proofs

Every safety invariant that a run checks, and the refinement of `HtcPipe`, is a
theorem.  Where a theorem has a hypothesis, it is one the code justifies, and it is
listed with the theorem; a run meets each of them.

`ListTheorems` holds what all of them need about lists: which members a list has
after an append, a removal, a split or a filter, that it stays free of
duplicates, and how many positions satisfy a condition.  `Without`, `Flatten` and
other functions defined by recursion on a position need induction.  The
library's induction theorems take an operator, which the provers cannot
instantiate; `LeastNumber` (a nonempty set of naturals has a least member) and
`SetInduction` (a set that has 0 and is closed under successor has every natural)
say the same of sets, and suffice.

`HtcSendProofs` proves, for every set of packets and threads, every length,
credit size and limit:

* `TypeCorrect`: `Spec => []TypeOK`.
* `DrainsAlone`: `Spec => []SingleDrainer`, whether or not the bus refuses
  transfers.
* `CreditsAreConserved`: `Spec => []CreditsConserved` when `HifMayFail` is FALSE
  and the pipe has a transfer for every packet.  Run `htc_send_credit_leak`
  shows that the condition is needed.
* `NoWakeupIsLost`: `Spec => []NoStrandedPacket`, under the same condition.
* `UpdatesAreRequested`: `Spec => []CreditUpdateRequested`, under the same
  condition and for packets that need no more than `TxCreditsPerMaxMsg` credits.
  `HTCConnectService` computes that number from the longest message of the service,
  rounded up (`htc_services.c:270`), and `wmi_buf_alloc` refuses longer ones
  (`wmi_unified.c:139`).
* `SendImplementsPipe`: `Spec => ImplementsPipe`, whether or not the bus refuses
  transfers: `Init` implies the pipe's, and every action is one step of `HtcPipe`
  or leaves its variables alone.

The inductive invariants are

* `TypeInv`: the types, strengthened where a conversion needs it;
* `DrainInv`: one drainer, `TxProcessCount` is its indicator, and the lock is held
  exactly by a thread in the get loop.  `SingleDrainer` alone is not inductive:
  a thread that clears the count in `EndGet` must be known to be the drainer;
* `FlowInv`: no thread is on a failure path, threads that do not drain hold no
  transfer, the credit equation, and the wakeup condition.  The wakeup condition
  needs that the count is only cleared under the lock and only when the head of
  the queue cannot be paid for;
* `RequestInv`: the packet charged last has asked for credits, or the host has more
  than the longest message needs.  `CreditUpdateRequested` speaks of the head of
  the queue only and is not inductive, because the head changes;
* `RefInv`: `TypeInv`, `DrainInv`, `OwnInv` (below) and `HandInv`, what the threads have
  in hand.  The refinement needs all of them: that one thread drains makes
  `waiting` a single sequence, and that packets are owned once makes a completed
  packet one the pipe has in flight.

The argument of `NoWakeupIsLost` goes by who can make its premise true: the
queue gets a new head (`EnterTrySend`: the thread either drains or leaves the
count at 1), the count falls (`EndGet`: only when nothing can be paid), credits
come (`HTCProcessCreditRpt`: the handler itself goes for the lock), the queue
gets shorter (the flush empties it).

`HtcQueueProofs` proves, for any packets and threads and whether or not the bus
refuses transfers:

* `PacketsOwned` and `DataPacketsOwned`: `Spec => []PacketOwnership` and
  `DataSpec => []PacketOwnership`.  `PacketOwnership` adds up occurrences; the
  inductive `OwnInv` says instead that no queue has a duplicate (`DistinctInv`), that
  the queues' sets of packets are disjoint and together the pending ones
  (`Placed`), and that a transfer is in `TxLookupQueue` from before HIF gets it
  until it is completed, and with one holder (`BusInv`).
* `LookupsSucceed`: `DataSpec => []CompletionsAreFound`, from `BusInv`, although two
  drainers may store and send in different orders.
* `BusyEndpointIsDrained`: `DataSpec => []BusyHasDrainer`.  `TxProcessCount` is no
  longer the number of drainers, as it is reset whoever else is counted; that
  it never exceeds the number of threads inside is inductive and enough.

`HtcControlProofs` proves, for any list of services and credits:

* `AnswersMatch`, `EndpointsMatch`, `TimeoutsAreHangs`: `Spec => []AnswersItsRequest`,
  `[]ServiceOnItsEndpoint` and `[]TimeoutMeansHang` when `LateAnswers` is FALSE;
* `AnswersUntilTimeout`, `EndpointsUntilTimeout`: with late answers the first two
  still hold until some wait times out.  Run `htc_control_late` shows that they
  need not hold afterwards.

The answers carry no request number, so `IInv` is a count: between requests no
control message is anywhere (`Quiet`), and a request puts one message into a
pipeline of stages - `Asked`, `OnTheBus`, `Received`, `Completed` - which it passes
in order or is `Lost` with the target.  Only a timeout that fires while the message
is in a stage breaks the count.

`WmiEventsProofs` proves, for every handler table, every set of events and any
number of them:

* `QueueAlwaysServed`: `Spec => []QueueIsServed`.  The invariant adds that
  `canceling` is only set where a drain follows, because there `schedule_work` is
  lost.
* `HandleNotUsedAfterDetach`: `Spec => []NoUseAfterDetach`.  `CloseInv` says what
  each stage of the close sequence has achieved: after `HTCStop` nobody receives,
  so after the second cancel nothing is pending, so after the second wait nothing
  runs.
* `SuspendedWorkStops`: `Spec => []SuspendStopsWork`, that is `WorkStoppedBeforeHtc`
  once the target is suspended;
  an event that follows a failed suspend restarts the work item (section 4, 6).
* `SurvivorsKeepHandlers`: `Spec => []NeverAnotherHandler`.  `TableInv` covers the
  slots behind the end of the table too: the entry that is moved stays in its old
  slot, where a search may already have found it.
* `RegisteredHandlersAreCalled`: `Spec => []CallsRegisteredHandler` when the table has
  room (`HasRoom`; it has 256 slots, `wmi_unified_priv.h:40`, and WMA registers far
  fewer handlers).  `FullInv`: the table is complete before reception starts and
  changed only after it has ended, and a search has not passed its id.
* `PendingRadarsAreCounted`: `Spec => []RadarsCounted` when the table has room and the
  radar handler is registered, as it is with phyerr filter offload
  (`wma.c:8213`).  `RadarInv` numbers the events, keeps the places they can be in
  disjoint and equates the counter with a cardinality.  Without a handler nothing
  counts an event off.

`VosSchedProofs` proves, for any pools, queues and posters:

* `TypeCorrect`: `Spec => []TypeOK`.
* `NoMessageIsForgotten`: `Spec => []NoMessageForgotten`.  Besides the types
  nothing is needed: the argument is that POST is cleared before the
  first queue is looked at.
* `ClosedThreadsAreGone`: `Spec => []NoThreadAfterClose`, from `ClosedInOrder`: the
  controller thread has exited before the receive thread is closed.
* `SuspendedThreadsAreParked` and `ParkedThreadsAreResumed`: `Spec =>
  []SuspendedIsParked` and `[]ParkedHasResumer`.  `Handshake` says where a suspend
  request is while HDD waits for it - the event flag, the hands of the thread, the
  confirmation, and only one of them - and that otherwise it is nowhere.  Both are
  stated for behaviours without a late confirmation, as the finding shows they
  must be.
* `BuffersHaveOneOwner`: `Spec => []OneOwner`.  `BufInv` has one set of buffers for each
  place (pool, queue, thread, poster, drop), pairwise disjoint (`Apart`) and complete
  (`Kept`), and no queue with duplicates; every step moves buffers from one place
  to another.

`TxrxPeerProofs` proves, for any number of objects, addresses, ids and users:

* `TypeCorrect`: `Spec => []TypeOK`;
* `CountsAreRight`: `Spec => []RefCounted`;
* `NoDanglingPeer`: `Spec => []ReferencedIsLive`;
* `VdevIsFreedLast`: `Spec => []VdevOutlivesPeers`, a vdev is not freed while it
  has peers;
* `PendingIsCompletable`: `Spec => []PendingHasPeers`, a vdev whose deletion is
  pending has a peer whose deletion will complete it;
* `OnePeerEach`: `Spec => []OnePeerPerAddress`.  `AddrInv` adds that an attach whose wait
  was ended by a deletion, and not by a timeout, finds no peer with its address.

All but the last are parts of one inductive invariant `IInv`: a peer is freed when its count
falls to zero, so that nothing leads to a freed peer needs the count to be the
number of references, and the count only stays right if nobody holds a freed
peer.  The rest of `IInv` is what the steps in the middle of an operation rely on:
`Controller` (what the controller thread knows of its peer), `Life` (valid peers
are hashed; `last_real_peer` is valid or being attached or detached, so that it
never is the only thing that leads to a peer), `Mapping` (an id the target has not
mapped leads to no peer) and `Closing` (after the detach of the vdev no peer is
valid).  Sums over ids and users become cardinalities, and the lemmas say how
one step changes them.

`HifUsbProofs` proves, for any number of URBs, packets and messages:

* `UrbsInOnePlace`: `Spec => []UrbInOnePlace`.  `PlaceInv` treats the free lists, the USB
  core, finished transfers, posting loops, senders and the running routine as
  places with a set of URBs each, as above, and adds that a URB on a pending list
  is in flight (`PendingInFlight`), for otherwise a flush could free a free one.
* `UrbsDoNotLeak`: `Spec => []NoUrbLeak`, from `PlaceInv` and `StopInv`: when the
  driver is removed every other place is empty.
* `BuffersAreNotStranded`: `Spec => []NoBufferStranded`; besides the types nothing is
  needed, the argument is one about the order of `skb_queue_tail` and `schedule_work`
  on one side and of the last `skb_dequeue` on the other.
* `PrestartsAreCounted`: `Spec => []PrestartCounted`.  `CountInv` holds also while
  `rx_prestart_lock` is taken, where it does not count a routine that has already
  counted itself off and posts.
* `MessagesInOrder`: `Spec => []DeliveredInOrder`.  `OrderInv` puts the message handed up
  last, the queue, what the routine has in hand, the finished transfers and what
  is still to come into one increasing sequence.
* `ContextsComeBack`: `Spec => []OnlyRefusalsLeaveContext`.  `PacketInv` follows the
  context of a packet from the sender through the transfer, the routine and the
  queue back to HTC.
* `NothingCallsBack`: `Spec => []NoCallbackAfterDetach`.  `FlushSees`: a transfer is
  pending until the flush takes it, so the flush finds all; `QuietInv`: what
  each part of the stop has emptied stays empty.  It rests on `Calm` (section 2).
* `ReceptionSurvives`: `Spec => []ReceiveSurvives` for more than one receive URB (the
  driver has `RX_URB_COUNT`, 32, `hif_usb_internal.h:42`).  `FreeInv` bounds the free
  URBs by the threshold at which a routine posts again, but for one per failure;
  `BeginInv` says that no prestart transfer is left when the working transfers
  start, and `RunInv` that nothing is cancelled while the driver runs.  With a
  single URB the threshold is zero and `FreeInv` fails.

Only model-checked: liveness, that is `ImplementsFairPipe` (its safety part,
`ImplementsPipe`, is proved), `BringUpEnds`, `EventsAreServed`, `CloseReturns`,
`StopCompletes` and `VdevDeleted`.  Fairness is defined with ENABLED, which the
installed provers do not handle.

## 6. Plan

1. WMI commands: the pending limit, and WOW suspend, where
   `wma_enable_wow_in_fw` (`wma.c:25549`) tests the pending commands and sets the
   suspend flag in two steps; WMA's target request queue with its timers.
2. TXRX: descriptor pool and pause of tx queues, the receive reorder array with
   its release window and timeout, defragmentation.
3. TLSHIM: receive buffers cached for a station that is not registered yet.
4. HTC receive with its container pool; `HTCStop` composed with `HifUsb`.
5. SME command queues, PMC, SAP; HIF SDIO mailbox credits.
6. Proofs: the safety part of each module above as it is added.

## 7. Not modelled

The repository has 736k lines.  Most of them have no state of their own to check:
frame packing generated from tables (`dot11f.c`), the WMI and HTT message
definitions and TLV tables, radar signal processing, register maps, and the
translation between kernel interfaces, SME messages and WMI commands that makes
up HDD, SME and WMA.  The models cover the code where threads, callbacks and
late answers meet, a small share of the lines.  Left out although it has such
state, for now: the command queues and power states of SME, the state machines of
the MAC protocol engine and of SAP, the transmit scheduler and the reorder
logic of the data path, the SDIO transport.  The PCIe transport and the copy engine
are not part of this build; BMI is a sequential exchange before anything else
runs; firmware images, patches and scripts are data.  Within the modelled
components the notes in `PROJECT.json` say what is missing.
