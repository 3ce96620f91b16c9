------------------------- MODULE HtcSendRefinement -------------------------
(***************************************************************************)
(* The transmit path of HtcSend implements the pipe of HtcPipe.  A packet  *)
(* waits from the moment it enters TxQueue until HIFSend_head has taken    *)
(* it, whether it is in TxQueue or in the hands of the draining thread,    *)
(* and is in flight until HTCTxCompletionHandler tells its owner.          *)
(***************************************************************************)
EXTENDS HtcSend

Pipe == INSTANCE HtcPipe WITH
            waiting <- AllInHand \o TxQueue,
            inFlight <- Flatten(hifCompletions \o hif),
            told <- Status

(* HtcSend implements HtcPipe: no interleaving of senders, the drainer,    *)
(* completions, credit reports and flushes, and no refused or broken up    *)
(* bundle, shows through the order, the number or the result of packets.   *)
ImplementsPipe == Pipe!Spec

(* And it moves as the pipe does, when HIF accepts what it has room for:   *)
(* every packet is answered, leaves and is completed.                      *)
ImplementsFairPipe == Pipe!FairSpec
=============================================================================
