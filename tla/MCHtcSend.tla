----------------------------- MODULE MCHtcSend -----------------------------
(***************************************************************************)
(* Small instances of HtcSend.  Three packets: one that needs a single     *)
(* credit, one that fills two exactly and one that needs a part of a       *)
(* second one.                                                             *)
(***************************************************************************)
EXTENDS HtcSendRefinement

CONSTANTS p1, p2, p3

(* One credit stands for 4 bytes.                                          *)
MCTransferLength ==
    [p \in Packets |-> CASE p = p1 -> 3 [] p = p2 -> 8 [] OTHER -> 6]

(* p3 is a data frame: its header is a fragment of its own.                *)
MCFragments == [p \in Packets |-> IF p = p3 THEN 2 ELSE 1]
=============================================================================
