--------------------------- MODULE MCHtcDataSend ---------------------------
(***************************************************************************)
(* Small instances of HtcDataSend: p1 is an HTT message, the others are    *)
(* data frames of two fragments.                                           *)
(***************************************************************************)
EXTENDS HtcDataSend

CONSTANTS p1, p2, p3

MCTransferLength == [p \in Packets |-> IF p = p1 THEN 3 ELSE 4]
MCFragments == [p \in Packets |-> IF p = p1 THEN 1 ELSE 2]
=============================================================================
