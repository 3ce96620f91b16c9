---------------------------- MODULE MCWmiEvents -----------------------------
(***************************************************************************)
(* A full table with two entries that wma_close removes (the firmware      *)
(* debug log and one NAN datapath event) in front of ones that stay, one   *)
(* of which is handled in the receive context; and one event that needs no *)
(* table entry.                                                            *)
(***************************************************************************)
EXTENDS WmiEvents

CONSTANTS DEBUG_MESG, NDP_CONFIRM, TX_PAUSE

MCRegistered == <<DEBUG_MESG, NDP_CONFIRM, TX_PAUSE, RADAR>>
MCUnregistered == <<DEBUG_MESG, NDP_CONFIRM>>
=============================================================================
