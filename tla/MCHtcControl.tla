---------------------------- MODULE MCHtcControl ----------------------------
(***************************************************************************)
(* The services the USB build connects: HTT, then the optional HTT2, then  *)
(* WMI.                                                                    *)
(***************************************************************************)
EXTENDS HtcControl

CONSTANTS HTT_DATA_MSG_SVC, HTT_DATA2_MSG_SVC

MCServices == <<HTT_DATA_MSG_SVC, HTT_DATA2_MSG_SVC, WMI_CONTROL_SVC>>

MCAssignment ==
    [s \in ServiceSet |-> CASE s = HTT_DATA_MSG_SVC -> 1
                            [] s = HTT_DATA2_MSG_SVC -> 2
                            [] OTHER -> 3]
=============================================================================
