----------------------------- MODULE MCVosSched -----------------------------
(***************************************************************************)
(* Two queues of the main controller (SYS is looked at before PE), one     *)
(* packet and two wrappers, so that both pools run empty, and one context  *)
(* that posts to any of the queues.                                        *)
(***************************************************************************)
EXTENDS VosSched

MCMcQueues == <<"sysMcMq", "peMcMq">>
=============================================================================
