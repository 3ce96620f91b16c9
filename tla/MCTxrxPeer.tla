----------------------------- MODULE MCTxrxPeer -----------------------------
(***************************************************************************)
(* Small instances of TxrxPeer.                                            *)
(***************************************************************************)
EXTENDS TxrxPeer
=============================================================================
