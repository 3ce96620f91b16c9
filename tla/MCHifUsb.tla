------------------------------ MODULE MCHifUsb ------------------------------
(***************************************************************************)
(* Small instances of HifUsb.                                              *)
(***************************************************************************)
EXTENDS HifUsb, TLC

UrbSymmetry == Permutations(RxUrbs)
=============================================================================
