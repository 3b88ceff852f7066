------------------------------ MODULE MCMsgBox ------------------------------
(* Small instances of MsgBox for TLC.                                      *)
EXTENDS MsgBox, TLC

Symmetry == Permutations(Users)
=============================================================================
