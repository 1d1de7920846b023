---------------------------- MODULE MCConnsysLog ----------------------------
(***************************************************************************)
(* ConnsysLog with rings of a few bytes and indexes of a few bits, so that *)
(* every index wraps within MaxBytes.                                      *)
(***************************************************************************)
EXTENDS ConnsysLog, TLC

Symmetry == Permutations(Readers)
=============================================================================
