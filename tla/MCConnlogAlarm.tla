--------------------------- MODULE MCConnlogAlarm ---------------------------
(***************************************************************************)
(* ConnlogAlarm with two threads that may call anything at any time.       *)
(***************************************************************************)
EXTENDS ConnlogAlarm, TLC

Symmetry == Permutations(Callers)
=============================================================================
