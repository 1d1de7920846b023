----------------------------- MODULE MCMsgThread -----------------------------
(***************************************************************************)
(* Model values for MsgThread. Callers, ops and requests are               *)
(* interchangeable, which the safety runs use; the liveness runs do not.   *)
(***************************************************************************)
EXTENDS MsgThread, TLC

Symmetry == Permutations(Clients) \cup Permutations(Ops) \cup Permutations(Requests)
=============================================================================
