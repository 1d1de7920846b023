----------------------------- MODULE MCOpQueue -----------------------------
(***************************************************************************)
(* OpQueue with interchangeable ops and counters of a few bits, so that    *)
(* they wrap.                                                              *)
(***************************************************************************)
EXTENDS OpQueue, TLC

Symmetry == Permutations(Ops)
=============================================================================
