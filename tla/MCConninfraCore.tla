-------------------------- MODULE MCConninfraCore --------------------------
(***************************************************************************)
(* Model values for ConninfraCore. The drivers are numbered, because the   *)
(* code loops over them; the callers are interchangeable.                  *)
(***************************************************************************)
EXTENDS ConninfraCore, TLC

Symmetry == Permutations(Clients)
=============================================================================
