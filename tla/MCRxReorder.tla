---------------------------- MODULE MCRxReorder ----------------------------
(* One agreement in use and one slot to change over to; the third packet is   *)
(* an aggregate of two subframes.                                             *)
EXTENDS RxReorder

MCAmsdus == {First + 2}
============================================================================
