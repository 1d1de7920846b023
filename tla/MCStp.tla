------------------------------- MODULE MCStp -------------------------------
(* The host sends more packets than there are sequence numbers, the firmware  *)
(* answers with one.                                                          *)
EXTENDS Stp

CONSTANTS HostData, FwData, HostDrops, FwDrops

MCMaxData == [e \in Ends |-> IF e = "host" THEN HostData ELSE FwData]
MCMaxDrops == [e \in Ends |-> IF e = "host" THEN HostDrops ELSE FwDrops]
============================================================================
