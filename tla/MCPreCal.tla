------------------------------ MODULE MCPreCal ------------------------------
(* An instance of PreCal in every mode. *)
EXTENDS PreCal

AllModes == {"allEnabled", "allDisabled", "pwrOnDisabled", "screenOnDisabled"}
=============================================================================
