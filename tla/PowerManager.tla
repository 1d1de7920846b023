---------------------------- MODULE PowerManager ----------------------------
(***************************************************************************)
(* What conninfra's power calls promise the radio drivers, when no reset   *)
(* comes between: drivers get and lose power one at a time, each caller is *)
(* told before the next change, a driver has power only while the chip is  *)
(* on, and the chip is cut only when no driver has power.                  *)
(***************************************************************************)
CONSTANT Drivers

VARIABLES
  on,        \* drivers that have power
  powered,   \* whether the chip has
  granted    \* drivers that were told that they have power

Init == on = {} /\ powered = FALSE /\ granted = {}

SwitchOn == ~powered /\ powered' = TRUE /\ UNCHANGED <<on, granted>>

SwitchOff == powered /\ on = {} /\ powered' = FALSE /\ UNCHANGED <<on, granted>>

Grant(d) ==
  /\ powered /\ granted = on
  /\ d \notin on
  /\ on' = on \cup {d}
  /\ UNCHANGED <<powered, granted>>

Withdraw(d) ==
  /\ granted = on
  /\ d \in on
  /\ on' = on \ {d}
  /\ UNCHANGED <<powered, granted>>

Tell == granted # on /\ granted' = on /\ UNCHANGED <<on, powered>>

Next == SwitchOn \/ SwitchOff \/ Tell \/ \E d \in Drivers : Grant(d) \/ Withdraw(d)

Spec == Init /\ [][Next]_<<on, powered, granted>>
=============================================================================
