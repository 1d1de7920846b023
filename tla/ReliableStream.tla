--------------------------- MODULE ReliableStream ---------------------------
(* What the serial transport promises its users for one direction of the     *)
(* link: packets are numbered as they are sent, they arrive once each in      *)
(* that order, and the sender lets go of a packet only after it has arrived.  *)
(* It does not promise that the user gets what has arrived: the receiver      *)
(* drops what it has no room or no use for, and nobody sends it again.        *)
EXTENDS Integers

CONSTANT Window         \* packets the sender may have out at a time

VARIABLES
  sent,                 \* packets handed to the transport
  acked,                \* packets that have arrived
  got,                  \* how many of them the receiving user was given
  released              \* packets the sender has let go of

Init == sent = 0 /\ acked = 0 /\ got = 0 /\ released = 0

Send == /\ sent - released < Window
        /\ sent' = sent + 1
        /\ UNCHANGED <<acked, got, released>>

\* The next packet arrives and is handed on ...
Deliver == /\ acked < sent
           /\ acked' = acked + 1
           /\ got' = got + 1
           /\ UNCHANGED <<sent, released>>

\* ... or dropped.
Drop == /\ acked < sent
        /\ acked' = acked + 1
        /\ UNCHANGED <<sent, got, released>>

Release == /\ released' \in released + 1 .. acked
           /\ UNCHANGED <<sent, acked, got>>

\* Both ends start over: what was on its way is gone.
Restart == sent' = 0 /\ acked' = 0 /\ got' = 0 /\ released' = 0

Next == Send \/ Deliver \/ Drop \/ Release \/ Restart

Spec == Init /\ [][Next]_<<sent, acked, got, released>>
=============================================================================
