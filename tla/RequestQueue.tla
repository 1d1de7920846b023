---------------------------- MODULE RequestQueue ----------------------------
(***************************************************************************)
(* What a message-thread context (base/msg_thread.c) promises the drivers  *)
(* that call it: a request is turned down or queued, the queued requests   *)
(* are served one at a time, each once, in the order they were queued.     *)
(***************************************************************************)
EXTENDS Sequences

CONSTANTS
  Requests,
  NoReq

VARIABLES
  unsent,    \* requests that are not queued yet
  pending,   \* requests queued and not started, in order
  running,   \* the request the thread is working on, or NoReq
  served     \* requests served, in order

rqVars == <<unsent, pending, running, served>>

Init ==
  /\ unsent = Requests
  /\ pending = <<>>
  /\ running = NoReq
  /\ served = <<>>

(* No free op, or no room in the queue: the call fails at once.            *)
Reject(r) ==
  /\ r \in unsent
  /\ unsent' = unsent \ {r}
  /\ UNCHANGED <<pending, running, served>>

Submit(r) ==
  /\ r \in unsent
  /\ unsent' = unsent \ {r}
  /\ pending' = Append(pending, r)
  /\ UNCHANGED <<running, served>>

Start ==
  /\ pending # <<>>
  /\ running = NoReq
  /\ running' = Head(pending)
  /\ pending' = Tail(pending)
  /\ UNCHANGED <<unsent, served>>

Finish ==
  /\ running # NoReq
  /\ served' = Append(served, running)
  /\ running' = NoReq
  /\ UNCHANGED <<unsent, pending>>

Next ==
  \/ \E r \in Requests : Reject(r) \/ Submit(r)
  \/ Start
  \/ Finish

Spec == Init /\ [][Next]_rqVars
=============================================================================
