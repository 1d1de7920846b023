---------------------------- MODULE BoundedFifo ----------------------------
(***************************************************************************)
(* What msg_evt_put_op_to_q and msg_evt_get_op_from_q promise: a queue of  *)
(* at most Size ops, first in first out; a put into a full queue is turned *)
(* down and a get from an empty one yields nothing, without changing it.   *)
(***************************************************************************)
EXTENDS Integers, Sequences

CONSTANTS Ops, Size, NoOp

VARIABLES
  queue,   \* the ops in the queue, oldest first
  last     \* what the last call did: ["put"] accepted, ["full"], ["got", op]

Init == queue = <<>> /\ last = <<"none">>

Put(o) ==
  /\ Len(queue) < Size
  /\ queue' = Append(queue, o)
  /\ last' = <<"put">>

PutFull == Len(queue) = Size /\ last' = <<"full">> /\ UNCHANGED queue

Get ==
  /\ queue # <<>>
  /\ last' = <<"got", Head(queue)>>
  /\ queue' = Tail(queue)

GetEmpty == queue = <<>> /\ last' = <<"got", NoOp>> /\ UNCHANGED queue

Next == (\E o \in Ops : Put(o)) \/ PutFull \/ Get \/ GetEmpty

Spec == Init /\ [][Next]_<<queue, last>>
=============================================================================
