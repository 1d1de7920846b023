------------------------------ MODULE OpQueue ------------------------------
(***************************************************************************)
(* The ring behind free_op_q and active_op_q: the MSG_OP_* macros of       *)
(* base/msg_thread.c. read and write are unsigned counters that wrap and   *)
(* are masked into the slot array; a get that empties the ring sets both   *)
(* back to 0. The free queue of a quiet thread is hardly ever empty, so    *)
(* its counters run up to the width of the type.                           *)
(*                                                                         *)
(* Every access is made under the queue's spin lock and is one step.       *)
(***************************************************************************)
EXTENDS Integers, Sequences

CONSTANTS
  Ops,
  Width,     \* bits of an unsigned int
  SizeBits,  \* MSG_THREAD_OP_BUF_SIZE = 2^SizeBits
  NoOp       \* NULL

(* The slots are fewer than the values of a counter, and both powers of 2. *)
Widths == Width \in Nat /\ SizeBits \in Nat /\ SizeBits < Width

ASSUME OpQueueAssumption == Widths /\ NoOp \notin Ops

VARIABLES
  read, write,   \* op_q->read, op_q->write
  slots,         \* op_q->queue
  last           \* what the last call returned

vars == <<read, write, slots, last>>

TwoTo[n \in Nat] == IF n = 0 THEN 1 ELSE 2 * TwoTo[n - 1]
Modulus == TwoTo[Width]
Size == TwoTo[SizeBits]
Mask(n) == n % Size                        \* n & MSG_OP_MASK

Count(wr, rd) == (wr - rd) % Modulus       \* MSG_OP_COUNT
Full == Count(write, read) >= Size         \* MSG_OP_FULL
Empty(wr, rd) == wr = rd                   \* MSG_OP_EMPTY
Inc(n) == (n + 1) % Modulus

(* MSG_OP_INIT                                                             *)
Init ==
  /\ read = 0 /\ write = 0
  /\ slots = [i \in 0..(Size - 1) |-> NoOp]
  /\ last = <<"none">>
-----------------------------------------------------------------------------
(* Faulty variants of the definitions below.                               *)

(* Only read is set back when the ring runs empty.                         *)
GetResetsRead ==
  /\ ~Empty(write, read)
  /\ last' = <<"got", slots[Mask(read)]>>
  /\ IF Empty(write, Inc(read))
       THEN read' = 0 /\ UNCHANGED write
       ELSE read' = Inc(read) /\ UNCHANGED write
  /\ UNCHANGED slots
-----------------------------------------------------------------------------
(* msg_evt_put_op_to_q                                                     *)

Put(o) ==
  /\ ~Full
  /\ slots' = [slots EXCEPT ![Mask(write)] = o]
  /\ write' = Inc(write)
  /\ last' = <<"put">>
  /\ UNCHANGED read

PutFull == Full /\ last' = <<"full">> /\ UNCHANGED <<read, write, slots>>
-----------------------------------------------------------------------------
(* msg_evt_get_op_from_q                                                   *)

Get ==
  /\ ~Empty(write, read)
  /\ last' = <<"got", slots[Mask(read)]>>
  /\ IF Empty(write, Inc(read))
       THEN read' = 0 /\ write' = 0
       ELSE read' = Inc(read) /\ UNCHANGED write
  /\ UNCHANGED slots

GetEmpty ==
  /\ Empty(write, read)
  /\ last' = <<"got", NoOp>>
  /\ UNCHANGED <<read, write, slots>>

Next == (\E o \in Ops : Put(o)) \/ PutFull \/ Get \/ GetEmpty

Spec == Init /\ [][Next]_vars
-----------------------------------------------------------------------------
(* The ops in the ring, oldest first.                                      *)
Contents == [i \in 1..Count(write, read) |-> slots[Mask(read + i - 1)]]

Fifo == INSTANCE BoundedFifo WITH queue <- Contents

(* The ring is a bounded FIFO queue, across any number of wrap-arounds of  *)
(* its counters and resets to 0.                                           *)
ImplementsFifo == Fifo!Spec
=============================================================================
