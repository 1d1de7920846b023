----------------------------- MODULE MsgThread -----------------------------
(***************************************************************************)
(* The message thread of conninfra (base/msg_thread.c): a pool of op       *)
(* buffers that circulate between a free queue and an active queue, any    *)
(* number of caller threads, and one kernel thread that runs the handler   *)
(* of each op in turn.                                                     *)
(*                                                                         *)
(* A call is either "wait" (msg_thread_send_wait*, which waits for the     *)
(* handler with a timeout) or "send" (msg_thread_send*, which does not).   *)
(* The two sides share an op through its reference count, its completion   *)
(* and the fields signal.timeoutValue and result; every access to those    *)
(* fields by a thread is a step of its own.                                *)
(*                                                                         *)
(* The queues are sequences here; module OpQueue shows that the index      *)
(* arithmetic of the MSG_OP_* macros implements them.                      *)
(***************************************************************************)
EXTENDS Integers, Sequences, FiniteSets, Functions

CONSTANTS
  Clients,     \* caller threads
  Ops,         \* op_q_inst: the MSG_THREAD_OP_BUF_SIZE op buffers
  Requests,    \* the calls that are made, each at most once (bounds the run)
  Kinds,       \* the kinds of call made on this context
  MayTimeout,  \* whether a handler may outlast the caller's timeout
  NoOp,        \* the NULL op pointer
  NoReq        \* op data after memset: no request

ASSUME MsgThreadAssumption ==
  /\ IsFiniteSet(Ops)
  /\ Kinds \subseteq {"wait", "send"}
  /\ MayTimeout \in BOOLEAN
  /\ NoOp \notin Ops
  /\ NoReq \notin Requests

VARIABLES
  freeQ, activeQ,      \* free_op_q, active_op_q
  opReq,               \* op->op: the request the buffer carries
  timed,               \* op->signal.timeoutValue # 0
  ref,                 \* op->ref_count
  done,                \* op->signal.comp: completions not yet consumed
  result,              \* op->result
  pc, cop, creq, ckind, woken, \* caller: control point, op, request, kind, wait_ret > 0
  tpc, top, tret, curOp,       \* the thread: control point, op, ret, ctx->cur_op
  fresh,               \* requests not issued yet
  status, answer,      \* what became of each request, and the result its caller read
  served               \* requests whose handler has run, in order

opVars == <<opReq, timed, ref, done, result>>
queueVars == <<freeQ, activeQ>>
clientVars == <<pc, cop, creq, ckind, woken>>
threadVars == <<tpc, top, tret, curOp>>
historyVars == <<fresh, status, answer, served>>
vars == <<queueVars, opVars, clientVars, threadVars, historyVars>>

QSize == Cardinality(Ops)      \* MSG_THREAD_OP_BUF_SIZE, the size of both queues

Zero == "zero"                 \* op->result after memset
Pending == "pending"           \* op->result = -9, set before the op is queued
Answers == Requests \cup {NoReq, Zero, Pending}
Statuses == {"fresh", "open", "rejected", "posted", "answered", "timedout"}
ClientPcs == {"idle", "clear", "fill", "arm", "ref", "put", "posted", "wait",
              "log", "read", "final", "free"}
ThreadPcs == {"idle", "got", "run", "ran", "dec", "check", "result", "raise", "free"}

(* MSG_OP_PUT under the queue lock: a full queue drops the op (-4).        *)
Put(q, o) == IF Len(q) < QSize THEN Append(q, o) ELSE q

(* msg_thread_init fills the free queue with every op_q_inst.              *)
Init ==
  /\ freeQ \in {q \in [1..QSize -> Ops] : Range(q) = Ops}
  /\ activeQ = <<>>
  /\ opReq = [o \in Ops |-> NoReq]
  /\ timed = [o \in Ops |-> FALSE]
  /\ ref = [o \in Ops |-> 0]
  /\ done = [o \in Ops |-> 0]
  /\ result = [o \in Ops |-> Zero]
  /\ pc = [c \in Clients |-> "idle"]
  /\ cop = [c \in Clients |-> NoOp]
  /\ creq = [c \in Clients |-> NoReq]
  /\ ckind = [c \in Clients |-> "none"]
  /\ woken = [c \in Clients |-> FALSE]
  /\ tpc = "idle" /\ top = NoOp /\ tret = NoReq /\ curOp = NoOp
  /\ fresh = Requests
  /\ status = [r \in Requests |-> "fresh"]
  /\ answer = [r \in Requests |-> NoReq]
  /\ served = <<>>
-----------------------------------------------------------------------------
(* The caller: msg_thread_send_2, msg_thread_send_wait_4 and               *)
(* msg_evt_put_op_to_active.                                               *)

Goto(c, p) == pc' = [pc EXCEPT ![c] = p]

(* The call returns and its local variables are gone.                      *)
Return(c) ==
  /\ Goto(c, "idle")
  /\ cop' = [cop EXCEPT ![c] = NoOp]
  /\ creq' = [creq EXCEPT ![c] = NoReq]
  /\ ckind' = [ckind EXCEPT ![c] = "none"]
  /\ woken' = [woken EXCEPT ![c] = FALSE]

(* The loop of msg_evt_thread starts over with op = NULL.                  *)
LoopAgain == tpc' = "idle" /\ top' = NoOp /\ tret' = NoReq
-----------------------------------------------------------------------------
(* Faulty variants of actions below, to see the properties fail.           *)

(* The comment over atomic_inc ignored: no reference for the thread.       *)
NoThreadRef(c) ==
  /\ pc[c] = "ref"
  /\ Goto(c, "put")
  /\ UNCHANGED <<queueVars, opVars, cop, creq, ckind, woken, threadVars, historyVars>>

(* The caller does not wait for the completion to be raised.               *)
WaitNoSignal(c) ==
  /\ pc[c] = "wait"
  /\ done' = [done EXCEPT ![cop[c]] = @ - 1]
  /\ woken' = [woken EXCEPT ![c] = TRUE]
  /\ Goto(c, "read")
  /\ UNCHANGED <<queueVars, opReq, timed, ref, result, cop, creq, ckind,
                 threadVars, historyVars>>

(* MSG_OP_GET without ++read.                                              *)
PeekActiveOp ==
  /\ tpc = "idle"
  /\ activeQ # <<>>
  /\ top' = Head(activeQ)
  /\ tpc' = "got"
  /\ UNCHANGED <<queueVars, opVars, clientVars, tret, curOp, historyVars>>

(* The thread leaves it to the caller to give the op back.                 *)
DropNoFree ==
  /\ tpc = "dec"
  /\ ref' = [ref EXCEPT ![top] = @ - 1]
  /\ tpc' = "check"
  /\ UNCHANGED <<queueVars, opReq, timed, done, result, clientVars, top, tret,
                 curOp, historyVars>>

(* Signal without op->result = ret, and no signal at all.                  *)
CheckNoResult ==
  /\ tpc = "check"
  /\ IF timed[top]
       THEN tpc' = "raise" /\ UNCHANGED <<top, tret>>
       ELSE LoopAgain
  /\ UNCHANGED <<queueVars, opVars, clientVars, curOp, historyVars>>

CheckNoSignal ==
  /\ tpc = "check"
  /\ LoopAgain
  /\ UNCHANGED <<queueVars, opVars, clientVars, curOp, historyVars>>
-----------------------------------------------------------------------------

GetFreeOp(c) ==
  /\ pc[c] = "idle"
  /\ freeQ # <<>>
  /\ \E r \in fresh, k \in Kinds :
       /\ fresh' = fresh \ {r}
       /\ creq' = [creq EXCEPT ![c] = r]
       /\ ckind' = [ckind EXCEPT ![c] = k]
       /\ status' = [status EXCEPT ![r] = "open"]
  /\ cop' = [cop EXCEPT ![c] = Head(freeQ)]
  /\ freeQ' = Tail(freeQ)
  /\ woken' = [woken EXCEPT ![c] = FALSE]
  /\ Goto(c, "clear")
  /\ UNCHANGED <<activeQ, opVars, threadVars, answer, served>>

(* "can't get free op": the call returns -1.                               *)
NoFreeOp(c) ==
  /\ pc[c] = "idle"
  /\ freeQ = <<>>
  /\ \E r \in fresh :
       /\ fresh' = fresh \ {r}
       /\ status' = [status EXCEPT ![r] = "rejected"]
  /\ UNCHANGED <<queueVars, opVars, clientVars, threadVars, answer, served>>

(* osal_memset of the whole op, outside the queue lock.                    *)
ClearOp(c) ==
  /\ pc[c] = "clear"
  /\ opReq' = [opReq EXCEPT ![cop[c]] = NoReq]
  /\ timed' = [timed EXCEPT ![cop[c]] = FALSE]
  /\ ref' = [ref EXCEPT ![cop[c]] = 0]
  /\ done' = [done EXCEPT ![cop[c]] = 0]
  /\ result' = [result EXCEPT ![cop[c]] = Zero]
  /\ Goto(c, "fill")
  /\ UNCHANGED <<queueVars, cop, creq, ckind, woken, threadVars, historyVars>>

(* op_id, op_data[] and signal->timeoutValue.                              *)
FillOp(c) ==
  /\ pc[c] = "fill"
  /\ opReq' = [opReq EXCEPT ![cop[c]] = creq[c]]
  /\ timed' = [timed EXCEPT ![cop[c]] = (ckind[c] = "wait")]
  /\ Goto(c, "arm")
  /\ UNCHANGED <<queueVars, ref, done, result, cop, creq, ckind, woken,
                 threadVars, historyVars>>

(* result = -9, a fresh completion, and the caller's own reference.        *)
ArmOp(c) ==
  /\ pc[c] = "arm"
  /\ IF timed[cop[c]]
       THEN /\ result' = [result EXCEPT ![cop[c]] = Pending]
            /\ done' = [done EXCEPT ![cop[c]] = 0]
            /\ ref' = [ref EXCEPT ![cop[c]] = 1]
       ELSE /\ ref' = [ref EXCEPT ![cop[c]] = 0]
            /\ UNCHANGED <<result, done>>
  /\ Goto(c, "ref")
  /\ UNCHANGED <<queueVars, opReq, timed, cop, creq, ckind, woken, threadVars,
                 historyVars>>

(* The thread's reference, taken on its behalf by the caller.              *)
TakeThreadRef(c) ==
  /\ pc[c] = "ref"
  /\ ref' = [ref EXCEPT ![cop[c]] = @ + 1]
  /\ Goto(c, "put")
  /\ UNCHANGED <<queueVars, opReq, timed, done, result, cop, creq, ckind, woken,
                 threadVars, historyVars>>

(* msg_evt_put_op_to_q, then osal_trigger_event; a full queue gives the    *)
(* thread's reference back.                                                *)
PutActive(c) ==
  /\ pc[c] = "put"
  /\ activeQ' = Put(activeQ, cop[c])
  /\ IF Len(activeQ) < QSize
       THEN /\ Goto(c, "posted")
            /\ UNCHANGED <<ref, status>>
       ELSE /\ ref' = [ref EXCEPT ![cop[c]] = @ - 1]
            /\ status' = [status EXCEPT ![creq[c]] = "rejected"]
            /\ Goto(c, "final")
  /\ UNCHANGED <<freeQ, opReq, timed, done, result, cop, creq, ckind, woken,
                 threadVars, fresh, answer, served>>

(* "Not set timeout, don't wait": signal->timeoutValue is read again after *)
(* the op has been handed over.                                            *)
CheckWait(c) ==
  /\ pc[c] = "posted"
  /\ IF timed[cop[c]]
       THEN Goto(c, "wait") /\ UNCHANGED status
       ELSE Goto(c, "final") /\ status' = [status EXCEPT ![creq[c]] = "posted"]
  /\ UNCHANGED <<queueVars, opVars, cop, creq, ckind, woken, threadVars, fresh,
                 answer, served>>

(* osal_wait_for_signal_timeout returns > 0.                               *)
WaitDone(c) ==
  /\ pc[c] = "wait"
  /\ done[cop[c]] > 0
  /\ done' = [done EXCEPT ![cop[c]] = @ - 1]
  /\ woken' = [woken EXCEPT ![c] = TRUE]
  /\ Goto(c, "read")
  /\ UNCHANGED <<queueVars, opReq, timed, ref, result, cop, creq, ckind,
                 threadVars, historyVars>>

(* ... or 0, after timeoutValue and its extensions.                        *)
WaitTimeout(c) ==
  /\ MayTimeout
  /\ pc[c] = "wait"
  /\ done[cop[c]] = 0
  /\ Goto(c, "log")
  /\ UNCHANGED <<queueVars, opVars, cop, creq, ckind, woken, threadVars,
                 historyVars>>

(* The warning prints ctx->cur_op->op; the pointer is read here.           *)
LogTimeout(c) ==
  /\ pc[c] = "log"
  /\ Goto(c, "read")
  /\ UNCHANGED <<queueVars, opVars, cop, creq, ckind, woken, threadVars,
                 historyVars>>

ReadResult(c) ==
  /\ pc[c] = "read"
  /\ answer' = [answer EXCEPT ![creq[c]] = result[cop[c]]]
  /\ status' = [status EXCEPT ![creq[c]] = IF woken[c] THEN "answered" ELSE "timedout"]
  /\ Goto(c, "final")
  /\ UNCHANGED <<queueVars, opVars, cop, creq, ckind, woken, threadVars, fresh,
                 served>>

(* signal->timeoutValue && atomic_dec_and_test, at the end of the call.    *)
DropClientRef(c) ==
  /\ pc[c] = "final"
  /\ ref' = IF timed[cop[c]] THEN [ref EXCEPT ![cop[c]] = @ - 1] ELSE ref
  /\ IF timed[cop[c]] /\ ref[cop[c]] = 1
       THEN Goto(c, "free") /\ UNCHANGED <<cop, creq, ckind, woken>>
       ELSE Return(c)
  /\ UNCHANGED <<queueVars, opReq, timed, done, result, threadVars, historyVars>>

ClientFreeOp(c) ==
  /\ pc[c] = "free"
  /\ freeQ' = Put(freeQ, cop[c])
  /\ Return(c)
  /\ UNCHANGED <<activeQ, opVars, threadVars, historyVars>>
-----------------------------------------------------------------------------
(* The thread: msg_evt_thread.                                             *)

GetActiveOp ==
  /\ tpc = "idle"
  /\ activeQ # <<>>
  /\ top' = Head(activeQ)
  /\ activeQ' = Tail(activeQ)
  /\ tpc' = "got"
  /\ UNCHANGED <<freeQ, opVars, clientVars, tret, curOp, historyVars>>

SetCurOp ==
  /\ tpc = "got"
  /\ curOp' = top
  /\ tpc' = "run"
  /\ UNCHANGED <<queueVars, opVars, clientVars, top, tret, historyVars>>

(* msg_evt_opid_handler; the value a handler returns is named after the    *)
(* request it served.                                                      *)
Handle ==
  /\ tpc = "run"
  /\ tret' = opReq[top]
  /\ served' = Append(served, opReq[top])
  /\ tpc' = "ran"
  /\ UNCHANGED <<queueVars, opVars, clientVars, top, curOp, fresh, status, answer>>

ClearCurOp ==
  /\ tpc = "ran"
  /\ curOp' = NoOp
  /\ tpc' = "dec"
  /\ UNCHANGED <<queueVars, opVars, clientVars, top, tret, historyVars>>

DropThreadRef ==
  /\ tpc = "dec"
  /\ ref' = [ref EXCEPT ![top] = @ - 1]
  /\ tpc' = IF ref[top] = 1 THEN "free" ELSE "check"
  /\ UNCHANGED <<queueVars, opReq, timed, done, result, clientVars, top, tret,
                 curOp, historyVars>>

(* else if (op->signal.timeoutValue), after the reference is gone.         *)
CheckTimed ==
  /\ tpc = "check"
  /\ IF timed[top]
       THEN tpc' = "result" /\ UNCHANGED <<top, tret>>
       ELSE LoopAgain
  /\ UNCHANGED <<queueVars, opVars, clientVars, curOp, historyVars>>

SetResult ==
  /\ tpc = "result"
  /\ result' = [result EXCEPT ![top] = tret]
  /\ tpc' = "raise"
  /\ UNCHANGED <<queueVars, opReq, timed, ref, done, clientVars, top, tret, curOp,
                 historyVars>>

RaiseSignal ==
  /\ tpc = "raise"
  /\ done' = [done EXCEPT ![top] = @ + 1]
  /\ LoopAgain
  /\ UNCHANGED <<queueVars, opReq, timed, ref, result, clientVars, curOp,
                 historyVars>>

ThreadFreeOp ==
  /\ tpc = "free"
  /\ freeQ' = Put(freeQ, top)
  /\ LoopAgain
  /\ UNCHANGED <<activeQ, opVars, clientVars, curOp, historyVars>>
-----------------------------------------------------------------------------
(* The steps a caller takes without outside help once it has an op.        *)
ClientStep(c) ==
  \/ ClearOp(c) \/ FillOp(c) \/ ArmOp(c) \/ TakeThreadRef(c) \/ PutActive(c)
  \/ CheckWait(c) \/ WaitDone(c) \/ LogTimeout(c) \/ ReadResult(c)
  \/ DropClientRef(c) \/ ClientFreeOp(c)

Call(c) == GetFreeOp(c) \/ NoFreeOp(c)

ThreadStep ==
  \/ GetActiveOp \/ SetCurOp \/ Handle \/ ClearCurOp \/ DropThreadRef
  \/ CheckTimed \/ SetResult \/ RaiseSignal \/ ThreadFreeOp

(* Every call has been made and served: nothing is left to happen.         *)
Quiescent ==
  /\ fresh = {} /\ activeQ = <<>> /\ tpc = "idle"
  /\ \A c \in Clients : pc[c] = "idle"
  /\ UNCHANGED vars

Next ==
  \/ \E c \in Clients : Call(c) \/ ClientStep(c) \/ WaitTimeout(c)
  \/ ThreadStep
  \/ Quiescent

Spec == Init /\ [][Next]_vars

(* A caller that has an op keeps running, and so does the thread: handlers *)
(* return. No fairness for making a call, and none for the timeout.        *)
Fairness == WF_vars(ThreadStep) /\ \A c \in Clients : WF_vars(ClientStep(c))
FairSpec == Spec /\ Fairness
-----------------------------------------------------------------------------
(* Properties.                                                             *)

(* Every variable keeps the type of the field or local variable it models. *)
TypeOK ==
  /\ freeQ \in Seq(Ops) /\ activeQ \in Seq(Ops)
  /\ opReq \in [Ops -> Requests \cup {NoReq}]
  /\ timed \in [Ops -> BOOLEAN]
  /\ ref \in [Ops -> Int]
  /\ done \in [Ops -> Nat]
  /\ result \in [Ops -> Answers]
  /\ pc \in [Clients -> ClientPcs]
  /\ cop \in [Clients -> Ops \cup {NoOp}]
  /\ \A c \in Clients : pc[c] # "idle" => cop[c] \in Ops /\ creq[c] \in Requests
  /\ creq \in [Clients -> Requests \cup {NoReq}]
  /\ ckind \in [Clients -> Kinds \cup {"none"}]
  /\ woken \in [Clients -> BOOLEAN]
  /\ tpc \in ThreadPcs
  /\ top \in Ops \cup {NoOp}
  /\ tpc # "idle" => top \in Ops
  /\ tret \in Requests \cup {NoReq}
  /\ curOp \in Ops \cup {NoOp}
  /\ fresh \subseteq Requests
  /\ status \in [Requests -> Statuses]
  /\ answer \in [Requests -> Answers]
  /\ served \in Seq(Requests \cup {NoReq})

(* Between taking an op and handing it over, and when it found itself the  *)
(* last holder, a caller has the op for itself.                            *)
Alone == {"clear", "fill", "arm", "ref", "put", "free"}
Owns(c, o) == pc[c] \in Alone /\ cop[c] = o

(* A waiting caller counts in ref_count until DropClientRef.               *)
Sharing == {"posted", "wait", "log", "read", "final"}
Refers(c, o) == pc[c] \in Sharing /\ cop[c] = o /\ ckind[c] = "wait"

(* The thread counts in ref_count from the moment the op is queued until   *)
(* DropThreadRef, and at "free" it has the op for itself.                  *)
ThreadOwns(o) == top = o /\ tpc = "free"
ThreadRefers(o) ==
  \/ o \in Range(activeQ)
  \/ top = o /\ tpc \in {"got", "run", "ran", "dec"}

(* An op is never given back while somebody still counts on it, nor given  *)
(* back twice: what is in the free queue is there once, is not queued for  *)
(* the thread and is held by nobody.                                       *)
FreeOpsUnused ==
  /\ IsInjective(freeQ)
  /\ \A o \in Range(freeQ) :
       /\ ~ThreadRefers(o) /\ ~ThreadOwns(o)
       /\ \A c \in Clients : ~Owns(c, o) /\ ~Refers(c, o)

(* No op leaks from the pool: one that is not free is held by a caller,    *)
(* queued, or held by the thread, so somebody is still to free it.         *)
NoOpLost ==
  \A o \in Ops :
    \/ o \in Range(freeQ)
    \/ ThreadRefers(o) \/ ThreadOwns(o)
    \/ \E c \in Clients : Owns(c, o) \/ Refers(c, o)

(* ref_count is the number of parties that still use a queued or running   *)
(* op: the thread, and the caller when it waits. It is what decides, by    *)
(* atomic_dec_and_test, which of the two gives the op back.                *)
RefCountExact ==
  \A o \in Ops :
    (ThreadRefers(o) \/ \E c \in Clients : Refers(c, o)) =>
      ref[o] = Cardinality({c \in Clients : Refers(c, o)})
               + (IF ThreadRefers(o) THEN 1 ELSE 0)

(* The two queues have as many slots as there are ops, so no put ever      *)
(* finds its queue full: the -4 path of msg_evt_put_op_to_q, which would   *)
(* lose the op or fail the call, is never taken.                           *)
PutNeverFails ==
  /\ \A c \in Clients : pc[c] = "put" => Len(activeQ) < QSize
  /\ \A c \in Clients : pc[c] = "free" => Len(freeQ) < QSize
  /\ tpc = "free" => Len(freeQ) < QSize

(* As long as no call has timed out, a caller that                         *)
(* osal_wait_for_signal_timeout tells it was signalled reads the result of *)
(* its own request, although the thread writes it after giving up its      *)
(* reference. (After a timeout it may read that of an earlier request.)    *)
OwnResult ==
  (\A r \in Requests : status[r] # "timedout")
    => \A r \in Requests : status[r] = "answered" => answer[r] = r

(* An op is not put back to the free queue before the thread has had a     *)
(* chance to process it (the comment over atomic_inc in                    *)
(* msg_evt_put_op_to_active).                                              *)
QueuedNotFreed == Range(freeQ) \cap Range(activeQ) = {}

(* Every call returns, timeouts or not: the thread reaches every queued op *)
(* and signals whoever waits for it.                                       *)
EveryCallReturns == \A r \in Requests : status[r] = "open" ~> status[r] # "open"

-----------------------------------------------------------------------------
(* What the context promises its callers: a queue of requests served one   *)
(* at a time in the order they were queued (module RequestQueue).          *)
Unsent ==
  fresh \cup {creq[c] : c \in {d \in Clients :
                        pc[d] \in {"clear", "fill", "arm", "ref", "put"}}}

RQ == INSTANCE RequestQueue WITH
        pending <- [i \in DOMAIN activeQ |-> opReq[activeQ[i]]],
        running <- IF tpc \in {"got", "run"} THEN opReq[top] ELSE NoReq,
        unsent <- Unsent

ServesInOrder == RQ!Spec
=============================================================================
