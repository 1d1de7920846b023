--------------------------- MODULE MsgThreadProofs ---------------------------
(***************************************************************************)
(* What is proved of MsgThread for any number of callers, ops and          *)
(* requests: type correctness, and, for a context whose callers all wait   *)
(* or all do not, that ops are never lost, shared wrongly or miscounted,   *)
(* that what is queued is served once and in order, and that a caller      *)
(* reads its own result. The last part is about OpQueue: the ring behind   *)
(* each queue, for counters of any width.                                  *)
(***************************************************************************)
EXTENDS MsgThread, DataLemmas

(* The condition under which the reference counting works: run msg_mixed   *)
(* shows that it is needed.                                                *)
UniformCalls == Kinds = {"wait"} \/ Kinds = {"send"}

(* The inductive invariant.                                                *)
(* Who has an op: nobody besides its owner; at most one waiting caller.    *)
OneHolder ==
  \A c \in Clients, o \in Ops :
    /\ Owns(c, o) =>
         /\ ~ThreadRefers(o) /\ ~ThreadOwns(o)
         /\ \A d \in Clients \ {c} : ~Owns(d, o) /\ ~Refers(d, o)
    /\ Refers(c, o) =>
         /\ ~ThreadOwns(o)
         /\ \A d \in Clients \ {c} : ~Refers(d, o)

(* The op the thread works on is not queued again until the thread has     *)
(* given up its reference.                                                 *)
TopNotQueued ==
  tpc \in {"got", "run", "ran", "dec", "free"} => top \notin Range(activeQ)

(* timeoutValue says of a held op whether its caller waits.                *)
TimedRight ==
  /\ \A c \in Clients :
       /\ pc[c] # "idle" => ckind[c] \in Kinds
       /\ pc[c] \in {"arm", "ref", "put"} \cup Sharing =>
            timed[cop[c]] = (ckind[c] = "wait")
  /\ "wait" \notin Kinds => timed = [o \in Ops |-> FALSE]

(* ref_count along the life of an op.                                      *)
RefRight ==
  /\ \A c \in Clients :
       /\ pc[c] = "ref" => ref[cop[c]] = IF ckind[c] = "wait" THEN 1 ELSE 0
       /\ pc[c] = "put" => ref[cop[c]] = IF ckind[c] = "wait" THEN 2 ELSE 1
  /\ \A c \in Clients, o \in Ops :
       Refers(c, o) => ref[o] = IF ThreadRefers(o) THEN 2 ELSE 1
  /\ \A o \in Ops :
       ThreadRefers(o) /\ (\A c \in Clients : ~Refers(c, o)) => ref[o] = 1

(* What is said of the holders of the ops and of nothing else.             *)
HolderInv == IsInjective(activeQ) /\ FreeOpsUnused /\ OneHolder /\ NoOpLost

OpInv ==
  /\ TypeOK
  /\ HolderInv
  /\ TopNotQueued
  /\ TimedRight
  /\ RefRight
-----------------------------------------------------------------------------
(* Type correctness.                                                       *)

(* The initial state has the right types: msg_thread_init.                 *)
LEMMA TypeInit == Init => TypeOK
<1>1. QSize \in Nat
  BY MsgThreadAssumption, FS_CardinalityType DEF QSize
<1>2. SUFFICES ASSUME Init PROVE TypeOK
  OBVIOUS
<1>3. freeQ \in Seq(Ops)
  BY <1>1, <1>2 DEF Init
<1> QED  BY <1>2, <1>3 DEF Init, TypeOK, Answers, Statuses, ClientPcs, ThreadPcs

(* Putting an op into a queue keeps it a queue of ops.                     *)
LEMMA PutType ==
  ASSUME NEW q \in Seq(Ops), NEW o \in Ops
  PROVE  Put(q, o) \in Seq(Ops)
BY DEF Put

(* Every step keeps the types.                                             *)
LEMMA TypeStep == TypeOK /\ [Next]_vars => TypeOK'
<1> SUFFICES ASSUME TypeOK, [Next]_vars PROVE TypeOK'
  OBVIOUS
<1> USE MsgThreadAssumption DEF Answers, Statuses, ClientPcs, ThreadPcs
<1>1. ASSUME NEW c \in Clients, GetFreeOp(c) PROVE TypeOK'
  BY <1>1, SMTT(60) DEF TypeOK, GetFreeOp, Goto, opVars, queueVars, clientVars, threadVars, historyVars
<1>2. ASSUME NEW c \in Clients, NoFreeOp(c) PROVE TypeOK'
  BY <1>2 DEF TypeOK, NoFreeOp, opVars, queueVars, clientVars, threadVars, historyVars
<1>3. ASSUME NEW c \in Clients, ClearOp(c) PROVE TypeOK'
  BY <1>3 DEF TypeOK, ClearOp, Goto, opVars, queueVars, clientVars, threadVars, historyVars
<1>4. ASSUME NEW c \in Clients, FillOp(c) PROVE TypeOK'
  BY <1>4 DEF TypeOK, FillOp, Goto, opVars, queueVars, clientVars, threadVars, historyVars
<1>5. ASSUME NEW c \in Clients, ArmOp(c) PROVE TypeOK'
  <2>1. /\ cop[c] \in Ops
        /\ ref \in [Ops -> Int] /\ done \in [Ops -> Nat] /\ result \in [Ops -> Answers]
    BY <1>5 DEF TypeOK, ArmOp
  <2>2. CASE timed[cop[c]]
    <3>1. /\ result' = [result EXCEPT ![cop[c]] = Pending]
          /\ done' = [done EXCEPT ![cop[c]] = 0]
          /\ ref' = [ref EXCEPT ![cop[c]] = 1]
      BY <1>5, <2>2 DEF ArmOp
    <3>2. ref' \in [Ops -> Int] /\ done' \in [Ops -> Nat] /\ result' \in [Ops -> Answers]
      BY <2>1, <3>1
    <3> QED
      BY <1>5, <3>2 DEF TypeOK, ArmOp, Goto, opVars, queueVars, clientVars, threadVars, historyVars
  <2>3. CASE ~timed[cop[c]]
    BY <1>5, <2>3 DEF TypeOK, ArmOp, Goto, opVars, queueVars, clientVars, threadVars, historyVars
  <2> QED  BY <2>2, <2>3
<1>6. ASSUME NEW c \in Clients, TakeThreadRef(c) PROVE TypeOK'
  BY <1>6 DEF TypeOK, TakeThreadRef, Goto, opVars, queueVars, clientVars, threadVars, historyVars
<1>7. ASSUME NEW c \in Clients, PutActive(c) PROVE TypeOK'
  <2>1. /\ cop[c] \in Ops /\ creq[c] \in Requests
        /\ ref \in [Ops -> Int] /\ status \in [Requests -> Statuses]
    BY <1>7 DEF TypeOK, PutActive
  <2>2. activeQ' \in Seq(Ops)
    BY <1>7, <2>1, PutType DEF TypeOK, PutActive
  <2>3. CASE Len(activeQ) < QSize
    BY <1>7, <2>2, <2>3
    DEF TypeOK, PutActive, Goto, opVars, queueVars, clientVars, threadVars, historyVars
  <2>4. CASE ~(Len(activeQ) < QSize)
    <3>1. /\ ref' = [ref EXCEPT ![cop[c]] = @ - 1]
          /\ status' = [status EXCEPT ![creq[c]] = "rejected"]
      BY <1>7, <2>4 DEF PutActive
    <3>2. ref' \in [Ops -> Int] /\ status' \in [Requests -> Statuses]
      BY <2>1, <3>1
    <3> QED
      BY <1>7, <2>2, <2>4, <3>2
      DEF TypeOK, PutActive, Goto, opVars, queueVars, clientVars, threadVars, historyVars
  <2> QED  BY <2>3, <2>4
<1>8. ASSUME NEW c \in Clients, CheckWait(c) PROVE TypeOK'
  BY <1>8, ZenonT(60) DEF TypeOK, CheckWait, Goto, opVars, queueVars, clientVars, threadVars, historyVars
<1>9. ASSUME NEW c \in Clients, WaitDone(c) PROVE TypeOK'
  BY <1>9 DEF TypeOK, WaitDone, Goto, opVars, queueVars, clientVars, threadVars, historyVars
<1>10. ASSUME NEW c \in Clients, WaitTimeout(c) PROVE TypeOK'
  BY <1>10 DEF TypeOK, WaitTimeout, Goto, opVars, queueVars, clientVars, threadVars, historyVars
<1>11. ASSUME NEW c \in Clients, LogTimeout(c) PROVE TypeOK'
  BY <1>11 DEF TypeOK, LogTimeout, Goto, opVars, queueVars, clientVars, threadVars, historyVars
<1>12. ASSUME NEW c \in Clients, ReadResult(c) PROVE TypeOK'
  BY <1>12 DEF TypeOK, ReadResult, Goto, opVars, queueVars, clientVars, threadVars, historyVars
<1>13. ASSUME NEW c \in Clients, DropClientRef(c) PROVE TypeOK'
  <2>1. ref' \in [Ops -> Int]
    BY <1>13 DEF TypeOK, DropClientRef
  <2>2. CASE timed[cop[c]] /\ ref[cop[c]] = 1
    BY <1>13, <2>1, <2>2, ZenonT(60) DEF TypeOK, DropClientRef, Goto, opVars, queueVars, clientVars, threadVars, historyVars
  <2>3. CASE ~(timed[cop[c]] /\ ref[cop[c]] = 1)
    <3>1. /\ cop' \in [Clients -> Ops \cup {NoOp}]
          /\ creq' \in [Clients -> Requests \cup {NoReq}]
          /\ ckind' \in [Clients -> Kinds \cup {"none"}]
          /\ woken' \in [Clients -> BOOLEAN]
          /\ pc' \in [Clients -> ClientPcs]
      BY <1>13, <2>3, ZenonT(60) DEF TypeOK, DropClientRef, Goto, Return
    <3>2. \A d \in Clients : pc'[d] # "idle" =>
            pc[d] # "idle" /\ cop'[d] = cop[d] /\ creq'[d] = creq[d]
      BY <1>13, <2>3 DEF TypeOK, DropClientRef, Goto, Return
    <3> QED  BY <1>13, <2>1, <2>3, <3>1, <3>2 DEF TypeOK, DropClientRef, opVars, queueVars, clientVars, threadVars, historyVars
  <2> QED  BY <2>2, <2>3
<1>14. ASSUME NEW c \in Clients, ClientFreeOp(c) PROVE TypeOK'
  BY <1>14, PutType DEF TypeOK, ClientFreeOp, Goto, Return, opVars, queueVars, clientVars, threadVars, historyVars
<1>15. ASSUME GetActiveOp PROVE TypeOK'
  BY <1>15, SMTT(60) DEF TypeOK, GetActiveOp, opVars, queueVars, clientVars, threadVars, historyVars
<1>16. ASSUME SetCurOp PROVE TypeOK'
  BY <1>16 DEF TypeOK, SetCurOp, opVars, queueVars, clientVars, threadVars, historyVars
<1>17. ASSUME Handle PROVE TypeOK'
  BY <1>17 DEF TypeOK, Handle, opVars, queueVars, clientVars, threadVars, historyVars
<1>18. ASSUME ClearCurOp PROVE TypeOK'
  BY <1>18 DEF TypeOK, ClearCurOp, opVars, queueVars, clientVars, threadVars, historyVars
<1>19. ASSUME DropThreadRef PROVE TypeOK'
  BY <1>19 DEF TypeOK, DropThreadRef, opVars, queueVars, clientVars, threadVars, historyVars
<1>20. ASSUME CheckTimed PROVE TypeOK'
  BY <1>20 DEF TypeOK, CheckTimed, LoopAgain, opVars, queueVars, clientVars, threadVars, historyVars
<1>21. ASSUME SetResult PROVE TypeOK'
  BY <1>21 DEF TypeOK, SetResult, opVars, queueVars, clientVars, threadVars, historyVars
<1>22. ASSUME RaiseSignal PROVE TypeOK'
  BY <1>22 DEF TypeOK, RaiseSignal, LoopAgain, opVars, queueVars, clientVars, threadVars, historyVars
<1>23. ASSUME ThreadFreeOp PROVE TypeOK'
  BY <1>23, PutType DEF TypeOK, ThreadFreeOp, LoopAgain, opVars, queueVars, clientVars, threadVars, historyVars
<1>24. ASSUME UNCHANGED vars PROVE TypeOK'
  BY <1>24 DEF TypeOK, vars, opVars, queueVars, clientVars, threadVars, historyVars
<1> QED
  BY <1>1, <1>2, <1>3, <1>4, <1>5, <1>6, <1>7, <1>8, <1>9, <1>10, <1>11, <1>12, <1>13, <1>14, <1>15, <1>16, <1>17, <1>18, <1>19, <1>20, <1>21, <1>22, <1>23, <1>24
  DEF TypeOK, Next, Call, ClientStep, ThreadStep, Quiescent

(* Every field and local variable always has its type.                     *)
THEOREM TypeCorrect == Spec => []TypeOK
BY TypeInit, TypeStep, PTL DEF Spec
-----------------------------------------------------------------------------
(* Ops are neither lost, nor shared wrongly, nor miscounted.               *)

(* The holders of an op in the next state are those of this one.           *)
SameHolders ==
  /\ UNCHANGED freeQ
  /\ \A c \in Clients, o \in Ops :
       (Owns(c, o)' <=> Owns(c, o)) /\ (Refers(c, o)' <=> Refers(c, o))
  /\ \A o \in Ops :
       (ThreadRefers(o)' <=> ThreadRefers(o)) /\ (ThreadOwns(o)' <=> ThreadOwns(o))

(* A step that leaves the holders alone keeps what is said of them.        *)
LEMMA SameHoldersStep ==
  ASSUME TypeOK, HolderInv, SameHolders, IsInjective(activeQ)'
  PROVE  HolderInv'
<1>1. Range(freeQ) \subseteq Ops
  BY DEF TypeOK, Range
<1>3. FreeOpsUnused'
  BY <1>1 DEF HolderInv, SameHolders, FreeOpsUnused
<1>4. OneHolder'
  BY DEF HolderInv, SameHolders, OneHolder
<1>5. NoOpLost'
  BY DEF HolderInv, SameHolders, NoOpLost
<1> QED  BY <1>3, <1>4, <1>5 DEF HolderInv

(* The steps of a caller between taking an op and queueing it, and between *)
(* queueing it and dropping its reference, leave the holders alone.        *)
LEMMA QuietClientStep ==
  ASSUME UniformCalls, OpInv, TypeOK', NEW c \in Clients,
         \/ ClearOp(c) \/ FillOp(c) \/ ArmOp(c) \/ TakeThreadRef(c)
         \/ CheckWait(c) \/ WaitDone(c) \/ WaitTimeout(c) \/ LogTimeout(c)
         \/ ReadResult(c)
  PROVE  OpInv'
<1> USE DEF OpInv
<1>1. CASE ClearOp(c)
  <2>1. SameHolders /\ activeQ' = activeQ
    BY <1>1 DEF TypeOK, ClearOp, Goto, SameHolders, Owns, Refers, ThreadRefers, ThreadOwns, Alone, Sharing, opVars, queueVars, clientVars, threadVars, historyVars
  <2>2. TopNotQueued'
    BY <1>1 DEF ClearOp, TopNotQueued, opVars, queueVars, clientVars, threadVars, historyVars
  <2>3. TimedRight'
    <3>1. CASE Kinds = {"wait"}
      <4>1. \A d \in Clients \ {c} : pc[d] \in {"arm", "ref", "put"} \cup Sharing =>
              cop[d] # cop[c]
        BY <1>1, <3>1
        DEF TypeOK, ClearOp, TimedRight, HolderInv, OneHolder, Owns, Refers, Alone, Sharing
      <4> QED
        BY <1>1, <3>1, <4>1, ZenonT(60) DEF TypeOK, ClearOp, Goto, TimedRight, Sharing
    <3>2. CASE Kinds = {"send"}
      <4>1. timed = [o \in Ops |-> FALSE] /\ timed' = [o \in Ops |-> FALSE]
        BY <1>1, <3>2 DEF TypeOK, ClearOp, TimedRight
      <4>2. \A d \in Clients : pc[d] # "idle" =>
              ckind[d] = "send" /\ cop[d] \in Ops /\ timed'[cop[d]] = FALSE
        BY <3>2, <4>1 DEF TypeOK, TimedRight
      <4>3. /\ UNCHANGED <<cop, ckind>>
            /\ \A d \in Clients : pc'[d] # "idle" => pc[d] # "idle"
        BY <1>1 DEF TypeOK, ClearOp, Goto
      <4>4. \A d \in Clients : pc'[d] # "idle" =>
              ckind'[d] = "send" /\ timed'[cop'[d]] = FALSE
        BY <4>2, <4>3
      <4>5. pc'[c] \notin {"idle"} /\ "idle" \notin {"arm", "ref", "put"} \cup Sharing
        BY <1>1 DEF TypeOK, ClearOp, Goto, Sharing
      <4> QED
        BY <3>2, <4>1, <4>4, <4>5 DEF TimedRight
    <3> QED  BY <3>1, <3>2 DEF UniformCalls
  <2>4. RefRight'
    BY <1>1, <2>1 DEF SameHolders, TypeOK, ClearOp, Goto, RefRight, TimedRight, HolderInv, OneHolder, Owns, Refers, ThreadRefers, ThreadOwns, Alone, Sharing, opVars, queueVars, clientVars, threadVars, historyVars
  <2> QED  BY <2>1, <2>2, <2>3, <2>4, SameHoldersStep DEF HolderInv
<1>2. CASE FillOp(c)
  <2>1. SameHolders /\ activeQ' = activeQ
    BY <1>2 DEF TypeOK, FillOp, Goto, SameHolders, Owns, Refers, ThreadRefers, ThreadOwns, Alone, Sharing, opVars, queueVars, clientVars, threadVars, historyVars
  <2>2. TopNotQueued'
    BY <1>2 DEF FillOp, TopNotQueued, opVars, queueVars, clientVars, threadVars, historyVars
  <2>3. TimedRight'
    BY <1>2, ZenonT(60) DEF UniformCalls, TypeOK, FillOp, Goto, TimedRight, HolderInv, OneHolder, Owns, Refers, ThreadRefers, ThreadOwns, Alone, Sharing, opVars, queueVars, clientVars, threadVars, historyVars
  <2>4. RefRight'
    BY <1>2, <2>1 DEF SameHolders, TypeOK, FillOp, Goto, RefRight, TimedRight, HolderInv, OneHolder, Owns, Refers, ThreadRefers, ThreadOwns, Alone, Sharing, opVars, queueVars, clientVars, threadVars, historyVars
  <2> QED  BY <2>1, <2>2, <2>3, <2>4, SameHoldersStep DEF HolderInv
<1>3. CASE ArmOp(c)
  <2>1. SameHolders /\ activeQ' = activeQ
    BY <1>3 DEF TypeOK, ArmOp, Goto, SameHolders, Owns, Refers, ThreadRefers, ThreadOwns, Alone, Sharing, opVars, queueVars, clientVars, threadVars, historyVars
  <2>2. TopNotQueued'
    BY <1>3 DEF ArmOp, TopNotQueued, opVars, queueVars, clientVars, threadVars, historyVars
  <2>3. TimedRight'
    BY <1>3 DEF UniformCalls, TypeOK, ArmOp, Goto, TimedRight, HolderInv, OneHolder, Owns, Refers, ThreadRefers, ThreadOwns, Alone, Sharing, opVars, queueVars, clientVars, threadVars, historyVars
  <2>4. RefRight'
    BY <1>3, <2>1 DEF SameHolders, TypeOK, ArmOp, Goto, RefRight, TimedRight, HolderInv, OneHolder, Owns, Refers, ThreadRefers, ThreadOwns, Alone, Sharing, opVars, queueVars, clientVars, threadVars, historyVars
  <2> QED  BY <2>1, <2>2, <2>3, <2>4, SameHoldersStep DEF HolderInv
<1>4. CASE TakeThreadRef(c)
  <2>1. SameHolders /\ activeQ' = activeQ
    BY <1>4 DEF TypeOK, TakeThreadRef, Goto, SameHolders, Owns, Refers, ThreadRefers, ThreadOwns, Alone, Sharing, opVars, queueVars, clientVars, threadVars, historyVars
  <2>2. TopNotQueued'
    BY <1>4 DEF TakeThreadRef, TopNotQueued, opVars, queueVars, clientVars, threadVars, historyVars
  <2>3. TimedRight'
    BY <1>4 DEF UniformCalls, TypeOK, TakeThreadRef, Goto, TimedRight, HolderInv, OneHolder, Owns, Refers, ThreadRefers, ThreadOwns, Alone, Sharing, opVars, queueVars, clientVars, threadVars, historyVars
  <2>4. RefRight'
    BY <1>4, <2>1 DEF SameHolders, TypeOK, TakeThreadRef, Goto, RefRight, TimedRight, HolderInv, OneHolder, Owns, Refers, ThreadRefers, ThreadOwns, Alone, Sharing, opVars, queueVars, clientVars, threadVars, historyVars
  <2> QED  BY <2>1, <2>2, <2>3, <2>4, SameHoldersStep DEF HolderInv
<1>5. CASE CheckWait(c)
  <2>1. SameHolders /\ activeQ' = activeQ
    BY <1>5 DEF TypeOK, CheckWait, Goto, SameHolders, Owns, Refers, ThreadRefers, ThreadOwns, Alone, Sharing, opVars, queueVars, clientVars, threadVars, historyVars
  <2>2. TopNotQueued'
    BY <1>5 DEF CheckWait, TopNotQueued, opVars, queueVars, clientVars, threadVars, historyVars
  <2>3. TimedRight'
    BY <1>5 DEF UniformCalls, TypeOK, CheckWait, Goto, TimedRight, HolderInv, OneHolder, Owns, Refers, ThreadRefers, ThreadOwns, Alone, Sharing, opVars, queueVars, clientVars, threadVars, historyVars
  <2>4. RefRight'
    BY <1>5, <2>1 DEF SameHolders, TypeOK, CheckWait, Goto, RefRight, TimedRight, HolderInv, OneHolder, Owns, Refers, ThreadRefers, ThreadOwns, Alone, Sharing, opVars, queueVars, clientVars, threadVars, historyVars
  <2> QED  BY <2>1, <2>2, <2>3, <2>4, SameHoldersStep DEF HolderInv
<1>6. CASE WaitDone(c)
  <2>1. SameHolders /\ activeQ' = activeQ
    BY <1>6 DEF TypeOK, WaitDone, Goto, SameHolders, Owns, Refers, ThreadRefers, ThreadOwns, Alone, Sharing, opVars, queueVars, clientVars, threadVars, historyVars
  <2>2. TopNotQueued'
    BY <1>6 DEF WaitDone, TopNotQueued, opVars, queueVars, clientVars, threadVars, historyVars
  <2>3. TimedRight'
    BY <1>6 DEF UniformCalls, TypeOK, WaitDone, Goto, TimedRight, HolderInv, OneHolder, Owns, Refers, ThreadRefers, ThreadOwns, Alone, Sharing, opVars, queueVars, clientVars, threadVars, historyVars
  <2>4. RefRight'
    BY <1>6, <2>1 DEF SameHolders, TypeOK, WaitDone, Goto, RefRight, TimedRight, HolderInv, OneHolder, Owns, Refers, ThreadRefers, ThreadOwns, Alone, Sharing, opVars, queueVars, clientVars, threadVars, historyVars
  <2> QED  BY <2>1, <2>2, <2>3, <2>4, SameHoldersStep DEF HolderInv
<1>7. CASE WaitTimeout(c)
  <2>1. SameHolders /\ activeQ' = activeQ
    BY <1>7 DEF TypeOK, WaitTimeout, Goto, SameHolders, Owns, Refers, ThreadRefers, ThreadOwns, Alone, Sharing, opVars, queueVars, clientVars, threadVars, historyVars
  <2>2. TopNotQueued'
    BY <1>7 DEF WaitTimeout, TopNotQueued, opVars, queueVars, clientVars, threadVars, historyVars
  <2>3. TimedRight'
    BY <1>7 DEF UniformCalls, TypeOK, WaitTimeout, Goto, TimedRight, HolderInv, OneHolder, Owns, Refers, ThreadRefers, ThreadOwns, Alone, Sharing, opVars, queueVars, clientVars, threadVars, historyVars
  <2>4. RefRight'
    BY <1>7, <2>1 DEF SameHolders, TypeOK, WaitTimeout, Goto, RefRight, TimedRight, HolderInv, OneHolder, Owns, Refers, ThreadRefers, ThreadOwns, Alone, Sharing, opVars, queueVars, clientVars, threadVars, historyVars
  <2> QED  BY <2>1, <2>2, <2>3, <2>4, SameHoldersStep DEF HolderInv
<1>8. CASE LogTimeout(c)
  <2>1. SameHolders /\ activeQ' = activeQ
    BY <1>8 DEF TypeOK, LogTimeout, Goto, SameHolders, Owns, Refers, ThreadRefers, ThreadOwns, Alone, Sharing, opVars, queueVars, clientVars, threadVars, historyVars
  <2>2. TopNotQueued'
    BY <1>8 DEF LogTimeout, TopNotQueued, opVars, queueVars, clientVars, threadVars, historyVars
  <2>3. TimedRight'
    BY <1>8 DEF UniformCalls, TypeOK, LogTimeout, Goto, TimedRight, HolderInv, OneHolder, Owns, Refers, ThreadRefers, ThreadOwns, Alone, Sharing, opVars, queueVars, clientVars, threadVars, historyVars
  <2>4. RefRight'
    BY <1>8, <2>1 DEF SameHolders, TypeOK, LogTimeout, Goto, RefRight, TimedRight, HolderInv, OneHolder, Owns, Refers, ThreadRefers, ThreadOwns, Alone, Sharing, opVars, queueVars, clientVars, threadVars, historyVars
  <2> QED  BY <2>1, <2>2, <2>3, <2>4, SameHoldersStep DEF HolderInv
<1>9. CASE ReadResult(c)
  <2>1. SameHolders /\ activeQ' = activeQ
    BY <1>9 DEF TypeOK, ReadResult, Goto, SameHolders, Owns, Refers, ThreadRefers, ThreadOwns, Alone, Sharing, opVars, queueVars, clientVars, threadVars, historyVars
  <2>2. TopNotQueued'
    BY <1>9 DEF ReadResult, TopNotQueued, opVars, queueVars, clientVars, threadVars, historyVars
  <2>3. TimedRight'
    BY <1>9 DEF UniformCalls, TypeOK, ReadResult, Goto, TimedRight, HolderInv, OneHolder, Owns, Refers, ThreadRefers, ThreadOwns, Alone, Sharing, opVars, queueVars, clientVars, threadVars, historyVars
  <2>4. RefRight'
    BY <1>9, <2>1 DEF SameHolders, TypeOK, ReadResult, Goto, RefRight, TimedRight, HolderInv, OneHolder, Owns, Refers, ThreadRefers, ThreadOwns, Alone, Sharing, opVars, queueVars, clientVars, threadVars, historyVars
  <2> QED  BY <2>1, <2>2, <2>3, <2>4, SameHoldersStep DEF HolderInv
<1> QED  BY <1>1, <1>2, <1>3, <1>4, <1>5, <1>6, <1>7, <1>8, <1>9

(* The steps of the thread while it handles an op, and after it dropped    *)
(* its reference, leave the holders alone.                                 *)
LEMMA QuietThreadStep ==
  ASSUME OpInv, TypeOK',
         \/ SetCurOp \/ Handle \/ ClearCurOp \/ CheckTimed \/ SetResult \/ RaiseSignal
  PROVE  OpInv'
<1> USE DEF OpInv
<1>1. CASE SetCurOp
  <2>1. SameHolders /\ activeQ' = activeQ
    BY <1>1 DEF TypeOK, SetCurOp, SameHolders, Owns, Refers, ThreadRefers, ThreadOwns, Alone, Sharing, opVars, queueVars, clientVars, threadVars, historyVars
  <2>2. TopNotQueued'
    BY <1>1 DEF SetCurOp, TopNotQueued, opVars, queueVars, clientVars, threadVars, historyVars
  <2>3. TimedRight'
    BY <1>1 DEF SetCurOp, TimedRight, opVars, queueVars, clientVars, threadVars, historyVars
  <2>4. RefRight'
    BY <1>1, <2>1 DEF SameHolders, SetCurOp, RefRight, opVars, queueVars, clientVars, threadVars, historyVars
  <2> QED  BY <2>1, <2>2, <2>3, <2>4, SameHoldersStep DEF HolderInv
<1>2. CASE Handle
  <2>1. SameHolders /\ activeQ' = activeQ
    BY <1>2 DEF TypeOK, Handle, SameHolders, Owns, Refers, ThreadRefers, ThreadOwns, Alone, Sharing, opVars, queueVars, clientVars, threadVars, historyVars
  <2>2. TopNotQueued'
    BY <1>2 DEF Handle, TopNotQueued, opVars, queueVars, clientVars, threadVars, historyVars
  <2>3. TimedRight'
    BY <1>2 DEF Handle, TimedRight, opVars, queueVars, clientVars, threadVars, historyVars
  <2>4. RefRight'
    BY <1>2, <2>1 DEF SameHolders, Handle, RefRight, opVars, queueVars, clientVars, threadVars, historyVars
  <2> QED  BY <2>1, <2>2, <2>3, <2>4, SameHoldersStep DEF HolderInv
<1>3. CASE ClearCurOp
  <2>1. SameHolders /\ activeQ' = activeQ
    BY <1>3 DEF TypeOK, ClearCurOp, SameHolders, Owns, Refers, ThreadRefers, ThreadOwns, Alone, Sharing, opVars, queueVars, clientVars, threadVars, historyVars
  <2>2. TopNotQueued'
    BY <1>3 DEF ClearCurOp, TopNotQueued, opVars, queueVars, clientVars, threadVars, historyVars
  <2>3. TimedRight'
    BY <1>3 DEF ClearCurOp, TimedRight, opVars, queueVars, clientVars, threadVars, historyVars
  <2>4. RefRight'
    BY <1>3, <2>1 DEF SameHolders, ClearCurOp, RefRight, opVars, queueVars, clientVars, threadVars, historyVars
  <2> QED  BY <2>1, <2>2, <2>3, <2>4, SameHoldersStep DEF HolderInv
<1>4. CASE CheckTimed
  <2>1. SameHolders /\ activeQ' = activeQ
    BY <1>4 DEF TypeOK, CheckTimed, LoopAgain, SameHolders, Owns, Refers, ThreadRefers, ThreadOwns, Alone, Sharing, opVars, queueVars, clientVars, threadVars, historyVars
  <2>2. TopNotQueued'
    BY <1>4 DEF CheckTimed, LoopAgain, TopNotQueued, opVars, queueVars, clientVars, threadVars, historyVars
  <2>3. TimedRight'
    BY <1>4 DEF CheckTimed, TimedRight, opVars, queueVars, clientVars, threadVars, historyVars
  <2>4. RefRight'
    BY <1>4, <2>1 DEF SameHolders, CheckTimed, RefRight, opVars, queueVars, clientVars, threadVars, historyVars
  <2> QED  BY <2>1, <2>2, <2>3, <2>4, SameHoldersStep DEF HolderInv
<1>5. CASE SetResult
  <2>1. SameHolders /\ activeQ' = activeQ
    BY <1>5 DEF TypeOK, SetResult, SameHolders, Owns, Refers, ThreadRefers, ThreadOwns, Alone, Sharing, opVars, queueVars, clientVars, threadVars, historyVars
  <2>2. TopNotQueued'
    BY <1>5 DEF SetResult, TopNotQueued, opVars, queueVars, clientVars, threadVars, historyVars
  <2>3. TimedRight'
    BY <1>5 DEF SetResult, TimedRight, opVars, queueVars, clientVars, threadVars, historyVars
  <2>4. RefRight'
    BY <1>5, <2>1 DEF SameHolders, SetResult, RefRight, opVars, queueVars, clientVars, threadVars, historyVars
  <2> QED  BY <2>1, <2>2, <2>3, <2>4, SameHoldersStep DEF HolderInv
<1>6. CASE RaiseSignal
  <2>1. SameHolders /\ activeQ' = activeQ
    BY <1>6 DEF TypeOK, RaiseSignal, LoopAgain, SameHolders, Owns, Refers, ThreadRefers, ThreadOwns, Alone, Sharing, opVars, queueVars, clientVars, threadVars, historyVars
  <2>2. TopNotQueued'
    BY <1>6 DEF RaiseSignal, LoopAgain, TopNotQueued, opVars, queueVars, clientVars, threadVars, historyVars
  <2>3. TimedRight'
    BY <1>6 DEF RaiseSignal, TimedRight, opVars, queueVars, clientVars, threadVars, historyVars
  <2>4. RefRight'
    BY <1>6, <2>1 DEF SameHolders, RaiseSignal, RefRight, opVars, queueVars, clientVars, threadVars, historyVars
  <2> QED  BY <2>1, <2>2, <2>3, <2>4, SameHoldersStep DEF HolderInv
<1> QED  BY <1>1, <1>2, <1>3, <1>4, <1>5, <1>6

(* Taking an op from the free queue makes the caller its only holder.      *)
LEMMA GetFreeOpStep ==
  ASSUME OpInv, TypeOK', NEW c \in Clients, GetFreeOp(c)
  PROVE  OpInv'
<1> USE DEF OpInv
<1> DEFINE o0 == Head(freeQ)
<1>1. /\ o0 \in Ops /\ o0 \in Range(freeQ)
      /\ IsInjective(freeQ') /\ Range(freeQ') = Range(freeQ) \ {o0}
  BY TailDistinct DEF TypeOK, HolderInv, FreeOpsUnused, GetFreeOp
<1>2. /\ ~ThreadRefers(o0) /\ ~ThreadOwns(o0)
      /\ \A d \in Clients : ~Owns(d, o0) /\ ~Refers(d, o0)
  BY <1>1 DEF HolderInv, FreeOpsUnused
<1>3. /\ \A o \in Ops : /\ Owns(c, o)' <=> o = o0
                        /\ ~Refers(c, o)' /\ ~Owns(c, o) /\ ~Refers(c, o)
      /\ \A d \in Clients \ {c}, o \in Ops :
           (Owns(d, o)' <=> Owns(d, o)) /\ (Refers(d, o)' <=> Refers(d, o))
      /\ \A o \in Ops :
           (ThreadRefers(o)' <=> ThreadRefers(o)) /\ (ThreadOwns(o)' <=> ThreadOwns(o))
  BY <1>1 DEF TypeOK, GetFreeOp, Goto, Owns, Refers, ThreadRefers, ThreadOwns, Alone, Sharing, opVars, queueVars, clientVars, threadVars, historyVars
<1>4. FreeOpsUnused'
  <2>1. Range(freeQ) \subseteq Ops
    BY DEF TypeOK, Range
  <2> QED  BY <1>1, <1>3, <2>1 DEF HolderInv, FreeOpsUnused
<1>5. OneHolder'
  BY <1>2, <1>3 DEF HolderInv, OneHolder
<1>6. NoOpLost'
  BY <1>1, <1>3 DEF HolderInv, NoOpLost
<1>7. IsInjective(activeQ)' /\ TopNotQueued'
  BY DEF HolderInv, GetFreeOp, TopNotQueued, opVars, queueVars, clientVars, threadVars, historyVars
<1>8. TimedRight'
  BY DEF TypeOK, GetFreeOp, Goto, TimedRight, Sharing, opVars, queueVars, clientVars, threadVars, historyVars
<1>9. RefRight'
  <2>1. ref' = ref
    BY DEF GetFreeOp, opVars
  <2>2. \A d \in Clients : pc'[d] \in {"ref", "put"} =>
          pc'[d] = pc[d] /\ cop'[d] = cop[d] /\ ckind'[d] = ckind[d]
    BY DEF TypeOK, GetFreeOp, Goto
  <2> QED  BY <1>2, <1>3, <2>1, <2>2 DEF RefRight
<1> QED  BY <1>4, <1>5, <1>6, <1>7, <1>8, <1>9 DEF HolderInv

(* Queueing an op, for which there always is room, makes the thread a      *)
(* holder, next to the caller when that waits.                             *)
LEMMA PutActiveStep ==
  ASSUME OpInv, TypeOK', NEW c \in Clients, PutActive(c)
  PROVE  OpInv'
<1> USE DEF OpInv
<1> DEFINE o0 == cop[c]
<1>1. /\ o0 \in Ops /\ pc[c] = "put" /\ Owns(c, o0)
  BY DEF TypeOK, PutActive, Owns, Alone
<1>2. /\ ~ThreadRefers(o0) /\ ~ThreadOwns(o0)
      /\ \A d \in Clients \ {c} : ~Owns(d, o0) /\ ~Refers(d, o0)
  BY <1>1 DEF HolderInv, OneHolder
<1>3. o0 \notin Range(activeQ)
  BY <1>2 DEF ThreadRefers
<1>4. Len(activeQ) < QSize
  BY <1>1, <1>3, DistinctHasRoom, MsgThreadAssumption DEF TypeOK, HolderInv, QSize
<1>5. activeQ' = Append(activeQ, o0) /\ pc' = [pc EXCEPT ![c] = "posted"]
      /\ UNCHANGED <<ref, status>>
  BY <1>4 DEF PutActive, Put, Goto
<1>6. /\ IsInjective(activeQ')
      /\ Range(activeQ') = Range(activeQ) \cup {o0}
  BY <1>1, <1>3, <1>5, AppendDistinct DEF TypeOK, HolderInv
<1>7. /\ \A o \in Ops : /\ ~Owns(c, o)'
                        /\ Refers(c, o)' <=> (o = o0 /\ ckind[c] = "wait")
                        /\ Owns(c, o) <=> o = o0
                        /\ ~Refers(c, o)
      /\ \A d \in Clients \ {c}, o \in Ops :
           (Owns(d, o)' <=> Owns(d, o)) /\ (Refers(d, o)' <=> Refers(d, o))
      /\ \A o \in Ops : /\ ThreadRefers(o)' <=> (ThreadRefers(o) \/ o = o0)
                        /\ ThreadOwns(o)' <=> ThreadOwns(o)
  BY <1>1, <1>5, <1>6 DEF TypeOK, PutActive, Owns, Refers, ThreadRefers, ThreadOwns, Alone, Sharing, opVars, queueVars, clientVars, threadVars, historyVars
<1>8. FreeOpsUnused'
  <2>1. freeQ' = freeQ /\ Range(freeQ) \subseteq Ops
    BY DEF TypeOK, PutActive, Range
  <2>2. o0 \notin Range(freeQ)
    BY <1>1 DEF HolderInv, FreeOpsUnused
  <2> QED  BY <1>7, <2>1, <2>2 DEF HolderInv, FreeOpsUnused
<1>9. OneHolder'
  BY <1>2, <1>7 DEF HolderInv, OneHolder
<1>10. NoOpLost'
  BY <1>7 DEF HolderInv, NoOpLost, PutActive
<1>11. TopNotQueued'
  <2>1. tpc \in {"got", "run", "ran", "dec", "free"} => top # o0
    BY <1>2 DEF ThreadRefers, ThreadOwns
  <2> QED  BY <1>6, <2>1 DEF PutActive, TopNotQueued, threadVars
<1>12. TimedRight'
  BY <1>1, <1>5 DEF TypeOK, PutActive, TimedRight, Sharing
<1>13. RefRight'
  <2>1. ref[o0] = IF ckind[c] = "wait" THEN 2 ELSE 1
    BY <1>1 DEF RefRight
  <2>2. \A d \in Clients : /\ pc'[d] = "ref" => pc[d] = "ref"
                           /\ pc'[d] = "put" => pc[d] = "put"
    BY <1>5 DEF TypeOK
  <2>3. UNCHANGED <<cop, ckind, ref>>
    BY <1>5 DEF PutActive
  <2>4. \A d \in Clients, o \in Ops :
          Refers(d, o)' => ref[o] = IF ThreadRefers(o)' THEN 2 ELSE 1
    BY <1>2, <1>7, <2>1 DEF RefRight
  <2>5. \A o \in Ops :
          ThreadRefers(o)' /\ (\A d \in Clients : ~Refers(d, o)') => ref[o] = 1
    BY <1>7, <2>1 DEF RefRight
  <2> QED  BY <2>2, <2>3, <2>4, <2>5 DEF RefRight
<1> QED  BY <1>6, <1>8, <1>9, <1>10, <1>11, <1>12, <1>13 DEF HolderInv

(* Dropping its reference leaves the op to the thread, or, when the thread *)
(* has dropped its own before, to the caller alone.                        *)
LEMMA DropClientRefStep ==
  ASSUME UniformCalls, OpInv, TypeOK', NEW c \in Clients, DropClientRef(c)
  PROVE  OpInv'
<1> USE DEF OpInv
<1> DEFINE o0 == cop[c]
<1>1. /\ o0 \in Ops /\ pc[c] = "final"
      /\ timed[o0] = (ckind[c] = "wait")
      /\ UNCHANGED <<queueVars, timed, threadVars>>
  BY DEF TypeOK, DropClientRef, TimedRight, Sharing
<1>2. \A d \in Clients \ {c} :
        pc'[d] = pc[d] /\ cop'[d] = cop[d] /\ ckind'[d] = ckind[d]
  BY DEF TypeOK, DropClientRef, Return, Goto
<1>3. /\ TopNotQueued'
      /\ \A o \in Ops :
           (ThreadRefers(o)' <=> ThreadRefers(o)) /\ (ThreadOwns(o)' <=> ThreadOwns(o))
  BY <1>1 DEF TopNotQueued, ThreadRefers, ThreadOwns, queueVars, threadVars
<1>4. \A d \in Clients \ {c}, o \in Ops :
        (Owns(d, o)' <=> Owns(d, o)) /\ (Refers(d, o)' <=> Refers(d, o))
  BY <1>2 DEF Owns, Refers
<1>5. /\ pc'[c] \in {"idle", "free"}
      /\ pc'[c] = "free" => cop' = cop /\ ckind' = ckind
  BY DEF TypeOK, DropClientRef, Return, Goto
<1>6. TimedRight'
  BY <1>1, <1>2, <1>5, ZenonT(60) DEF TypeOK, TimedRight, Sharing
<1>7. CASE ckind[c] # "wait"
  <2>1. ref' = ref /\ pc'[c] = "idle"
    BY <1>1, <1>7 DEF TypeOK, DropClientRef, Return, Goto
  <2>2. SameHolders /\ activeQ' = activeQ
    BY <1>1, <1>3, <1>4, <1>7, <2>1 DEF SameHolders, Owns, Refers, Alone, Sharing, queueVars
  <2>3. RefRight'
    BY <1>2, <2>1, <2>2 DEF SameHolders, RefRight
  <2> QED  BY <1>3, <1>6, <2>2, <2>3, SameHoldersStep DEF HolderInv
<1>8. CASE ckind[c] = "wait"
  <2>1. Refers(c, o0) /\ timed[o0]
    BY <1>1, <1>8 DEF Refers, Sharing
  <2>2. /\ ~ThreadOwns(o0)
        /\ \A d \in Clients \ {c} : ~Owns(d, o0) /\ ~Refers(d, o0)
        /\ o0 \notin Range(freeQ)
    BY <1>1, <2>1 DEF HolderInv, OneHolder, FreeOpsUnused
  <2>3. ref[o0] = IF ThreadRefers(o0) THEN 2 ELSE 1
    BY <1>1, <2>1 DEF RefRight
  <2>4. ref' = [ref EXCEPT ![o0] = @ - 1]
    BY <2>1 DEF DropClientRef
  <2>5. IF ThreadRefers(o0)
          THEN pc'[c] = "idle"
          ELSE pc'[c] = "free" /\ cop'[c] = o0
    BY <2>1, <2>3 DEF TypeOK, DropClientRef, Return, Goto
  <2>6. \A o \in Ops : /\ Owns(c, o)' <=> (o = o0 /\ ~ThreadRefers(o0))
                       /\ ~Refers(c, o)' /\ ~Owns(c, o)
                       /\ Refers(c, o) <=> o = o0
    BY <1>1, <1>8, <2>5 DEF Owns, Refers, Alone, Sharing
  <2>7. FreeOpsUnused'
    <3>1. freeQ' = freeQ /\ Range(freeQ) \subseteq Ops
      BY <1>1 DEF TypeOK, Range, queueVars
    <3> QED  BY <1>3, <1>4, <2>2, <2>6, <3>1 DEF HolderInv, FreeOpsUnused
  <2>8. OneHolder'
    BY <1>3, <1>4, <2>2, <2>6 DEF HolderInv, OneHolder
  <2>9. NoOpLost'
    BY <1>1, <1>3, <1>4, <2>6 DEF HolderInv, NoOpLost, queueVars
  <2>10. RefRight'
    <3>1. \A d \in Clients : pc'[d] \in {"ref", "put"} =>
            /\ pc[d] = pc'[d] /\ cop'[d] = cop[d] /\ ckind'[d] = ckind[d]
            /\ cop[d] \in Ops /\ cop[d] # o0
      BY <1>1, <1>2, <1>5, <2>2 DEF TypeOK, Owns, Alone
    <3>2. \A o \in Ops : o # o0 => ref'[o] = ref[o]
      BY <2>4 DEF TypeOK
    <3>3. ThreadRefers(o0) => ref'[o0] = 1
      BY <1>1, <2>3, <2>4 DEF TypeOK
    <3>4. \A d \in Clients : pc'[d] \in {"ref", "put"} => ref'[cop'[d]] = ref[cop[d]]
      BY <3>1, <3>2
    <3>5. \A d \in Clients :
            /\ pc'[d] = "ref" => ref'[cop'[d]] = IF ckind'[d] = "wait" THEN 1 ELSE 0
            /\ pc'[d] = "put" => ref'[cop'[d]] = IF ckind'[d] = "wait" THEN 2 ELSE 1
      BY <3>1, <3>4 DEF RefRight
    <3>6. \A d \in Clients, o \in Ops :
            Refers(d, o)' => ref'[o] = IF ThreadRefers(o)' THEN 2 ELSE 1
      BY <1>3, <1>4, <2>2, <2>6, <3>2 DEF RefRight
    <3>7. \A o \in Ops :
            ThreadRefers(o)' /\ (\A d \in Clients : ~Refers(d, o)') => ref'[o] = 1
      BY <1>3, <1>4, <2>6, <3>2, <3>3 DEF RefRight
    <3> QED  BY <3>5, <3>6, <3>7 DEF RefRight
  <2> QED
    BY <1>1, <1>3, <1>6, <2>7, <2>8, <2>9, <2>10 DEF HolderInv, queueVars
<1> QED  BY <1>7, <1>8

(* The op a caller puts back goes from its last holder to the free queue.  *)
LEMMA ClientFreeOpStep ==
  ASSUME OpInv, TypeOK', NEW c \in Clients, ClientFreeOp(c)
  PROVE  OpInv'
<1> USE DEF OpInv
<1> DEFINE o0 == cop[c]
<1>1. o0 \in Ops /\ pc[c] = "free" /\ Owns(c, o0)
  BY DEF TypeOK, ClientFreeOp, Owns, Alone
<1>2. /\ ~ThreadRefers(o0) /\ ~ThreadOwns(o0)
      /\ \A d \in Clients \ {c} : ~Owns(d, o0) /\ ~Refers(d, o0)
      /\ o0 \notin Range(freeQ) /\ IsInjective(freeQ)
  BY <1>1 DEF HolderInv, OneHolder, FreeOpsUnused
<1>3. Len(freeQ) < QSize
  BY <1>1, <1>2, DistinctHasRoom, MsgThreadAssumption DEF TypeOK, QSize
<1>4. IsInjective(freeQ') /\ Range(freeQ') = Range(freeQ) \cup {o0}
  BY <1>1, <1>2, <1>3, AppendDistinct DEF TypeOK, ClientFreeOp, Put
<1>5. pc'[c] = "idle" /\ UNCHANGED <<activeQ, opVars, threadVars>>
      /\ \A d \in Clients \ {c} :
           pc'[d] = pc[d] /\ cop'[d] = cop[d] /\ ckind'[d] = ckind[d]
  BY DEF TypeOK, ClientFreeOp, Return, Goto
<1>6. /\ \A o \in Ops : /\ Owns(c, o) <=> o = o0
                        /\ ~Refers(c, o) /\ ~Owns(c, o)' /\ ~Refers(c, o)'
      /\ \A d \in Clients \ {c}, o \in Ops :
           (Owns(d, o)' <=> Owns(d, o)) /\ (Refers(d, o)' <=> Refers(d, o))
      /\ \A o \in Ops :
           (ThreadRefers(o)' <=> ThreadRefers(o)) /\ (ThreadOwns(o)' <=> ThreadOwns(o))
  BY <1>1, <1>5 DEF Owns, Refers, ThreadRefers, ThreadOwns, Alone, Sharing, threadVars
<1>7. FreeOpsUnused'
  <2>1. Range(freeQ) \subseteq Ops
    BY DEF TypeOK, Range
  <2> QED  BY <1>1, <1>2, <1>4, <1>6, <2>1 DEF HolderInv, FreeOpsUnused
<1>8. OneHolder'
  BY <1>6 DEF HolderInv, OneHolder
<1>9. NoOpLost'
  BY <1>4, <1>6 DEF HolderInv, NoOpLost
<1>10. TopNotQueued'
  BY <1>5 DEF TopNotQueued, threadVars
<1>11. TimedRight'
  BY <1>5, ZenonT(60) DEF TypeOK, TimedRight, Sharing, opVars
<1>12. RefRight'
  BY <1>5, <1>6 DEF RefRight, opVars
<1> QED  BY <1>5, <1>7, <1>8, <1>9, <1>10, <1>11, <1>12 DEF HolderInv

(* Taking an op from the active queue leaves it with the same holders.     *)
LEMMA GetActiveOpStep ==
  ASSUME OpInv, TypeOK', GetActiveOp
  PROVE  OpInv'
<1> USE DEF OpInv
<1> DEFINE o0 == Head(activeQ)
<1>1. /\ o0 \in Ops /\ o0 \in Range(activeQ)
      /\ IsInjective(activeQ') /\ Range(activeQ') = Range(activeQ) \ {o0}
  BY TailDistinct DEF TypeOK, HolderInv, GetActiveOp
<1>2. top' = o0 /\ tpc = "idle" /\ tpc' = "got"
      /\ UNCHANGED <<freeQ, opVars, clientVars>>
  BY DEF GetActiveOp
<1>3. SameHolders
  BY <1>1, <1>2 DEF SameHolders, Owns, Refers, ThreadRefers, ThreadOwns, Alone, Sharing, clientVars
<1>4. TopNotQueued'
  BY <1>1, <1>2 DEF TopNotQueued
<1>5. TimedRight'
  BY <1>2 DEF TimedRight, opVars, clientVars
<1>6. RefRight'
  BY <1>2, <1>3 DEF SameHolders, RefRight, opVars, clientVars
<1> QED  BY <1>1, <1>3, <1>4, <1>5, <1>6, SameHoldersStep

(* Dropping its reference leaves the op to the caller that waits for it,   *)
(* or, when there is none any more, to the thread alone.                   *)
LEMMA DropThreadRefStep ==
  ASSUME OpInv, TypeOK', DropThreadRef
  PROVE  OpInv'
<1> USE DEF OpInv
<1>1. /\ top \in Ops /\ tpc = "dec" /\ ThreadRefers(top)
      /\ top \notin Range(activeQ)
      /\ ref' = [ref EXCEPT ![top] = @ - 1]
      /\ tpc' = IF ref[top] = 1 THEN "free" ELSE "check"
      /\ UNCHANGED <<queueVars, timed, clientVars, top>>
  BY DEF TypeOK, DropThreadRef, ThreadRefers, TopNotQueued
<1>2. \A d \in Clients : ~Owns(d, top)
  BY <1>1 DEF HolderInv, OneHolder
<1>3. /\ ref[top] = 1 <=> \A d \in Clients : ~Refers(d, top)
      /\ ref[top] # 1 => ref[top] = 2
  BY <1>1 DEF RefRight
<1>4. /\ \A d \in Clients, o \in Ops :
           (Owns(d, o)' <=> Owns(d, o)) /\ (Refers(d, o)' <=> Refers(d, o))
      /\ \A o \in Ops : /\ ThreadRefers(o)' <=> (ThreadRefers(o) /\ o # top)
                        /\ ThreadOwns(o)' <=> (o = top /\ ref[top] = 1)
                        /\ ~ThreadOwns(o)
  BY <1>1 DEF Owns, Refers, ThreadRefers, ThreadOwns, Alone, Sharing, queueVars, clientVars
<1>5. FreeOpsUnused'
  <2>1. freeQ' = freeQ /\ Range(freeQ) \subseteq Ops /\ top \notin Range(freeQ)
    BY <1>1, SMTT(60) DEF TypeOK, Range, queueVars, HolderInv, FreeOpsUnused
  <2> QED  BY <1>4, <2>1 DEF HolderInv, FreeOpsUnused
<1>6. OneHolder'
  BY <1>2, <1>3, <1>4 DEF HolderInv, OneHolder
<1>7. NoOpLost'
  BY <1>1, <1>3, <1>4 DEF HolderInv, NoOpLost, queueVars
<1>8. IsInjective(activeQ)' /\ TopNotQueued' /\ TimedRight'
  BY <1>1 DEF HolderInv, TopNotQueued, TimedRight, queueVars, clientVars
<1>9. RefRight'
  <2>1. \A o \in Ops : ref'[o] = IF o = top THEN ref[o] - 1 ELSE ref[o]
    BY <1>1 DEF TypeOK
  <2>2. \A d \in Clients : pc[d] \in {"ref", "put"} => cop[d] \in Ops /\ cop[d] # top
    BY <1>2 DEF TypeOK, Owns, Alone
  <2>3. UNCHANGED <<pc, cop, ckind>>
    BY <1>1 DEF clientVars
  <2>4. \A d \in Clients, o \in Ops :
          Refers(d, o)' => ref'[o] = IF ThreadRefers(o)' THEN 2 ELSE 1
    BY <1>3, <1>4, <2>1 DEF RefRight
  <2>5. \A o \in Ops :
          ThreadRefers(o)' /\ (\A d \in Clients : ~Refers(d, o)') => ref'[o] = 1
    BY <1>4, <2>1 DEF RefRight
  <2> QED  BY <2>1, <2>2, <2>3, <2>4, <2>5 DEF RefRight
<1> QED  BY <1>5, <1>6, <1>7, <1>8, <1>9 DEF HolderInv

(* The op the thread puts back goes from its last holder to the free queue.*)
LEMMA ThreadFreeOpStep ==
  ASSUME OpInv, TypeOK', ThreadFreeOp
  PROVE  OpInv'
<1> USE DEF OpInv
<1>1. /\ top \in Ops /\ tpc = "free" /\ ThreadOwns(top)
      /\ tpc' = "idle"
      /\ UNCHANGED <<activeQ, opVars, clientVars>>
  BY DEF TypeOK, ThreadFreeOp, ThreadOwns, LoopAgain
<1>2. /\ top \notin Range(activeQ)
      /\ \A d \in Clients : ~Owns(d, top) /\ ~Refers(d, top)
      /\ top \notin Range(freeQ) /\ IsInjective(freeQ)
  BY <1>1 DEF HolderInv, OneHolder, FreeOpsUnused, TopNotQueued
<1>3. Len(freeQ) < QSize
  BY <1>1, <1>2, DistinctHasRoom, MsgThreadAssumption DEF TypeOK, QSize
<1>4. IsInjective(freeQ') /\ Range(freeQ') = Range(freeQ) \cup {top}
  BY <1>1, <1>2, <1>3, AppendDistinct DEF TypeOK, ThreadFreeOp, Put
<1>5. /\ \A d \in Clients, o \in Ops :
           (Owns(d, o)' <=> Owns(d, o)) /\ (Refers(d, o)' <=> Refers(d, o))
      /\ \A o \in Ops : /\ ThreadRefers(o)' <=> ThreadRefers(o)
                        /\ ~ThreadOwns(o)'
                        /\ ThreadOwns(o) <=> o = top
      /\ ~ThreadRefers(top)
  BY <1>1, <1>2 DEF Owns, Refers, ThreadRefers, ThreadOwns, Alone, Sharing, clientVars
<1>6. FreeOpsUnused'
  <2>1. Range(freeQ) \subseteq Ops
    BY DEF TypeOK, Range
  <2> QED  BY <1>1, <1>2, <1>4, <1>5, <2>1 DEF HolderInv, FreeOpsUnused
<1>7. OneHolder'
  BY <1>5 DEF HolderInv, OneHolder
<1>8. NoOpLost'
  BY <1>4, <1>5 DEF HolderInv, NoOpLost
<1>9. IsInjective(activeQ)' /\ TopNotQueued' /\ TimedRight'
  BY <1>1 DEF HolderInv, TopNotQueued, TimedRight, opVars, clientVars
<1>10. RefRight'
  BY <1>1, <1>5 DEF RefRight, opVars, clientVars
<1> QED  BY <1>6, <1>7, <1>8, <1>9, <1>10 DEF HolderInv

-----------------------------------------------------------------------------
(* The theorems.                                                           *)

(* When msg_thread_init is done every op is free and held by nobody.       *)
LEMMA OpInit == Init => OpInv
<1> SUFFICES ASSUME Init PROVE OpInv
  OBVIOUS
<1>1. TypeOK
  BY TypeInit
<1>2. /\ activeQ = <<>> /\ Range(freeQ) = Ops /\ tpc = "idle"
      /\ \A c \in Clients : pc[c] = "idle"
      /\ timed = [o \in Ops |-> FALSE]
  BY DEF Init
<1>3. IsInjective(freeQ)
  <2>1. QSize \in Nat /\ IsFiniteSet(Ops)
    BY MsgThreadAssumption, FS_CardinalityType DEF QSize
  <2>2. freeQ \in Surjection(1 .. QSize, Ops)
    BY <1>2 DEF Init, Surjection, Range
  <2>3. IsFiniteSet(1 .. QSize) /\ Cardinality(1 .. QSize) = QSize
    <3>1. 1 \in Int /\ QSize \in Int
      BY <2>1
    <3>2. /\ IsFiniteSet(1 .. QSize)
          /\ Cardinality(1 .. QSize) = IF 1 > QSize THEN 0 ELSE QSize - 1 + 1
      BY <3>1, FS_Interval, Zenon
    <3> QED  BY <2>1, <3>2
  <2>4. freeQ \in Injection(1 .. QSize, Ops)
    BY <2>1, <2>2, <2>3, FS_SurjSameCardinalityImpliesInj DEF QSize
  <2> QED  BY <2>4 DEF Injection
<1>4. \A o \in Ops :
        /\ ~ThreadRefers(o) /\ ~ThreadOwns(o)
        /\ \A c \in Clients : ~Owns(c, o) /\ ~Refers(c, o)
  BY <1>2, EmptyDistinct DEF Owns, Refers, ThreadRefers, ThreadOwns, Alone, Sharing
<1>5. HolderInv
  BY <1>2, <1>3, <1>4, EmptyDistinct DEF HolderInv, FreeOpsUnused, OneHolder, NoOpLost
<1>6. TopNotQueued /\ TimedRight
  BY <1>2 DEF TopNotQueued, TimedRight, Sharing
<1>7. RefRight
  BY <1>2, <1>4 DEF RefRight
<1> QED  BY <1>1, <1>5, <1>6, <1>7 DEF OpInv

(* A call that finds no free op leaves the ops alone, and so does nothing  *)
(* at all.                                                                 *)
LEMMA StutterStep ==
  ASSUME OpInv, TypeOK', (\E c \in Clients : NoFreeOp(c)) \/ UNCHANGED vars
  PROVE  OpInv'
<1>1. UNCHANGED <<queueVars, opVars, clientVars, threadVars>>
  BY DEF NoFreeOp, vars
<1>2. SameHolders /\ activeQ' = activeQ
  BY <1>1 DEF SameHolders, Owns, Refers, ThreadRefers, ThreadOwns, Alone, Sharing, queueVars, clientVars, threadVars
<1>3. TopNotQueued' /\ TimedRight' /\ RefRight'
  BY <1>1, <1>2
  DEF OpInv, SameHolders, TopNotQueued, TimedRight, RefRight, opVars, queueVars, clientVars,
      threadVars
<1> QED  BY <1>2, <1>3, SameHoldersStep DEF OpInv, HolderInv

(* Every step of a context with uniform calls keeps the invariant.         *)
LEMMA OpStep == UniformCalls /\ OpInv /\ [Next]_vars => OpInv'
<1> SUFFICES ASSUME UniformCalls, OpInv, [Next]_vars PROVE OpInv'
  OBVIOUS
<1>1. TypeOK'
  BY TypeStep DEF OpInv
<1>2. ASSUME NEW c \in Clients, Call(c) \/ ClientStep(c) \/ WaitTimeout(c)
      PROVE  OpInv'
  BY <1>1, <1>2, GetFreeOpStep, StutterStep, QuietClientStep, PutActiveStep,
     DropClientRefStep, ClientFreeOpStep
  DEF Call, ClientStep
<1>3. ASSUME ThreadStep PROVE OpInv'
  BY <1>1, <1>3, GetActiveOpStep, QuietThreadStep, DropThreadRefStep, ThreadFreeOpStep
  DEF ThreadStep
<1>4. ASSUME Quiescent \/ UNCHANGED vars PROVE OpInv'
  BY <1>1, <1>4, StutterStep DEF Quiescent
<1> QED  BY <1>2, <1>3, <1>4 DEF Next

(* The invariant holds throughout when the calls are uniform.              *)
THEOREM OpInvariant == UniformCalls => (Spec => []OpInv)
<1> SUFFICES ASSUME UniformCalls PROVE Spec => []OpInv
  OBVIOUS
<1>1. Init => OpInv
  BY OpInit
<1>2. OpInv /\ [Next]_vars => OpInv'
  BY OpStep
<1> QED  BY <1>1, <1>2, PTL DEF Spec

(* Counting the waiting callers of an op gives one when there is one.      *)
LEMMA WaitersOfOp ==
  ASSUME TypeOK, OneHolder, NEW o \in Ops
  PROVE  Cardinality({c \in Clients : Refers(c, o)})
           = IF \E c \in Clients : Refers(c, o) THEN 1 ELSE 0
<1> DEFINE W == {c \in Clients : Refers(c, o)}
<1>1. CASE \E c \in Clients : Refers(c, o)
  <2>1. PICK c \in Clients : Refers(c, o)
    BY <1>1
  <2>2. W = {c}
    BY <2>1 DEF OneHolder
  <2> QED  BY <1>1, <2>2, FS_Singleton
<1>2. CASE ~ \E c \in Clients : Refers(c, o)
  <2>1. W = {}
    BY <1>2
  <2> QED  BY <1>2, <2>1, FS_EmptySet
<1> QED  BY <1>1, <1>2

(* The invariant implies what the runs check.                              *)
LEMMA OpInvImplies ==
  OpInv => FreeOpsUnused /\ NoOpLost /\ RefCountExact /\ PutNeverFails
<1> SUFFICES ASSUME OpInv
             PROVE  FreeOpsUnused /\ NoOpLost /\ RefCountExact /\ PutNeverFails
  OBVIOUS
<1>1. TypeOK /\ FreeOpsUnused /\ OneHolder /\ NoOpLost /\ RefRight
  BY DEF OpInv, HolderInv
<1>2. RefCountExact
  <2>1. SUFFICES ASSUME NEW o \in Ops,
                        ThreadRefers(o) \/ \E c \in Clients : Refers(c, o)
                 PROVE  ref[o] = Cardinality({c \in Clients : Refers(c, o)})
                                 + (IF ThreadRefers(o) THEN 1 ELSE 0)
    BY DEF RefCountExact
  <2>2. Cardinality({c \in Clients : Refers(c, o)})
          = IF \E c \in Clients : Refers(c, o) THEN 1 ELSE 0
    BY <1>1, WaitersOfOp
  <2>3. CASE \E c \in Clients : Refers(c, o)
    <3>1. ref[o] = IF ThreadRefers(o) THEN 2 ELSE 1
      BY <1>1, <2>3 DEF RefRight
    <3> QED  BY <2>2, <2>3, <3>1
  <2>4. CASE ~ \E c \in Clients : Refers(c, o)
    <3>1. ref[o] = 1 /\ ThreadRefers(o)
      BY <1>1, <2>1, <2>4 DEF RefRight
    <3> QED  BY <2>2, <2>4, <3>1
  <2> QED  BY <2>3, <2>4
<1>3. PutNeverFails
  <2>1. ASSUME NEW c \in Clients, pc[c] = "put" PROVE Len(activeQ) < QSize
    <3>1. cop[c] \in Ops /\ Owns(c, cop[c])
      BY <1>1, <2>1 DEF TypeOK, Owns, Alone
    <3>2. cop[c] \notin Range(activeQ)
      BY <1>1, <3>1 DEF OneHolder, ThreadRefers
    <3> QED
      BY <1>1, <3>1, <3>2, DistinctHasRoom, MsgThreadAssumption
      DEF OpInv, HolderInv, TypeOK, QSize
  <2>2. ASSUME NEW c \in Clients, pc[c] = "free" PROVE Len(freeQ) < QSize
    <3>1. cop[c] \in Ops /\ Owns(c, cop[c])
      BY <1>1, <2>2 DEF TypeOK, Owns, Alone
    <3>2. cop[c] \notin Range(freeQ) /\ IsInjective(freeQ)
      BY <1>1, <3>1 DEF FreeOpsUnused
    <3> QED
      BY <1>1, <3>1, <3>2, DistinctHasRoom, MsgThreadAssumption DEF TypeOK, QSize
  <2>3. ASSUME tpc = "free" PROVE Len(freeQ) < QSize
    <3>1. top \in Ops /\ top \notin Range(freeQ) /\ IsInjective(freeQ)
      BY <1>1, <2>3 DEF TypeOK, FreeOpsUnused, ThreadOwns
    <3> QED
      BY <1>1, <3>1, DistinctHasRoom, MsgThreadAssumption DEF TypeOK, QSize
  <2> QED  BY <2>1, <2>2, <2>3 DEF PutNeverFails
<1> QED  BY <1>1, <1>2, <1>3

(* In a context with uniform calls an op in the free queue is there once   *)
(* and in nobody's hands: atomic_dec_and_test gives it back exactly once.  *)
THEOREM FreeOpsAreUnused == UniformCalls => (Spec => []FreeOpsUnused)
<1>1. OpInv => FreeOpsUnused
  BY OpInvImplies
<1> QED  BY <1>1, OpInvariant, PTL

(* ... and no op leaks from the pool, whatever calls time out.             *)
THEOREM NoOpIsLost == UniformCalls => (Spec => []NoOpLost)
<1>1. OpInv => NoOpLost
  BY OpInvImplies
<1> QED  BY <1>1, OpInvariant, PTL

(* ... and ref_count is the number of parties that still use the op.       *)
THEOREM RefCountIsExact == UniformCalls => (Spec => []RefCountExact)
<1>1. OpInv => RefCountExact
  BY OpInvImplies
<1> QED  BY <1>1, OpInvariant, PTL

(* ... and the "queue is full" branches of msg_evt_put_op_to_q are dead.   *)
THEOREM PutsSucceed == UniformCalls => (Spec => []PutNeverFails)
<1>1. OpInv => PutNeverFails
  BY OpInvImplies
<1> QED  BY <1>1, OpInvariant, PTL

-----------------------------------------------------------------------------
(* MsgThread implements RequestQueue: every step is a step of RequestQueue *)
(* or changes nothing there.                                               *)

(* A caller prepares an op until it is queued; from Filled on the op holds *)
(* the caller's request.                                                   *)
Preparing == {"clear", "fill", "arm", "ref", "put"}
Filled == {"arm", "ref", "put"}

(* An op carries what its caller asked for until the thread has run it.    *)
CarriesInv ==
  /\ \A c \in Clients : pc[c] \in Filled => opReq[cop[c]] = creq[c]
  /\ \A o \in Ops : ThreadRefers(o) => opReq[o] \in Requests

(* A request that is being prepared is so by one caller.                   *)
CallsInv ==
  /\ \A c \in Clients : pc[c] \in Preparing => creq[c] \notin fresh
  /\ \A c, d \in Clients :
       pc[c] \in Preparing /\ pc[d] \in Preparing /\ creq[c] = creq[d] => c = d

OrderInv == OpInv /\ CarriesInv /\ CallsInv

(* What stands for the variables of RequestQueue.                          *)
PendingOf == [i \in DOMAIN activeQ |-> opReq[activeQ[i]]]
RunningOf == IF tpc \in {"got", "run"} THEN opReq[top] ELSE NoReq

(* The rest of the invariant, and a step of RequestQueue.                  *)
Simulates == CarriesInv' /\ CallsInv' /\ [RQ!Next]_(RQ!rqVars)
-----------------------------------------------------------------------------
(* Unsent in terms of callers that prepare.                                *)
LEMMA UnsentIs == Unsent = fresh \cup {creq[c] : c \in {d \in Clients : pc[d] \in Preparing}}
BY DEF Unsent, Preparing

(* In the initial state nothing is queued and every request is to come.    *)
LEMMA OrderInit == Init => OrderInv /\ RQ!Init
<1> SUFFICES ASSUME Init PROVE OrderInv /\ RQ!Init
  OBVIOUS
<1>1. /\ activeQ = <<>> /\ tpc = "idle" /\ fresh = Requests /\ served = <<>>
      /\ \A c \in Clients : pc[c] = "idle"
  BY DEF Init
<1>2. CarriesInv
  BY <1>1, EmptyDistinct DEF CarriesInv, ThreadRefers, Filled
<1>3. CallsInv
  BY <1>1 DEF CallsInv, Preparing
<1>4. Unsent = Requests
  BY <1>1 DEF Unsent
<1>5. PendingOf = <<>> /\ RunningOf = NoReq
  BY <1>1 DEF PendingOf, RunningOf
<1> QED
  BY <1>1, <1>2, <1>3, <1>4, <1>5, OpInit DEF OrderInv, RQ!Init, PendingOf, RunningOf

(* Steps that concern neither the requests on their way nor the queue.     *)
KeepsCalls ==
  /\ UNCHANGED <<activeQ, opReq, threadVars, fresh, served>>
  /\ \A d \in Clients :
       /\ pc'[d] \in Preparing <=> pc[d] \in Preparing
       /\ pc'[d] \in Preparing => cop'[d] = cop[d] /\ creq'[d] = creq[d]
       /\ pc'[d] \in Filled => pc[d] \in Filled

(* They change nothing in RequestQueue.                                    *)
LEMMA KeepsCallsStep ==
  ASSUME OrderInv, KeepsCalls
  PROVE  Simulates
<1>1. CarriesInv'
  BY DEF KeepsCalls, OrderInv, CarriesInv, ThreadRefers, threadVars, Preparing, Filled
<1>2. CallsInv'
  BY DEF KeepsCalls, OrderInv, CallsInv
<1>3. Unsent' = Unsent
  <2>1. {d \in Clients : pc'[d] \in Preparing} = {d \in Clients : pc[d] \in Preparing}
    BY DEF KeepsCalls
  <2>2. {creq'[c] : c \in {d \in Clients : pc'[d] \in Preparing}}
          = {creq[c] : c \in {d \in Clients : pc[d] \in Preparing}}
    BY <2>1 DEF KeepsCalls
  <2> QED  BY <2>2 DEF Unsent, Preparing, KeepsCalls
<1>4. UNCHANGED <<PendingOf, RunningOf, served>>
  BY DEF KeepsCalls, PendingOf, RunningOf, threadVars
<1> QED  BY <1>1, <1>2, <1>3, <1>4 DEF Simulates, RQ!rqVars, PendingOf, RunningOf

(* The steps of a caller other than taking, filling and queueing an op.    *)
LEMMA CallerKeeps ==
  ASSUME OrderInv, NEW c \in Clients,
         \/ ArmOp(c) \/ TakeThreadRef(c) \/ CheckWait(c) \/ WaitDone(c)
         \/ WaitTimeout(c) \/ LogTimeout(c) \/ ReadResult(c)
         \/ DropClientRef(c) \/ ClientFreeOp(c)
  PROVE  KeepsCalls
<1> USE DEF OrderInv, OpInv, TypeOK, KeepsCalls, Goto, Return, Preparing, Filled,
        queueVars, opVars, clientVars, threadVars, historyVars
<1>1. CASE ArmOp(c)          BY <1>1 DEF ArmOp
<1>2. CASE TakeThreadRef(c)  BY <1>2 DEF TakeThreadRef
<1>3. CASE CheckWait(c)      BY <1>3 DEF CheckWait
<1>4. CASE WaitDone(c)       BY <1>4 DEF WaitDone
<1>5. CASE WaitTimeout(c)    BY <1>5 DEF WaitTimeout
<1>6. CASE LogTimeout(c)     BY <1>6 DEF LogTimeout
<1>7. CASE ReadResult(c)     BY <1>7 DEF ReadResult
<1>8. CASE DropClientRef(c)  BY <1>8 DEF DropClientRef
<1>9. CASE ClientFreeOp(c)   BY <1>9 DEF ClientFreeOp
<1> QED  BY <1>1, <1>2, <1>3, <1>4, <1>5, <1>6, <1>7, <1>8, <1>9

(* A caller that gets an op prepares the request it has just chosen.       *)
LEMMA GetFreeOpOrder ==
  ASSUME OrderInv, NEW c \in Clients, GetFreeOp(c)
  PROVE  Simulates
<1> USE DEF OrderInv
<1>1. PICK r \in fresh : fresh' = fresh \ {r} /\ creq' = [creq EXCEPT ![c] = r]
  BY DEF GetFreeOp
<1>2. /\ pc[c] = "idle" /\ pc' = [pc EXCEPT ![c] = "clear"]
      /\ cop' = [cop EXCEPT ![c] = Head(freeQ)]
      /\ UNCHANGED <<activeQ, opVars, threadVars, served>>
  BY DEF GetFreeOp, Goto
<1>3. pc'[c] = "clear" /\ creq'[c] = r
      /\ \A d \in Clients \ {c} : pc'[d] = pc[d] /\ cop'[d] = cop[d] /\ creq'[d] = creq[d]
  BY <1>1, <1>2 DEF OpInv, TypeOK
<1>4. CarriesInv'
  BY <1>2, <1>3 DEF CarriesInv, ThreadRefers, Filled, opVars, threadVars
<1>5. CallsInv'
  BY <1>1, <1>2, <1>3 DEF CallsInv, Preparing
<1>6. Unsent' = Unsent
  <2>1. {d \in Clients : pc'[d] \in Preparing}
          = {d \in Clients : pc[d] \in Preparing} \cup {c}
    BY <1>3 DEF Preparing
  <2>2. c \notin {d \in Clients : pc[d] \in Preparing}
    BY <1>2 DEF Preparing
  <2>3. {creq'[e] : e \in {d \in Clients : pc'[d] \in Preparing}}
          = {creq[e] : e \in {d \in Clients : pc[d] \in Preparing}} \cup {r}
    BY <1>3, <2>1, <2>2
  <2>4. Unsent' = fresh' \cup {creq'[e] : e \in {d \in Clients : pc'[d] \in Preparing}}
    BY DEF Unsent, Preparing
  <2> QED  BY <1>1, <2>3, <2>4, UnsentIs
<1>7. UNCHANGED <<PendingOf, RunningOf, served>>
  BY <1>2 DEF PendingOf, RunningOf, opVars, threadVars
<1> QED  BY <1>4, <1>5, <1>6, <1>7 DEF Simulates, RQ!rqVars, PendingOf, RunningOf

(* A call that finds no op is turned down.                                 *)
LEMMA NoFreeOpOrder ==
  ASSUME OrderInv, NEW c \in Clients, NoFreeOp(c)
  PROVE  Simulates
<1> USE DEF OrderInv
<1>1. PICK r \in fresh : fresh' = fresh \ {r}
  BY DEF NoFreeOp
<1>2. UNCHANGED <<activeQ, opVars, clientVars, threadVars, served>>
  BY DEF NoFreeOp, queueVars
<1>3. CarriesInv'
  BY <1>2 DEF CarriesInv, ThreadRefers, opVars, clientVars, threadVars
<1>4. CallsInv'
  BY <1>1, <1>2 DEF CallsInv, clientVars
<1>5. r \in Unsent /\ Unsent' = Unsent \ {r} /\ r \in Requests
  <2>1. r \notin {creq[e] : e \in {d \in Clients : pc[d] \in Preparing}}
    BY <1>1 DEF CallsInv
  <2>2. Unsent' = fresh' \cup {creq[e] : e \in {d \in Clients : pc[d] \in Preparing}}
    BY <1>2 DEF Unsent, Preparing, clientVars
  <2> QED  BY <1>1, <2>1, <2>2, UnsentIs DEF OpInv, TypeOK
<1>6. UNCHANGED <<PendingOf, RunningOf, served>>
  BY <1>2 DEF PendingOf, RunningOf, opVars, threadVars
<1>7. RQ!Reject(r)
  BY <1>5, <1>6 DEF RQ!Reject, PendingOf, RunningOf
<1> QED  BY <1>3, <1>4, <1>5, <1>7 DEF Simulates, RQ!Next

(* An op in preparation is neither queued nor run: writing to it, by the   *)
(* memset or by filling it in, changes no request on its way.              *)
LEMMA WriteOpOrder ==
  ASSUME OrderInv, NEW c \in Clients, ClearOp(c) \/ FillOp(c)
  PROVE  Simulates
<1> USE DEF OrderInv
<1> DEFINE o0 == cop[c]
<1>1. /\ o0 \in Ops /\ Owns(c, o0) /\ pc[c] \in {"clear", "fill"}
      /\ UNCHANGED <<activeQ, cop, creq, threadVars, fresh, served>>
      /\ \A o \in Ops \ {o0} : opReq'[o] = opReq[o]
      /\ \A d \in Clients \ {c} : pc'[d] = pc[d]
      /\ \/ pc[c] = "clear" /\ pc'[c] = "fill"
         \/ pc'[c] = "arm" /\ opReq'[o0] = creq[c]
  BY DEF ClearOp, FillOp, Goto, OpInv, TypeOK, Owns, Alone, queueVars, historyVars
<1>2. /\ ~ThreadRefers(o0)
      /\ \A d \in Clients \ {c} : ~Owns(d, o0)
  BY <1>1 DEF OpInv, HolderInv, OneHolder
<1>3. \A d \in Clients \ {c} : pc[d] \in Filled => cop[d] \in Ops \ {o0}
  BY <1>2 DEF OpInv, TypeOK, Owns, Alone, Filled
<1>4. CarriesInv'
  BY <1>1, <1>2, <1>3 DEF CarriesInv, ThreadRefers, Filled, threadVars
<1>5. CallsInv'
  BY <1>1 DEF CallsInv, Preparing
<1>6. Unsent' = Unsent
  <2>1. {d \in Clients : pc'[d] \in Preparing} = {d \in Clients : pc[d] \in Preparing}
    BY <1>1 DEF Preparing
  <2> QED  BY <1>1, <2>1 DEF Unsent, Preparing
<1>7. PendingOf' = PendingOf
  <2>1. \A i \in DOMAIN activeQ : activeQ[i] \in Ops \ {o0}
    BY <1>2 DEF ThreadRefers, Range, OpInv, TypeOK
  <2> QED  BY <1>1, <2>1 DEF PendingOf
<1>8. RunningOf' = RunningOf /\ served' = served
  BY <1>1, <1>2 DEF RunningOf, ThreadRefers, OpInv, TypeOK, threadVars
<1> QED  BY <1>4, <1>5, <1>6, <1>7, <1>8 DEF Simulates, RQ!rqVars, PendingOf, RunningOf

(* Every queued op carries a request.                                      *)
LEMMA QueuedCarry ==
  ASSUME OrderInv
  PROVE  \A i \in 1..Len(activeQ) : opReq[activeQ[i]] \in Requests
BY DEF OrderInv, OpInv, TypeOK, CarriesInv, ThreadRefers, Range

(* Queueing an op submits its request: there is room (PutNeverFails).      *)
LEMMA PutActiveOrder ==
  ASSUME OrderInv, NEW c \in Clients, PutActive(c)
  PROVE  Simulates
<1> USE DEF OrderInv
<1> DEFINE o0 == cop[c]
<1>0. PICK r : r = creq[c]
  OBVIOUS
<1>1. /\ o0 \in Ops /\ r \in Requests /\ pc[c] = "put" /\ opReq[o0] = r
      /\ activeQ \in Seq(Ops)
  BY <1>0 DEF PutActive, OpInv, TypeOK, CarriesInv, Filled
<1>2. Len(activeQ) < QSize
  BY <1>1, OpInvImplies DEF PutNeverFails
<1>3. /\ activeQ' = Append(activeQ, o0) /\ pc' = [pc EXCEPT ![c] = "posted"]
      /\ UNCHANGED <<opReq, cop, creq, threadVars, fresh, served>>
  BY <1>2 DEF PutActive, Put, Goto
<1>4. pc'[c] = "posted" /\ \A d \in Clients \ {c} : pc'[d] = pc[d]
  BY <1>3 DEF OpInv, TypeOK
<1>5. CarriesInv'
  <2>1. \A o \in Ops : ThreadRefers(o)' => ThreadRefers(o) \/ o = o0
    BY <1>1, <1>3, AppendDistinct DEF ThreadRefers, threadVars
  <2> QED  BY <1>0, <1>1, <1>3, <1>4, <2>1 DEF CarriesInv, Filled
<1>6. CallsInv'
  BY <1>3, <1>4 DEF CallsInv, Preparing
<1>7. r \in Unsent /\ Unsent' = Unsent \ {r}
  <2> DEFINE P == {d \in Clients : pc[d] \in Preparing}
  <2>1. c \in P /\ {d \in Clients : pc'[d] \in Preparing} = P \ {c}
    BY <1>1, <1>4 DEF Preparing
  <2>2. r \notin fresh /\ \A d \in P \ {c} : creq[d] # r
    BY <1>0, <1>1 DEF CallsInv, Preparing
  <2>3. Unsent' = fresh \cup {creq[e] : e \in P \ {c}}
    BY <1>3, <2>1 DEF Unsent, Preparing
  <2>4. Unsent = fresh \cup {creq[e] : e \in P}
    BY UnsentIs
  <2> QED  BY <1>0, <2>1, <2>2, <2>3, <2>4
<1>8. PendingOf' = Append(PendingOf, r)
  <2>1. \A i \in 1..Len(activeQ) : opReq[activeQ[i]] \in Requests
    BY <1>1, QueuedCarry
  <2> QED  BY <1>1, <1>3, <2>1, MapAppend DEF PendingOf
<1>9. UNCHANGED <<RunningOf, served>>
  BY <1>3 DEF RunningOf, threadVars
<1>10. RQ!Submit(r)
  BY <1>7, <1>8, <1>9 DEF RQ!Submit, PendingOf, RunningOf
<1> QED  BY <1>1, <1>5, <1>6, <1>10 DEF Simulates, RQ!Next
-----------------------------------------------------------------------------
(* The thread starts with the request at the head of the queue.            *)
LEMMA GetActiveOpOrder ==
  ASSUME OrderInv, GetActiveOp
  PROVE  Simulates
<1> USE DEF OrderInv
<1> DEFINE o0 == Head(activeQ)
<1>1. /\ activeQ \in Seq(Ops) /\ activeQ # <<>> /\ activeQ' = Tail(activeQ)
      /\ tpc = "idle" /\ tpc' = "got" /\ top' = o0
      /\ UNCHANGED <<opReq, clientVars, fresh, served>>
  BY DEF GetActiveOp, OpInv, TypeOK, opVars, historyVars
<1>2. /\ o0 \in Ops /\ o0 \in Range(activeQ)
      /\ Range(activeQ') = Range(activeQ) \ {o0}
  BY <1>1, TailDistinct DEF OpInv, HolderInv
<1>3. CarriesInv'
  BY <1>1, <1>2 DEF CarriesInv, ThreadRefers, clientVars
<1>4. CallsInv' /\ Unsent' = Unsent
  BY <1>1 DEF CallsInv, Unsent, clientVars
<1>5. opReq[o0] \in Requests
  BY <1>2 DEF CarriesInv, ThreadRefers
<1>6. PendingOf # <<>> /\ Head(PendingOf) = opReq[o0] /\ PendingOf' = Tail(PendingOf)
  <2>1. \A i \in 1..Len(activeQ) : opReq[activeQ[i]] \in Requests
    BY <1>1, QueuedCarry
  <2> QED  BY <1>1, <2>1, MapTail DEF PendingOf
<1>7. RunningOf = NoReq /\ RunningOf' = opReq[o0] /\ served' = served
  BY <1>1 DEF RunningOf
<1>8. RQ!Start
  BY <1>4, <1>6, <1>7 DEF RQ!Start, PendingOf, RunningOf
<1> QED  BY <1>3, <1>4, <1>8 DEF Simulates, RQ!Next

(* Running the handler finishes the request the op carries.                *)
LEMMA HandleOrder ==
  ASSUME OrderInv, Handle
  PROVE  Simulates
<1> USE DEF OrderInv
<1>1. /\ tpc = "run" /\ tpc' = "ran" /\ top' = top /\ top \in Ops
      /\ served' = Append(served, opReq[top])
      /\ UNCHANGED <<activeQ, opReq, clientVars, fresh>>
  BY DEF Handle, OpInv, TypeOK, queueVars, opVars
<1>2. CarriesInv'
  BY <1>1 DEF CarriesInv, ThreadRefers, clientVars
<1>3. CallsInv' /\ Unsent' = Unsent
  BY <1>1 DEF CallsInv, Unsent, clientVars
<1>4. RunningOf = opReq[top] /\ RunningOf' = NoReq /\ PendingOf' = PendingOf
  BY <1>1 DEF RunningOf, PendingOf
<1>5. opReq[top] # NoReq
  BY <1>1, MsgThreadAssumption DEF CarriesInv, ThreadRefers
<1>6. RQ!Finish
  BY <1>1, <1>3, <1>4, <1>5 DEF RQ!Finish, PendingOf, RunningOf
<1> QED  BY <1>2, <1>3, <1>6 DEF Simulates, RQ!Next

(* The rest of the thread's loop changes nothing in RequestQueue.          *)
LEMMA ThreadQuietOrder ==
  ASSUME OrderInv,
         \/ SetCurOp \/ ClearCurOp \/ DropThreadRef \/ CheckTimed
         \/ SetResult \/ RaiseSignal \/ ThreadFreeOp
  PROVE  Simulates
<1> USE DEF OrderInv
<1>1. /\ UNCHANGED <<activeQ, opReq, clientVars, fresh, served>>
      /\ \/ tpc = "got" /\ tpc' = "run" /\ top' = top
         \/ tpc \notin {"got", "run"} /\ tpc' \notin {"got", "run"}
      /\ tpc' \in {"got", "run", "ran", "dec"} =>
           tpc \in {"got", "run", "ran", "dec"} /\ top' = top
  BY DEF SetCurOp, ClearCurOp, DropThreadRef, CheckTimed, SetResult, RaiseSignal,
         ThreadFreeOp, LoopAgain, queueVars, opVars, clientVars, historyVars
<1>2. CarriesInv'
  BY <1>1 DEF CarriesInv, ThreadRefers, clientVars
<1>3. CallsInv' /\ Unsent' = Unsent
  BY <1>1 DEF CallsInv, Unsent, clientVars
<1>4. UNCHANGED <<RunningOf, PendingOf, served>>
  BY <1>1 DEF RunningOf, PendingOf
<1> QED  BY <1>2, <1>3, <1>4 DEF Simulates, RQ!rqVars, PendingOf, RunningOf

(* Doing nothing changes nothing.                                          *)
LEMMA StutterOrder ==
  ASSUME OrderInv, UNCHANGED vars
  PROVE  Simulates
BY KeepsCallsStep DEF KeepsCalls, vars, queueVars, opVars, clientVars, historyVars,
   Preparing, Filled
-----------------------------------------------------------------------------
(* Every step is a step of RequestQueue or changes nothing there.          *)
LEMMA OrderStep ==
  UniformCalls /\ OrderInv /\ [Next]_vars => OrderInv' /\ [RQ!Next]_(RQ!rqVars)
<1> SUFFICES ASSUME UniformCalls, OrderInv, [Next]_vars
             PROVE  OrderInv' /\ [RQ!Next]_(RQ!rqVars)
  OBVIOUS
<1>1. OpInv'
  BY OpStep DEF OrderInv
<1>2. ASSUME NEW c \in Clients, Call(c) \/ ClientStep(c) \/ WaitTimeout(c)
      PROVE  Simulates
  BY <1>2, GetFreeOpOrder, NoFreeOpOrder, WriteOpOrder, PutActiveOrder, CallerKeeps,
     KeepsCallsStep
  DEF Call, ClientStep
<1>3. ASSUME ThreadStep PROVE Simulates
  BY <1>3, GetActiveOpOrder, HandleOrder, ThreadQuietOrder DEF ThreadStep
<1>4. ASSUME Quiescent \/ UNCHANGED vars PROVE Simulates
  BY <1>4, StutterOrder DEF Quiescent
<1>5. Simulates
  BY <1>2, <1>3, <1>4 DEF Next
<1> QED  BY <1>1, <1>5 DEF Simulates, OrderInv

(* Requests are served in the order in which they were queued, each once,  *)
(* whatever calls time out and however op buffers are reused.              *)
THEOREM RequestsInOrder == UniformCalls => (Spec => ServesInOrder)
<1> SUFFICES ASSUME UniformCalls PROVE Spec => ServesInOrder
  OBVIOUS
<1>1. Init => OrderInv /\ RQ!Init
  BY OrderInit
<1>2. OrderInv /\ [Next]_vars => OrderInv' /\ [RQ!Next]_(RQ!rqVars)
  BY OrderStep
<1> QED  BY <1>1, <1>2, PTL DEF Spec, ServesInOrder, RQ!Spec
-----------------------------------------------------------------------------
(* A caller that is woken reads its own result, as long as none timed out. *)

(* The call's outcome is open until its caller reads the result.           *)
Awaiting == {"posted", "wait", "log", "read"}
Open == Preparing \cup Awaiting

(* Each open request belongs to one call.                                  *)
OpenInv ==
  /\ \A r \in fresh : status[r] = "fresh"
  /\ \A c \in Clients : pc[c] \in Open => creq[c] \notin fresh /\ status[creq[c]] = "open"
  /\ \A c, d \in Clients : pc[c] \in Open /\ pc[d] \in Open /\ creq[c] = creq[d] => c = d

NoneTimedOut == \A r \in Requests : status[r] # "timedout"

(* What a caller has written into its op and its locals.                   *)
PostInv ==
  \A c \in Clients :
    /\ pc[c] \in Filled \cup Awaiting => opReq[cop[c]] = creq[c]
    /\ pc[c] \in Open \ {"read"} => ~woken[c]

(* The thread has the op: it is queued, or being worked on until the       *)
(* completion is raised.                                                   *)
Serving(o) == o \in Range(activeQ) \/ (tpc # "idle" /\ top = o)
Awaits(c, o) == pc[c] \in Awaiting /\ cop[c] = o /\ ~woken[c]

(* While none has timed out, an op the thread has is awaited by its caller *)
(* and not completed; one that the thread is done with holds the answer.   *)
AnswerInv ==
  /\ \A o \in Ops : Serving(o) => done[o] = 0 /\ \E c \in Clients : Awaits(c, o)
  /\ tpc # "idle" => top \notin Range(activeQ)
  /\ tpc \in {"ran", "dec", "check", "result", "raise"} => tret = opReq[top]
  /\ tpc = "raise" => result[top] = tret
  /\ \A c \in Clients : pc[c] \in Awaiting /\ ~Serving(cop[c]) => result[cop[c]] = creq[c]
  /\ \A c \in Clients : pc[c] \in {"ref", "put"} => done[cop[c]] = 0
  /\ \A r \in Requests : status[r] = "answered" => answer[r] = r

ReadInv == OpInv /\ OpenInv /\ PostInv /\ (NoneTimedOut => AnswerInv)

(* Steps that touch neither the requests to come nor what became of them.  *)
LEMMA OpenFrame ==
  ASSUME OpenInv, UNCHANGED <<fresh, status>>,
         \A d \in Clients : pc'[d] \in Open => pc[d] \in Open /\ creq'[d] = creq[d]
  PROVE  OpenInv' /\ (NoneTimedOut' => NoneTimedOut)
BY DEF OpenInv, NoneTimedOut

(* The outcome of one call is fixed, and the call is no longer open.       *)
LEMMA OpenSettles ==
  ASSUME TypeOK, OpenInv, NEW c \in Clients, pc[c] \in Open, NEW v \in Statuses,
         UNCHANGED <<fresh, creq>>, status' = [status EXCEPT ![creq[c]] = v],
         pc' = [pc EXCEPT ![c] = "final"]
  PROVE  OpenInv' /\ (NoneTimedOut' => NoneTimedOut)
<1>1. creq[c] \in Requests /\ status \in [Requests -> Statuses] /\ creq[c] \notin fresh
      /\ status[creq[c]] = "open"
  BY DEF TypeOK, OpenInv, Open, Preparing, Awaiting
<1>2. /\ \A r \in Requests : r # creq[c] => status'[r] = status[r]
      /\ pc'[c] = "final" /\ \A d \in Clients : d # c => pc'[d] = pc[d]
  BY <1>1 DEF TypeOK
<1>3. \A d \in Clients : pc'[d] \in Open => d # c /\ pc[d] \in Open
  BY <1>2 DEF Open, Preparing, Awaiting
<1>4. \A d \in Clients : pc'[d] \in Open => creq[d] \in Requests /\ creq[d] # creq[c]
  BY <1>3 DEF OpenInv, TypeOK, Open, Preparing, Awaiting
<1>5. OpenInv'
  BY <1>1, <1>2, <1>3, <1>4 DEF OpenInv, TypeOK
<1>6. ASSUME NoneTimedOut' PROVE NoneTimedOut
  BY <1>1, <1>2, <1>6 DEF NoneTimedOut
<1> QED  BY <1>5, <1>6

(* A request stays with its call, and a call that timed out is remembered. *)
LEMMA OpenStep ==
  TypeOK /\ OpenInv /\ [Next]_vars => OpenInv' /\ (NoneTimedOut' => NoneTimedOut)
<1> SUFFICES ASSUME TypeOK, OpenInv, [Next]_vars
             PROVE  OpenInv' /\ (NoneTimedOut' => NoneTimedOut)
  OBVIOUS
<1>1. ASSUME NEW c \in Clients, GetFreeOp(c) PROVE OpenInv' /\ (NoneTimedOut' => NoneTimedOut)
  <2>1. PICK r \in fresh : /\ fresh' = fresh \ {r} /\ creq' = [creq EXCEPT ![c] = r]
                           /\ status' = [status EXCEPT ![r] = "open"]
    BY <1>1 DEF GetFreeOp
  <2>2. pc[c] = "idle" /\ pc' = [pc EXCEPT ![c] = "clear"]
    BY <1>1 DEF GetFreeOp, Goto
  <2>3. r \in Requests /\ status[r] = "fresh"
    BY DEF OpenInv, TypeOK
  <2>4. /\ creq'[c] = r /\ status'[r] = "open" /\ pc'[c] = "clear"
        /\ \A d \in Clients : d # c => creq'[d] = creq[d] /\ pc'[d] = pc[d]
        /\ \A s \in Requests : s # r => status'[s] = status[s]
    BY <2>1, <2>2, <2>3 DEF TypeOK
  <2>5. \A d \in Clients : pc[d] \in Open => creq[d] \in Requests
    BY DEF TypeOK, Open, Preparing, Awaiting
  <2>6. fresh \subseteq Requests
    BY DEF TypeOK
  <2>7. OpenInv'
    BY <2>1, <2>2, <2>3, <2>4, <2>5, <2>6 DEF OpenInv
  <2>8. NoneTimedOut' => NoneTimedOut
    BY <2>3, <2>4 DEF NoneTimedOut
  <2> QED  BY <2>7, <2>8
<1>2. ASSUME NEW c \in Clients, NoFreeOp(c) PROVE OpenInv' /\ (NoneTimedOut' => NoneTimedOut)
  <2>1. PICK r \in fresh : fresh' = fresh \ {r} /\ status' = [status EXCEPT ![r] = "rejected"]
    BY <1>2 DEF NoFreeOp
  <2>2. UNCHANGED <<pc, creq>>
    BY <1>2 DEF NoFreeOp, clientVars
  <2>3. r \in Requests /\ status[r] = "fresh"
    BY DEF OpenInv, TypeOK
  <2>4. \A s \in Requests : s # r => status'[s] = status[s]
    BY <2>1, <2>3 DEF TypeOK
  <2>5. \A d \in Clients : pc[d] \in Open => creq[d] \in Requests /\ creq[d] # r
    BY DEF OpenInv, TypeOK, Open, Preparing, Awaiting
  <2>6. fresh \subseteq Requests
    BY DEF TypeOK
  <2>7. OpenInv'
    BY <2>1, <2>2, <2>4, <2>5, <2>6 DEF OpenInv
  <2>8. NoneTimedOut' => NoneTimedOut
    BY <2>3, <2>4 DEF NoneTimedOut
  <2> QED  BY <2>7, <2>8
<1>3. ASSUME NEW c \in Clients, PutActive(c) PROVE OpenInv' /\ (NoneTimedOut' => NoneTimedOut)
  <2>1. CASE Len(activeQ) < QSize
    BY <1>3, <2>1, OpenFrame DEF PutActive, Goto, TypeOK, Open, Preparing, Awaiting
  <2>2. CASE ~(Len(activeQ) < QSize)
    <3>1. /\ pc[c] \in Open /\ UNCHANGED <<fresh, creq>>
          /\ status' = [status EXCEPT ![creq[c]] = "rejected"]
          /\ pc' = [pc EXCEPT ![c] = "final"]
      BY <1>3, <2>2 DEF PutActive, Goto, Open, Preparing
    <3>2. "rejected" \in Statuses
      BY DEF Statuses
    <3> QED  BY <3>1, <3>2, OpenSettles
  <2> QED  BY <2>1, <2>2
<1>4. ASSUME NEW c \in Clients, CheckWait(c) PROVE OpenInv' /\ (NoneTimedOut' => NoneTimedOut)
  <2>1. CASE timed[cop[c]]
    BY <1>4, <2>1, OpenFrame DEF CheckWait, Goto, TypeOK, Open, Preparing, Awaiting
  <2>2. CASE ~timed[cop[c]]
    <3>1. /\ pc[c] \in Open /\ UNCHANGED <<fresh, creq>>
          /\ status' = [status EXCEPT ![creq[c]] = "posted"]
          /\ pc' = [pc EXCEPT ![c] = "final"]
      BY <1>4, <2>2 DEF CheckWait, Goto, Open, Awaiting
    <3>2. "posted" \in Statuses
      BY DEF Statuses
    <3> QED  BY <3>1, <3>2, OpenSettles
  <2> QED  BY <2>1, <2>2
<1>5. ASSUME NEW c \in Clients, ReadResult(c) PROVE OpenInv' /\ (NoneTimedOut' => NoneTimedOut)
  <2> DEFINE v == IF woken[c] THEN "answered" ELSE "timedout"
  <2>1. /\ pc[c] \in Open /\ UNCHANGED <<fresh, creq>>
        /\ status' = [status EXCEPT ![creq[c]] = v]
        /\ pc' = [pc EXCEPT ![c] = "final"]
    BY <1>5 DEF ReadResult, Goto, Open, Awaiting
  <2>2. v \in Statuses
    BY DEF Statuses
  <2> HIDE DEF v
  <2> QED  BY <2>1, <2>2, OpenSettles
<1>6. ASSUME NEW c \in Clients,
             \/ ClearOp(c) \/ FillOp(c) \/ ArmOp(c) \/ TakeThreadRef(c) \/ WaitDone(c)
             \/ WaitTimeout(c) \/ LogTimeout(c) \/ DropClientRef(c) \/ ClientFreeOp(c)
      PROVE  OpenInv' /\ (NoneTimedOut' => NoneTimedOut)
  <2>1. UNCHANGED <<fresh, status>>
    BY <1>6 DEF ClearOp, FillOp, ArmOp, TakeThreadRef, WaitDone, WaitTimeout, LogTimeout,
       DropClientRef, ClientFreeOp, historyVars
  <2>2. \A d \in Clients : pc'[d] \in Open => pc[d] \in Open /\ creq'[d] = creq[d]
    <3> USE DEF TypeOK, Goto, Return, Open, Preparing, Awaiting
    <3>1. CASE ClearOp(c)        BY <3>1 DEF ClearOp
    <3>2. CASE FillOp(c)         BY <3>2 DEF FillOp
    <3>3. CASE ArmOp(c)          BY <3>3 DEF ArmOp
    <3>4. CASE TakeThreadRef(c)  BY <3>4 DEF TakeThreadRef
    <3>5. CASE WaitDone(c)       BY <3>5 DEF WaitDone
    <3>6. CASE WaitTimeout(c)    BY <3>6 DEF WaitTimeout, clientVars
    <3>7. CASE LogTimeout(c)     BY <3>7 DEF LogTimeout
    <3>8. CASE DropClientRef(c)  BY <3>8 DEF DropClientRef
    <3>9. CASE ClientFreeOp(c)   BY <3>9 DEF ClientFreeOp
    <3> QED  BY <1>6, <3>1, <3>2, <3>3, <3>4, <3>5, <3>6, <3>7, <3>8, <3>9
  <2> QED  BY <2>1, <2>2, OpenFrame
<1>7. ASSUME ThreadStep \/ UNCHANGED vars PROVE OpenInv' /\ (NoneTimedOut' => NoneTimedOut)
  <2>1. UNCHANGED <<fresh, status, clientVars>>
    BY <1>7 DEF ThreadStep, GetActiveOp, SetCurOp, Handle, ClearCurOp, DropThreadRef,
       CheckTimed, SetResult, RaiseSignal, ThreadFreeOp, historyVars, vars
  <2> QED  BY <2>1, OpenFrame DEF clientVars
<1> QED
  BY <1>1, <1>2, <1>3, <1>4, <1>5, <1>6, <1>7 DEF Next, Call, ClientStep, Quiescent

(* A caller that has an op for itself shares it with no other caller.      *)
LEMMA HoldersApart ==
  ASSUME Kinds = {"wait"}, OpInv, NEW c \in Clients, NEW o, Owns(c, o)
  PROVE  /\ o \in Ops /\ o = cop[c]
         /\ \A d \in Clients \ {c} : pc[d] \in Alone \cup Sharing => cop[d] # o
         /\ ~ThreadRefers(o) /\ ~ThreadOwns(o)
<1>1. o \in Ops /\ o = cop[c]
  BY DEF OpInv, TypeOK, Owns, Alone
<1>2. ~ThreadRefers(o) /\ ~ThreadOwns(o)
      /\ \A d \in Clients \ {c} : ~Owns(d, o) /\ ~Refers(d, o)
  BY <1>1 DEF OpInv, HolderInv, OneHolder
<1>3. \A d \in Clients : pc[d] \in Sharing => ckind[d] = "wait"
  BY DEF OpInv, TimedRight, Sharing
<1> QED  BY <1>1, <1>2, <1>3 DEF Owns, Refers

(* A waiting caller shares its op with no other caller.                    *)
LEMMA WaitersApart ==
  ASSUME Kinds = {"wait"}, OpInv, NEW c \in Clients, pc[c] \in Sharing
  PROVE  /\ cop[c] \in Ops /\ Refers(c, cop[c]) /\ timed[cop[c]]
         /\ \A d \in Clients \ {c} : pc[d] \in Alone \cup Sharing => cop[d] # cop[c]
         /\ ~ThreadOwns(cop[c])
<1>1. cop[c] \in Ops
  BY DEF OpInv, TypeOK, Sharing
<1>2. \A d \in Clients : pc[d] \in Sharing => ckind[d] = "wait"
  BY DEF OpInv, TimedRight, Sharing
<1>3. Refers(c, cop[c])
  BY <1>2 DEF Refers
<1>4. ~ThreadOwns(cop[c]) /\ \A d \in Clients \ {c} : ~Refers(d, cop[c]) /\ ~Owns(d, cop[c])
  BY <1>1, <1>3 DEF OpInv, HolderInv, OneHolder
<1>5. timed[cop[c]]
  BY <1>2 DEF OpInv, TimedRight, Sharing
<1> QED  BY <1>1, <1>2, <1>3, <1>4, <1>5 DEF Owns, Refers

(* Steps that keep what the callers have written.                          *)
LEMMA PostFrame ==
  ASSUME PostInv,
         \A d \in Clients :
           /\ pc'[d] \in Filled \cup Awaiting =>
                /\ pc[d] \in Filled \cup Awaiting
                /\ cop'[d] = cop[d] /\ creq'[d] = creq[d] /\ opReq'[cop[d]] = opReq[cop[d]]
           /\ pc'[d] \in Open \ {"read"} => pc[d] \in Open \ {"read"} /\ woken'[d] = woken[d]
  PROVE  PostInv'
BY DEF PostInv

(* Every step keeps what the callers have written.                         *)
LEMMA PostStep ==
  ASSUME Kinds = {"wait"}, OpInv, PostInv, [Next]_vars
  PROVE  PostInv'
<1>1. TypeOK
  BY DEF OpInv
<1>2. ASSUME NEW c \in Clients, GetFreeOp(c) \/ NoFreeOp(c) PROVE PostInv'
  <2>1. CASE GetFreeOp(c)
    <3>1. /\ pc' = [pc EXCEPT ![c] = "clear"] /\ woken' = [woken EXCEPT ![c] = FALSE]
          /\ opReq' = opReq
          /\ \A d \in Clients \ {c} : cop'[d] = cop[d] /\ creq'[d] = creq[d]
      BY <1>1, <2>1 DEF GetFreeOp, Goto, opVars, TypeOK
    <3>2. pc'[c] = "clear" /\ woken'[c] = FALSE
      BY <1>1, <3>1 DEF TypeOK
    <3>3. \A d \in Clients \ {c} : pc'[d] = pc[d] /\ woken'[d] = woken[d]
      BY <1>1, <3>1 DEF TypeOK
    <3> QED  BY <3>1, <3>2, <3>3 DEF PostInv, Filled, Awaiting
  <2>2. CASE NoFreeOp(c)
    BY <2>2 DEF NoFreeOp, PostInv, clientVars, opVars
  <2> QED  BY <1>2, <2>1, <2>2
<1>3. ASSUME NEW c \in Clients, ClearOp(c) \/ FillOp(c) PROVE PostInv'
  <2>1. Owns(c, cop[c])
    BY <1>3 DEF ClearOp, FillOp, Owns, Alone
  <2>2. /\ cop[c] \in Ops
        /\ \A d \in Clients \ {c} : pc[d] \in Alone \cup Sharing => cop[d] # cop[c]
    BY <2>1, HoldersApart
  <2>3. /\ UNCHANGED <<cop, creq, woken>>
        /\ opReq' = [opReq EXCEPT ![cop[c]] = IF ClearOp(c) THEN NoReq ELSE creq[c]]
        /\ pc' = [pc EXCEPT ![c] = IF ClearOp(c) THEN "fill" ELSE "arm"]
        /\ pc[c] \in {"clear", "fill"}
    BY <1>3 DEF ClearOp, FillOp, Goto
  <2>4. \A d \in Clients \ {c} : pc'[d] = pc[d] /\ (pc[d] \in Alone \cup Sharing => opReq'[cop[d]] = opReq[cop[d]])
    <3>1. \A o \in Ops : o # cop[c] => opReq'[o] = opReq[o]
      BY <1>1, <2>3 DEF TypeOK
    <3>2. \A d \in Clients : pc[d] \in Alone \cup Sharing => cop[d] \in Ops
      BY <1>1 DEF TypeOK, Alone, Sharing
    <3> QED  BY <1>1, <2>2, <2>3, <3>1, <3>2 DEF TypeOK
  <2>5. ~woken[c]
    BY <2>3 DEF PostInv, Open, Preparing
  <2>6. CASE ClearOp(c)
    <3>1. pc'[c] = "fill"
      BY <1>1, <2>3, <2>6 DEF TypeOK
    <3> QED
      BY <2>3, <2>4, <2>5, <3>1 DEF PostInv, Filled, Awaiting, Alone, Sharing, Open, Preparing
  <2>7. CASE ~ClearOp(c)
    <3>1. pc'[c] = "arm" /\ opReq'[cop[c]] = creq[c]
      BY <1>1, <2>2, <2>3, <2>7 DEF TypeOK
    <3> QED
      BY <2>3, <2>4, <2>5, <3>1 DEF PostInv, Filled, Awaiting, Alone, Sharing, Open, Preparing
  <2> QED  BY <2>6, <2>7
<1>4. ASSUME NEW c \in Clients,
             \/ ArmOp(c) \/ TakeThreadRef(c) \/ PutActive(c) \/ CheckWait(c) \/ WaitDone(c)
             \/ WaitTimeout(c) \/ LogTimeout(c) \/ ReadResult(c) \/ DropClientRef(c)
             \/ ClientFreeOp(c)
      PROVE  PostInv'
  <2> USE <1>1, PostFrame DEF TypeOK, Goto, Return, Open, Preparing, Filled, Awaiting, opVars,
          clientVars
  <2>1. CASE ArmOp(c)          BY <2>1 DEF ArmOp
  <2>2. CASE TakeThreadRef(c)  BY <2>2 DEF TakeThreadRef
  <2>3. CASE PutActive(c)      BY <2>3 DEF PutActive
  <2>4. CASE CheckWait(c)      BY <2>4 DEF CheckWait
  <2>5. CASE WaitDone(c)       BY <2>5 DEF WaitDone
  <2>6. CASE WaitTimeout(c)    BY <2>6 DEF WaitTimeout
  <2>7. CASE LogTimeout(c)     BY <2>7 DEF LogTimeout
  <2>8. CASE ReadResult(c)     BY <2>8 DEF ReadResult
  <2>9. CASE DropClientRef(c)  BY <2>9 DEF DropClientRef
  <2>10. CASE ClientFreeOp(c)  BY <2>10 DEF ClientFreeOp
  <2> QED  BY <1>4, <2>1, <2>2, <2>3, <2>4, <2>5, <2>6, <2>7, <2>8, <2>9, <2>10
<1>5. ASSUME ThreadStep \/ UNCHANGED vars PROVE PostInv'
  <2>1. UNCHANGED <<opReq, clientVars>>
    BY <1>5 DEF ThreadStep, GetActiveOp, SetCurOp, Handle, ClearCurOp, DropThreadRef,
       CheckTimed, SetResult, RaiseSignal, ThreadFreeOp, opVars, vars
  <2> QED  BY <2>1, PostFrame DEF clientVars
<1> QED
  BY <1>2, <1>3, <1>4, <1>5 DEF Next, Call, ClientStep, Quiescent

(* An op that a caller has for itself is not with the thread.              *)
LEMMA OwnedNotServed ==
  ASSUME Kinds = {"wait"}, OpInv, AnswerInv, NEW c \in Clients, NEW o, Owns(c, o)
  PROVE  ~Serving(o)
<1> SUFFICES ASSUME Serving(o) PROVE FALSE
  OBVIOUS
<1>1. /\ o \in Ops /\ o = cop[c]
      /\ \A d \in Clients \ {c} : pc[d] \in Alone \cup Sharing => cop[d] # o
  BY HoldersApart
<1>2. PICK d \in Clients : Awaits(d, o)
  BY <1>1 DEF AnswerInv
<1>3. d # c
  BY <1>2 DEF Owns, Awaits, Alone, Awaiting
<1> QED  BY <1>1, <1>2, <1>3 DEF Awaits, Awaiting, Sharing

(* A caller that does not wait writes only to an op that it alone has.     *)
LEMMA AnswerFrame ==
  ASSUME Kinds = {"wait"}, OpInv, AnswerInv, NEW c \in Clients,
         UNCHANGED <<activeQ, tpc, top, tret, answer>>,
         pc[c] \notin Awaiting, pc'[c] \notin Awaiting,
         \A d \in Clients \ {c} : /\ pc'[d] = pc[d] /\ cop'[d] = cop[d]
                                  /\ creq'[d] = creq[d] /\ woken'[d] = woken[d],
         \A o \in Ops : ~Owns(c, o) =>
           opReq'[o] = opReq[o] /\ done'[o] = done[o] /\ result'[o] = result[o],
         \A r \in Requests : status'[r] = "answered" => status[r] = "answered",
         pc'[c] \in {"ref", "put"} => done'[cop'[c]] = 0
  PROVE  AnswerInv'
<1>1. \A o \in Ops : (Serving(o)' <=> Serving(o)) /\ (Serving(o) => ~Owns(c, o))
  BY OwnedNotServed DEF Serving
<1>2. \A o \in Ops, d \in Clients : Awaits(d, o) => Awaits(d, o)'
  BY DEF Awaits
<1>3. tpc # "idle" => top \in Ops /\ Serving(top)
  BY DEF OpInv, TypeOK, Serving
<1>4. \A d \in Clients : pc[d] \in Awaiting \cup {"ref", "put"} => cop[d] \in Ops
  BY DEF OpInv, TypeOK, Awaiting
<1>5. \A d \in Clients \ {c} : pc[d] \in Awaiting \cup {"ref", "put"} => ~Owns(c, cop[d])
  <2> SUFFICES ASSUME NEW d \in Clients \ {c}, pc[d] \in Awaiting \cup {"ref", "put"},
                      Owns(c, cop[d])
               PROVE  FALSE
    OBVIOUS
  <2>1. pc[d] \in Alone \cup Sharing
    BY DEF Awaiting, Alone, Sharing
  <2> QED  BY <2>1, HoldersApart
<1>6. \A o \in Ops : Serving(o)' => done'[o] = 0 /\ \E d \in Clients : Awaits(d, o)'
  BY <1>1, <1>2 DEF AnswerInv
<1>7. /\ tpc' # "idle" => top' \notin Range(activeQ')
      /\ tpc' \in {"ran", "dec", "check", "result", "raise"} => tret' = opReq'[top']
      /\ tpc' = "raise" => result'[top'] = tret'
  BY <1>1, <1>3 DEF AnswerInv
<1>8. \A d \in Clients : pc'[d] \in Awaiting /\ (~Serving(cop[d]))' => result'[cop'[d]] = creq'[d]
  BY <1>1, <1>4, <1>5 DEF AnswerInv
<1>9. \A d \in Clients : pc'[d] \in {"ref", "put"} => done'[cop'[d]] = 0
  BY <1>4, <1>5 DEF AnswerInv
<1>10. \A r \in Requests : status'[r] = "answered" => answer'[r] = r
  BY DEF AnswerInv
<1> QED  BY <1>6, <1>7, <1>8, <1>9, <1>10 DEF AnswerInv

(* A caller that goes on waiting writes nothing.                           *)
LEMMA WaitFrame ==
  ASSUME AnswerInv, UNCHANGED <<activeQ, opVars, tpc, top, tret, answer, cop, creq, woken>>,
         \A d \in Clients : /\ pc'[d] \in Awaiting <=> pc[d] \in Awaiting
                            /\ pc'[d] \in {"ref", "put"} => pc[d] \in {"ref", "put"},
         \A r \in Requests : status'[r] = "answered" => status[r] = "answered"
  PROVE  AnswerInv'
BY DEF AnswerInv, Serving, Awaits, opVars

(* The caller arms the completion of its op.                               *)
LEMMA ArmAnswer ==
  ASSUME Kinds = {"wait"}, OpInv, AnswerInv, NEW c \in Clients, ArmOp(c)
  PROVE  AnswerInv'
<1>1. /\ pc[c] = "arm" /\ pc' = [pc EXCEPT ![c] = "ref"]
      /\ UNCHANGED <<activeQ, opReq, cop, creq, woken, tpc, top, tret, answer, status>>
  BY DEF ArmOp, Goto, queueVars, threadVars, historyVars
<1>2. timed[cop[c]] /\ cop[c] \in Ops /\ Owns(c, cop[c])
  BY <1>1 DEF OpInv, TypeOK, TimedRight, Owns, Alone
<1>3. /\ pc[c] \notin Awaiting /\ pc'[c] \notin Awaiting
      /\ \A d \in Clients \ {c} : /\ pc'[d] = pc[d] /\ cop'[d] = cop[d]
                                  /\ creq'[d] = creq[d] /\ woken'[d] = woken[d]
  BY <1>1 DEF OpInv, TypeOK, Awaiting
<1>4. /\ result' = [result EXCEPT ![cop[c]] = Pending]
      /\ done' = [done EXCEPT ![cop[c]] = 0]
  BY <1>2 DEF ArmOp
<1>5. done'[cop'[c]] = 0
  BY <1>1, <1>2, <1>4 DEF OpInv, TypeOK
<1>6. \A o \in Ops : ~Owns(c, o) =>
        opReq'[o] = opReq[o] /\ done'[o] = done[o] /\ result'[o] = result[o]
  BY <1>1, <1>2, <1>4 DEF OpInv, TypeOK
<1>7. \A r \in Requests : status'[r] = status[r]
  BY <1>1
<1> QED  BY <1>1, <1>3, <1>5, <1>6, <1>7, AnswerFrame

(* The caller counts the thread in.                                        *)
LEMMA TakeRefAnswer ==
  ASSUME Kinds = {"wait"}, OpInv, AnswerInv, NEW c \in Clients, TakeThreadRef(c)
  PROVE  AnswerInv'
<1>1. /\ pc[c] = "ref" /\ pc' = [pc EXCEPT ![c] = "put"]
      /\ UNCHANGED <<activeQ, opReq, done, result, cop, creq, woken, tpc, top, tret, answer,
                     status>>
  BY DEF TakeThreadRef, Goto, queueVars, threadVars, historyVars
<1>2. /\ pc[c] \notin Awaiting /\ pc'[c] \notin Awaiting
      /\ \A d \in Clients \ {c} : /\ pc'[d] = pc[d] /\ cop'[d] = cop[d]
                                  /\ creq'[d] = creq[d] /\ woken'[d] = woken[d]
  BY <1>1 DEF OpInv, TypeOK, Awaiting
<1>3. done'[cop'[c]] = 0
  BY <1>1 DEF AnswerInv
<1>4. \A o \in Ops : opReq'[o] = opReq[o] /\ done'[o] = done[o] /\ result'[o] = result[o]
  BY <1>1
<1>5. \A r \in Requests : status'[r] = status[r]
  BY <1>1
<1> QED  BY <1>1, <1>2, <1>3, <1>4, <1>5, AnswerFrame

(* The caller gives up its reference, and the op if it was the last.       *)
LEMMA GiveUpAnswer ==
  ASSUME Kinds = {"wait"}, OpInv, AnswerInv, NEW c \in Clients,
         DropClientRef(c) \/ ClientFreeOp(c)
  PROVE  AnswerInv'
<1>1. /\ UNCHANGED <<activeQ, opReq, done, result, tpc, top, tret, answer, status>>
      /\ pc[c] \in {"final", "free"}
  <2>1. CASE DropClientRef(c)
    BY <2>1 DEF DropClientRef, queueVars, threadVars, historyVars
  <2>2. CASE ClientFreeOp(c)
    BY <2>2 DEF ClientFreeOp, opVars, threadVars, historyVars
  <2> QED  BY <2>1, <2>2
<1>2. \/ pc' = [pc EXCEPT ![c] = "free"] /\ UNCHANGED <<cop, creq, ckind, woken>>
      \/ Return(c)
  BY DEF DropClientRef, ClientFreeOp, Goto
<1>3. /\ pc[c] \notin Awaiting /\ pc'[c] \notin Awaiting /\ pc'[c] \notin {"ref", "put"}
      /\ \A d \in Clients \ {c} : /\ pc'[d] = pc[d] /\ cop'[d] = cop[d]
                                  /\ creq'[d] = creq[d] /\ woken'[d] = woken[d]
  BY <1>1, <1>2 DEF OpInv, TypeOK, Return, Goto, Awaiting
<1>4. /\ \A o \in Ops : opReq'[o] = opReq[o] /\ done'[o] = done[o] /\ result'[o] = result[o]
      /\ \A r \in Requests : status'[r] = status[r]
  BY <1>1
<1> QED  BY <1>1, <1>3, <1>4, AnswerFrame

(* The steps of a caller outside the wait.                                 *)
LEMMA CallerAnswer ==
  ASSUME Kinds = {"wait"}, OpInv, OpenInv, AnswerInv, NEW c \in Clients,
         \/ GetFreeOp(c) \/ NoFreeOp(c) \/ ClearOp(c) \/ FillOp(c) \/ ArmOp(c)
         \/ TakeThreadRef(c) \/ DropClientRef(c) \/ ClientFreeOp(c)
  PROVE  AnswerInv'
<1>1. TypeOK
  BY DEF OpInv
<1>2. CASE ArmOp(c)
  BY <1>2, ArmAnswer
<1>3. CASE TakeThreadRef(c)
  BY <1>3, TakeRefAnswer
<1>4. CASE DropClientRef(c) \/ ClientFreeOp(c)
  BY <1>4, GiveUpAnswer
<1> USE <1>1, AnswerFrame DEF TypeOK, Goto, Awaiting, queueVars, opVars, clientVars, threadVars,
        historyVars
<1>5. CASE GetFreeOp(c)
  <2>1. PICK r \in fresh : /\ status' = [status EXCEPT ![r] = "open"]
                           /\ creq' = [creq EXCEPT ![c] = r]
    BY <1>5 DEF GetFreeOp
  <2>2. \A s \in Requests : status'[s] = "answered" => status[s] = "answered"
    BY <2>1
  <2> QED  BY <1>5, <2>1, <2>2 DEF GetFreeOp
<1>6. CASE NoFreeOp(c)
  <2>1. PICK r \in fresh : status' = [status EXCEPT ![r] = "rejected"]
    BY <1>6 DEF NoFreeOp
  <2>2. \A s \in Requests : status'[s] = "answered" => status[s] = "answered"
    BY <2>1
  <2>3. UNCHANGED <<activeQ, opVars, clientVars, tpc, top, tret, answer>>
    BY <1>6 DEF NoFreeOp
  <2> QED  BY <2>2, <2>3, WaitFrame
<1>7. CASE ClearOp(c)        BY <1>7 DEF ClearOp, Owns, Alone
<1>8. CASE FillOp(c)         BY <1>8 DEF FillOp, Owns, Alone
<1> QED  BY <1>2, <1>3, <1>4, <1>5, <1>6, <1>7, <1>8

(* The op is handed over: its caller waits for it from then on.            *)
LEMMA PutActiveAnswer ==
  ASSUME Kinds = {"wait"}, OpInv, PostInv, AnswerInv, NEW c \in Clients, PutActive(c)
  PROVE  AnswerInv'
<1> DEFINE o == cop[c]
<1>1. TypeOK /\ Owns(c, o) /\ pc[c] = "put" /\ PutNeverFails
  BY OpInvImplies DEF OpInv, PutActive, Owns, Alone
<1>2. /\ activeQ' = Append(activeQ, o) /\ pc' = [pc EXCEPT ![c] = "posted"]
      /\ UNCHANGED <<opReq, timed, done, result, cop, creq, woken, tpc, top, tret, answer, status>>
  BY <1>1 DEF PutActive, Put, PutNeverFails, Goto, threadVars
<1>3. o \in Ops /\ done[o] = 0 /\ ~woken[c] /\ ~Serving(o)
  BY <1>1, OwnedNotServed, HoldersApart DEF AnswerInv, PostInv, Open, Preparing
<1>4. pc'[c] = "posted" /\ \A d \in Clients \ {c} : pc'[d] = pc[d]
  BY <1>1, <1>2 DEF TypeOK
<1>5. \A p \in Ops : Serving(p)' <=> Serving(p) \/ p = o
  BY <1>1, <1>2, <1>3, AppendDistinct DEF TypeOK, Serving
<1>6. Awaits(c, o)' /\ \A d \in Clients, p \in Ops : Awaits(d, p) => Awaits(d, p)'
  BY <1>1, <1>2, <1>3, <1>4 DEF Awaits, Awaiting
<1>7. \A d \in Clients : pc'[d] \in Awaiting => cop[d] \in Ops /\ (d = c \/ pc[d] \in Awaiting)
  BY <1>1, <1>4 DEF TypeOK, Awaiting
<1> HIDE DEF o
<1>8. \A p \in Ops : Serving(p)' => done'[p] = 0 /\ \E d \in Clients : Awaits(d, p)'
  <2> SUFFICES ASSUME NEW p \in Ops, Serving(p)'
               PROVE  done'[p] = 0 /\ \E d \in Clients : Awaits(d, p)'
    OBVIOUS
  <2>1. CASE p = o
    <3>1. done'[p] = 0
      BY <1>2, <1>3, <2>1
    <3>2. Awaits(c, p)'
      BY <1>2, <1>6, <2>1 DEF Awaits, o
    <3> QED  BY <3>1, <3>2
  <2>2. CASE p # o
    <3>1. PICK d \in Clients : Awaits(d, p)
      BY <1>5, <2>2 DEF AnswerInv
    <3>2. done[p] = 0
      BY <1>5, <2>2 DEF AnswerInv
    <3> QED  BY <1>2, <1>6, <3>1, <3>2
  <2> QED  BY <2>1, <2>2
<1>9. \A d \in Clients : pc'[d] \in Awaiting /\ (~Serving(cop[d]))' => result'[cop'[d]] = creq'[d]
  <2> SUFFICES ASSUME NEW d \in Clients, pc'[d] \in Awaiting, (~Serving(cop[d]))'
               PROVE  result'[cop'[d]] = creq'[d]
    OBVIOUS
  <2>1. cop'[d] = cop[d] /\ cop[d] \in Ops
    BY <1>2, <1>7
  <2>2. ~Serving(cop[d]) /\ cop[d] # o
    BY <1>5, <2>1
  <2>3. d # c
    BY <2>2 DEF o
  <2> QED  BY <1>2, <1>7, <2>2, <2>3 DEF AnswerInv
<1>10. \A d \in Clients : pc'[d] \in {"ref", "put"} => done'[cop'[d]] = 0
  BY <1>2, <1>4 DEF AnswerInv
<1>11. tpc' # "idle" => top' \notin Range(activeQ')
  <2>1. \A p \in Ops : p \in Range(activeQ') => p \in Range(activeQ) \/ p = o
    BY <1>1, <1>2, <1>3, AppendDistinct DEF TypeOK
  <2>2. tpc # "idle" => top \in Ops /\ top # o
    BY <1>1, <1>3 DEF TypeOK, Serving
  <2> QED  BY <1>2, <2>1, <2>2 DEF AnswerInv
<1> QED  BY <1>2, <1>8, <1>9, <1>10, <1>11 DEF AnswerInv

(* The wait: going on, being woken, and reading the result.                *)
LEMMA WaiterAnswer ==
  ASSUME Kinds = {"wait"}, OpInv, OpenInv, AnswerInv, NoneTimedOut', NEW c \in Clients,
         \/ CheckWait(c) \/ WaitTimeout(c) \/ LogTimeout(c) \/ WaitDone(c) \/ ReadResult(c)
  PROVE  AnswerInv'
<1> DEFINE o == cop[c]
<1>1. TypeOK /\ pc[c] \in Awaiting /\ pc[c] \in Sharing
  BY DEF OpInv, CheckWait, WaitTimeout, LogTimeout, WaitDone, ReadResult, Awaiting, Sharing
<1>2. /\ o \in Ops /\ timed[o]
      /\ \A d \in Clients \ {c} : pc[d] \in Alone \cup Sharing => cop[d] # o
  BY <1>1, WaitersApart
<1>3. CASE CheckWait(c) \/ WaitTimeout(c) \/ LogTimeout(c)
  <2>1. /\ pc' = [pc EXCEPT ![c] = pc'[c]] /\ pc'[c] \in Awaiting
        /\ UNCHANGED <<activeQ, opVars, tpc, top, tret, answer, cop, creq, woken, status>>
    BY <1>1, <1>2, <1>3 DEF TypeOK, CheckWait, WaitTimeout, LogTimeout, Goto, Awaiting,
       queueVars, clientVars, threadVars, historyVars
  <2>2. \A d \in Clients : /\ pc'[d] \in Awaiting <=> pc[d] \in Awaiting
                           /\ pc'[d] \in {"ref", "put"} => pc[d] \in {"ref", "put"}
    BY <1>1, <2>1 DEF TypeOK, Awaiting
  <2> QED  BY <2>1, <2>2, WaitFrame
<1>4. CASE WaitDone(c)
  <2>1. /\ done[o] > 0 /\ done' = [done EXCEPT ![o] = @ - 1]
        /\ woken' = [woken EXCEPT ![c] = TRUE] /\ pc' = [pc EXCEPT ![c] = "read"]
        /\ UNCHANGED <<activeQ, opReq, result, tpc, top, tret, answer, cop, creq, status>>
    BY <1>4 DEF WaitDone, Goto, queueVars, threadVars, historyVars
  <2>2. ~Serving(o)
    BY <1>2, <2>1 DEF AnswerInv
  <2>3. /\ pc'[c] = "read" /\ \A d \in Clients \ {c} : pc'[d] = pc[d] /\ woken'[d] = woken[d]
        /\ \A p \in Ops : p # o => done'[p] = done[p]
    BY <1>1, <1>2, <2>1 DEF TypeOK
  <2>4. \A p \in Ops : Serving(p)' <=> Serving(p)
    BY <2>1 DEF Serving
  <2>5. \A p \in Ops : Serving(p) => p # o /\ \A d \in Clients : Awaits(d, p) => Awaits(d, p)'
    BY <2>1, <2>2, <2>3 DEF Awaits
  <2>6. \A d \in Clients : pc'[d] \in Awaiting <=> pc[d] \in Awaiting
    BY <1>1, <2>3 DEF Awaiting
  <2>7. \A d \in Clients : pc'[d] \in {"ref", "put"} =>
          pc[d] \in {"ref", "put"} /\ cop[d] \in Ops /\ cop[d] # o
    BY <1>1, <1>2, <2>3 DEF TypeOK, Alone
  <2>8. \A d \in Clients : pc[d] \in Awaiting => cop[d] \in Ops
    BY <1>1 DEF TypeOK, Awaiting
  <2> HIDE DEF o
  <2> QED  BY <2>1, <2>3, <2>4, <2>5, <2>6, <2>7, <2>8 DEF AnswerInv
<1>5. CASE ReadResult(c)
  <2> DEFINE r == creq[c]
  <2>1. /\ answer' = [answer EXCEPT ![r] = result[o]]
        /\ status' = [status EXCEPT ![r] = IF woken[c] THEN "answered" ELSE "timedout"]
        /\ pc' = [pc EXCEPT ![c] = "final"]
        /\ UNCHANGED <<activeQ, opReq, done, result, tpc, top, tret, cop, creq, woken>>
    BY <1>5 DEF ReadResult, Goto, queueVars, opVars, threadVars
  <2>2. r \in Requests
    BY <1>1 DEF TypeOK, Awaiting
  <2>3. woken[c]
    BY <1>1, <2>1, <2>2 DEF NoneTimedOut, TypeOK
  <2>4. ~Serving(o)
    <3> SUFFICES ASSUME Serving(o) PROVE FALSE
      OBVIOUS
    <3>1. PICK d \in Clients : Awaits(d, o)
      BY <1>2 DEF AnswerInv
    <3> QED  BY <1>2, <2>3, <3>1 DEF Awaits, Awaiting, Sharing
  <2>5. result[o] = r
    BY <1>1, <2>4 DEF AnswerInv
  <2>6. \A q \in Requests : status'[q] = "answered" => answer'[q] = q
    BY <1>1, <2>1, <2>2, <2>5 DEF AnswerInv, TypeOK
  <2>7. pc'[c] = "final" /\ \A d \in Clients \ {c} : pc'[d] = pc[d]
    BY <1>1, <2>1 DEF TypeOK
  <2>8. \A p \in Ops : Serving(p)' <=> Serving(p)
    BY <2>1 DEF Serving
  <2>9. \A p \in Ops, d \in Clients : Serving(p) /\ Awaits(d, p) => Awaits(d, p)'
    BY <2>1, <2>3, <2>7 DEF Awaits
  <2>10. \A d \in Clients : pc'[d] \in Awaiting => pc[d] \in Awaiting /\ cop[d] \in Ops
    BY <1>1, <2>7 DEF TypeOK, Awaiting
  <2>11. \A d \in Clients : pc'[d] \in {"ref", "put"} => pc[d] \in {"ref", "put"}
    BY <2>7
  <2> HIDE DEF o, r
  <2> QED  BY <2>1, <2>6, <2>8, <2>9, <2>10, <2>11 DEF AnswerInv
<1> QED  BY <1>3, <1>4, <1>5

(* Steps of the thread keep the op it serves, the callers and, but for the *)
(* op it serves, what the ops hold.                                        *)
LEMMA ThreadFrame ==
  ASSUME OpInv, AnswerInv, tpc # "idle", tpc # "free", tpc' # "idle",
         UNCHANGED <<activeQ, top, done, opReq, clientVars, status, answer>>,
         \A o \in Ops : o # top => result'[o] = result[o],
         tpc' \in {"ran", "dec", "check", "result", "raise"} => tret' = opReq[top],
         tpc' = "raise" => result'[top] = tret'
  PROVE  AnswerInv'
<1>1. \A o \in Ops : Serving(o)' <=> Serving(o)
  BY DEF Serving
<1>2. top \in Ops /\ Serving(top)
  BY DEF OpInv, TypeOK, Serving
<1>3. \A c \in Clients : pc[c] \in Awaiting => cop[c] \in Ops
  BY DEF OpInv, TypeOK, Awaiting
<1>4. \A o \in Ops : Serving(o)' => done'[o] = 0 /\ \E c \in Clients : Awaits(c, o)'
  BY <1>1 DEF AnswerInv, Awaits, clientVars
<1>5. \A c \in Clients : pc'[c] \in Awaiting /\ (~Serving(cop[c]))' => result'[cop'[c]] = creq'[c]
  BY <1>1, <1>2, <1>3 DEF AnswerInv, clientVars
<1> QED  BY <1>2, <1>4, <1>5 DEF AnswerInv, clientVars

(* The thread takes an op, runs its handler and gives up its reference.    *)
LEMMA ServeAnswer ==
  ASSUME Kinds = {"wait"}, OpInv, AnswerInv,
         GetActiveOp \/ SetCurOp \/ Handle \/ ClearCurOp \/ DropThreadRef
  PROVE  AnswerInv'
<1>1. TypeOK /\ OpInv
  BY DEF OpInv
<1>2. CASE GetActiveOp
  <2>1. /\ tpc = "idle" /\ activeQ # <<>> /\ top' = Head(activeQ) /\ activeQ' = Tail(activeQ)
        /\ tpc' = "got" /\ UNCHANGED <<opReq, done, result, clientVars, status, answer>>
    BY <1>2 DEF GetActiveOp, opVars, historyVars
  <2>2. /\ \A o \in Ops : Serving(o)' <=> Serving(o)
        /\ top' \notin Range(activeQ')
    <3>1. /\ Head(activeQ) \in Range(activeQ) /\ Head(activeQ) \notin Range(Tail(activeQ))
          /\ Range(Tail(activeQ)) = Range(activeQ) \ {Head(activeQ)}
      BY <1>1, <2>1, TailDistinct DEF OpInv, HolderInv, TypeOK
    <3> QED  BY <2>1, <3>1 DEF Serving
  <2>3. \A o \in Ops : Serving(o)' => done'[o] = 0 /\ \E c \in Clients : Awaits(c, o)'
    BY <2>1, <2>2 DEF AnswerInv, Awaits, clientVars
  <2>4. \A c \in Clients : pc[c] \in Awaiting => cop[c] \in Ops
    BY <1>1 DEF TypeOK, Awaiting
  <2>5. \A c \in Clients : pc'[c] \in Awaiting /\ (~Serving(cop[c]))' => result'[cop'[c]] = creq'[c]
    BY <2>1, <2>2, <2>4 DEF AnswerInv, clientVars
  <2> QED  BY <2>1, <2>2, <2>3, <2>5 DEF AnswerInv, clientVars
<1>3. CASE SetCurOp
  BY <1>3, ThreadFrame DEF SetCurOp, queueVars, opVars, historyVars
<1>4. CASE Handle
  BY <1>4, ThreadFrame DEF Handle, queueVars, opVars
<1>5. CASE ClearCurOp
  BY <1>5, ThreadFrame DEF ClearCurOp, queueVars, opVars, historyVars, AnswerInv
<1>6. CASE DropThreadRef
  <2>1. tpc = "dec" /\ top \in Ops /\ ThreadRefers(top) /\ Serving(top)
    BY <1>1, <1>6 DEF DropThreadRef, TypeOK, ThreadRefers, Serving
  <2>2. PICK c \in Clients : Awaits(c, top)
    BY <2>1 DEF AnswerInv
  <2>3. pc[c] \in Sharing /\ cop[c] = top
    BY <2>2 DEF Awaits, Awaiting, Sharing
  <2>4. Refers(c, top)
    BY <2>3, WaitersApart
  <2>5. ref[top] = 2
    BY <2>1, <2>4 DEF OpInv, RefRight
  <2>6. tpc' = "check"
    BY <1>6, <2>5 DEF DropThreadRef
  <2> QED
    BY <1>6, <2>1, <2>6, ThreadFrame DEF DropThreadRef, AnswerInv, queueVars, historyVars
<1> QED  BY <1>2, <1>3, <1>4, <1>5, <1>6

(* The thread finds its caller waiting, and stores the result for it.      *)
LEMMA StoreAnswer ==
  ASSUME Kinds = {"wait"}, OpInv, AnswerInv, CheckTimed \/ SetResult
  PROVE  AnswerInv'
<1>1. TypeOK /\ tpc # "idle" /\ top \in Ops /\ Serving(top)
  BY DEF OpInv, TypeOK, CheckTimed, SetResult, Serving
<1>2. CASE CheckTimed
  <2>1. PICK c \in Clients : Awaits(c, top)
    BY <1>1 DEF AnswerInv
  <2>2. timed[top]
    BY <2>1, WaitersApart DEF Awaits, Awaiting, Sharing
  <2>3. tpc' = "result" /\ UNCHANGED <<top, tret>>
    BY <1>2, <2>2 DEF CheckTimed
  <2> QED
    BY <1>1, <1>2, <2>3, ThreadFrame DEF CheckTimed, AnswerInv, queueVars, opVars, historyVars
<1>3. CASE SetResult
  <2>1. result'[top] = tret /\ \A o \in Ops : o # top => result'[o] = result[o]
    BY <1>1, <1>3 DEF SetResult, TypeOK
  <2> QED
    BY <1>1, <1>3, <2>1, ThreadFrame DEF SetResult, AnswerInv, queueVars, historyVars
<1> QED  BY <1>2, <1>3

(* The thread raises the completion: what the op holds from then on is the *)
(* result of its caller's request.                                         *)
LEMMA RaiseAnswer ==
  ASSUME Kinds = {"wait"}, OpInv, PostInv, AnswerInv, RaiseSignal
  PROVE  AnswerInv'
<1>1. /\ tpc = "raise" /\ done' = [done EXCEPT ![top] = @ + 1] /\ tpc' = "idle"
      /\ UNCHANGED <<activeQ, opReq, result, clientVars, status, answer>>
  BY DEF RaiseSignal, LoopAgain, queueVars, historyVars
<1>2. TypeOK /\ top \in Ops /\ top \notin Range(activeQ) /\ Serving(top)
  BY <1>1 DEF OpInv, TypeOK, AnswerInv, Serving
<1>3. PICK c \in Clients : Awaits(c, top)
  BY <1>2 DEF AnswerInv
<1>4. /\ pc[c] \in Awaiting /\ pc[c] \in Sharing /\ cop[c] = top
      /\ \A d \in Clients \ {c} : pc[d] \in Alone \cup Sharing => cop[d] # top
  BY <1>3, WaitersApart DEF Awaits, Awaiting, Sharing
<1>5. result[top] = creq[c]
  BY <1>1, <1>4 DEF AnswerInv, PostInv
<1>6. \A o \in Ops : Serving(o)' <=> Serving(o) /\ o # top
  BY <1>1, <1>2 DEF Serving
<1>7. \A o \in Ops : o # top => done'[o] = done[o]
  BY <1>1, <1>2 DEF TypeOK
<1>8. \A d \in Clients : pc[d] \in Awaiting => cop[d] \in Ops
  BY <1>2 DEF TypeOK, Awaiting
<1>9. \A d \in Clients : pc[d] \in Awaiting /\ cop[d] = top => d = c
  BY <1>4 DEF Awaiting, Sharing
<1>10. \A o \in Ops : Serving(o)' => done'[o] = 0 /\ \E d \in Clients : Awaits(d, o)'
  BY <1>1, <1>6, <1>7 DEF AnswerInv, Awaits, clientVars
<1>11. \A d \in Clients : pc'[d] \in Awaiting /\ (~Serving(cop[d]))' => result'[cop'[d]] = creq'[d]
  BY <1>1, <1>5, <1>6, <1>8, <1>9 DEF AnswerInv, clientVars
<1>12. \A d \in Clients : pc'[d] \in {"ref", "put"} => done'[cop'[d]] = 0
  <2>1. \A d \in Clients : pc[d] \in {"ref", "put"} => cop[d] \in Ops /\ cop[d] # top
    BY <1>2, <1>4 DEF TypeOK, Alone, Awaiting
  <2> QED  BY <1>1, <1>7, <2>1 DEF AnswerInv, clientVars
<1> QED  BY <1>1, <1>10, <1>11, <1>12 DEF AnswerInv

(* The thread is never the last to hold an op that a caller waits for.     *)
LEMMA ThreadFreesNone ==
  ASSUME Kinds = {"wait"}, OpInv, AnswerInv
  PROVE  tpc # "free"
<1> SUFFICES ASSUME tpc = "free" PROVE FALSE
  OBVIOUS
<1>1. top \in Ops /\ Serving(top) /\ ThreadOwns(top)
  BY DEF OpInv, TypeOK, Serving, ThreadOwns
<1>2. PICK c \in Clients : Awaits(c, top)
  BY <1>1 DEF AnswerInv
<1> QED  BY <1>1, <1>2, WaitersApart DEF Awaits, Awaiting, Sharing

(* All of it is so at first ...                                            *)
LEMMA ReadInit == UniformCalls /\ Init => ReadInv
<1> SUFFICES ASSUME UniformCalls, Init PROVE ReadInv
  OBVIOUS
<1>1. OpInv
  BY OpInit
<1>2. activeQ = <<>> /\ tpc = "idle" /\ \A c \in Clients : pc[c] = "idle"
  BY DEF Init
<1>3. \A r \in Requests : status[r] = "fresh"
  BY DEF Init
<1>4. OpenInv
  BY <1>2, <1>3 DEF Init, OpenInv, Open, Preparing, Awaiting
<1>5. PostInv
  BY <1>2 DEF PostInv, Filled, Open, Preparing, Awaiting
<1>6. \A o \in Ops : ~Serving(o)
  BY <1>2 DEF Serving, Range
<1>7. AnswerInv
  BY <1>2, <1>3, <1>6 DEF AnswerInv, Awaiting
<1> QED  BY <1>1, <1>4, <1>5, <1>7 DEF ReadInv

(* ... and stays so.                                                       *)
LEMMA ReadStep == Kinds = {"wait"} /\ ReadInv /\ [Next]_vars => ReadInv'
<1> SUFFICES ASSUME Kinds = {"wait"}, ReadInv, [Next]_vars PROVE ReadInv'
  OBVIOUS
<1>1. OpInv /\ TypeOK /\ OpenInv /\ PostInv
  BY DEF ReadInv, OpInv
<1>2. OpInv' /\ PostInv' /\ OpenInv' /\ (NoneTimedOut' => NoneTimedOut)
  BY <1>1, OpStep, PostStep, OpenStep DEF UniformCalls
<1>3. ASSUME NoneTimedOut' PROVE AnswerInv'
  <2>1. AnswerInv
    BY <1>2, <1>3 DEF ReadInv
  <2>2. ASSUME NEW c \in Clients,
               \/ GetFreeOp(c) \/ NoFreeOp(c) \/ ClearOp(c) \/ FillOp(c) \/ ArmOp(c)
               \/ TakeThreadRef(c) \/ DropClientRef(c) \/ ClientFreeOp(c)
        PROVE  AnswerInv'
    BY <1>1, <2>1, <2>2, CallerAnswer
  <2>3. ASSUME NEW c \in Clients, PutActive(c) PROVE AnswerInv'
    BY <1>1, <2>1, <2>3, PutActiveAnswer
  <2>4. ASSUME NEW c \in Clients,
               CheckWait(c) \/ WaitTimeout(c) \/ LogTimeout(c) \/ WaitDone(c) \/ ReadResult(c)
        PROVE  AnswerInv'
    BY <1>1, <1>3, <2>1, <2>4, WaiterAnswer
  <2>5. ASSUME ThreadStep PROVE AnswerInv'
    <3>1. CASE GetActiveOp \/ SetCurOp \/ Handle \/ ClearCurOp \/ DropThreadRef
      BY <1>1, <2>1, <3>1, ServeAnswer
    <3>2. CASE CheckTimed \/ SetResult
      BY <1>1, <2>1, <3>2, StoreAnswer
    <3>3. CASE RaiseSignal
      BY <1>1, <2>1, <3>3, RaiseAnswer
    <3>4. ~ThreadFreeOp
      BY <1>1, <2>1, ThreadFreesNone DEF ThreadFreeOp
    <3> QED  BY <2>5, <3>1, <3>2, <3>3, <3>4 DEF ThreadStep
  <2>6. ASSUME UNCHANGED vars PROVE AnswerInv'
    BY <2>1, <2>6 DEF AnswerInv, Serving, Awaits, vars, queueVars, opVars, clientVars,
       threadVars, historyVars
  <2> QED
    BY <2>2, <2>3, <2>4, <2>5, <2>6 DEF Next, Call, ClientStep, Quiescent
<1> QED  BY <1>1, <1>2, <1>3 DEF ReadInv

(* A context whose calls do not wait never reads a result.                 *)
NoneRead ==
  /\ OpInv
  /\ \A c \in Clients : pc[c] \notin {"wait", "log", "read"}
  /\ \A r \in Requests : status[r] # "answered"

LEMMA NoneReadStep == Kinds = {"send"} /\ NoneRead /\ [Next]_vars => NoneRead'
<1> SUFFICES ASSUME Kinds = {"send"}, NoneRead, [Next]_vars PROVE NoneRead'
  OBVIOUS
<1>1. OpInv /\ OpInv' /\ TypeOK
  BY OpStep DEF NoneRead, UniformCalls, OpInv
<1>2. \A c \in Clients : pc[c] = "posted" => ~timed[cop[c]]
  BY <1>1 DEF OpInv, TimedRight, TypeOK, Sharing
<1>3. ASSUME NEW c \in Clients, Call(c) \/ ClientStep(c) \/ WaitTimeout(c)
      PROVE  /\ \A d \in Clients : pc'[d] \notin {"wait", "log", "read"}
             /\ \A r \in Requests : status'[r] # "answered"
  <2> USE <1>1 DEF NoneRead, TypeOK, Goto, Return, clientVars, historyVars
  <2>1. CASE GetFreeOp(c)      BY <2>1 DEF GetFreeOp
  <2>2. CASE NoFreeOp(c)       BY <2>2 DEF NoFreeOp
  <2>3. CASE ClearOp(c)        BY <2>3 DEF ClearOp
  <2>4. CASE FillOp(c)         BY <2>4 DEF FillOp
  <2>5. CASE ArmOp(c)          BY <2>5 DEF ArmOp
  <2>6. CASE TakeThreadRef(c)  BY <2>6 DEF TakeThreadRef
  <2>7. CASE PutActive(c)      BY <2>7 DEF PutActive
  <2>8. CASE CheckWait(c)      BY <1>2, <2>8 DEF CheckWait
  <2>9. CASE DropClientRef(c)  BY <2>9 DEF DropClientRef
  <2>10. CASE ClientFreeOp(c)  BY <2>10 DEF ClientFreeOp
  <2>11. CASE WaitDone(c) \/ WaitTimeout(c) \/ LogTimeout(c) \/ ReadResult(c)
    BY <2>11 DEF WaitDone, WaitTimeout, LogTimeout, ReadResult
  <2> QED
    BY <1>3, <2>1, <2>2, <2>3, <2>4, <2>5, <2>6, <2>7, <2>8, <2>9, <2>10, <2>11
    DEF Call, ClientStep
<1>4. ASSUME ThreadStep \/ UNCHANGED vars PROVE UNCHANGED <<pc, status>>
  BY <1>4 DEF ThreadStep, GetActiveOp, SetCurOp, Handle, ClearCurOp, DropThreadRef, CheckTimed,
     SetResult, RaiseSignal, ThreadFreeOp, historyVars, clientVars, vars
<1> QED
  BY <1>1, <1>3, <1>4 DEF NoneRead, Next, Quiescent

(* In a context whose calls all wait, or all do not, a caller that is told *)
(* that its op was signalled reads the result of its own request, as long  *)
(* as no call has timed out.                                               *)
THEOREM ResultsAreOwn == UniformCalls => (Spec => []OwnResult)
<1>1. ReadInv => OwnResult
  BY DEF ReadInv, NoneTimedOut, AnswerInv, OwnResult
<1>2. NoneRead => OwnResult
  BY DEF NoneRead, OwnResult
<1>3. UniformCalls /\ Init => OpInv /\ ReadInv /\ NoneRead
  BY OpInit, ReadInit DEF NoneRead, Init
<1>4. CASE Kinds = {"wait"}
  <2>1. Kinds = {"wait"} /\ Init => ReadInv
    BY <1>3 DEF UniformCalls
  <2> QED  BY <1>1, <1>4, <2>1, ReadStep, PTL DEF Spec
<1>5. CASE Kinds = {"send"}
  <2>1. Kinds = {"send"} /\ Init => NoneRead
    BY <1>3 DEF UniformCalls
  <2> QED  BY <1>2, <1>5, <2>1, NoneReadStep, PTL DEF Spec
<1> QED  BY <1>4, <1>5 DEF UniformCalls
-----------------------------------------------------------------------------
(* The ring that each of the two queues is, with its own constants and     *)
(* variables: OpQueue implements BoundedFifo.                              *)
CONSTANTS Width, SizeBits
VARIABLES read, write, slots, last

Ring == INSTANCE OpQueue

(* The counters and slots of the ring, and how many ops it can hold.       *)
RingInv ==
  /\ read \in 0..(Ring!Modulus - 1) /\ write \in 0..(Ring!Modulus - 1)
  /\ slots \in [0..(Ring!Size - 1) -> Ops \cup {NoOp}]
  /\ Ring!Count(write, read) <= Ring!Size

(* The sizes are powers of 2, so one divides the other.                    *)
LEMMA RingSizes ==
  ASSUME Ring!Widths
  PROVE  /\ Ring!Size \in Nat \ {0} /\ Ring!Modulus \in Nat \ {0} /\ Ring!Size < Ring!Modulus
         /\ \E k \in Nat \ {0} : Ring!Modulus = Ring!Size * k
<1>1. Doubling(Ring!TwoTo)
  BY DoublingSteps DEF Ring!TwoTo, Doubling
<1> QED  BY <1>1, PowersDivide DEF Ring!Widths, Ring!Size, Ring!Modulus

(* Masking forgets a wrap, and tells apart the counters of a full ring.    *)
LEMMA Masks ==
  ASSUME Ring!Widths, NEW n \in Int
  PROVE  /\ Ring!Mask(n) \in 0..(Ring!Size - 1)
         /\ Ring!Mask(n % Ring!Modulus) = Ring!Mask(n)
         /\ Ring!Mask(n + Ring!Modulus) = Ring!Mask(n)
         /\ \A j \in 1..(Ring!Size - 1) : Ring!Mask(n + j) # Ring!Mask(n)
<1> DEFINE s == Ring!Size
           m == Ring!Modulus
<1>1. /\ s \in Nat \ {0} /\ m \in Nat \ {0} /\ s < m
      /\ \E k \in Nat \ {0} : m = s * k
  BY RingSizes
<1> HIDE DEF s, m
<1>2. PICK k \in Nat \ {0} : m = s * k
  BY <1>1
<1>3. n % s \in 0..(s - 1)
  BY <1>1, DivMod, Zenon
<1>4. (n % (s * k)) % s = n % s
  BY <1>1, ModOfMultiple, Zenon
<1>5. (n + (s * k)) % s = n % s
  <2>1. k \in Int
    OBVIOUS
  <2> QED  BY <1>1, <2>1, ModTurns, Zenon
<1>6. ASSUME NEW j \in 1..(s - 1) PROVE (n + j) % s # n % s
  BY <1>1, ModApart, Zenon
<1> QED  BY <1>2, <1>3, <1>4, <1>5, <1>6 DEF Ring!Mask, s, m

(* Counting across a wrap.                                                 *)
LEMMA Counters ==
  ASSUME Ring!Widths, NEW w \in 0..(Ring!Modulus - 1), NEW r \in 0..(Ring!Modulus - 1)
  PROVE  /\ Ring!Inc(w) \in 0..(Ring!Modulus - 1)
         /\ Ring!Inc(w) = w + 1 \/ Ring!Inc(w) = (w + 1) - Ring!Modulus
         /\ Ring!Count(w, r) \in 0..(Ring!Modulus - 1)
         /\ w = r + Ring!Count(w, r) \/ w + Ring!Modulus = r + Ring!Count(w, r)
         /\ Ring!Count(w, r) = 0 <=> w = r
<1> DEFINE m == Ring!Modulus
<1>1. m \in Nat \ {0}
  BY RingSizes
<1> HIDE DEF m
<1>2. w \in 0..(m - 1) /\ r \in 0..(m - 1)
  BY DEF m
<1>3. (w + 1) % m = IF w + 1 = m THEN 0 ELSE w + 1
  <2>1. w + 1 \in Int /\ (w + 1 # m => w + 1 \in 0..(m - 1)) /\ (w + 1 = m => w + 1 \in m..(2 * m - 1))
    BY <1>1, <1>2
  <2>2. /\ w + 1 \in 0..(m - 1) => (w + 1) % m = w + 1
        /\ w + 1 \in m..(2 * m - 1) => (w + 1) % m = (w + 1) - m
    BY <1>1, <2>1, ModNear, Zenon
  <2> QED  BY <1>1, <1>2, <2>1, <2>2
<1>4. (w - r) % m = IF w >= r THEN w - r ELSE (w - r) + m
  <2>1. /\ w - r \in Int
        /\ w >= r => w - r \in 0..(m - 1)
        /\ ~(w >= r) => w - r \in (-m)..(-1)
    BY <1>1, <1>2
  <2>2. /\ w - r \in 0..(m - 1) => (w - r) % m = w - r
        /\ w - r \in (-m)..(-1) => (w - r) % m = (w - r) + m
    BY <1>1, <2>1, ModNear, Zenon
  <2> QED  BY <2>1, <2>2
<1>5. Ring!Inc(w) = (w + 1) % m /\ Ring!Count(w, r) = (w - r) % m
  BY DEF Ring!Inc, Ring!Count, m
<1>6. /\ Ring!Inc(w) \in 0..(m - 1)
      /\ Ring!Inc(w) = w + 1 \/ Ring!Inc(w) = (w + 1) - m
  BY <1>1, <1>2, <1>3, <1>5
<1>7. /\ Ring!Count(w, r) \in 0..(m - 1)
      /\ w = r + Ring!Count(w, r) \/ w + m = r + Ring!Count(w, r)
      /\ Ring!Count(w, r) = 0 <=> w = r
  BY <1>1, <1>2, <1>4, <1>5
<1> QED  BY <1>6, <1>7 DEF m

(* The ops in the ring as a sequence.                                      *)
Spelled ==
  /\ Ring!Contents \in Seq(Ops \cup {NoOp})
  /\ Len(Ring!Contents) = Ring!Count(write, read)
  /\ \A i \in 1..Ring!Count(write, read) :
       Ring!Contents[i] = slots[Ring!Mask(read + (i - 1))]

LEMMA ContentsSpelled == Ring!Widths /\ RingInv => Spelled
<1> SUFFICES ASSUME Ring!Widths, RingInv PROVE Spelled
  OBVIOUS
<1> DEFINE n == Ring!Count(write, read)
<1>1. n \in Nat /\ n <= Ring!Size /\ Ring!Size \in Nat /\ read \in Int
  <2>1. Ring!Modulus \in Nat \ {0} /\ Ring!Size \in Nat \ {0}
    BY RingSizes
  <2>2. n \in 0..(Ring!Modulus - 1)
    BY Counters DEF RingInv
  <2> QED  BY <2>1, <2>2 DEF RingInv
<1> HIDE DEF n
<1>2. \A i \in 1..n : read + i - 1 = read + (i - 1) /\ read + (i - 1) \in Int
  BY <1>1
<1>3. \A i \in 1..n : Ring!Mask(read + (i - 1)) \in 0..(Ring!Size - 1)
  BY <1>2, Masks
<1>4. Ring!Contents = [i \in 1..n |-> slots[Ring!Mask(read + (i - 1))]]
  BY <1>2 DEF Ring!Contents, n
<1>5. \A i \in 1..n : slots[Ring!Mask(read + (i - 1))] \in Ops \cup {NoOp}
  BY <1>3 DEF RingInv
<1>6. Ring!Contents \in Seq(Ops \cup {NoOp}) /\ Len(Ring!Contents) = n
      /\ \A i \in 1..n : Ring!Contents[i] = slots[Ring!Mask(read + (i - 1))]
  BY <1>1, <1>4, <1>5
<1> QED  BY <1>6 DEF Spelled, n

(* A put adds at the end, into a slot that holds none of the others.       *)
LEMMA RingPut ==
  ASSUME Ring!Widths, RingInv, NEW o \in Ops, Ring!Put(o)
  PROVE  RingInv' /\ Ring!Fifo!Put(o)
<1> DEFINE n == Ring!Count(write, read)
           s == Ring!Size
           m == Ring!Modulus
           c == Ring!Contents
<1>1. /\ s \in Nat \ {0} /\ m \in Nat \ {0} /\ s < m
      /\ read \in 0..(m - 1) /\ write \in 0..(m - 1)
      /\ slots \in [0..(s - 1) -> Ops \cup {NoOp}]
      /\ n \in 0..(m - 1) /\ n \in Nat /\ n < s
      /\ write = read + n \/ write + m = read + n
  <2>1. s \in Nat \ {0} /\ m \in Nat \ {0} /\ s < m
    BY RingSizes
  <2>2. read \in 0..(m - 1) /\ write \in 0..(m - 1) /\ slots \in [0..(s - 1) -> Ops \cup {NoOp}]
    BY DEF RingInv
  <2>3. n \in 0..(m - 1) /\ (write = read + n \/ write + m = read + n)
    BY <2>2, Counters
  <2>4. ~(n >= s)
    BY DEF Ring!Put, Ring!Full
  <2> HIDE DEF n, s, m
  <2> QED  BY <2>1, <2>2, <2>3, <2>4
<1>2. /\ slots' = [slots EXCEPT ![Ring!Mask(write)] = o]
      /\ write' = Ring!Inc(write) /\ read' = read /\ last' = <<"put">>
  BY DEF Ring!Put
<1>3. write' \in 0..(m - 1) /\ (write' = write + 1 \/ write' = (write + 1) - m)
  BY <1>1, <1>2, Counters
<1>4. /\ Ring!Count(write', read') \in 0..(m - 1)
      /\ write' = read + Ring!Count(write', read') \/ write' + m = read + Ring!Count(write', read')
  BY <1>1, <1>2, <1>3, Counters
<1> HIDE DEF n, s, m
<1>5. Ring!Count(write', read') = n + 1
  <2>1. PICK k \in 0..(m - 1) : k = Ring!Count(write', read')
    BY <1>4
  <2> QED  BY <1>1, <1>3, <1>4, <2>1
<1>6. Ring!Mask(write) = Ring!Mask(read + n) /\ Ring!Mask(write) \in 0..(s - 1)
  <2>1. Ring!Mask(write + m) = Ring!Mask(write) /\ Ring!Mask(write) \in 0..(s - 1)
    <3>1. write \in Int
      BY <1>1
    <3> QED  BY <3>1, Masks, Zenon DEF s, m
  <2> QED  BY <1>1, <2>1
<1>7. \A i \in 1..n : Ring!Mask(read + (i - 1)) # Ring!Mask(write)
  <2> SUFFICES ASSUME NEW i \in 1..n
               PROVE  Ring!Mask(read + (i - 1)) # Ring!Mask(read + n)
    BY <1>6
  <2> DEFINE a == read + (i - 1)
             j == n - (i - 1)
  <2>1. a \in Int /\ j \in 1..(s - 1) /\ a + j = read + n
    BY <1>1
  <2>2. \A d \in 1..(s - 1) : Ring!Mask(a + d) # Ring!Mask(a)
    BY <2>1, Masks DEF s
  <2>3. Ring!Mask(a + j) # Ring!Mask(a)
    BY <2>1, <2>2
  <2> HIDE DEF j
  <2> QED  BY <2>1, <2>3
<1>8. slots' \in [0..(s - 1) -> Ops \cup {NoOp}]
  BY <1>1, <1>2, <1>6
<1>9. RingInv'
  BY <1>1, <1>2, <1>3, <1>5, <1>8 DEF RingInv, s, m
<1>10. c \in Seq(Ops \cup {NoOp}) /\ Len(c) = n
       /\ \A i \in 1..n : c[i] = slots[Ring!Mask(read + (i - 1))]
  BY ContentsSpelled DEF Spelled, n
<1>11. c' \in Seq(Ops \cup {NoOp}) /\ Len(c') = n + 1
       /\ \A i \in 1..(n + 1) : c'[i] = slots'[Ring!Mask(read + (i - 1))]
  <2>1. Ring!Widths'
    BY DEF Ring!Widths
  <2>2. Spelled'
    BY <1>9, <2>1, ContentsSpelled, PTL
  <2> QED  BY <1>2, <1>5, <2>2 DEF Spelled
<1>12. c' = Append(c, o)
  <2>1. /\ Append(c, o) \in Seq(Ops \cup {NoOp}) /\ Len(Append(c, o)) = n + 1
        /\ \A i \in 1..n : Append(c, o)[i] = c[i]
        /\ Append(c, o)[n + 1] = o
    <3> HIDE DEF c
    <3> QED  BY <1>1, <1>10, AppendProperties
  <2>2. \A i \in 1..n : slots'[Ring!Mask(read + (i - 1))] = slots[Ring!Mask(read + (i - 1))]
    <3> SUFFICES ASSUME NEW i \in 1..n
                 PROVE  slots'[Ring!Mask(read + (i - 1))] = slots[Ring!Mask(read + (i - 1))]
      OBVIOUS
    <3>1. read + (i - 1) \in Int
      BY <1>1
    <3>2. Ring!Mask(read + (i - 1)) \in 0..(s - 1)
      BY <3>1, Masks, Zenon DEF s
    <3> QED  BY <1>1, <1>2, <1>7, <3>2
  <2>3. slots'[Ring!Mask(read + n)] = o
    BY <1>1, <1>2, <1>6
  <2>4. \A i \in 1..(n + 1) : c'[i] = Append(c, o)[i]
    <3> SUFFICES ASSUME NEW i \in 1..(n + 1) PROVE c'[i] = Append(c, o)[i]
      OBVIOUS
    <3> HIDE DEF c
    <3>1. CASE i = n + 1
      <4>1. i - 1 = n
        BY <1>1, <3>1
      <4> QED  BY <1>11, <2>1, <2>3, <3>1, <4>1
    <3>2. CASE i # n + 1
      <4>1. i \in 1..n
        BY <1>1, <3>2
      <4> QED  BY <1>10, <1>11, <2>1, <2>2, <4>1
    <3> QED  BY <3>1, <3>2
  <2> HIDE DEF c
  <2> QED  BY <1>1, <1>11, <2>1, <2>4, SeqEqual
<1> QED  BY <1>1, <1>2, <1>9, <1>10, <1>12 DEF Ring!Fifo!Put, s

(* A get takes off the oldest; one that empties the ring starts it afresh. *)
LEMMA RingGet ==
  ASSUME Ring!Widths, RingInv, Ring!Get
  PROVE  RingInv' /\ Ring!Fifo!Get
<1> DEFINE n == Ring!Count(write, read)
           s == Ring!Size
           m == Ring!Modulus
           c == Ring!Contents
<1>1. /\ s \in Nat \ {0} /\ m \in Nat \ {0} /\ s < m
      /\ read \in 0..(m - 1) /\ write \in 0..(m - 1)
      /\ slots \in [0..(s - 1) -> Ops \cup {NoOp}]
      /\ n \in 0..(m - 1) /\ n \in Nat /\ n > 0 /\ n <= s
      /\ write = read + n \/ write + m = read + n
  <2>1. s \in Nat \ {0} /\ m \in Nat \ {0} /\ s < m
    BY RingSizes
  <2>2. /\ read \in 0..(m - 1) /\ write \in 0..(m - 1) /\ n <= s
        /\ slots \in [0..(s - 1) -> Ops \cup {NoOp}]
    BY DEF RingInv
  <2>3. /\ n \in 0..(m - 1) /\ (write = read + n \/ write + m = read + n)
        /\ n = 0 <=> write = read
    BY <2>2, Counters
  <2>4. write # read
    BY DEF Ring!Get, Ring!Empty
  <2> HIDE DEF n, s, m
  <2> QED  BY <2>1, <2>2, <2>3, <2>4
<1>2. /\ slots' = slots /\ last' = <<"got", slots[Ring!Mask(read)]>>
      /\ write = Ring!Inc(read) => read' = 0 /\ write' = 0
      /\ write # Ring!Inc(read) => read' = Ring!Inc(read) /\ write' = write
  BY DEF Ring!Get, Ring!Empty
<1>3. Ring!Inc(read) \in 0..(m - 1) /\ (Ring!Inc(read) = read + 1 \/ Ring!Inc(read) = (read + 1) - m)
  BY <1>1, Counters
<1>4. read' \in 0..(m - 1) /\ write' \in 0..(m - 1)
  BY <1>1, <1>2, <1>3
<1>5. /\ Ring!Count(write', read') \in 0..(m - 1)
      /\ write' = read' + Ring!Count(write', read') \/ write' + m = read' + Ring!Count(write', read')
  BY <1>4, Counters
<1> HIDE DEF n, s, m
<1>6. Ring!Count(write', read') = n - 1 /\ (write = Ring!Inc(read) <=> n = 1)
  <2>1. PICK k \in 0..(m - 1) : k = Ring!Count(write', read')
    BY <1>5
  <2>2. PICK i \in 0..(m - 1) : i = Ring!Inc(read)
    BY <1>3
  <2>3. write = i <=> n = 1
    BY <1>1, <1>3, <2>2
  <2>4. CASE write = i
    BY <1>1, <1>2, <1>5, <2>1, <2>2, <2>3, <2>4
  <2>5. CASE write # i
    BY <1>1, <1>2, <1>3, <1>5, <2>1, <2>2, <2>3, <2>5
  <2> QED  BY <2>2, <2>3, <2>4, <2>5
<1>7. RingInv'
  BY <1>1, <1>2, <1>4, <1>6 DEF RingInv, s, m
<1>8. c \in Seq(Ops \cup {NoOp}) /\ Len(c) = n
      /\ \A i \in 1..n : c[i] = slots[Ring!Mask(read + (i - 1))]
  BY ContentsSpelled DEF Spelled, n
<1>9. c' \in Seq(Ops \cup {NoOp}) /\ Len(c') = n - 1
      /\ \A i \in 1..(n - 1) : c'[i] = slots[Ring!Mask(read' + (i - 1))]
  <2>1. Ring!Widths'
    BY DEF Ring!Widths
  <2>2. Spelled'
    BY <1>7, <2>1, ContentsSpelled, PTL
  <2> QED  BY <1>2, <1>6, <2>2 DEF Spelled
<1>10. \A i \in 1..(n - 1) : c'[i] = c[i + 1]
  <2> SUFFICES ASSUME NEW i \in 1..(n - 1) PROVE c'[i] = c[i + 1]
    OBVIOUS
  <2>1. n # 1 /\ i \in Int /\ i + 1 \in 1..n /\ (i + 1) - 1 = i /\ read + i \in Int
    BY <1>1
  <2>2. read' = Ring!Inc(read)
    BY <1>2, <1>6, <2>1
  <2>3. read' + (i - 1) = read + i \/ (read' + (i - 1)) + m = read + i
    BY <1>1, <1>3, <2>1, <2>2
  <2>4. read' + (i - 1) \in Int
    BY <1>4, <2>1
  <2>5. Ring!Mask(read' + (i - 1)) = Ring!Mask(read + i)
    <3>1. Ring!Mask((read' + (i - 1)) + m) = Ring!Mask(read' + (i - 1))
      BY <2>4, Masks, Zenon DEF m
    <3> QED  BY <2>3, <3>1
  <2> HIDE DEF c
  <2> QED  BY <1>8, <1>9, <2>1, <2>5
<1>11. c # <<>> /\ Head(c) = slots[Ring!Mask(read)] /\ c' = Tail(c)
  <2> HIDE DEF c
  <2>1. c # <<>>
    BY <1>1, <1>8
  <2>2. /\ Tail(c) \in Seq(Ops \cup {NoOp}) /\ Len(Tail(c)) = n - 1 /\ Head(c) = c[1]
        /\ \A i \in 1..(n - 1) : Tail(c)[i] = c[i + 1]
    BY <1>8, <2>1, HeadTailProperties
  <2>3. 1 \in 1..n /\ read + (1 - 1) = read
    BY <1>1
  <2>4. Head(c) = slots[Ring!Mask(read)]
    BY <1>8, <2>2, <2>3
  <2>5. \A i \in 1..(n - 1) : c'[i] = Tail(c)[i]
    BY <1>10, <2>2
  <2>6. c' = Tail(c)
    BY <1>1, <1>9, <2>2, <2>5, SeqEqual
  <2> QED  BY <2>1, <2>4, <2>6
<1> QED  BY <1>2, <1>7, <1>11 DEF Ring!Fifo!Get

(* Calls that are turned down change nothing.                              *)
LEMMA RingRefuses ==
  ASSUME Ring!Widths, RingInv, Ring!PutFull \/ Ring!GetEmpty \/ UNCHANGED Ring!vars
  PROVE  RingInv' /\ [Ring!Fifo!Next]_<<Ring!Contents, last>>
<1>1. UNCHANGED <<read, write, slots>>
  BY DEF Ring!PutFull, Ring!GetEmpty, Ring!vars
<1>2. RingInv'
  BY <1>1 DEF RingInv
<1>3. Ring!Contents' = Ring!Contents
  BY <1>1 DEF Ring!Contents
<1>4. /\ Ring!Contents \in Seq(Ops \cup {NoOp})
      /\ Len(Ring!Contents) = Ring!Count(write, read)
  BY ContentsSpelled DEF Spelled
<1>5. /\ Ring!Size \in Nat \ {0} /\ Ring!Count(write, read) \in 0..(Ring!Modulus - 1)
      /\ Ring!Count(write, read) <= Ring!Size
      /\ Ring!Count(write, read) = 0 <=> write = read
  BY Counters, RingSizes DEF RingInv
<1>6. CASE Ring!PutFull
  <2>1. Len(Ring!Contents) = Ring!Size /\ last' = <<"full">>
    BY <1>4, <1>5, <1>6 DEF Ring!PutFull, Ring!Full
  <2> QED  BY <1>2, <1>3, <2>1 DEF Ring!Fifo!PutFull, Ring!Fifo!Next
<1>7. CASE Ring!GetEmpty
  <2>1. Ring!Contents = <<>> /\ last' = <<"got", NoOp>>
    BY <1>4, <1>5, <1>7 DEF Ring!GetEmpty, Ring!Empty
  <2> QED  BY <1>2, <1>3, <2>1 DEF Ring!Fifo!GetEmpty, Ring!Fifo!Next
<1>8. CASE UNCHANGED Ring!vars
  BY <1>2, <1>3, <1>8 DEF Ring!vars
<1> QED  BY <1>6, <1>7, <1>8

(* The masked ring with wrapping counters is a bounded FIFO queue, for any *)
(* width of the counters and any smaller number of slots.                  *)
THEOREM RingIsFifo == Ring!Widths => (Ring!Spec => Ring!ImplementsFifo)
<1> SUFFICES ASSUME Ring!Widths PROVE Ring!Spec => Ring!ImplementsFifo
  OBVIOUS
<1>1. Ring!Init => RingInv /\ Ring!Fifo!Init
  <2> SUFFICES ASSUME Ring!Init PROVE RingInv /\ Ring!Fifo!Init
    OBVIOUS
  <2>1. /\ Ring!Size \in Nat \ {0} /\ Ring!Modulus \in Nat \ {0}
        /\ read = 0 /\ write = 0 /\ slots = [i \in 0..(Ring!Size - 1) |-> NoOp]
        /\ last = <<"none">>
    BY RingSizes DEF Ring!Init
  <2>2. 0 \in 0..(Ring!Modulus - 1)
    BY <2>1
  <2>3. Ring!Count(write, read) = 0
    BY <2>1, <2>2, Counters
  <2>4. RingInv
    BY <2>1, <2>2, <2>3 DEF RingInv
  <2>5. Ring!Contents = <<>>
    BY <2>3, <2>4, ContentsSpelled DEF Spelled
  <2> QED  BY <2>1, <2>4, <2>5 DEF Ring!Fifo!Init
<1>2. RingInv /\ [Ring!Next]_(Ring!vars) => RingInv' /\ [Ring!Fifo!Next]_<<Ring!Contents, last>>
  <2> SUFFICES ASSUME RingInv, [Ring!Next]_(Ring!vars)
               PROVE  RingInv' /\ [Ring!Fifo!Next]_<<Ring!Contents, last>>
    OBVIOUS
  <2>1. ASSUME NEW o \in Ops, Ring!Put(o)
        PROVE  RingInv' /\ [Ring!Fifo!Next]_<<Ring!Contents, last>>
    BY <2>1, RingPut DEF Ring!Fifo!Next
  <2>2. CASE Ring!Get
    BY <2>2, RingGet DEF Ring!Fifo!Next
  <2>3. CASE Ring!PutFull \/ Ring!GetEmpty \/ UNCHANGED Ring!vars
    BY <2>3, RingRefuses
  <2> QED  BY <2>1, <2>2, <2>3 DEF Ring!Next
<1> QED  BY <1>1, <1>2, PTL DEF Ring!Spec, Ring!ImplementsFifo, Ring!Fifo!Spec
=============================================================================
