------------------------ MODULE ConnlogAlarmProofs ------------------------
(***************************************************************************)
(* What is proved of the log alarm for any number of threads and periods:  *)
(* the safety properties that its runs check.                              *)
(***************************************************************************)
EXTENDS ConnlogAlarm, TLAPS

(* The alarm only moves once it has been enabled, with a valid period.     *)
MovesWhenEnabled ==
  /\ enabled => sec \in Secs
  /\ armed # 0 \/ hpc # "idle" \/ wanted => enabled

(* With the screen off the timer is quiet, unless a cancel is on its way.  *)
QuietWhenBlank ==
  blank => \/ armed = 0 /\ hpc = "idle"
           \/ \E c \in Callers : pc[c] = "cancel"

(* A cancel has a reason, and so never silences an alarm that is wanted.   *)
CancelHasReason == \A c \in Callers : pc[c] = "cancel" => blank \/ ~wanted

ArmedAsWanted == wanted /\ ~blank => armed # 0 \/ hpc # "idle"

AlarmRest ==
  /\ armed # 0 => armed = sec
  /\ MovesWhenEnabled /\ QuietWhenBlank /\ CancelHasReason /\ ArmedAsWanted

AlarmInv == TypeOK /\ AlarmRest

(* It holds when the module is loaded.                                     *)
LEMMA AlarmInit == Init => AlarmInv
<1> SUFFICES ASSUME Init PROVE AlarmInv
  OBVIOUS
<1> USE ConnlogAlarmAssumption DEF Init
<1>1. TypeOK
  BY DEF TypeOK, Calls, NoCall
<1> QED
  BY <1>1 DEF AlarmInv, AlarmRest, MovesWhenEnabled, QuietWhenBlank, CancelHasReason, ArmedAsWanted

(* One caller inside the lock keeps the others, and the handler, out.      *)
LEMMA LockExcludes ==
  ASSUME TypeOK, NEW c \in Callers, pc[c] \in {"locked", "cancel", "unlock"}
  PROVE  /\ owner = c /\ hpc # "locked"
         /\ \A d \in Callers \ {c} : pc[d] \notin {"locked", "cancel", "unlock"}
BY ConnlogAlarmAssumption DEF TypeOK

(* Type and lock discipline survive every step.                            *)
LEMMA TypeStep == TypeOK /\ [Next]_vars => TypeOK'
<1> SUFFICES ASSUME TypeOK, [Next]_vars PROVE TypeOK'
  OBVIOUS
<1> USE ConnlogAlarmAssumption
<1>1. ASSUME NEW c \in Callers, Call(c) PROVE TypeOK'
  BY <1>1 DEF TypeOK, Call
<1>2. ASSUME NEW c \in Callers, Lock(c) PROVE TypeOK'
  BY <1>2 DEF TypeOK, Lock
<1>3. ASSUME NEW c \in Callers, Enable(c) PROVE TypeOK'
  <2>1. op[c].arg \in Secs
    BY <1>3 DEF TypeOK, Enable, Calls, NoCall
  <2> QED  BY <1>3, <2>1, LockExcludes DEF TypeOK, Enable, Then
<1>4. ASSUME NEW c \in Callers, Disable(c) PROVE TypeOK'
  BY <1>4, LockExcludes DEF TypeOK, Disable, Then
<1>5. ASSUME NEW c \in Callers, BlankChanged(c) PROVE TypeOK'
  BY <1>5, LockExcludes DEF TypeOK, BlankChanged, Then
<1>6. ASSUME NEW c \in Callers, Cancel(c) PROVE TypeOK'
  BY <1>6, LockExcludes DEF TypeOK, Cancel, Then
<1>7. ASSUME NEW c \in Callers, Unlock(c) PROVE TypeOK'
  BY <1>7, LockExcludes DEF TypeOK, Unlock
<1>8. ASSUME Fires PROVE TypeOK'
  BY <1>8 DEF TypeOK, Fires
<1>9. ASSUME HandlerLock PROVE TypeOK'
  BY <1>9 DEF TypeOK, HandlerLock
<1>10. ASSUME HandlerRearm PROVE TypeOK'
  BY <1>10 DEF TypeOK, HandlerRearm
<1>11. ASSUME UNCHANGED vars PROVE TypeOK'
  BY <1>11 DEF TypeOK, vars
<1> QED
  BY <1>1, <1>2, <1>3, <1>4, <1>5, <1>6, <1>7, <1>8, <1>9, <1>10, <1>11
  DEF Next, CallerStep, Handler

(* One caller is inside the lock at a time, so a step of one cannot undo   *)
(* what another is about to do: each action keeps each part.               *)
LEMMA AlarmStep == AlarmInv /\ [Next]_vars => AlarmInv'
<1> SUFFICES ASSUME AlarmInv, [Next]_vars PROVE AlarmInv'
  OBVIOUS
<1> USE ConnlogAlarmAssumption
<1>0. TypeOK /\ TypeOK'
  BY TypeStep DEF AlarmInv
<1> USE DEF AlarmRest, MovesWhenEnabled, QuietWhenBlank, CancelHasReason, ArmedAsWanted
<1>1. ASSUME NEW c \in Callers, Call(c) PROVE AlarmRest'
  BY <1>0, <1>1 DEF AlarmInv, TypeOK, Call
<1>2. ASSUME NEW c \in Callers, Lock(c) PROVE AlarmRest'
  BY <1>0, <1>2 DEF AlarmInv, TypeOK, Lock
<1>3. ASSUME NEW c \in Callers, Enable(c) PROVE AlarmRest'
  <2>1. op[c].arg \in Secs
    BY <1>0, <1>3 DEF TypeOK, Enable, Calls, NoCall
  <2>2. \A d \in Callers : pc[d] # "cancel"
    BY <1>0, <1>3, LockExcludes DEF Enable
  <2> QED  BY <1>0, <1>3, <2>1, <2>2 DEF AlarmInv, TypeOK, Enable, Then
<1>4. ASSUME NEW c \in Callers, Disable(c) PROVE AlarmRest'
  <2>1. \A d \in Callers : pc[d] # "cancel"
    BY <1>0, <1>4, LockExcludes DEF Disable
  <2> QED  BY <1>0, <1>4, <2>1 DEF AlarmInv, TypeOK, Disable, Then
<1>5. ASSUME NEW c \in Callers, BlankChanged(c) PROVE AlarmRest'
  <2>1. \A d \in Callers : pc[d] # "cancel"
    BY <1>0, <1>5, LockExcludes DEF BlankChanged
  <2> QED  BY <1>0, <1>5, <2>1 DEF AlarmInv, TypeOK, BlankChanged, Then
<1>6. ASSUME NEW c \in Callers, Cancel(c) PROVE AlarmRest'
  <2>1. \A d \in Callers \ {c} : pc[d] # "cancel"
    BY <1>0, <1>6, LockExcludes DEF Cancel
  <2> QED  BY <1>0, <1>6, <2>1 DEF AlarmInv, TypeOK, Cancel, Then
<1>7. ASSUME NEW c \in Callers, Unlock(c) PROVE AlarmRest'
  BY <1>0, <1>7 DEF AlarmInv, TypeOK, Unlock
<1>8. ASSUME Fires PROVE AlarmRest'
  BY <1>0, <1>8 DEF AlarmInv, TypeOK, Fires
<1>9. ASSUME HandlerLock PROVE AlarmRest'
  BY <1>0, <1>9 DEF AlarmInv, TypeOK, HandlerLock
<1>10. ASSUME HandlerRearm PROVE AlarmRest'
  <2>1. \A d \in Callers : pc[d] # "cancel"
    BY <1>0, <1>10, LockExcludes DEF HandlerRearm
  <2> QED  BY <1>0, <1>10, <2>1 DEF AlarmInv, TypeOK, HandlerRearm
<1>11. ASSUME UNCHANGED vars PROVE AlarmRest'
  BY <1>11 DEF AlarmInv, vars
<1>12. AlarmRest'
  BY <1>1, <1>2, <1>3, <1>4, <1>5, <1>6, <1>7, <1>8, <1>9, <1>10, <1>11
  DEF Next, CallerStep, Handler
<1> QED  BY <1>0, <1>12 DEF AlarmInv

(* The inductive invariant: it also speaks of the moments inside the lock. *)
THEOREM AlarmInvariant == Spec => []AlarmInv
BY AlarmInit, AlarmStep, PTL DEF Spec

(* The lock has one owner, which is the thread inside, and every variable  *)
(* its type.                                                               *)
THEOREM AlarmTypeCorrect == Spec => []TypeOK
<1>1. AlarmInv => TypeOK
  BY DEF AlarmInv
<1> QED  BY <1>1, AlarmInvariant, PTL

(* An armed alarm runs with the period configured last.                    *)
THEOREM PeriodIsCurrent == Spec => []RunsWithPeriod
<1>1. AlarmInv => RunsWithPeriod
  BY DEF AlarmInv, AlarmRest, RunsWithPeriod
<1> QED  BY <1>1, AlarmInvariant, PTL

(* Outside the lock the alarm is silent while the screen is off.           *)
THEOREM BlankIsSilent == Spec => []BlankStopsAlarm
<1>1. AlarmInv => BlankStopsAlarm
  BY ConnlogAlarmAssumption
  DEF AlarmInv, AlarmRest, TypeOK, QuietWhenBlank, BlankStopsAlarm
<1> QED  BY <1>1, AlarmInvariant, PTL

(* A wanted alarm is armed, or about to arm itself, with the screen on.    *)
THEOREM AlarmNeverSilent == Spec => []StaysArmed
<1>1. AlarmInv => StaysArmed
  BY DEF AlarmInv, AlarmRest, ArmedAsWanted, StaysArmed
<1> QED  BY <1>1, AlarmInvariant, PTL
=============================================================================
