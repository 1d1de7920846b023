---------------------------- MODULE ConnlogAlarm ----------------------------
(***************************************************************************)
(* The log alarm of connsyslog.c: enabled and disabled by a debug command, *)
(* started and cancelled when the screen changes, re-armed by its own      *)
(* handler. All take gLogAlarm.alarm_lock, a spin lock.                    *)
(*                                                                         *)
(* The kernel's alarm timers are external: alarm_start_relative (re)arms,  *)
(* alarm_cancel disarms and spins while the handler is running.            *)
(***************************************************************************)
EXTENDS Naturals

CONSTANTS
  Callers,     \* threads that enable, disable or report the screen
  Alarm,       \* the handler, as an owner of the lock
  NoOwner,     \* the lock is free
  Secs         \* the periods that are configured

ASSUME ConnlogAlarmAssumption ==
  /\ Alarm \notin Callers /\ NoOwner \notin Callers \cup {Alarm} /\ Secs \subseteq Nat \ {0}

VARIABLES
  owner,       \* who holds gLogAlarm.alarm_lock
  enabled,     \* alarm_state
  sec, blank,  \* alarm_sec, blank_state # 0
  armed,       \* the period the timer runs with, 0 when it is not armed
  hpc,         \* the handler: "idle", "lock", "locked"
  pc, op,      \* a caller: control point, what it was called for
  wanted       \* history: the last enable or disable was an enable

vars == <<owner, enabled, sec, blank, armed, hpc, pc, op, wanted>>

Calls ==
  [name : {"enable"}, arg : Secs] \cup [name : {"disable"}, arg : {0}]
    \cup [name : {"blank"}, arg : {0, 1}]

NoCall == [name |-> "none", arg |-> 0]

Init ==
  /\ owner = NoOwner /\ enabled = FALSE /\ sec = 0 /\ blank = FALSE
  /\ armed = 0 /\ hpc = "idle"
  /\ pc = [c \in Callers |-> "idle"] /\ op = [c \in Callers |-> NoCall]
  /\ wanted = FALSE

Call(c) ==
  /\ pc[c] = "idle"
  /\ \E k \in Calls : op' = [op EXCEPT ![c] = k]
  /\ pc' = [pc EXCEPT ![c] = "lock"]
  /\ UNCHANGED <<owner, enabled, sec, blank, armed, hpc, wanted>>

Lock(c) ==
  /\ pc[c] = "lock" /\ owner = NoOwner
  /\ owner' = c
  /\ pc' = [pc EXCEPT ![c] = "locked"]
  /\ UNCHANGED <<enabled, sec, blank, armed, hpc, op, wanted>>

(* What a call does with the timer: the rest of the call is unlock.        *)
Then(c, p) == pc' = [pc EXCEPT ![c] = p] /\ UNCHANGED <<owner, hpc, op>>

(* Mutant: a new period waits for the screen, the timer keeps the old one. *)
EnableLazily(c) ==
  /\ pc[c] = "locked" /\ op[c].name = "enable"
  /\ sec' = op[c].arg
  /\ enabled' = TRUE /\ wanted' = TRUE
  /\ armed' = IF blank \/ enabled THEN armed ELSE sec'
  /\ Then(c, "unlock")
  /\ UNCHANGED blank

(* connsys_dedicated_log_path_alarm_enable                                 *)
Enable(c) ==
  /\ pc[c] = "locked" /\ op[c].name = "enable"
  /\ sec' = op[c].arg
  /\ enabled' = TRUE /\ wanted' = TRUE
  /\ armed' = IF blank THEN armed ELSE sec'
  /\ Then(c, "unlock")
  /\ UNCHANGED blank

(* connsys_dedicated_log_path_alarm_disable: alarm_state stays as it is.   *)
Disable(c) ==
  /\ pc[c] = "locked" /\ op[c].name = "disable"
  /\ wanted' = FALSE
  /\ Then(c, IF enabled THEN "cancel" ELSE "unlock")
  /\ UNCHANGED <<enabled, sec, blank, armed>>

(* Mutant: the screen going off leaves the timer running.                  *)
BlankNoCancel(c) ==
  /\ pc[c] = "locked" /\ op[c].name = "blank"
  /\ blank' = (op[c].arg # 0)
  /\ armed' = IF enabled /\ ~blank' THEN sec ELSE armed
  /\ Then(c, "unlock")
  /\ UNCHANGED <<enabled, sec, wanted>>

(* connsys_dedicated_log_path_blank_state_changed                          *)
BlankChanged(c) ==
  /\ pc[c] = "locked" /\ op[c].name = "blank"
  /\ blank' = (op[c].arg # 0)
  /\ armed' = IF enabled /\ ~blank' THEN sec ELSE armed
  /\ Then(c, IF enabled /\ blank' THEN "cancel" ELSE "unlock")
  /\ UNCHANGED <<enabled, sec, wanted>>

(* alarm_cancel                                                            *)
Cancel(c) ==
  /\ pc[c] = "cancel" /\ hpc = "idle"
  /\ armed' = 0
  /\ Then(c, "unlock")
  /\ UNCHANGED <<enabled, sec, blank, wanted>>

Unlock(c) ==
  /\ pc[c] = "unlock"
  /\ owner' = NoOwner
  /\ pc' = [pc EXCEPT ![c] = "idle"] /\ op' = [op EXCEPT ![c] = NoCall]
  /\ UNCHANGED <<enabled, sec, blank, armed, hpc, wanted>>
-----------------------------------------------------------------------------
(* connlog_alarm_timer_handler: it queues the log work of every radio,     *)
(* then re-arms the timer under the lock.                                  *)
Fires ==
  /\ armed # 0 /\ hpc = "idle"
  /\ armed' = 0
  /\ hpc' = "lock"
  /\ UNCHANGED <<owner, enabled, sec, blank, pc, op, wanted>>

HandlerLock ==
  /\ hpc = "lock" /\ owner = NoOwner
  /\ owner' = Alarm
  /\ hpc' = "locked"
  /\ UNCHANGED <<enabled, sec, blank, armed, pc, op, wanted>>

(* Mutant: the handler is not re-armed.                                    *)
HandlerOnce ==
  /\ hpc = "locked"
  /\ owner' = NoOwner
  /\ hpc' = "idle"
  /\ UNCHANGED <<enabled, sec, blank, armed, pc, op, wanted>>

HandlerRearm ==
  /\ hpc = "locked"
  /\ armed' = sec
  /\ owner' = NoOwner
  /\ hpc' = "idle"
  /\ UNCHANGED <<enabled, sec, blank, pc, op, wanted>>
-----------------------------------------------------------------------------
CallerStep(c) ==
  Lock(c) \/ Enable(c) \/ Disable(c) \/ BlankChanged(c) \/ Cancel(c) \/ Unlock(c)

Handler == HandlerLock \/ HandlerRearm

Next == Fires \/ Handler \/ \E c \in Callers : Call(c) \/ CallerStep(c)

Spec == Init /\ [][Next]_vars
-----------------------------------------------------------------------------
(* Every variable has its type, and the lock has the owner that is inside. *)
TypeOK ==
  /\ owner \in Callers \cup {Alarm, NoOwner}
  /\ {enabled, blank, wanted} \subseteq BOOLEAN
  /\ sec \in Secs \cup {0} /\ armed \in Secs \cup {0}
  /\ hpc \in {"idle", "lock", "locked"}
  /\ pc \in [Callers -> {"idle", "lock", "locked", "cancel", "unlock"}]
  /\ op \in [Callers -> Calls \cup {NoCall}]
  /\ \A c \in Callers : owner = c <=> pc[c] \in {"locked", "cancel", "unlock"}
  /\ owner = Alarm <=> hpc = "locked"

(* Whenever nobody holds the lock, the timer runs with the period that was *)
(* configured last, whichever of a new period, a change of the screen and  *)
(* the handler's own re-arming came last.                                  *)
RunsWithPeriod == owner = NoOwner /\ armed # 0 => armed = sec

(* Whenever nobody holds the lock and the screen is off, the timer is not  *)
(* armed and its handler, which re-arms it without a look at the screen,   *)
(* is not on its way.                                                      *)
BlankStopsAlarm == owner = NoOwner /\ blank => armed = 0 /\ hpc = "idle"

(* Enabled and with the screen on, the alarm never falls silent.           *)
StaysArmed ==
  owner = NoOwner /\ wanted /\ ~blank => armed # 0 \/ hpc # "idle"
=============================================================================
