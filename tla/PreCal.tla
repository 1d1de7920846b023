------------------------------- MODULE PreCal -------------------------------
(* Pre-calibration (conninfra_core.c): at boot, and when the screen comes   *)
(* on after both radios were off, conninfra powers Bluetooth and Wi-Fi on   *)
(* by itself, lets them calibrate and powers them off again. Five kinds of  *)
(* thread take part: the core thread (a FIFO of ops), the work item that    *)
(* holds pre_cal_lock while it waits for the thread cb, the thread cb,      *)
(* which sends ops to the core thread, the radios' power calls, which poll  *)
(* the status before they send theirs, and the screen's notifier.           *)
(*                                                                          *)
(* pre_cal_lock is held across steps by the work item alone, and then       *)
(* cbPc # "idle"; pre_cal_work is pending exactly while the status is       *)
(* SCHEDULED. Resets and the timeout of a call that waits are left out.     *)
EXTENDS Naturals, Sequences

CONSTANTS Bt, Wifi,    \* CONNDRV_TYPE_BT, CONNDRV_TYPE_WIFI
          Others,      \* drivers that are not calibrated, but blocked too
          Modes,       \* values of g_pre_cal_mode to be considered
          MaxScreens,  \* bound: changes of the screen
          None

ASSUME PreCalAssumption ==
  /\ Bt # Wifi /\ Bt \notin Others /\ Wifi \notin Others
  /\ {None, "cb"} \cap ({Bt, Wifi} \cup Others) = {} /\ None # "cb"
  /\ Modes \subseteq {"allEnabled", "allDisabled", "pwrOnDisabled", "screenOnDisabled"}
  /\ MaxScreens \in Nat

CalDrivers == {Bt, Wifi}
Drivers == CalDrivers \cup Others

VARIABLES
  mode,        \* g_pre_cal_mode
  registered,  \* drivers whose do_cal_cb is set
  status,      \* cal_info.status
  caller,      \* cal_info.caller
  q,           \* the core thread's active queue
  on,          \* drivers whose drv_status is DRV_STS_POWER_ON
  cbPc,        \* the thread cb: its place in opfunc_pre_cal
  answer,      \* the result of the op that cb waits for
  everCal,     \* ever_pre_cal
  pc, want,    \* a driver's call: its place, and what it asks for
  screens,     \* changes of the screen so far
  granted,     \* history: drivers that were told they have power
  attempted,   \* history: a calibration has ended
  overtaken,   \* history: one was scheduled with a call past the block
  timedOut     \* history: a call left the block by its timeout

calVars == <<mode, status, caller>>
cbVars == <<cbPc, answer>>
callVars == <<everCal, pc, want>>
history == <<granted, attempted, overtaken, timedOut>>
vars == <<calVars, registered, q, on, cbVars, callVars, screens, history>>

Op(name, what, by) == [op |-> name, what |-> what, by |-> by]
Locked == cbPc # "idle"

-----------------------------------------------------------------------------
(* Power calls of the drivers. A driver makes one at a time, and registers  *)
(* its callbacks before the first.                                          *)

Call(d) ==
  /\ pc[d] = "idle"
  /\ d \in CalDrivers => d \in registered
  /\ \E w \in {"on", "off"} : want' = [want EXCEPT ![d] = w]
  /\ pc' = [pc EXCEPT ![d] = IF mode = "allDisabled" THEN "send" ELSE "block"]
  /\ UNCHANGED <<calVars, registered, q, on, cbVars, everCal, screens, history>>

\* Only the first call asks for a calibration by itself; ever_pre_cal is set
\* after the message was sent, and without a lock.
MustTrigger == mode = "pwrOnDisabled" /\ ~everCal

Trigger(d) ==
  /\ pc[d] = "block" /\ MustTrigger
  /\ q' = Append(q, Op("prepare", "pwrOn", None))
  /\ pc' = [pc EXCEPT ![d] = "mark"]
  /\ UNCHANGED <<calVars, registered, on, cbVars, everCal, want, screens, history>>

Mark(d) ==
  /\ pc[d] = "mark"
  /\ everCal' = TRUE
  /\ pc' = [pc EXCEPT ![d] = "block"]
  /\ UNCHANGED <<calVars, registered, q, on, cbVars, want, screens, history>>

Blocking == status \in {"notInit", "scheduled"}

\* Mutant: a call waits for the first calibration only.
PassScheduled(d) ==
  /\ pc[d] = "block" /\ ~MustTrigger
  /\ ~Locked /\ status # "notInit"
  /\ pc' = [pc EXCEPT ![d] = "send"]
  /\ UNCHANGED <<calVars, registered, q, on, cbVars, everCal, want, screens, history>>

Pass(d) ==
  /\ pc[d] = "block" /\ ~MustTrigger
  /\ ~Locked /\ ~Blocking
  /\ pc' = [pc EXCEPT ![d] = "send"]
  /\ UNCHANGED <<calVars, registered, q, on, cbVars, everCal, want, screens, history>>

\* After CONNINFRA_MAX_PRE_CAL_BLOCKING_TIME, if a callback is missing.
BlockTimeout(d) ==
  /\ pc[d] = "block" /\ ~MustTrigger
  /\ ~Locked /\ Blocking
  /\ ~(CalDrivers \subseteq registered)
  /\ pc' = [pc EXCEPT ![d] = "send"]
  /\ timedOut' = TRUE
  /\ UNCHANGED <<calVars, registered, q, on, cbVars, everCal, want, screens,
                 granted, attempted, overtaken>>

Send(d) ==
  /\ pc[d] = "send"
  /\ q' = Append(q, Op(want[d], d, d))
  /\ pc' = [pc EXCEPT ![d] = "wait"]
  /\ UNCHANGED <<calVars, registered, on, cbVars, everCal, want, screens, history>>

-----------------------------------------------------------------------------
(* Registration and the screen.                                             *)

Register(d) ==
  /\ d \in CalDrivers \ registered
  /\ registered' = registered \cup {d}
  /\ q' = IF CalDrivers \subseteq registered'
            THEN Append(q, Op("prepare", "register", None)) ELSE q
  /\ UNCHANGED <<calVars, on, cbVars, callVars, screens, history>>

ScreenOn ==
  /\ screens < MaxScreens /\ screens' = screens + 1
  /\ q' = Append(q, Op("prepare", "screenOn", None))
  /\ UNCHANGED <<calVars, registered, on, cbVars, callVars, history>>

ScreenOff ==
  /\ screens < MaxScreens /\ screens' = screens + 1
  /\ q' = Append(q, Op("check", None, None))
  /\ UNCHANGED <<calVars, registered, on, cbVars, callVars, history>>

-----------------------------------------------------------------------------
(* The core thread.                                                         *)

Serving(names) == q # << >> /\ Head(q).op \in names /\ q' = Tail(q)

\* The result of the op at the head goes back to the caller that waits for it.
Answer(ok) ==
  LET o == Head(q) IN
    IF o.by \in Drivers
      THEN /\ pc' = [pc EXCEPT ![o.by] = "idle"]
           /\ granted' = IF o.op = "on" /\ ok THEN granted \cup {o.by}
                                              ELSE granted \ {o.by}
           /\ UNCHANGED answer
      ELSE answer' = ok /\ UNCHANGED <<pc, granted>>

CoreOn ==
  /\ Serving({"on"})
  /\ \/ on' = on \cup {Head(q).what} /\ Answer(TRUE)
     \/ Head(q).what \notin on /\ Answer(FALSE) /\ UNCHANGED on
  /\ UNCHANGED <<calVars, registered, cbPc, everCal, want, screens,
                 attempted, overtaken, timedOut>>

CoreOff ==
  /\ Serving({"off"})
  /\ on' = on \ {Head(q).what}
  /\ Answer(TRUE)
  /\ UNCHANGED <<calVars, registered, cbPc, everCal, want, screens,
                 attempted, overtaken, timedOut>>

\* Cleaning and backing up the results of a calibration.
CoreData ==
  /\ Serving({"clean", "backup"})
  /\ Answer(TRUE)
  /\ UNCHANGED <<calVars, registered, on, cbPc, everCal, want, screens,
                 attempted, overtaken, timedOut>>

\* What opfunc_pre_cal_prepare and opfunc_pre_cal_check look at.
RadiosOff == CalDrivers \cap on = {}
PastBlock == {d \in CalDrivers : pc[d] \in {"send", "wait"}}

Prepare ==
  /\ Serving({"prepare"})
  /\ CalDrivers \subseteq registered => ~Locked
  /\ IF /\ CalDrivers \subseteq registered
        /\ status \in {"notInit", "needReschedule"}
        /\ RadiosOff
       THEN /\ status' = "scheduled"
            /\ caller' = Head(q).what
            /\ overtaken' = (overtaken \/ PastBlock # {})
       ELSE UNCHANGED <<status, caller, overtaken>>
  /\ UNCHANGED <<mode, registered, on, cbVars, callVars, screens,
                 granted, attempted, timedOut>>

\* Mutant: the core thread keeps trying until it gets the lock.
NeverGiveUp == FALSE /\ UNCHANGED vars

\* Ten attempts to get pre_cal_lock have failed. Only the work item keeps it
\* that long: the blocked calls try less often, and do not hold it.
PrepareGiveUp ==
  /\ Serving({"prepare"})
  /\ CalDrivers \subseteq registered /\ Locked
  /\ UNCHANGED <<calVars, registered, on, cbVars, callVars, screens, history>>

\* One attempt only: it fails, too, if a blocked call happens to hold the lock.
Check ==
  /\ Serving({"check"})
  /\ \/ /\ ~Locked
        /\ status' = IF status = "done" /\ RadiosOff THEN "needReschedule" ELSE status
     \/ /\ Locked \/ \E d \in Drivers : pc[d] = "block"
        /\ UNCHANGED status
  /\ UNCHANGED <<mode, caller, registered, on, cbVars, callVars, screens, history>>

-----------------------------------------------------------------------------
(* The work item: conninfra_core_pre_cal_start.                             *)

\* Mutant: whatever is skipped counts as done.
SkippedIsDone ==
  CASE mode = "allDisabled" -> "done"
    [] mode = "pwrOnDisabled" /\ caller = "register" -> "done"
    [] mode = "screenOnDisabled" /\ caller = "screenOn" -> "done"
    [] OTHER -> "executing"

\* The status with which the work item goes on or, if it skips, ends.
StartStatus ==
  CASE mode = "allDisabled" -> "done"
    [] mode = "pwrOnDisabled" /\ caller = "register" -> "notInit"
    [] mode = "screenOnDisabled" /\ caller = "screenOn" -> "done"
    [] OTHER -> "executing"

WorkStart ==
  /\ status = "scheduled" /\ ~Locked
  /\ status' = StartStatus
  /\ cbPc' = IF status' = "executing" THEN "check" ELSE "idle"
  /\ UNCHANGED <<mode, caller, registered, q, on, answer, callVars, screens, history>>

WorkEnd ==
  /\ cbPc = "done"
  /\ cbPc' = "idle" /\ status' = "done" /\ attempted' = TRUE
  /\ UNCHANGED <<mode, caller, registered, q, on, answer, callVars, screens,
                 granted, overtaken, timedOut>>

-----------------------------------------------------------------------------
(* The thread cb: opfunc_pre_cal.                                           *)

CbFrame == UNCHANGED <<calVars, registered, on, callVars, screens, history>>

\* Sends an op to the core thread and waits for its result at the place next.
CbAsk(name, what, next) ==
  /\ q' = Append(q, Op(name, what, "cb"))
  /\ cbPc' = next /\ answer' = None

CbGo(next) == cbPc' = next /\ answer' = None /\ UNCHANGED q
Answered(place) == cbPc = place /\ answer # None

CbCheck ==
  /\ cbPc = "check"
  /\ IF RadiosOff THEN CbAsk("clean", None, "clean") ELSE CbGo("done")
  /\ CbFrame

CbCleaned == Answered("clean") /\ CbAsk("on", Bt, "onBt") /\ CbFrame

CbBtOn ==
  /\ Answered("onBt")
  /\ IF answer THEN CbAsk("on", Wifi, "onWifi") ELSE CbGo("done")
  /\ CbFrame

CbWifiOn ==
  /\ Answered("onWifi")
  /\ IF answer THEN CbGo("pwrOn") ELSE CbAsk("off", Bt, "undo")
  /\ CbFrame

\* Both drivers' pwr_on_cb have run on their own threads.
CbPwrOn == cbPc = "pwrOn" /\ CbGo("calBt") /\ CbFrame

\* do_cal_cb says whether its driver is to be powered off afterwards.
CbCalBt ==
  /\ cbPc = "calBt"
  /\ CbAsk("off", Bt, "offBt") \/ CbGo("calWifi")
  /\ CbFrame

CbCalWifi ==
  /\ cbPc = "calWifi" \/ Answered("offBt")
  /\ IF cbPc = "offBt" THEN CbGo("calWifi")
     ELSE CbAsk("off", Wifi, "offWifi") \/ CbGo("result")
  /\ CbFrame

CbResult ==
  /\ cbPc = "result" \/ Answered("offWifi")
  /\ CbAsk("backup", None, "backup") \/ CbGo("done")
  /\ CbFrame

CbEnd ==
  /\ Answered("undo") \/ Answered("backup")
  /\ CbGo("done")
  /\ CbFrame

-----------------------------------------------------------------------------
Init ==
  /\ mode \in Modes
  /\ registered = {} /\ on = {}
  /\ status = "notInit" /\ caller = None
  /\ q = << >> /\ cbPc = "idle" /\ answer = None
  /\ everCal = FALSE
  /\ pc = [d \in Drivers |-> "idle"] /\ want = [d \in Drivers |-> "on"]
  /\ screens = 0
  /\ granted = {} /\ attempted = FALSE /\ overtaken = FALSE /\ timedOut = FALSE

CallStep(d) == Trigger(d) \/ Mark(d) \/ Pass(d) \/ Send(d)
CoreStep == CoreOn \/ CoreOff \/ CoreData \/ Prepare \/ PrepareGiveUp \/ Check
WorkStep == WorkStart \/ WorkEnd
CbStep == CbCheck \/ CbCleaned \/ CbBtOn \/ CbWifiOn \/ CbPwrOn \/ CbCalBt
          \/ CbCalWifi \/ CbResult \/ CbEnd

Next ==
  \/ \E d \in Drivers : Call(d) \/ CallStep(d) \/ BlockTimeout(d)
  \/ \E d \in CalDrivers : Register(d)
  \/ ScreenOn \/ ScreenOff
  \/ CoreStep \/ WorkStep \/ CbStep

\* Threads that can run do, callbacks return, a blocked call polls, and both
\* drivers' modules are loaded some time.
Fairness ==
  /\ \A d \in Drivers : WF_vars(CallStep(d))
  /\ \A d \in CalDrivers : WF_vars(Register(d))
  /\ WF_vars(CoreStep) /\ WF_vars(WorkStep) /\ WF_vars(CbStep)

Spec == Init /\ [][Next]_vars /\ Fairness

-----------------------------------------------------------------------------
\* The calibration turns radios on and off on its own account. No radio that
\* was granted power loses it that way, and while it runs no radio has been
\* granted any: unless a call was already past conninfra_core_pre_cal_blocking
\* when the calibration was scheduled, which nothing in the code prevents.
CalIsolated ==
  overtaken \/ (granted \subseteq on /\ (Locked => granted \cap CalDrivers = {}))

\* Where calibration at boot is enabled, no driver gets power before the first
\* one has been attempted, whoever asked for it first and in whatever order
\* registrations, power-ons and the screen come; unless a callback was missing
\* for so long that the call stopped waiting.
CalibratedFirst ==
  mode \in {"allEnabled", "pwrOnDisabled"} /\ ~timedOut /\ ~attempted => granted = {}

\* A blocked call is let go: the calibration it waits for is scheduled, and
\* ends although core thread, work item and cb wait for one another. It is not
\* promised once a call has timed out (a radio that is on keeps the calibration
\* from being scheduled, and cannot be turned off since that call is blocked),
\* nor if calibration at power-on is disabled (it may wait for the screen).
BlockEnds ==
  \A d \in Drivers :
    pc[d] = "block" ~> (pc[d] # "block" \/ timedOut \/ mode = "pwrOnDisabled")
=============================================================================
