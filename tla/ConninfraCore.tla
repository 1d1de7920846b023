--------------------------- MODULE ConninfraCore ---------------------------
(***************************************************************************)
(* Power and whole-chip reset in conninfra's connv2 core                   *)
(* (core/conninfra_core.c, src/conninfra.c, platform/consys_hw.c).         *)
(*                                                                         *)
(* The radio drivers (BT, FM, GPS, WIFI) share one chip. Their calls are   *)
(* carried out by two kernel threads: "core" runs the power and register   *)
(* operations, "cb" runs a chip reset, which calls the drivers back on a   *)
(* thread of each driver. Both threads call opfunc_power_on_internal and   *)
(* opfunc_power_off_internal, under core_lock except for the status word   *)
(* that power-off reads before it takes the lock.                          *)
(*                                                                         *)
(* The message threads are queues here (MsgThread models how they work).   *)
(* Pre-calibration is disabled, as with PRE_CAL_ALL_DISABLED.              *)
(***************************************************************************)
EXTENDS Integers, Sequences, FiniteSets

CONSTANTS
  NumDrivers,   \* drivers in support_drv, numbered from 0 (enum consys_drv_type)
  Clients,      \* threads that call the exported functions
  Calls,        \* the calls they make
  HwMayFail     \* whether powering the chip on, or enabling its power dump, may fail

AllCalls == {"on", "off", "rst", "read", "readable", "hwop", "therm", "dump", "suspend"}

ASSUME CoreAssumption ==
  /\ NumDrivers \in Nat \ {0}
  /\ Calls \subseteq AllCalls
  /\ HwMayFail \in BOOLEAN
  /\ Clients \cap {"core", "cb", "free"} = {}

VARIABLES
  drvOn,        \* drv_inst[d].drv_status = DRV_STS_POWER_ON
  vcn,          \* whether the driver's own VCN supply is on
  infraOn,      \* infra_drv_status = DRV_STS_POWER_ON
  hwOn,         \* whether the chip is powered
  dumpOn,       \* power_dump_enable
  coreLock,     \* the owner of core_lock, or "free"
  rstStatus,    \* rst_status
  rstState,     \* rst_state: the sum of the bits of the drivers that called back
  msgQ,         \* ops queued for the core thread
  cbQ,          \* chip-reset ops queued for the cb thread
  subQ,         \* ops queued for each driver's thread
  spc, told,    \* driver threads: control point; the last callback the driver got
  wpc, wdrv, wcurr, wlast, wret, idx,
                \* core and cb, inside an operation: control point, drv_type,
                \* curr_status, try_power_off, return value, loop counter
  coreOp,       \* the op the core thread has taken
  cbPc, cbIdx, snap,  \* opfunc_chip_rst: control point, loop counter, drv_pwr_state
  cpc, ccall, cdrv,   \* clients: control point, call and its argument
  granted       \* drivers whose last power call that returned 0 was a power-on

powerVars == <<drvOn, vcn, infraOn, hwOn, dumpOn>>
rstVars == <<rstStatus, rstState>>
subVars == <<subQ, spc, told>>
workVars == <<wpc, wdrv, wcurr, wlast, wret, idx>>
cbVars == <<cbPc, cbIdx, snap>>
clientVars == <<cpc, ccall, cdrv>>
vars == <<powerVars, coreLock, rstVars, msgQ, cbQ, subVars, workVars, coreOp, cbVars,
          clientVars, granted>>

Drivers == 0..(NumDrivers - 1)
Workers == {"core", "cb"}
NoOp == [call |-> "none", drv |-> 0, from |-> "none"]

(* enum chip_rst_status *)
RstNone == 0
RstStart == 1
RstPreCb == 2
RstReset == 3
RstPostCb == 4
RstDone == 5

On == {d \in Drivers : drvOn[d]}       \* opfunc_get_current_status

(* 0x1 << n, and subdrv_all_done: the bits of all drivers.                 *)
Bit[n \in Nat] == IF n = 0 THEN 1 ELSE 2 * Bit[n - 1]
AllBits == Bit[NumDrivers] - 1

(* conninfra_core_is_rst_locking *)
is_rst_locking == RstNone < rstStatus /\ rstStatus < RstPostCb

(* Probed at power-on: consys_hw_enable_power_dump.                        *)
DumpResults == IF HwMayFail THEN BOOLEAN ELSE {TRUE}

(* conninfra_core_init: every driver off, no reset, all threads idle.      *)
Init ==
  /\ drvOn = [d \in Drivers |-> FALSE]
  /\ vcn = [d \in Drivers |-> FALSE]
  /\ infraOn = FALSE /\ hwOn = FALSE /\ dumpOn = FALSE
  /\ coreLock = "free"
  /\ rstStatus = RstNone /\ rstState = 0
  /\ msgQ = <<>> /\ cbQ = 0
  /\ subQ = [d \in Drivers |-> <<>>]
  /\ spc = [d \in Drivers |-> "idle"]
  /\ told = [d \in Drivers |-> "post"]
  /\ wpc = [w \in Workers |-> "idle"]
  /\ wdrv = [w \in Workers |-> 0]
  /\ wcurr = [w \in Workers |-> {}]
  /\ wlast = [w \in Workers |-> TRUE]
  /\ wret = [w \in Workers |-> "ok"]
  /\ idx = [w \in Workers |-> 0]
  /\ coreOp = NoOp
  /\ cbPc = "idle" /\ cbIdx = 0 /\ snap = {}
  /\ cpc = [c \in Clients |-> "idle"]
  /\ ccall = [c \in Clients |-> "none"]
  /\ cdrv = [c \in Clients |-> 0]
  /\ granted = {}
-----------------------------------------------------------------------------
(* Control of the two threads inside an operation. An unlock is part of    *)
(* the step that writes last under the lock.                               *)

At(w, p) == wpc[w] = p
Goto(w, p) == wpc' = [wpc EXCEPT ![w] = p]

(* The operation is called: its locals get their initial values.           *)
Enter(w, p, d) ==
  /\ Goto(w, p)
  /\ wdrv' = [wdrv EXCEPT ![w] = d]
  /\ wcurr' = [wcurr EXCEPT ![w] = {}]
  /\ wlast' = [wlast EXCEPT ![w] = TRUE]
  /\ wret' = [wret EXCEPT ![w] = "ok"]
  /\ idx' = [idx EXCEPT ![w] = 0]

ReturnLocked(w, r) ==
  /\ Goto(w, "ret")
  /\ wret' = [wret EXCEPT ![w] = r]
  /\ UNCHANGED <<wdrv, wcurr, wlast, idx>>

Unlock(w) == coreLock = w /\ coreLock' = "free"
Return(w, r) == Unlock(w) /\ ReturnLocked(w, r)

LockThen(w, p) == coreLock = "free" /\ coreLock' = w /\ Goto(w, p)

(* What an operation of a worker never touches.                            *)
elsewhere == <<rstVars, msgQ, cbQ, subVars, coreOp, cbVars, clientVars, granted>>
locals == <<wdrv, wcurr, wlast, wret, idx>>
-----------------------------------------------------------------------------
(* Faulty variants of the operations below, to see the properties fail.    *)

(* "already on" returns without osal_unlock_sleepable_lock.                *)
OnAlreadyHolds(w) ==
  /\ At(w, "onHw")
  /\ drvOn[wdrv[w]]
  /\ ReturnLocked(w, "ok")
  /\ UNCHANGED <<powerVars, coreLock, elsewhere>>

(* drv_status is set before the result of consys_hw_pwr_on is looked at.   *)
OnHwFailsMarked(w) ==
  /\ HwMayFail
  /\ At(w, "onHw")
  /\ ~drvOn[wdrv[w]]
  /\ drvOn' = [drvOn EXCEPT ![wdrv[w]] = TRUE]
  /\ Return(w, "fail")
  /\ UNCHANGED <<vcn, infraOn, hwOn, dumpOn, elsewhere>>

(* "is there subsys on ?" asked before the driver's own status is cleared. *)
OffMarkLate(w) ==
  /\ At(w, "offMark")
  /\ drvOn[wdrv[w]]
  /\ drvOn' = [drvOn EXCEPT ![wdrv[w]] = FALSE]
  /\ wlast' = [wlast EXCEPT ![w] = On = {}]
  /\ Goto(w, "offHw")
  /\ UNCHANGED <<vcn, infraOn, hwOn, dumpOn, coreLock, wdrv, wcurr, wret, idx, elsewhere>>

(* try_power_off not set: infra_drv_status stays on after a forced off.    *)
ForceEndKeepsInfra(w) ==
  /\ At(w, "forceEnd")
  /\ Return(w, "ok")
  /\ UNCHANGED <<powerVars, elsewhere>>

OnLock(w) ==
  /\ At(w, "onLock")
  /\ LockThen(w, "onHw")
  /\ UNCHANGED <<powerVars, locals, elsewhere>>

OnAlready(w) ==
  /\ At(w, "onHw")
  /\ drvOn[wdrv[w]]
  /\ Return(w, "ok")
  /\ UNCHANGED <<powerVars, elsewhere>>

(* consys_hw_pwr_on: the first driver powers the chip on, a later one only *)
(* wakes it.                                                               *)
OnHw(w) ==
  /\ At(w, "onHw")
  /\ ~drvOn[wdrv[w]]
  /\ hwOn' = (hwOn \/ On = {})
  /\ Goto(w, "onInfra")
  /\ UNCHANGED <<drvOn, vcn, infraOn, dumpOn, coreLock, locals, elsewhere>>

(* consys_hw_pwr_on fails; a failed first power-on is rolled back, unless  *)
(* it fails before anything was switched.                                  *)
OnHwFails(w) ==
  /\ HwMayFail
  /\ At(w, "onHw")
  /\ ~drvOn[wdrv[w]]
  /\ hwOn' \in IF On = {} THEN {hwOn, FALSE} ELSE {hwOn}
  /\ Return(w, "fail")
  /\ UNCHANGED <<drvOn, vcn, infraOn, dumpOn, elsewhere>>

OnInfra(w) ==
  /\ At(w, "onInfra")
  /\ infraOn' = TRUE
  /\ IF infraOn THEN dumpOn' = dumpOn ELSE dumpOn' \in DumpResults
  /\ Goto(w, "onDrv")
  /\ UNCHANGED <<drvOn, vcn, hwOn, coreLock, locals, elsewhere>>

OnDrv(w) ==
  /\ At(w, "onDrv")
  /\ drvOn' = [drvOn EXCEPT ![wdrv[w]] = TRUE]
  /\ vcn' = [vcn EXCEPT ![wdrv[w]] = TRUE]
  /\ Return(w, "ok")
  /\ UNCHANGED <<infraOn, hwOn, dumpOn, elsewhere>>
-----------------------------------------------------------------------------
(* opfunc_power_off_internal for a driver                                  *)

(* curr_status = opfunc_get_current_status(): one driver read at a time,   *)
(* before the lock is taken.                                               *)
OffRead(w) ==
  /\ At(w, "offRead")
  /\ wcurr' = [wcurr EXCEPT ![w] = IF drvOn[idx[w]] THEN @ \cup {idx[w]} ELSE @]
  /\ idx' = [idx EXCEPT ![w] = @ + 1]
  /\ Goto(w, IF idx[w] + 1 = NumDrivers THEN "offLock" ELSE "offRead")
  /\ UNCHANGED <<powerVars, coreLock, wdrv, wlast, wret, elsewhere>>

OffLock(w) ==
  /\ At(w, "offLock")
  /\ LockThen(w, "offMark")
  /\ UNCHANGED <<powerVars, locals, elsewhere>>

OffAlready(w) ==
  /\ At(w, "offMark")
  /\ ~drvOn[wdrv[w]]
  /\ Return(w, "ok")
  /\ UNCHANGED <<powerVars, elsewhere>>

(* try_power_off: no other driver is on; then the power dump is disabled.  *)
OffMark(w) ==
  /\ At(w, "offMark")
  /\ drvOn[wdrv[w]]
  /\ drvOn' = [drvOn EXCEPT ![wdrv[w]] = FALSE]
  /\ wlast' = [wlast EXCEPT ![w] = On = {wdrv[w]}]
  /\ dumpOn' = (dumpOn /\ On # {wdrv[w]})
  /\ Goto(w, "offHw")
  /\ UNCHANGED <<vcn, infraOn, hwOn, coreLock, wdrv, wcurr, wret, idx, elsewhere>>

(* consys_hw_pwr_off(curr_status, drv_type), which never fails.            *)
OffHw(w) ==
  /\ At(w, "offHw")
  /\ vcn' = [vcn EXCEPT ![wdrv[w]] = FALSE]
  /\ hwOn' = (hwOn /\ wcurr[w] \ {wdrv[w]} # {})
  /\ Goto(w, "offEnd")
  /\ UNCHANGED <<drvOn, infraOn, dumpOn, coreLock, locals, elsewhere>>

OffEnd(w) ==
  /\ At(w, "offEnd")
  /\ infraOn' = (infraOn /\ ~wlast[w])
  /\ Return(w, "ok")
  /\ UNCHANGED <<drvOn, vcn, hwOn, dumpOn, elsewhere>>
-----------------------------------------------------------------------------
(* opfunc_power_off_internal(CONNDRV_TYPE_CONNINFRA), the forced power-off *)
(* of a reset                                                              *)

ForceLock(w) ==
  /\ At(w, "forceLock")
  /\ LockThen(w, "forceCheck")
  /\ UNCHANGED <<powerVars, locals, elsewhere>>

(* "Connsys already off, do nothing for force off": it returns at once,    *)
(* with the lock.                                                          *)
ForceAlready(w) ==
  /\ At(w, "forceCheck")
  /\ ~infraOn
  /\ dumpOn' = FALSE
  /\ ReturnLocked(w, "ok")
  /\ UNCHANGED <<drvOn, vcn, infraOn, hwOn, coreLock, elsewhere>>

ForceCheck(w) ==
  /\ At(w, "forceCheck")
  /\ infraOn
  /\ dumpOn' = FALSE
  /\ Goto(w, "forceLoop")
  /\ UNCHANGED <<drvOn, vcn, infraOn, hwOn, coreLock, locals, elsewhere>>

ForceLoop(w) ==
  /\ At(w, "forceLoop")
  /\ drvOn' = [drvOn EXCEPT ![idx[w]] = FALSE]
  /\ vcn' = [vcn EXCEPT ![idx[w]] = @ /\ ~drvOn[idx[w]]]
  /\ idx' = [idx EXCEPT ![w] = @ + 1]
  /\ Goto(w, IF idx[w] + 1 = NumDrivers THEN "forceHw" ELSE "forceLoop")
  /\ UNCHANGED <<infraOn, hwOn, dumpOn, coreLock, wdrv, wcurr, wlast, wret, elsewhere>>

ForceHw(w) ==
  /\ At(w, "forceHw")
  /\ hwOn' = FALSE
  /\ Goto(w, "forceEnd")
  /\ UNCHANGED <<drvOn, vcn, infraOn, dumpOn, coreLock, locals, elsewhere>>

ForceEnd(w) ==
  /\ At(w, "forceEnd")
  /\ infraOn' = FALSE
  /\ Return(w, "ok")
  /\ UNCHANGED <<drvOn, vcn, hwOn, dumpOn, elsewhere>>
-----------------------------------------------------------------------------
(* opfunc_rfspi_write and the other operations of the core thread that     *)
(* reach the chip's registers when conninfra is on                         *)

HwopLock(w) ==
  /\ At(w, "hwopLock")
  /\ LockThen(w, "hwopCheck")
  /\ UNCHANGED <<powerVars, locals, elsewhere>>

\* consys_hw_reg_readable, which may make it fail as well, is left out.
HwopCheck(w) ==
  /\ At(w, "hwopCheck")
  /\ IF infraOn
       THEN Goto(w, "access") /\ UNCHANGED <<coreLock, locals>>
       ELSE Return(w, "fail")
  /\ UNCHANGED <<powerVars, elsewhere>>

HwopAccess(w) ==
  /\ At(w, "access")
  /\ Return(w, "ok")
  /\ UNCHANGED <<powerVars, elsewhere>>

(* opfunc_therm_ctrl looks at infra_drv_status before it takes the lock,   *)
(* and not again.                                                          *)
ThermCheck(w) ==
  /\ At(w, "thermCheck")
  /\ IF infraOn THEN Goto(w, "thermLock") /\ UNCHANGED locals ELSE ReturnLocked(w, "ok")
  /\ UNCHANGED <<powerVars, coreLock, elsewhere>>

ThermLock(w) ==
  /\ At(w, "thermLock")
  /\ LockThen(w, "access")
  /\ UNCHANGED <<powerVars, locals, elsewhere>>

(* opfunc_dump_power_state does not take core_lock.                        *)
DumpCheck(w) ==
  /\ At(w, "dumpCheck")
  /\ IF dumpOn THEN Goto(w, "dump") /\ UNCHANGED locals ELSE ReturnLocked(w, "ok")
  /\ UNCHANGED <<powerVars, coreLock, elsewhere>>

DumpAccess(w) ==
  /\ At(w, "dump")
  /\ ReturnLocked(w, "ok")
  /\ UNCHANGED <<powerVars, coreLock, elsewhere>>
-----------------------------------------------------------------------------
(* The core thread: msg_ctx and conninfra_core_opfunc                      *)

CoreEntry == [on |-> "onLock", off |-> "offRead", hwop |-> "hwopLock", therm |-> "thermCheck",
              dump |-> "dumpCheck"]

CoreTake ==
  /\ At("core", "idle")
  /\ msgQ # <<>>
  /\ coreOp' = Head(msgQ)
  /\ msgQ' = Tail(msgQ)
  /\ Enter("core", CoreEntry[Head(msgQ).call], Head(msgQ).drv)
  /\ UNCHANGED <<powerVars, coreLock, rstVars, cbQ, subVars, cbVars, clientVars, granted>>

(* The handler's result goes back to the caller, which waits for it.       *)
CoreReply ==
  /\ At("core", "ret")
  /\ cpc' = [cpc EXCEPT ![coreOp.from] = "idle"]
  /\ granted' = IF wret["core"] # "ok" THEN granted
                ELSE CASE coreOp.call = "on"  -> granted \cup {coreOp.drv}
                       [] coreOp.call = "off" -> granted \ {coreOp.drv}
                       [] OTHER               -> granted
  /\ coreOp' = NoOp
  /\ Enter("core", "idle", 0)
  /\ UNCHANGED <<powerVars, coreLock, rstVars, msgQ, cbQ, subVars, cbVars, ccall, cdrv>>
-----------------------------------------------------------------------------
(* The cb thread: opfunc_chip_rst                                          *)

CbGoto(p) == cbPc' = p /\ cbIdx' = 0

(* Faulty variants of two of the steps below.                              *)

(* Only the last driver's callback is waited for.                          *)
CbResetEarly ==
  /\ cbPc = "pre" /\ cbIdx = NumDrivers
  /\ rstState >= Bit[NumDrivers - 1]
  /\ rstStatus' = RstReset
  /\ CbGoto("force")
  /\ Enter("cb", "forceLock", 0)
  /\ UNCHANGED <<powerVars, coreLock, rstState, msgQ, cbQ, subVars, coreOp, snap, clientVars,
                 granted>>

(* rst_state is not cleared for the second round of callbacks.             *)
CbPostCbUncleared ==
  /\ cbPc = "repower" /\ cbIdx = NumDrivers
  /\ rstStatus' = RstPostCb
  /\ CbGoto("post")
  /\ UNCHANGED <<powerVars, coreLock, rstState, msgQ, cbQ, subVars, workVars, coreOp, snap,
                 clientVars, granted>>

(* "No subsys on, just return", read without core_lock.                    *)
CbNothingOn ==
  /\ cbPc = "idle" /\ cbQ > 0
  /\ ~infraOn
  /\ cbQ' = cbQ - 1
  /\ rstStatus' = RstNone
  /\ UNCHANGED <<powerVars, coreLock, rstState, msgQ, subVars, workVars, coreOp, cbVars,
                 clientVars, granted>>

CbTake ==
  /\ cbPc = "idle" /\ cbQ > 0
  /\ infraOn
  /\ cbQ' = cbQ - 1
  /\ rstState' = 0
  /\ rstStatus' = RstPreCb
  /\ CbGoto("pre")
  /\ snap' = {}
  /\ UNCHANGED <<powerVars, coreLock, msgQ, subVars, workVars, coreOp, clientVars, granted>>

(* The loop over drv_inst: note its status, send its thread PRE_RESET.     *)
CbPre ==
  /\ cbPc = "pre" /\ cbIdx < NumDrivers
  /\ snap' = IF drvOn[cbIdx] THEN snap \cup {cbIdx} ELSE snap
  /\ subQ' = [subQ EXCEPT ![cbIdx] = Append(@, "pre")]
  /\ cbIdx' = cbIdx + 1
  /\ UNCHANGED <<powerVars, coreLock, rstVars, msgQ, cbQ, spc, told, workVars, coreOp, cbPc,
                 clientVars, granted>>

(* Every driver has called back: CHIP_RST_RESET and the forced power-off.  *)
CbReset ==
  /\ cbPc = "pre" /\ cbIdx = NumDrivers
  /\ rstState = AllBits
  /\ rstStatus' = RstReset
  /\ CbGoto("force")
  /\ Enter("cb", "forceLock", 0)
  /\ UNCHANGED <<powerVars, coreLock, rstState, msgQ, cbQ, subVars, coreOp, snap, clientVars,
                 granted>>

(* An operation called by opfunc_chip_rst returns; its result is ignored.  *)
CbReturn ==
  /\ At("cb", "ret")
  /\ Enter("cb", "idle", 0)
  /\ IF cbPc = "force" THEN CbGoto("repower") ELSE cbIdx' = cbIdx + 1 /\ cbPc' = cbPc
  /\ UNCHANGED <<powerVars, coreLock, rstVars, msgQ, cbQ, subVars, coreOp, snap, clientVars,
                 granted>>

(* "Turn on subsys": the drivers that were on in the PRE_RESET loop.       *)
CbRepower ==
  /\ cbPc = "repower" /\ cbIdx < NumDrivers /\ At("cb", "idle")
  /\ IF cbIdx \in snap
       THEN Enter("cb", "onLock", cbIdx) /\ cbIdx' = cbIdx
       ELSE cbIdx' = cbIdx + 1 /\ UNCHANGED workVars
  /\ UNCHANGED <<powerVars, coreLock, rstVars, msgQ, cbQ, subVars, coreOp, cbPc, snap,
                 clientVars, granted>>

CbPostCb ==
  /\ cbPc = "repower" /\ cbIdx = NumDrivers
  /\ rstStatus' = RstPostCb
  /\ rstState' = 0
  /\ CbGoto("post")
  /\ UNCHANGED <<powerVars, coreLock, msgQ, cbQ, subVars, workVars, coreOp, snap, clientVars,
                 granted>>

CbPost ==
  /\ cbPc = "post" /\ cbIdx < NumDrivers
  /\ subQ' = [subQ EXCEPT ![cbIdx] = Append(@, "post")]
  /\ cbIdx' = cbIdx + 1
  /\ UNCHANGED <<powerVars, coreLock, rstVars, msgQ, cbQ, spc, told, workVars, coreOp, cbPc,
                 snap, clientVars, granted>>

CbDone ==
  /\ cbPc = "post" /\ cbIdx = NumDrivers
  /\ rstState = AllBits
  /\ rstStatus' = RstNone
  /\ CbGoto("idle")
  /\ snap' = {}
  /\ UNCHANGED <<powerVars, coreLock, rstState, msgQ, cbQ, subVars, workVars, coreOp,
                 clientVars, granted>>
-----------------------------------------------------------------------------
(* A driver's thread: opfunc_subdrv_pre_reset, opfunc_subdrv_post_reset    *)

(* Faulty: a driver without a callback returns before rst_state is updated. *)
SubSilent(d) ==
  /\ spc[d] = "called"
  /\ spc' = [spc EXCEPT ![d] = "idle"]
  /\ UNCHANGED <<powerVars, coreLock, rstVars, msgQ, cbQ, subQ, told, workVars, coreOp,
                 cbVars, clientVars, granted>>

(* The op is taken and the driver's callback runs.                         *)
SubCallback(d) ==
  /\ spc[d] = "idle" /\ subQ[d] # <<>>
  /\ told' = [told EXCEPT ![d] = Head(subQ[d])]
  /\ subQ' = [subQ EXCEPT ![d] = Tail(@)]
  /\ spc' = [spc EXCEPT ![d] = "called"]
  /\ UNCHANGED <<powerVars, coreLock, rstVars, msgQ, cbQ, workVars, coreOp, cbVars,
                 clientVars, granted>>

(* atomic_add(0x1 << drv_type, &rst_state) and up(&rst_sema).              *)
SubSignal(d) ==
  /\ spc[d] = "called"
  /\ rstState' = rstState + Bit[d]
  /\ spc' = [spc EXCEPT ![d] = "idle"]
  /\ UNCHANGED <<powerVars, coreLock, rstStatus, msgQ, cbQ, subQ, told, workVars, coreOp,
                 cbVars, clientVars, granted>>
-----------------------------------------------------------------------------
(* The callers of the exported functions                                   *)

CGoto(c, p) == cpc' = [cpc EXCEPT ![c] = p] /\ UNCHANGED <<ccall, cdrv>>

(* The arguments leave the caller's hands: it returns, or its op is queued. *)
CDrop(c, p) ==
  /\ cpc' = [cpc EXCEPT ![c] = p]
  /\ ccall' = [ccall EXCEPT ![c] = "none"]
  /\ cdrv' = [cdrv EXCEPT ![c] = 0]
CReturn(c) == CDrop(c, "idle")

(* What a caller's step before its request is queued never touches.        *)
others == <<powerVars, rstState, msgQ, cbQ, subVars, workVars, coreOp, cbVars, granted>>

(* Faulty variants of two of the steps below.                              *)

(* CHIP_RST_START does not count as an ongoing reset.                      *)
LockRstTwice(c) ==
  /\ cpc[c] = "lockRst"
  /\ IF RstStart < rstStatus /\ rstStatus < RstDone
       THEN CReturn(c) /\ UNCHANGED rstStatus
       ELSE CGoto(c, "post") /\ rstStatus' = RstStart
  /\ UNCHANGED <<others, coreLock>>

(* conninfra_core_reg_read without the test of infra_drv_status.           *)
ReadUnchecked(c) ==
  /\ cpc[c] = "locked"
  /\ CGoto(c, "access")
  /\ UNCHANGED <<others, coreLock, rstStatus>>

CallEntry == [on |-> "check", off |-> "check", hwop |-> "check", therm |-> "send",
              dump |-> "send", rst |-> "lockRst", read |-> "lock", readable |-> "checkReset",
              suspend |-> "checkDump"]

Call(c) ==
  /\ cpc[c] = "idle"
  /\ \E k \in Calls, d \in Drivers :
       /\ k \notin {"on", "off"} => d = 0
       /\ ccall' = [ccall EXCEPT ![c] = k]
       /\ cdrv' = [cdrv EXCEPT ![c] = d]
       /\ cpc' = [cpc EXCEPT ![c] = CallEntry[k]]
  /\ UNCHANGED <<others, coreLock, rstStatus>>

(* conninfra_pwr_on and conninfra_pwr_off answer CONNINFRA_ERR_RST_ONGOING *)
(* during a reset.                                                         *)
CheckRst(c) ==
  /\ cpc[c] = "check"
  /\ IF is_rst_locking THEN CReturn(c) ELSE CGoto(c, "send")
  /\ UNCHANGED <<others, coreLock, rstStatus>>

Send(c) ==
  /\ cpc[c] = "send"
  /\ msgQ' = Append(msgQ, [call |-> ccall[c], drv |-> cdrv[c], from |-> c])
  /\ CDrop(c, "wait")
  /\ UNCHANGED <<powerVars, coreLock, rstVars, cbQ, subVars, workVars, coreOp, cbVars, granted>>

(* conninfra_core_lock_rst: one reset at a time.                           *)
LockRst(c) ==
  /\ cpc[c] = "lockRst"
  /\ IF RstNone < rstStatus /\ rstStatus < RstDone
       THEN CReturn(c) /\ UNCHANGED rstStatus
       ELSE CGoto(c, "post") /\ rstStatus' = RstStart
  /\ UNCHANGED <<others, coreLock>>

(* conninfra_core_trg_chip_rst                                             *)
PostRst(c) ==
  /\ cpc[c] = "post"
  /\ cbQ' = cbQ + 1
  /\ CReturn(c)
  /\ UNCHANGED <<powerVars, coreLock, rstVars, msgQ, subVars, workVars, coreOp, cbVars, granted>>

(* conninfra_core_reg_readable looks at rst_status before it takes the lock. *)
CheckReset(c) ==
  /\ cpc[c] = "checkReset"
  /\ IF RstReset <= rstStatus /\ rstStatus < RstPostCb THEN CReturn(c) ELSE CGoto(c, "lock")
  /\ UNCHANGED <<others, coreLock, rstStatus>>

ReadLock(c) ==
  /\ cpc[c] = "lock"
  /\ coreLock = "free" /\ coreLock' = c
  /\ CGoto(c, "locked")
  /\ UNCHANGED <<others, rstStatus>>

(* The lock is killable: a caller that is killed while it waits returns 0. *)
ReadKilled(c) ==
  /\ cpc[c] = "lock"
  /\ CReturn(c)
  /\ UNCHANGED <<others, coreLock, rstStatus>>

ReadCheck(c) ==
  /\ cpc[c] = "locked"
  /\ IF infraOn THEN CGoto(c, "access") /\ UNCHANGED coreLock
                ELSE CReturn(c) /\ Unlock(c)
  /\ UNCHANGED <<others, rstStatus>>

ReadAccess(c) ==
  /\ cpc[c] = "access"
  /\ CReturn(c)
  /\ Unlock(c)
  /\ UNCHANGED <<others, rstStatus>>

(* conninfra_core_reset_power_state, called when the platform suspends.    *)
CheckDump(c) ==
  /\ cpc[c] = "checkDump"
  /\ IF dumpOn THEN CGoto(c, "dump") ELSE CReturn(c)
  /\ UNCHANGED <<others, coreLock, rstStatus>>

ResetPowerState(c) ==
  /\ cpc[c] = "dump"
  /\ CReturn(c)
  /\ UNCHANGED <<others, coreLock, rstStatus>>
-----------------------------------------------------------------------------
TakeLock(w) == OnLock(w) \/ OffLock(w) \/ ForceLock(w) \/ HwopLock(w) \/ ThermLock(w)

Operate(w) ==
  \/ OnAlready(w) \/ OnHw(w) \/ OnHwFails(w) \/ OnInfra(w) \/ OnDrv(w)
  \/ OffRead(w) \/ OffAlready(w) \/ OffMark(w) \/ OffHw(w) \/ OffEnd(w)
  \/ ForceAlready(w) \/ ForceCheck(w) \/ ForceLoop(w) \/ ForceHw(w) \/ ForceEnd(w)
  \/ HwopCheck(w) \/ HwopAccess(w) \/ ThermCheck(w) \/ DumpCheck(w) \/ DumpAccess(w)

CoreStep == CoreTake \/ CoreReply

CbStep ==
  \/ CbNothingOn \/ CbTake \/ CbPre \/ CbReset \/ CbReturn \/ CbRepower
  \/ CbPostCb \/ CbPost \/ CbDone

SubStep(d) == SubCallback(d) \/ SubSignal(d)

ClientStep(c) ==
  \/ CheckRst(c) \/ Send(c) \/ LockRst(c) \/ PostRst(c) \/ CheckReset(c)
  \/ ReadCheck(c) \/ ReadAccess(c) \/ CheckDump(c) \/ ResetPowerState(c)

Next ==
  \/ \E w \in Workers : TakeLock(w) \/ Operate(w)
  \/ CoreStep
  \/ CbStep
  \/ \E d \in Drivers : SubStep(d)
  \/ \E c \in Clients : Call(c) \/ ReadLock(c) \/ ReadKilled(c) \/ ClientStep(c)

Spec == Init /\ [][Next]_vars

(* Threads keep running, drivers' callbacks return, a caller finishes the  *)
(* call it started, and a mutex that is released again and again is        *)
(* eventually handed to each thread that waits for it.                     *)
Fairness ==
  /\ \A w \in Workers : WF_vars(Operate(w)) /\ SF_vars(TakeLock(w))
  /\ WF_vars(CoreStep)
  /\ WF_vars(CbStep)
  /\ \A d \in Drivers : WF_vars(SubStep(d))
  /\ \A c \in Clients : WF_vars(ClientStep(c)) /\ SF_vars(ReadLock(c))

LiveSpec == Spec /\ Fairness
-----------------------------------------------------------------------------
WorkerPcs == {"idle", "onLock", "onHw", "onInfra", "onDrv",
              "offRead", "offLock", "offMark", "offHw", "offEnd",
              "forceLock", "forceCheck", "forceLoop", "forceHw", "forceEnd",
              "hwopLock", "hwopCheck", "access", "thermCheck", "thermLock",
              "dumpCheck", "dump", "ret"}
CbPcs == {"idle", "pre", "force", "repower", "post"}
ClientPcs == {"idle", "check", "send", "wait", "lockRst", "post", "checkReset", "lock",
              "locked", "access", "checkDump", "dump"}
CoreCalls == {"on", "off", "hwop", "therm", "dump"}
Request == [call : CoreCalls, drv : Drivers, from : Clients]

(* The values of the variables. It says that rst_state never carries from  *)
(* one driver's bit into the next, and that loops stay inside drv_inst.    *)
TypeOK ==
  /\ drvOn \in [Drivers -> BOOLEAN] /\ vcn \in [Drivers -> BOOLEAN]
  /\ infraOn \in BOOLEAN /\ hwOn \in BOOLEAN /\ dumpOn \in BOOLEAN
  /\ coreLock \in Workers \cup Clients \cup {"free"}
  /\ rstStatus \in RstNone..RstPostCb /\ rstState \in 0..AllBits
  /\ msgQ \in Seq(Request) /\ cbQ \in Nat
  /\ subQ \in [Drivers -> Seq({"pre", "post"})]
  /\ spc \in [Drivers -> {"idle", "called"}] /\ told \in [Drivers -> {"pre", "post"}]
  /\ wpc \in [Workers -> WorkerPcs] /\ wdrv \in [Workers -> Drivers]
  /\ wcurr \in [Workers -> SUBSET Drivers] /\ wlast \in [Workers -> BOOLEAN]
  /\ wret \in [Workers -> {"ok", "fail"}] /\ idx \in [Workers -> 0..NumDrivers]
  /\ coreOp \in Request \cup {NoOp}
  /\ cbPc \in CbPcs /\ cbIdx \in 0..NumDrivers /\ snap \in SUBSET Drivers
  /\ cpc \in [Clients -> ClientPcs] /\ ccall \in [Clients -> AllCalls \cup {"none"}]
  /\ cdrv \in [Clients -> Drivers]
  /\ granted \in SUBSET Drivers

(* Outside the lock conninfra's status and the hardware agree: the chip is  *)
(* on exactly as long as some driver is (DRV_STS_POWER_ON, "powered on",    *)
(* core/include/conninfra_core.h:52), so the last one that leaves takes it  *)
(* down and no other does, and each driver that is on has its own supply.   *)
PowerExact ==
  coreLock = "free" => /\ infraOn = hwOn
                       /\ hwOn <=> On # {}
                       /\ \A d \in Drivers : vcn[d] <=> drvOn[d]

(* Registers are only touched while the chip is powered, whoever asks: a    *)
(* caller of conninfra_reg_read, an operation of the core thread or its     *)
(* power dump ("Disable power dump if we would power off later",            *)
(* conninfra_core.c:426).                                                   *)
AccessPowered ==
  (\E c \in Clients : cpc[c] = "access") \/ (\E w \in Workers : At(w, "access") \/ At(w, "dump"))
    => hwOn

(* Between operations and outside a reset the drivers that are on are those *)
(* that were told so: the last power call that returned 0 still holds.     *)
GrantsKept ==
  rstStatus = RstNone /\ At("core", "idle") => On = granted

(* The chip is forced off and powered again only after every driver's      *)
(* PRE_RESET callback and before any POST_RESET; when no reset is under    *)
(* way every driver has heard the end of the last one, and no callback is  *)
(* still queued.                                                           *)
ResetBracketed ==
  /\ cbPc \in {"force", "repower"} => \A d \in Drivers : told[d] = "pre"
  /\ rstStatus = RstNone => \A d \in Drivers : told[d] = "post" /\ subQ[d] = <<>>

(* rst_status admits one reset: from lock_rst to its end there is exactly  *)
(* one, being posted, queued or running, and none when the status is NONE. *)
OneReset ==
  Cardinality({c \in Clients : cpc[c] = "post"}) + cbQ + (IF cbPc = "idle" THEN 0 ELSE 1)
    = IF rstStatus = RstNone THEN 0 ELSE 1

(* Without resets the power calls are a power manager to the drivers, also *)
(* for those who look at drv_status or use the chip inside an operation:   *)
(* it is never cut under a driver that is on, nor a driver marked on that  *)
(* it does not serve yet, and an answer is true when it is given.          *)
Manager == INSTANCE PowerManager WITH on <- On, powered <- hwOn
ImplementsManager == Manager!Spec

(* A thread that is done with an operation does not hold core_lock.        *)
LockReleased == \A w \in Workers : wpc[w] \in {"idle", "ret"} => coreLock # w

(* A whole-chip reset ends.                                                *)
ResetEnds == rstStatus # RstNone ~> rstStatus = RstNone

(* Every call returns.                                                     *)
CallsReturn == \A c \in Clients : cpc[c] # "idle" ~> cpc[c] = "idle"
=============================================================================
