------------------------ MODULE ConninfraCoreProofs ------------------------
(***************************************************************************)
(* What is proved of ConninfraCore for any number of drivers and callers:  *)
(* there is one reset at a time, and the chip is cut only between its two  *)
(* rounds of callbacks, whatever the calls; without resets (the calls of   *)
(* core_power, or any others but "rst") power follows the drivers, no      *)
(* access hits a chip that is off, grants hold, and PowerManager is        *)
(* implemented; with resets but no power-off (core_reset) the first two of *)
(* these hold.                                                             *)
(***************************************************************************)
EXTENDS ConninfraCore, DataLemmas

(* The types of what the invariants speak of, with loops inside drv_inst.  *)
PowerTypes ==
  /\ drvOn \in [Drivers -> BOOLEAN] /\ vcn \in [Drivers -> BOOLEAN]
  /\ infraOn \in BOOLEAN /\ hwOn \in BOOLEAN /\ dumpOn \in BOOLEAN

WorkTypes ==
  /\ wpc \in [Workers -> WorkerPcs] /\ wdrv \in [Workers -> Drivers]
  /\ wcurr \in [Workers -> SUBSET Drivers] /\ wlast \in [Workers -> BOOLEAN]
  /\ wret \in [Workers -> {"ok", "fail"}] /\ idx \in [Workers -> 0..NumDrivers]
  /\ \A w \in Workers :
       wpc[w] \in {"offRead", "forceLock", "forceCheck", "forceLoop"} => idx[w] < NumDrivers

CallTypes ==
  /\ msgQ \in Seq(Request)
  /\ cpc \in [Clients -> ClientPcs] /\ ccall \in [Clients -> AllCalls \cup {"none"}]
  /\ cdrv \in [Clients -> Drivers]
  /\ \A c \in Clients : cpc[c] \in {"check", "send"} => ccall[c] \in CoreCalls
  /\ granted \in SUBSET Drivers

CbTypes ==
  /\ cbPc \in CbPcs /\ cbIdx \in 0..NumDrivers
  /\ wpc["cb"] # "idle" => \/ cbPc = "force"
                           \/ cbPc = "repower" /\ cbIdx < NumDrivers

(* Each op has a caller that waits for it, and for no other.               *)
QueueInv ==
  /\ \A i \in 1..Len(msgQ) : cpc[msgQ[i].from] = "wait"
  /\ \A i, j \in 1..Len(msgQ) : msgQ[i].from = msgQ[j].from => i = j
  /\ wpc["core"] # "idle" =>
       /\ coreOp \in Request /\ cpc[coreOp.from] = "wait"
       /\ \A i \in 1..Len(msgQ) : msgQ[i].from # coreOp.from

(* The reset that rst_status stands for is at one place.                   *)
Posters == {c \in Clients : cpc[c] = "post"}

PhaseInv ==
  \/ rstStatus = RstNone /\ Posters = {} /\ cbQ = 0 /\ cbPc = "idle"
  \/ rstStatus = RstStart /\ (\E c \in Clients : Posters = {c}) /\ cbQ = 0 /\ cbPc = "idle"
  \/ rstStatus = RstStart /\ Posters = {} /\ cbQ = 1 /\ cbPc = "idle"
  \/ rstStatus \in RstPreCb..RstPostCb /\ Posters = {} /\ cbQ = 0 /\ cbPc # "idle"

ResetInv == PowerTypes /\ WorkTypes /\ CallTypes /\ CbTypes /\ QueueInv /\ PhaseInv

(* Without resets the core thread alone switches power. core_lock is held  *)
(* at these places.                                                        *)
HeldPcs == {"onHw", "onInfra", "onDrv", "offMark", "offHw", "offEnd", "hwopCheck", "access"}
ForcePcs == {"forceLock", "forceCheck", "forceLoop", "forceHw", "forceEnd"}

NoReset ==
  /\ wpc["cb"] = "idle" /\ cbPc = "idle" /\ cbQ = 0 /\ rstStatus = RstNone
  /\ \A c \in Clients : cpc[c] \notin {"lockRst", "post"}
  /\ wpc["core"] \notin ForcePcs

LockInv ==
  /\ coreLock \in {"free", "core"} \cup Clients
  /\ coreLock = "core" <=> wpc["core"] \in HeldPcs
  /\ \A c \in Clients : coreLock = c <=> cpc[c] \in {"locked", "access"}

(* How far status and hardware are apart, by the place of the core thread. *)
ChipInv ==
  LET p == wpc["core"] d == wdrv["core"] IN
  /\ p # "offHw" => \A e \in Drivers : vcn[e] <=> drvOn[e]
  /\ p = "offHw" => /\ \A e \in Drivers : vcn[e] <=> (drvOn[e] \/ e = d)
                    /\ wcurr["core"] = On \cup {d} /\ d \notin On
  /\ p = "onInfra" => (infraOn <=> On # {})
  /\ p \in {"onInfra", "onDrv"} => hwOn
  /\ p \in {"onDrv", "offHw", "offEnd"} => infraOn
  /\ p = "offHw" => hwOn
  /\ p \in {"offHw", "offEnd"} => (wlast["core"] <=> On = {})
  /\ p \notin {"onInfra", "onDrv", "offHw"} => (hwOn <=> On # {})
  /\ p \notin {"onInfra", "onDrv", "offHw", "offEnd"} => (infraOn <=> hwOn)

(* What the core thread has found out stays true while it relies on it.    *)
SeenInv ==
  LET p == wpc["core"] IN
  /\ p = "offRead" => wcurr["core"] = {d \in On : d < idx["core"]}
  /\ p \in {"offLock", "offMark"} => wcurr["core"] = On
  /\ p \in {"thermLock", "access"} => infraOn
  /\ p = "dump" => On # {}
  /\ dumpOn => On # {} \/ p = "onDrv"
  /\ \A c \in Clients : cpc[c] = "access" => infraOn

(* Who has been granted power, by the place of the core thread.            *)
GrantInv ==
  LET p == wpc["core"] d == wdrv["core"] IN
  /\ p # "idle" => coreOp.drv = d
  /\ p \in {"onLock", "onHw", "onInfra", "onDrv"} => coreOp.call = "on"
  /\ p \in {"offRead", "offLock", "offMark", "offHw", "offEnd"} => coreOp.call = "off"
  /\ p \in {"hwopLock", "hwopCheck", "access", "thermCheck", "thermLock", "dumpCheck", "dump"}
       => coreOp.call \notin {"on", "off"}
  /\ p \notin {"offHw", "offEnd", "ret"} => On = granted
  /\ p \in {"offHw", "offEnd"} => On = granted \ {d}
  /\ p = "ret" => On = IF wret["core"] # "ok" THEN granted
                       ELSE CASE coreOp.call = "on"  -> granted \cup {d}
                              [] coreOp.call = "off" -> granted \ {d}
                              [] OTHER               -> granted

PowerInv == ResetInv /\ NoReset /\ LockInv /\ ChipInv /\ SeenInv /\ GrantInv
-----------------------------------------------------------------------------
(* Types, queue and phase.                                                 *)

(* The parameters of the proofs.                                           *)
LEMMA CoreConstants ==
  /\ NumDrivers \in Nat /\ NumDrivers > 0 /\ 0 \in Drivers
  /\ \A n \in 0..NumDrivers : n < NumDrivers => n \in Drivers /\ n + 1 \in 0..NumDrivers
  /\ "core" \notin Clients /\ "cb" \notin Clients /\ "free" \notin Clients
BY CoreAssumption DEF Drivers

(* Initially there is no reset and no op.                                  *)
LEMMA ResetInit == Init => ResetInv
<1> SUFFICES ASSUME Init PROVE ResetInv
  OBVIOUS
<1>1. PowerTypes
  BY DEF Init, PowerTypes
<1>6. CbTypes
  BY CoreConstants DEF Init, CbTypes, CbPcs, Workers
<1>2. WorkTypes
  BY CoreConstants DEF Init, WorkTypes, WorkerPcs, Workers
<1>3. CallTypes
  BY CoreConstants DEF Init, CallTypes, ClientPcs
<1>4. QueueInv
  BY DEF Init, QueueInv, Workers
<1>5. PhaseInv
  BY DEF Init, PhaseInv, Posters
<1> QED  BY <1>1, <1>2, <1>3, <1>4, <1>5, <1>6 DEF ResetInv

(* Inside an operation a thread goes on to another place of it, and touches *)
(* its own locals, the power and the lock.                                 *)
Inside(w) ==
  /\ PowerTypes' /\ WorkTypes' /\ UNCHANGED elsewhere
  /\ wpc[w] # "idle" /\ wpc'[w] # "idle"
  /\ \A v \in Workers : v # w => wpc'[v] = wpc[v]

(* Each step of an operation, and each lock it takes, is such a step.      *)
LEMMA OperateInside ==
  ASSUME PowerTypes, WorkTypes, NEW w \in Workers, Operate(w) \/ TakeLock(w)
  PROVE  Inside(w)
<1> USE CoreConstants DEF Inside, At, Goto, Return, ReturnLocked, Unlock, LockThen, locals,
        powerVars, PowerTypes, WorkTypes, WorkerPcs, DumpResults, Workers
<1>1. CASE OnAlready(w)
  BY <1>1 DEF OnAlready
<1>2. CASE OnHw(w)
  BY <1>2 DEF OnHw
<1>3. CASE OnHwFails(w)
  BY <1>3 DEF OnHwFails
<1>4. CASE OnInfra(w)
  BY <1>4 DEF OnInfra
<1>5. CASE OnDrv(w)
  BY <1>5 DEF OnDrv
<1>6. CASE OffRead(w)
  BY <1>6 DEF OffRead
<1>7. CASE OffAlready(w)
  BY <1>7 DEF OffAlready
<1>8. CASE OffMark(w)
  BY <1>8 DEF OffMark
<1>9. CASE OffHw(w)
  BY <1>9 DEF OffHw
<1>10. CASE OffEnd(w)
  BY <1>10 DEF OffEnd
<1>11. CASE ForceAlready(w)
  BY <1>11 DEF ForceAlready
<1>12. CASE ForceCheck(w)
  BY <1>12 DEF ForceCheck
<1>13. CASE ForceLoop(w)
  BY <1>13 DEF ForceLoop
<1>14. CASE ForceHw(w)
  BY <1>14 DEF ForceHw
<1>15. CASE ForceEnd(w)
  BY <1>15 DEF ForceEnd
<1>16. CASE HwopCheck(w)
  BY <1>16 DEF HwopCheck
<1>17. CASE HwopAccess(w)
  BY <1>17 DEF HwopAccess
<1>18. CASE ThermCheck(w)
  BY <1>18 DEF ThermCheck
<1>19. CASE DumpCheck(w)
  BY <1>19 DEF DumpCheck
<1>20. CASE DumpAccess(w)
  BY <1>20 DEF DumpAccess
<1>21. CASE OnLock(w)
  BY <1>21 DEF OnLock
<1>22. CASE OffLock(w)
  BY <1>22 DEF OffLock
<1>23. CASE ForceLock(w)
  BY <1>23 DEF ForceLock
<1>24. CASE HwopLock(w)
  BY <1>24 DEF HwopLock
<1>25. CASE ThermLock(w)
  BY <1>25 DEF ThermLock
<1> QED
  BY <1>1, <1>2, <1>3, <1>4, <1>5, <1>6, <1>7, <1>8, <1>9, <1>10, <1>11, <1>12, <1>13,
     <1>14, <1>15, <1>16, <1>17, <1>18, <1>19, <1>20, <1>21, <1>22, <1>23, <1>24, <1>25 DEF
     Operate, TakeLock

(* So an operation leaves the queue and the phase of the reset alone.      *)
LEMMA OperateReset ==
  ASSUME ResetInv, NEW w \in Workers, Operate(w) \/ TakeLock(w)
  PROVE  ResetInv'
<1>1. Inside(w)
  BY OperateInside DEF ResetInv
<1>2. PowerTypes' /\ WorkTypes'
  BY <1>1 DEF Inside
<1>3. CallTypes'
  BY <1>1 DEF Inside, elsewhere, ResetInv, CallTypes, clientVars
<1>4. CbTypes'
  BY <1>1 DEF Inside, elsewhere, ResetInv, CbTypes, cbVars, Workers
<1>5. QueueInv'
  BY <1>1 DEF Inside, elsewhere, ResetInv, QueueInv, clientVars, Workers
<1>6. PhaseInv'
  BY <1>1 DEF Inside, elsewhere, ResetInv, PhaseInv, Posters, clientVars, rstVars, cbVars
<1> QED  BY <1>2, <1>3, <1>4, <1>5, <1>6 DEF ResetInv

(* Taking the head of the queue moves the others up by one.                *)
LEMMA Taken ==
  ASSUME msgQ \in Seq(Request), msgQ # << >>, msgQ' = Tail(msgQ)
  PROVE  /\ Head(msgQ) = msgQ[1] /\ Head(msgQ) \in Request /\ 1 \in 1..Len(msgQ)
         /\ msgQ' \in Seq(Request)
         /\ \A i \in 1..Len(msgQ') :
              msgQ'[i] = msgQ[i + 1] /\ i + 1 \in 1..Len(msgQ) /\ i + 1 # 1
BY HeadTailProperties

(* What the core thread starts with: a request for one of the drivers.     *)
LEMMA EntryType ==
  ASSUME NEW k \in CoreCalls
  PROVE  CoreEntry[k] \in WorkerPcs \ {"idle"}
                          /\ CoreEntry[k] \notin {"forceLock", "forceCheck", "forceLoop"}
BY DEF CoreCalls, CoreEntry, WorkerPcs

(* The core thread takes an op: its caller is then waited for by it alone.  *)
LEMMA CoreTakeReset == ResetInv /\ CoreTake => ResetInv'
<1> SUFFICES ASSUME ResetInv, CoreTake PROVE ResetInv'
  OBVIOUS
<1> DEFINE o == Head(msgQ)
<1>1. /\ msgQ \in Seq(Request) /\ msgQ # << >> /\ msgQ' = Tail(msgQ)
      /\ coreOp' = o /\ Enter("core", CoreEntry[o.call], o.drv)
      /\ UNCHANGED <<powerVars, coreLock, rstVars, cbQ, subVars, cbVars, clientVars, granted>>
  BY DEF ResetInv, CallTypes, CoreTake
<1>2. /\ o \in Request /\ o = msgQ[1] /\ 1 \in 1..Len(msgQ) /\ msgQ' \in Seq(Request)
      /\ \A i \in 1..Len(msgQ') :
           msgQ'[i] = msgQ[i + 1] /\ i + 1 \in 1..Len(msgQ) /\ i + 1 # 1
  BY <1>1, Taken
<1>3. o.call \in CoreCalls /\ o.drv \in Drivers /\ o.from \in Clients
  BY <1>2 DEF Request
<1>4. PowerTypes'
  BY <1>1 DEF ResetInv, PowerTypes, powerVars
<1>5. WorkTypes'
  BY <1>1, <1>3, EntryType, CoreConstants DEF ResetInv, WorkTypes, Enter, Goto, Workers
<1>6. CallTypes'
  BY <1>1, <1>2 DEF ResetInv, CallTypes, clientVars
<1>7. CbTypes'
  BY <1>1 DEF ResetInv, CbTypes, cbVars, Enter, Goto, Workers, WorkTypes
<1>8. QueueInv'
  BY <1>1, <1>2 DEF ResetInv, QueueInv, clientVars
<1>9. PhaseInv'
  BY <1>1 DEF ResetInv, PhaseInv, Posters, clientVars, rstVars, cbVars
<1> QED  BY <1>4, <1>5, <1>6, <1>7, <1>8, <1>9 DEF ResetInv

(* The answer lets go of a caller that waits and of no other.              *)
LEMMA CoreReplyReset == ResetInv /\ CoreReply => ResetInv'
<1> SUFFICES ASSUME ResetInv, CoreReply PROVE ResetInv'
  OBVIOUS
<1>1. /\ wpc["core"] = "ret" /\ cpc' = [cpc EXCEPT ![coreOp.from] = "idle"]
      /\ Enter("core", "idle", 0)
      /\ UNCHANGED <<powerVars, coreLock, rstVars, msgQ, cbQ, subVars, cbVars, ccall, cdrv>>
  BY DEF CoreReply, At
<1>2. coreOp \in Request /\ cpc[coreOp.from] = "wait"
      /\ \A i \in 1..Len(msgQ) : msgQ[i].from # coreOp.from
  BY <1>1 DEF ResetInv, QueueInv
<1>3. coreOp.from \in Clients /\ coreOp.drv \in Drivers
  BY <1>2 DEF Request
<1>4. PowerTypes'
  BY <1>1 DEF ResetInv, PowerTypes, powerVars
<1>5. WorkTypes'
  BY <1>1, CoreConstants DEF ResetInv, WorkTypes, Enter, Goto, Workers, WorkerPcs
<1>6. CallTypes'
  <2>1. granted' \in SUBSET Drivers
    BY <1>3 DEF ResetInv, CallTypes, CoreReply
  <2> QED  BY <1>1, <1>3, <2>1 DEF ResetInv, CallTypes, ClientPcs
<1>7. CbTypes'
  BY <1>1 DEF ResetInv, CbTypes, cbVars, Enter, Goto, Workers, WorkTypes
<1>8. QueueInv'
  <2>1. wpc'["core"] = "idle" /\ msgQ' = msgQ
    BY <1>1 DEF Enter, Goto, ResetInv, WorkTypes, Workers
  <2>2. \A i \in 1..Len(msgQ) : msgQ[i] \in Request
    BY DEF ResetInv, CallTypes
  <2>3. \A i \in 1..Len(msgQ) : cpc'[msgQ[i].from] = "wait"
    BY <1>1, <1>2, <2>2 DEF ResetInv, QueueInv, CallTypes, Request
  <2> QED  BY <2>1, <2>3 DEF ResetInv, QueueInv
<1>9. PhaseInv'
  <2>1. Posters' = Posters
    BY <1>1, <1>2, <1>3 DEF Posters, ResetInv, CallTypes
  <2> QED  BY <1>1, <2>1 DEF ResetInv, PhaseInv, rstVars, cbVars
<1> QED  BY <1>4, <1>5, <1>6, <1>7, <1>8, <1>9 DEF ResetInv

(* The cb thread: the reset goes from one place to the next, and operations *)
(* are entered where their results are expected.                           *)
LEMMA CbPhase ==
  ASSUME ResetInv, CbStep
  PROVE  /\ WorkTypes' /\ CbTypes' /\ PhaseInv'
         /\ wpc'["core"] = wpc["core"]
         /\ UNCHANGED <<powerVars, msgQ, coreOp, clientVars, granted>>
<1> USE CoreConstants DEF ResetInv
<1>1. CASE CbNothingOn
  <2>1. WorkTypes' /\ wpc'["core"] = wpc["core"]
    BY <1>1 DEF CbNothingOn, WorkTypes, workVars, Enter, Goto, Workers, WorkerPcs
  <2>2. CbTypes'
    BY <1>1 DEF CbNothingOn, CbTypes, CbPcs, CbGoto, cbVars, workVars, Enter, Goto, At,
       WorkTypes, Workers
  <2>3. PhaseInv'
    BY <1>1 DEF CbNothingOn, PhaseInv, CbGoto, cbVars, rstVars, clientVars, Posters,
       CbTypes, CbPcs, At,
       RstNone, RstStart, RstPreCb, RstReset, RstPostCb
  <2> QED  BY <1>1, <2>1, <2>2, <2>3 DEF CbNothingOn, workVars, cbVars
<1>2. CASE CbTake
  <2>1. WorkTypes' /\ wpc'["core"] = wpc["core"]
    BY <1>2 DEF CbTake, WorkTypes, workVars, Enter, Goto, Workers, WorkerPcs
  <2>2. CbTypes'
    BY <1>2 DEF CbTake, CbTypes, CbPcs, CbGoto, cbVars, workVars, Enter, Goto, At,
       WorkTypes, Workers
  <2>3. PhaseInv'
    BY <1>2 DEF CbTake, PhaseInv, CbGoto, cbVars, rstVars, clientVars, Posters, CbTypes,
       CbPcs, At,
       RstNone, RstStart, RstPreCb, RstReset, RstPostCb
  <2> QED  BY <1>2, <2>1, <2>2, <2>3 DEF CbTake, workVars, cbVars
<1>3. CASE CbPre
  <2>1. WorkTypes' /\ wpc'["core"] = wpc["core"]
    BY <1>3 DEF CbPre, WorkTypes, workVars, Enter, Goto, Workers, WorkerPcs
  <2>2. CbTypes'
    BY <1>3 DEF CbPre, CbTypes, CbPcs, CbGoto, cbVars, workVars, Enter, Goto, At,
       WorkTypes, Workers
  <2>3. PhaseInv'
    BY <1>3 DEF CbPre, PhaseInv, CbGoto, cbVars, rstVars, clientVars, Posters, CbTypes, CbPcs, At,
       RstNone, RstStart, RstPreCb, RstReset, RstPostCb
  <2> QED  BY <1>3, <2>1, <2>2, <2>3 DEF CbPre, workVars, cbVars
<1>4. CASE CbReset
  <2>1. WorkTypes' /\ wpc'["core"] = wpc["core"]
    BY <1>4 DEF CbReset, WorkTypes, workVars, Enter, Goto, Workers, WorkerPcs
  <2>2. CbTypes'
    BY <1>4 DEF CbReset, CbTypes, CbPcs, CbGoto, cbVars, workVars, Enter, Goto, At,
       WorkTypes, Workers
  <2>3. PhaseInv'
    BY <1>4 DEF CbReset, PhaseInv, CbGoto, cbVars, rstVars, clientVars, Posters, CbTypes,
       CbPcs, At,
       RstNone, RstStart, RstPreCb, RstReset, RstPostCb
  <2> QED  BY <1>4, <2>1, <2>2, <2>3 DEF CbReset, workVars, cbVars
<1>5. CASE CbReturn
  <2>1. WorkTypes' /\ wpc'["core"] = wpc["core"]
    BY <1>5 DEF CbReturn, WorkTypes, workVars, Enter, Goto, Workers, WorkerPcs
  <2>2. CbTypes'
    BY <1>5 DEF CbReturn, CbTypes, CbPcs, CbGoto, cbVars, workVars, Enter, Goto, At,
       WorkTypes, Workers
  <2>3. PhaseInv'
    BY <1>5 DEF CbReturn, PhaseInv, CbGoto, cbVars, rstVars, clientVars, Posters, CbTypes,
       CbPcs, At,
       RstNone, RstStart, RstPreCb, RstReset, RstPostCb
  <2> QED  BY <1>5, <2>1, <2>2, <2>3 DEF CbReturn, workVars, cbVars
<1>6. CASE CbRepower
  <2>1. WorkTypes' /\ wpc'["core"] = wpc["core"]
    <3>1. CASE cbIdx \in snap
      <4>1. Enter("cb", "onLock", cbIdx) /\ cbIdx \in Drivers
        BY <1>6, <3>1 DEF CbRepower, CbTypes
      <4> QED  BY <4>1 DEF WorkTypes, Enter, Goto, Workers, WorkerPcs
    <3>2. CASE cbIdx \notin snap
      BY <1>6, <3>2 DEF CbRepower, WorkTypes, workVars
    <3> QED  BY <3>1, <3>2
  <2>2. CbTypes'
    BY <1>6 DEF CbRepower, CbTypes, CbPcs, CbGoto, cbVars, workVars, Enter, Goto, At,
       WorkTypes, Workers
  <2>3. PhaseInv'
    BY <1>6 DEF CbRepower, PhaseInv, CbGoto, cbVars, rstVars, clientVars, Posters,
       CbTypes, CbPcs, At,
       RstNone, RstStart, RstPreCb, RstReset, RstPostCb
  <2> QED  BY <1>6, <2>1, <2>2, <2>3 DEF CbRepower, workVars, cbVars
<1>7. CASE CbPostCb
  <2>1. WorkTypes' /\ wpc'["core"] = wpc["core"]
    BY <1>7 DEF CbPostCb, WorkTypes, workVars, Enter, Goto, Workers, WorkerPcs
  <2>2. CbTypes'
    BY <1>7 DEF CbPostCb, CbTypes, CbPcs, CbGoto, cbVars, workVars, Enter, Goto, At,
       WorkTypes, Workers
  <2>3. PhaseInv'
    BY <1>7 DEF CbPostCb, PhaseInv, CbGoto, cbVars, rstVars, clientVars, Posters, CbTypes,
       CbPcs, At,
       RstNone, RstStart, RstPreCb, RstReset, RstPostCb
  <2> QED  BY <1>7, <2>1, <2>2, <2>3 DEF CbPostCb, workVars, cbVars
<1>8. CASE CbPost
  <2>1. WorkTypes' /\ wpc'["core"] = wpc["core"]
    BY <1>8 DEF CbPost, WorkTypes, workVars, Enter, Goto, Workers, WorkerPcs
  <2>2. CbTypes'
    BY <1>8 DEF CbPost, CbTypes, CbPcs, CbGoto, cbVars, workVars, Enter, Goto, At,
       WorkTypes, Workers
  <2>3. PhaseInv'
    BY <1>8 DEF CbPost, PhaseInv, CbGoto, cbVars, rstVars, clientVars, Posters, CbTypes,
       CbPcs, At,
       RstNone, RstStart, RstPreCb, RstReset, RstPostCb
  <2> QED  BY <1>8, <2>1, <2>2, <2>3 DEF CbPost, workVars, cbVars
<1>9. CASE CbDone
  <2>1. WorkTypes' /\ wpc'["core"] = wpc["core"]
    BY <1>9 DEF CbDone, WorkTypes, workVars, Enter, Goto, Workers, WorkerPcs
  <2>2. CbTypes'
    BY <1>9 DEF CbDone, CbTypes, CbPcs, CbGoto, cbVars, workVars, Enter, Goto, At,
       WorkTypes, Workers
  <2>3. PhaseInv'
    BY <1>9 DEF CbDone, PhaseInv, CbGoto, cbVars, rstVars, clientVars, Posters, CbTypes,
       CbPcs, At,
       RstNone, RstStart, RstPreCb, RstReset, RstPostCb
  <2> QED  BY <1>9, <2>1, <2>2, <2>3 DEF CbDone, workVars, cbVars
<1> QED
  BY <1>1, <1>2, <1>3, <1>4, <1>5, <1>6, <1>7, <1>8, <1>9 DEF CbStep

(* So a step of the cb thread keeps the invariant.                         *)
LEMMA CbStepReset == ResetInv /\ CbStep => ResetInv'
<1> SUFFICES ASSUME ResetInv, CbStep PROVE ResetInv'
  OBVIOUS
<1>1. PowerTypes'
  BY CbPhase DEF ResetInv, PowerTypes, powerVars
<1>2. CallTypes' /\ QueueInv'
  BY CbPhase DEF ResetInv, CallTypes, QueueInv, clientVars
<1> QED  BY <1>1, <1>2, CbPhase DEF ResetInv

(* A driver's thread touches its own queue and rst_state.                  *)
LEMMA SubStepReset ==
  ASSUME ResetInv, NEW d \in Drivers, SubStep(d)
  PROVE  ResetInv'
<1>1. UNCHANGED <<powerVars, rstStatus, msgQ, cbQ, workVars, coreOp, cbVars, clientVars, granted>>
  BY DEF SubStep, SubCallback, SubSignal, rstVars
<1>2. PowerTypes' /\ WorkTypes'
  BY <1>1 DEF ResetInv, PowerTypes, WorkTypes, powerVars, workVars
<1>3. CallTypes' /\ CbTypes' /\ QueueInv'
  BY <1>1 DEF ResetInv, CallTypes, CbTypes, QueueInv, clientVars, cbVars, workVars
<1>4. PhaseInv'
  BY <1>1 DEF ResetInv, PhaseInv, Posters, clientVars, cbVars
<1> QED  BY <1>2, <1>3, <1>4 DEF ResetInv

(* A caller's step: it was not waiting, and nobody else moves.             *)
Moves(c) ==
  /\ cpc[c] # "wait" /\ cpc'[c] \in ClientPcs /\ cpc' = [cpc EXCEPT ![c] = cpc'[c]]
  /\ ccall' \in [Clients -> AllCalls \cup {"none"}] /\ cdrv' \in [Clients -> Drivers]
  /\ \A b \in Clients : b # c => ccall'[b] = ccall[b]
  /\ cpc'[c] \in {"check", "send"} => ccall'[c] \in CoreCalls
  /\ UNCHANGED <<powerVars, subVars, workVars, coreOp, cbVars, granted>>

(* Such a step keeps all but, possibly, the phase of the reset.            *)
LEMMA MovesReset ==
  ASSUME ResetInv, NEW c \in Clients, Moves(c), UNCHANGED msgQ, PhaseInv'
  PROVE  ResetInv'
<1>1. PowerTypes' /\ WorkTypes' /\ CbTypes'
  BY DEF ResetInv, Moves, PowerTypes, WorkTypes, CbTypes, powerVars, workVars, cbVars
<1>2. CallTypes'
  BY DEF ResetInv, Moves, CallTypes
<1>3. QueueInv'
  <2>1. \A b \in Clients : cpc[b] = "wait" => cpc'[b] = "wait"
    BY DEF Moves, ResetInv, CallTypes
  <2>2. \A i \in 1..Len(msgQ) : msgQ[i].from \in Clients
    <3>1. \A i \in 1..Len(msgQ) : msgQ[i] \in Request
      BY DEF ResetInv, CallTypes
    <3> QED  BY <3>1 DEF Request
  <2>3. coreOp \in Request => coreOp.from \in Clients
    BY DEF Request
  <2> QED  BY <2>1, <2>2, <2>3 DEF ResetInv, QueueInv, Moves, workVars
<1> QED  BY <1>1, <1>2, <1>3 DEF ResetInv

(* A caller that neither is nor becomes one that posts a reset.            *)
LEMMA OthersPhase ==
  ASSUME ResetInv, NEW c \in Clients, Moves(c), UNCHANGED <<rstStatus, cbQ>>,
         cpc[c] # "post", cpc'[c] # "post"
  PROVE  PhaseInv'
<1>1. Posters' = Posters
  BY DEF Posters, Moves, ResetInv, CallTypes
<1> QED  BY <1>1 DEF ResetInv, PhaseInv, Moves, cbVars

(* The steps of a caller that neither queue an op nor ask for a reset.      *)
Quiet(c) ==
  \/ Call(c) \/ CheckRst(c) \/ CheckReset(c) \/ ReadLock(c) \/ ReadKilled(c)
  \/ ReadCheck(c) \/ ReadAccess(c) \/ CheckDump(c) \/ ResetPowerState(c)

(* They leave rst_status, the core queue and the cb queue alone.           *)
LEMMA QuietMoves ==
  ASSUME CallTypes, NEW c \in Clients, Quiet(c)
  PROVE  /\ Moves(c) /\ UNCHANGED <<rstStatus, msgQ, cbQ>>
         /\ cpc[c] # "post" /\ cpc'[c] # "post"
<1> USE CoreConstants DEF CallTypes, Moves, ClientPcs, others, CGoto, CReturn, CDrop, rstVars
<1>1. CASE Call(c)
  <2>1. PICK k \in Calls, d \in Drivers :
          /\ cpc[c] = "idle" /\ ccall' = [ccall EXCEPT ![c] = k]
          /\ cdrv' = [cdrv EXCEPT ![c] = d] /\ cpc' = [cpc EXCEPT ![c] = CallEntry[k]]
    BY <1>1 DEF Call
  <2>2. k \in AllCalls
    BY CoreAssumption
  <2>3. /\ CallEntry[k] \in ClientPcs /\ CallEntry[k] # "post"
        /\ CallEntry[k] \in {"check", "send"} => k \in CoreCalls
    BY <2>2 DEF AllCalls, CallEntry, CoreCalls
  <2> QED  BY <1>1, <2>1, <2>2, <2>3 DEF Call
<1>2. CASE CheckRst(c)
  BY <1>2 DEF CheckRst
<1>3. CASE CheckReset(c)
  BY <1>3 DEF CheckReset
<1>4. CASE ReadLock(c)
  BY <1>4 DEF ReadLock
<1>5. CASE ReadKilled(c)
  BY <1>5 DEF ReadKilled
<1>6. CASE ReadCheck(c)
  BY <1>6 DEF ReadCheck
<1>7. CASE ReadAccess(c)
  BY <1>7 DEF ReadAccess
<1>8. CASE CheckDump(c)
  BY <1>8 DEF CheckDump
<1>9. CASE ResetPowerState(c)
  BY <1>9 DEF ResetPowerState
<1> QED
  BY <1>1, <1>2, <1>3, <1>4, <1>5, <1>6, <1>7, <1>8, <1>9 DEF Quiet

(* And so they keep the invariant.                                         *)
LEMMA QuietReset ==
  ASSUME ResetInv, NEW c \in Clients, Quiet(c)
  PROVE  ResetInv'
<1>1. CallTypes
  BY DEF ResetInv
<1>2. PhaseInv'
  BY <1>1, QuietMoves, OthersPhase
<1> QED  BY <1>1, <1>2, QuietMoves, MovesReset

(* Triggering a reset: rst_status lets one caller through.                 *)
LEMMA LockRstReset ==
  ASSUME ResetInv, NEW c \in Clients, LockRst(c)
  PROVE  ResetInv'
<1> USE DEF ResetInv, CallTypes
<1>1. Moves(c) /\ UNCHANGED <<msgQ, cbQ>> /\ cpc[c] = "lockRst"
  BY CoreConstants DEF LockRst, Moves, ClientPcs, others, CGoto, CReturn, CDrop
<1>2. CASE RstNone < rstStatus /\ rstStatus < RstDone
  <2>1. UNCHANGED rstStatus /\ cpc'[c] # "post"
    BY <1>2 DEF LockRst, CReturn, CDrop
  <2> QED  BY <1>1, <2>1, OthersPhase, MovesReset
<1>3. CASE ~(RstNone < rstStatus /\ rstStatus < RstDone)
  <2>1. rstStatus' = RstStart /\ cpc' = [cpc EXCEPT ![c] = "post"]
    BY <1>3 DEF LockRst, CGoto
  <2>2. Posters = {} /\ cbQ = 0 /\ cbPc = "idle"
    BY <1>3 DEF PhaseInv, RstNone, RstStart, RstPreCb, RstPostCb, RstDone
  <2>3. Posters' = {c}
    BY <2>1, <2>2 DEF Posters
  <2>4. PhaseInv'
    BY <1>1, <2>1, <2>2, <2>3 DEF PhaseInv, Moves, cbVars
  <2> QED  BY <1>1, <2>4, MovesReset
<1> QED  BY <1>2, <1>3

(* The reset goes from the caller that asked for it to the cb thread.      *)
LEMMA PostRstReset ==
  ASSUME ResetInv, NEW c \in Clients, PostRst(c)
  PROVE  ResetInv'
<1> USE DEF ResetInv, CallTypes
<1>1. /\ Moves(c) /\ UNCHANGED <<msgQ, rstStatus>> /\ cbQ' = cbQ + 1
      /\ cpc[c] = "post" /\ cpc' = [cpc EXCEPT ![c] = "idle"]
  BY CoreConstants DEF PostRst, Moves, ClientPcs, CReturn, CDrop, rstVars
<1>2. Posters = {c} /\ rstStatus = RstStart /\ cbQ = 0 /\ cbPc = "idle"
  <2>1. c \in Posters
    BY <1>1 DEF Posters
  <2> QED  BY <2>1 DEF PhaseInv
<1>3. Posters' = {}
  BY <1>1, <1>2 DEF Posters
<1>4. PhaseInv'
  BY <1>1, <1>2, <1>3 DEF PhaseInv, Moves, cbVars
<1> QED  BY <1>1, <1>4, MovesReset

(* Queueing an op: its caller had none in the queue.                       *)
LEMMA SendReset ==
  ASSUME ResetInv, NEW c \in Clients, Send(c)
  PROVE  ResetInv'
<1> DEFINE o == [call |-> ccall[c], drv |-> cdrv[c], from |-> c]
<1>1. /\ cpc[c] = "send" /\ msgQ' = Append(msgQ, o)
      /\ cpc' = [cpc EXCEPT ![c] = "wait"]
      /\ ccall' = [ccall EXCEPT ![c] = "none"] /\ cdrv' = [cdrv EXCEPT ![c] = 0]
      /\ UNCHANGED <<powerVars, coreLock, rstVars, cbQ, subVars, workVars, coreOp, cbVars, granted>>
  BY DEF Send, CDrop
<1>2. o \in Request /\ o.from = c
  BY <1>1 DEF ResetInv, CallTypes, Request
<1>3. msgQ \in Seq(Request)
  BY DEF ResetInv, CallTypes
<1>4. /\ msgQ' \in Seq(Request) /\ Len(msgQ') = Len(msgQ) + 1 /\ Len(msgQ) \in Nat
      /\ \A i \in 1..Len(msgQ) : msgQ'[i] = msgQ[i] /\ msgQ[i] \in Request
      /\ msgQ'[Len(msgQ) + 1] = o
  BY <1>1, <1>2, <1>3, AppendProperties
<1>5. PowerTypes' /\ WorkTypes' /\ CbTypes'
  BY <1>1 DEF ResetInv, PowerTypes, WorkTypes, CbTypes, powerVars, workVars, cbVars
<1>6. CallTypes'
  BY <1>1, <1>4, CoreConstants DEF ResetInv, CallTypes, ClientPcs
<1>7. QueueInv'
  <2>1. /\ \A b \in Clients : cpc[b] = "wait" => cpc'[b] = "wait" /\ b # c
        /\ cpc'[c] = "wait"
    BY <1>1 DEF ResetInv, CallTypes
  <2>2. \A i \in 1..Len(msgQ) : /\ msgQ'[i] = msgQ[i] /\ msgQ[i].from # c
                                 /\ cpc'[msgQ[i].from] = "wait"
    BY <1>4, <2>1 DEF ResetInv, QueueInv, Request
  <2>3. \A i \in 1..Len(msgQ') : i \in 1..Len(msgQ) \/ i = Len(msgQ) + 1
    BY <1>4
  <2>4. wpc["core"] # "idle" => /\ coreOp \in Request /\ cpc'[coreOp.from] = "wait"
                                /\ coreOp.from # c
    BY <2>1 DEF ResetInv, QueueInv, Request
  <2>5. UNCHANGED <<wpc, coreOp>>
    BY <1>1 DEF workVars
  <2>6. \A i, j \in 1..Len(msgQ') : msgQ'[i].from = msgQ'[j].from => i = j
    BY <1>2, <1>4, <2>2, <2>3 DEF ResetInv, QueueInv
  <2>7. \A i \in 1..Len(msgQ') : cpc'[msgQ'[i].from] = "wait"
    BY <1>2, <1>4, <2>1, <2>2, <2>3
  <2>8. wpc["core"] # "idle" => \A i \in 1..Len(msgQ') : msgQ'[i].from # coreOp.from
    BY <1>2, <1>4, <2>2, <2>3, <2>4 DEF ResetInv, QueueInv
  <2> QED  BY <2>4, <2>5, <2>6, <2>7, <2>8 DEF QueueInv
<1>8. PhaseInv'
  <2>1. Posters' = Posters
    BY <1>1 DEF Posters, ResetInv, CallTypes
  <2> QED  BY <1>1, <2>1 DEF ResetInv, PhaseInv, rstVars, cbVars
<1> QED  BY <1>5, <1>6, <1>7, <1>8 DEF ResetInv

(* A step that changes nothing.                                            *)
LEMMA ResetStutter == ResetInv /\ UNCHANGED vars => ResetInv'
BY ZenonT(60) DEF ResetInv, PowerTypes, WorkTypes, CallTypes, CbTypes, QueueInv, PhaseInv, Posters, vars,
       powerVars, rstVars, workVars, cbVars, clientVars

(* Every step of the system keeps the invariant.                           *)
LEMMA ResetNext == ResetInv /\ [Next]_vars => ResetInv'
<1> SUFFICES ASSUME ResetInv, [Next]_vars PROVE ResetInv'
  OBVIOUS
<1>1. ASSUME NEW c \in Clients, Call(c) \/ ReadLock(c) \/ ReadKilled(c) \/ ClientStep(c)
      PROVE  ResetInv'
  BY <1>1, QuietReset, SendReset, LockRstReset, PostRstReset DEF ClientStep, Quiet
<1> QED
  BY <1>1, OperateReset, CoreTakeReset, CoreReplyReset, CbStepReset, SubStepReset, ResetStutter
  DEF Next, CoreStep

(* There is one reset at a time, from the moment a caller got past rst_status, *)
(* for any number of drivers, callers and calls.                           *)
THEOREM OneResetAtATime == Spec => []OneReset
<1>1. ResetInv => OneReset
  <2> SUFFICES ASSUME ResetInv PROVE OneReset
    OBVIOUS
  <2>1. Cardinality({}) = 0 /\ \A c : Cardinality({c}) = 1
    BY FS_EmptySet, FS_Singleton
  <2>2. PhaseInv
    BY DEF ResetInv
  <2> QED
    BY <2>1, <2>2, SMTT(60) DEF PhaseInv, Posters, OneReset, RstNone, RstStart, RstPreCb, RstPostCb
<1> QED  BY <1>1, ResetInit, ResetNext, PTL DEF Spec
-----------------------------------------------------------------------------
(* Without resets: power, accesses and grants.                             *)

PowerRest == NoReset /\ LockInv /\ ChipInv /\ SeenInv /\ GrantInv

(* Initially nothing is on and nothing is granted.                         *)
LEMMA PowerInit == Init => PowerInv
<1> SUFFICES ASSUME Init PROVE PowerInv
  OBVIOUS
<1>1. ResetInv /\ On = {}
  BY ResetInit DEF Init, On
<1>2. NoReset /\ LockInv
  BY CoreConstants DEF Init, NoReset, LockInv, ForcePcs, HeldPcs, Workers
<1>3. ChipInv /\ SeenInv /\ GrantInv
  BY <1>1, CoreConstants DEF Init, ChipInv, SeenInv, GrantInv, Workers
<1> QED  BY <1>1, <1>2, <1>3 DEF PowerInv

(* Power-on, one step at a time: the lock is taken.                        *)
LEMMA OnLockPower ==
  ASSUME PowerInv, OnLock("core")
  PROVE  PowerRest'
<1> USE CoreConstants DEF PowerInv, ResetInv, PowerTypes, WorkTypes, Workers, OnLock, At, Goto,
        Return, ReturnLocked, Unlock, LockThen, locals, powerVars, elsewhere,
        clientVars, cbVars, rstVars
<1>1. NoReset'
  BY DEF NoReset, ForcePcs
<1>2. LockInv'
  BY DEF LockInv, HeldPcs
<1>3. ChipInv'
  BY DEF ChipInv, SeenInv, LockInv, HeldPcs, On
<1>4. SeenInv'
  BY DEF ChipInv, SeenInv, LockInv, HeldPcs, On
<1>5. GrantInv'
  BY DEF GrantInv, On
<1> QED  BY <1>1, <1>2, <1>3, <1>4, <1>5 DEF PowerRest

(* The driver is on already, and so is its grant.                          *)
LEMMA OnAlreadyPower ==
  ASSUME PowerInv, OnAlready("core")
  PROVE  PowerRest'
<1> USE CoreConstants DEF PowerInv, ResetInv, PowerTypes, WorkTypes, Workers, OnAlready, At, Goto,
        Return, ReturnLocked, Unlock, LockThen, locals, powerVars, elsewhere,
        clientVars, cbVars, rstVars
<1>1. NoReset'
  BY DEF NoReset, ForcePcs
<1>2. LockInv'
  BY DEF LockInv, HeldPcs
<1>3. ChipInv'
  BY DEF ChipInv, SeenInv, LockInv, HeldPcs, On
<1>4. SeenInv'
  BY DEF ChipInv, SeenInv, LockInv, HeldPcs, On
<1>5. GrantInv'
  BY DEF GrantInv, On
<1> QED  BY <1>1, <1>2, <1>3, <1>4, <1>5 DEF PowerRest

(* The chip is on before the driver's status says so.                      *)
LEMMA OnHwPower ==
  ASSUME PowerInv, OnHw("core")
  PROVE  PowerRest'
<1> USE CoreConstants DEF PowerInv, ResetInv, PowerTypes, WorkTypes, Workers, OnHw, At, Goto,
        Return, ReturnLocked, Unlock, LockThen, locals, powerVars, elsewhere,
        clientVars, cbVars, rstVars
<1>1. NoReset'
  BY DEF NoReset, ForcePcs
<1>2. LockInv'
  BY DEF LockInv, HeldPcs
<1>3. ChipInv'
  BY DEF ChipInv, SeenInv, LockInv, HeldPcs, On
<1>4. SeenInv'
  BY DEF ChipInv, SeenInv, LockInv, HeldPcs, On
<1>5. GrantInv'
  BY DEF GrantInv, On
<1> QED  BY <1>1, <1>2, <1>3, <1>4, <1>5 DEF PowerRest

(* A failed power-on: the chip is as it was, nothing is granted.           *)
LEMMA OnHwFailsPower ==
  ASSUME PowerInv, OnHwFails("core")
  PROVE  PowerRest'
<1> USE CoreConstants DEF PowerInv, ResetInv, PowerTypes, WorkTypes, Workers, OnHwFails, At, Goto,
        Return, ReturnLocked, Unlock, LockThen, locals, powerVars, elsewhere,
        clientVars, cbVars, rstVars
<1>1. NoReset'
  BY DEF NoReset, ForcePcs
<1>2. LockInv'
  BY DEF LockInv, HeldPcs
<1>3. ChipInv'
  BY DEF ChipInv, SeenInv, LockInv, HeldPcs, On
<1>4. SeenInv'
  BY DEF ChipInv, SeenInv, LockInv, HeldPcs, On
<1>5. GrantInv'
  <2>1. On' = On /\ On = granted /\ UNCHANGED <<granted, coreOp, wdrv>>
    BY DEF GrantInv, On
  <2>2. wpc'["core"] = "ret" /\ wret'["core"] = "fail"
    OBVIOUS
  <2>3. coreOp.drv = wdrv["core"]
    BY DEF GrantInv
  <2> HIDE DEF OnHwFails
  <2> QED  BY <2>1, <2>2, <2>3 DEF GrantInv
<1> QED  BY <1>1, <1>2, <1>3, <1>4, <1>5 DEF PowerRest

(* From here infra_drv_status and the hardware agree again.                *)
LEMMA OnInfraPower ==
  ASSUME PowerInv, OnInfra("core")
  PROVE  PowerRest'
<1> USE CoreConstants DEF PowerInv, ResetInv, PowerTypes, WorkTypes, Workers, OnInfra, At, Goto,
        Return, ReturnLocked, Unlock, LockThen, locals, powerVars, elsewhere,
        clientVars, cbVars, rstVars
<1>1. NoReset'
  BY DEF NoReset, ForcePcs
<1>2. LockInv'
  BY DEF LockInv, HeldPcs
<1>3. ChipInv'
  BY DEF ChipInv, SeenInv, LockInv, HeldPcs, On
<1>4. SeenInv'
  BY DEF ChipInv, SeenInv, LockInv, HeldPcs, On
<1>5. GrantInv'
  BY DEF GrantInv, On
<1> QED  BY <1>1, <1>2, <1>3, <1>4, <1>5 DEF PowerRest

(* With the driver's status everything agrees.                             *)
LEMMA OnDrvPower ==
  ASSUME PowerInv, OnDrv("core")
  PROVE  PowerRest'
<1> USE CoreConstants DEF PowerInv, ResetInv, PowerTypes, WorkTypes, Workers, OnDrv, At, Goto,
        Return, ReturnLocked, Unlock, LockThen, locals, powerVars, elsewhere,
        clientVars, cbVars, rstVars
<1>1. NoReset'
  BY DEF NoReset, ForcePcs
<1>2. LockInv'
  BY DEF LockInv, HeldPcs
<1>3. ChipInv'
  BY DEF ChipInv, SeenInv, LockInv, HeldPcs, On
<1>4. SeenInv'
  BY DEF ChipInv, SeenInv, LockInv, HeldPcs, On
<1>5. GrantInv'
  BY DEF GrantInv, On
<1> QED  BY <1>1, <1>2, <1>3, <1>4, <1>5 DEF PowerRest

(* Power-off: what the loop has read stays true, only this thread changes it. *)
LEMMA OffReadPower ==
  ASSUME PowerInv, OffRead("core")
  PROVE  PowerRest'
<1> USE CoreConstants DEF PowerInv, ResetInv, PowerTypes, WorkTypes, Workers, OffRead, At, Goto,
        Return, ReturnLocked, Unlock, LockThen, locals, powerVars, elsewhere,
        clientVars, cbVars, rstVars
<1>1. NoReset'
  BY DEF NoReset, ForcePcs
<1>2. LockInv'
  BY DEF LockInv, HeldPcs
<1>3. ChipInv'
  BY DEF ChipInv, SeenInv, LockInv, HeldPcs, On
<1>4. SeenInv'
  <2> DEFINE i == idx["core"]
  <2>1. /\ i \in Drivers /\ idx'["core"] = i + 1 /\ On' = On /\ On \subseteq Drivers
        /\ wcurr["core"] = {d \in On : d < i}
        /\ wcurr'["core"] = IF i \in On THEN wcurr["core"] \cup {i} ELSE wcurr["core"]
        /\ wpc'["core"] = IF i + 1 = NumDrivers THEN "offLock" ELSE "offRead"
    BY DEF SeenInv, On
  <2>2. /\ i \in 0..NumDrivers /\ i < NumDrivers
        /\ \A d \in Drivers : d \in Int /\ (d < i + 1 <=> d < i \/ d = i)
        /\ i + 1 = NumDrivers => \A d \in Drivers : d < i + 1
    BY <2>1 DEF Drivers
  <2>3. wcurr'["core"] = {d \in On : d < i + 1}
    BY <2>1, <2>2
  <2>4. i + 1 = NumDrivers => wcurr'["core"] = On
    BY <2>1, <2>2, <2>3
  <2> QED  BY <2>1, <2>3, <2>4 DEF SeenInv
<1>5. GrantInv'
  BY DEF GrantInv, On
<1> QED  BY <1>1, <1>2, <1>3, <1>4, <1>5 DEF PowerRest

(* What was read before the lock still holds under it.                     *)
LEMMA OffLockPower ==
  ASSUME PowerInv, OffLock("core")
  PROVE  PowerRest'
<1> USE CoreConstants DEF PowerInv, ResetInv, PowerTypes, WorkTypes, Workers, OffLock, At, Goto,
        Return, ReturnLocked, Unlock, LockThen, locals, powerVars, elsewhere,
        clientVars, cbVars, rstVars
<1>1. NoReset'
  BY DEF NoReset, ForcePcs
<1>2. LockInv'
  BY DEF LockInv, HeldPcs
<1>3. ChipInv'
  BY DEF ChipInv, SeenInv, LockInv, HeldPcs, On
<1>4. SeenInv'
  BY DEF ChipInv, SeenInv, LockInv, HeldPcs, On
<1>5. GrantInv'
  BY DEF GrantInv, On
<1> QED  BY <1>1, <1>2, <1>3, <1>4, <1>5 DEF PowerRest

(* The driver is off already, and has no grant.                            *)
LEMMA OffAlreadyPower ==
  ASSUME PowerInv, OffAlready("core")
  PROVE  PowerRest'
<1> USE CoreConstants DEF PowerInv, ResetInv, PowerTypes, WorkTypes, Workers, OffAlready, At,
   Goto,
        Return, ReturnLocked, Unlock, LockThen, locals, powerVars, elsewhere,
        clientVars, cbVars, rstVars
<1>1. NoReset'
  BY DEF NoReset, ForcePcs
<1>2. LockInv'
  BY DEF LockInv, HeldPcs
<1>3. ChipInv'
  BY DEF ChipInv, SeenInv, LockInv, HeldPcs, On
<1>4. SeenInv'
  BY DEF ChipInv, SeenInv, LockInv, HeldPcs, On
<1>5. GrantInv'
  BY DEF GrantInv, On
<1> QED  BY <1>1, <1>2, <1>3, <1>4, <1>5 DEF PowerRest

(* The driver no longer counts; wlast says whether it was the last.        *)
LEMMA OffMarkPower ==
  ASSUME PowerInv, OffMark("core")
  PROVE  PowerRest'
<1> USE CoreConstants DEF PowerInv, ResetInv, PowerTypes, WorkTypes, Workers, OffMark, At, Goto,
        Return, ReturnLocked, Unlock, LockThen, locals, powerVars, elsewhere,
        clientVars, cbVars, rstVars
<1> DEFINE d == wdrv["core"]
<1>0. /\ d \in On /\ On' = On \ {d} /\ wcurr' = wcurr /\ wcurr["core"] = On
      /\ wlast'["core"] = (On = {d}) /\ (wlast'["core"] <=> On' = {})
      /\ hwOn' /\ infraOn' /\ dumpOn' = (dumpOn /\ On' # {})
      /\ wpc'["core"] = "offHw" /\ wdrv' = wdrv
  <2>1. /\ d \in On /\ On' = On \ {d} /\ wlast'["core"] = (On = {d})
        /\ dumpOn' = (dumpOn /\ On # {d}) /\ wpc'["core"] = "offHw"
        /\ UNCHANGED <<wcurr, wdrv, infraOn, hwOn>>
    BY DEF On
  <2>2. (wlast'["core"] <=> On' = {}) /\ dumpOn' = (dumpOn /\ On' # {})
    <3>1. On = {d} <=> On' = {}
      BY <2>1
    <3> QED  BY <2>1, <3>1
  <2>3. hwOn /\ infraOn /\ wcurr["core"] = On
    BY <2>1 DEF ChipInv, SeenInv
  <2> QED  BY <2>1, <2>2, <2>3
<1>1. NoReset'
  BY DEF NoReset, ForcePcs
<1>2. LockInv'
  BY DEF LockInv, HeldPcs
<1>3. ChipInv'
  <2>1. \A e \in Drivers : vcn'[e] <=> (drvOn'[e] \/ e = d)
    BY DEF ChipInv, On
  <2> QED  BY <1>0, <2>1 DEF ChipInv
<1>4. SeenInv'
  BY <1>0 DEF SeenInv, LockInv, HeldPcs
<1>5. GrantInv'
  BY DEF GrantInv, On
<1> QED  BY <1>1, <1>2, <1>3, <1>4, <1>5 DEF PowerRest

(* The chip is cut exactly if no other driver was on.                      *)
LEMMA OffHwPower ==
  ASSUME PowerInv, OffHw("core")
  PROVE  PowerRest'
<1> USE CoreConstants DEF PowerInv, ResetInv, PowerTypes, WorkTypes, Workers, OffHw, At, Goto,
        Return, ReturnLocked, Unlock, LockThen, locals, powerVars, elsewhere,
        clientVars, cbVars, rstVars
<1>1. NoReset'
  BY DEF NoReset, ForcePcs
<1>2. LockInv'
  BY DEF LockInv, HeldPcs
<1>3. ChipInv'
  <2> DEFINE d == wdrv["core"]
  <2>1. On' = On /\ wcurr["core"] \ {d} = On /\ (hwOn' <=> On # {})
    BY DEF ChipInv, On
  <2>2. \A e \in Drivers : vcn'[e] <=> drvOn'[e]
    BY DEF ChipInv, On
  <2>3. infraOn' /\ (wlast'["core"] <=> On' = {}) /\ wpc'["core"] = "offEnd"
    BY <2>1 DEF ChipInv
  <2> QED  BY <2>1, <2>2, <2>3 DEF ChipInv
<1>4. SeenInv'
  BY DEF ChipInv, SeenInv, LockInv, HeldPcs, On
<1>5. GrantInv'
  BY DEF GrantInv, On
<1> QED  BY <1>1, <1>2, <1>3, <1>4, <1>5 DEF PowerRest

(* With infra_drv_status everything agrees.                                *)
LEMMA OffEndPower ==
  ASSUME PowerInv, OffEnd("core")
  PROVE  PowerRest'
<1> USE CoreConstants DEF PowerInv, ResetInv, PowerTypes, WorkTypes, Workers, OffEnd, At, Goto,
        Return, ReturnLocked, Unlock, LockThen, locals, powerVars, elsewhere,
        clientVars, cbVars, rstVars
<1>1. NoReset'
  BY DEF NoReset, ForcePcs
<1>2. LockInv'
  BY DEF LockInv, HeldPcs
<1>3. ChipInv'
  BY DEF ChipInv, SeenInv, LockInv, HeldPcs, On
<1>4. SeenInv'
  BY DEF ChipInv, SeenInv, LockInv, HeldPcs, On
<1>5. GrantInv'
  BY DEF GrantInv, On
<1> QED  BY <1>1, <1>2, <1>3, <1>4, <1>5 DEF PowerRest

(* Register operations of the core thread: the lock is taken.              *)
LEMMA HwopLockPower ==
  ASSUME PowerInv, HwopLock("core")
  PROVE  PowerRest'
<1> USE CoreConstants DEF PowerInv, ResetInv, PowerTypes, WorkTypes, Workers, HwopLock, At, Goto,
        Return, ReturnLocked, Unlock, LockThen, locals, powerVars, elsewhere,
        clientVars, cbVars, rstVars
<1>1. NoReset'
  BY DEF NoReset, ForcePcs
<1>2. LockInv'
  BY DEF LockInv, HeldPcs
<1>3. ChipInv'
  BY DEF ChipInv, SeenInv, LockInv, HeldPcs, On
<1>4. SeenInv'
  BY DEF ChipInv, SeenInv, LockInv, HeldPcs, On
<1>5. GrantInv'
  BY DEF GrantInv, On
<1> QED  BY <1>1, <1>2, <1>3, <1>4, <1>5 DEF PowerRest

(* infra_drv_status is tested under the lock.                              *)
LEMMA HwopCheckPower ==
  ASSUME PowerInv, HwopCheck("core")
  PROVE  PowerRest'
<1> USE CoreConstants DEF PowerInv, ResetInv, PowerTypes, WorkTypes, Workers, HwopCheck, At, Goto,
        Return, ReturnLocked, Unlock, LockThen, locals, powerVars, elsewhere,
        clientVars, cbVars, rstVars
<1>1. NoReset'
  BY DEF NoReset, ForcePcs
<1>2. LockInv'
  BY DEF LockInv, HeldPcs
<1>3. ChipInv'
  BY DEF ChipInv, SeenInv, LockInv, HeldPcs, On
<1>4. SeenInv'
  BY DEF ChipInv, SeenInv, LockInv, HeldPcs, On
<1>5. GrantInv'
  BY DEF GrantInv, On
<1> QED  BY <1>1, <1>2, <1>3, <1>4, <1>5 DEF PowerRest

(* The access is over.                                                     *)
LEMMA HwopAccessPower ==
  ASSUME PowerInv, HwopAccess("core")
  PROVE  PowerRest'
<1> USE CoreConstants DEF PowerInv, ResetInv, PowerTypes, WorkTypes, Workers, HwopAccess, At,
   Goto,
        Return, ReturnLocked, Unlock, LockThen, locals, powerVars, elsewhere,
        clientVars, cbVars, rstVars
<1>1. NoReset'
  BY DEF NoReset, ForcePcs
<1>2. LockInv'
  BY DEF LockInv, HeldPcs
<1>3. ChipInv'
  BY DEF ChipInv, SeenInv, LockInv, HeldPcs, On
<1>4. SeenInv'
  BY DEF ChipInv, SeenInv, LockInv, HeldPcs, On
<1>5. GrantInv'
  BY DEF GrantInv, On
<1> QED  BY <1>1, <1>2, <1>3, <1>4, <1>5 DEF PowerRest

(* The thermal query tests infra_drv_status before the lock.               *)
LEMMA ThermCheckPower ==
  ASSUME PowerInv, ThermCheck("core")
  PROVE  PowerRest'
<1> USE CoreConstants DEF PowerInv, ResetInv, PowerTypes, WorkTypes, Workers, ThermCheck, At,
   Goto,
        Return, ReturnLocked, Unlock, LockThen, locals, powerVars, elsewhere,
        clientVars, cbVars, rstVars
<1>1. NoReset'
  BY DEF NoReset, ForcePcs
<1>2. LockInv'
  BY DEF LockInv, HeldPcs
<1>3. ChipInv'
  BY DEF ChipInv, SeenInv, LockInv, HeldPcs, On
<1>4. SeenInv'
  BY DEF ChipInv, SeenInv, LockInv, HeldPcs, On
<1>5. GrantInv'
  BY DEF GrantInv, On
<1> QED  BY <1>1, <1>2, <1>3, <1>4, <1>5 DEF PowerRest

(* Only this thread could have changed it before it has the lock.          *)
LEMMA ThermLockPower ==
  ASSUME PowerInv, ThermLock("core")
  PROVE  PowerRest'
<1> USE CoreConstants DEF PowerInv, ResetInv, PowerTypes, WorkTypes, Workers, ThermLock, At, Goto,
        Return, ReturnLocked, Unlock, LockThen, locals, powerVars, elsewhere,
        clientVars, cbVars, rstVars
<1>1. NoReset'
  BY DEF NoReset, ForcePcs
<1>2. LockInv'
  BY DEF LockInv, HeldPcs
<1>3. ChipInv'
  BY DEF ChipInv, SeenInv, LockInv, HeldPcs, On
<1>4. SeenInv'
  BY DEF ChipInv, SeenInv, LockInv, HeldPcs, On
<1>5. GrantInv'
  BY DEF GrantInv, On
<1> QED  BY <1>1, <1>2, <1>3, <1>4, <1>5 DEF PowerRest

(* The power dump is enabled only while some driver is on.                 *)
LEMMA DumpCheckPower ==
  ASSUME PowerInv, DumpCheck("core")
  PROVE  PowerRest'
<1> USE CoreConstants DEF PowerInv, ResetInv, PowerTypes, WorkTypes, Workers, DumpCheck, At, Goto,
        Return, ReturnLocked, Unlock, LockThen, locals, powerVars, elsewhere,
        clientVars, cbVars, rstVars
<1>1. NoReset'
  BY DEF NoReset, ForcePcs
<1>2. LockInv'
  BY DEF LockInv, HeldPcs
<1>3. ChipInv'
  BY DEF ChipInv, SeenInv, LockInv, HeldPcs, On
<1>4. SeenInv'
  BY DEF ChipInv, SeenInv, LockInv, HeldPcs, On
<1>5. GrantInv'
  BY DEF GrantInv, On
<1> QED  BY <1>1, <1>2, <1>3, <1>4, <1>5 DEF PowerRest

(* The dump is over.                                                       *)
LEMMA DumpAccessPower ==
  ASSUME PowerInv, DumpAccess("core")
  PROVE  PowerRest'
<1> USE CoreConstants DEF PowerInv, ResetInv, PowerTypes, WorkTypes, Workers, DumpAccess, At,
   Goto,
        Return, ReturnLocked, Unlock, LockThen, locals, powerVars, elsewhere,
        clientVars, cbVars, rstVars
<1>1. NoReset'
  BY DEF NoReset, ForcePcs
<1>2. LockInv'
  BY DEF LockInv, HeldPcs
<1>3. ChipInv'
  BY DEF ChipInv, SeenInv, LockInv, HeldPcs, On
<1>4. SeenInv'
  BY DEF ChipInv, SeenInv, LockInv, HeldPcs, On
<1>5. GrantInv'
  BY DEF GrantInv, On
<1> QED  BY <1>1, <1>2, <1>3, <1>4, <1>5 DEF PowerRest

(* The cb thread is not in an operation and no power-off is a forced one.  *)
LEMMA OperatePower ==
  ASSUME PowerInv, NEW w \in Workers, Operate(w) \/ TakeLock(w)
  PROVE  PowerRest'
<1>1. Inside(w)
  BY OperateInside DEF PowerInv, ResetInv
<1>2. w = "core"
  BY <1>1 DEF Inside, PowerInv, NoReset, Workers
<1>3. wpc["core"] \notin ForcePcs
  BY DEF PowerInv, NoReset
<1> QED
  BY <1>2, <1>3, OnLockPower, OnAlreadyPower, OnHwPower, OnHwFailsPower, OnInfraPower,
     OnDrvPower, OffReadPower, OffLockPower, OffAlreadyPower, OffMarkPower, OffHwPower,
     OffEndPower, HwopLockPower, HwopCheckPower, HwopAccessPower, ThermCheckPower,
     ThermLockPower, DumpCheckPower, DumpAccessPower
  DEF Operate, TakeLock, ForceLock, ForceAlready, ForceCheck, ForceLoop, ForceHw, ForceEnd, At, ForcePcs

(* The core thread takes an op, which changes nothing yet.                 *)
LEMMA CoreTakePower ==
  ASSUME PowerInv, CoreTake
  PROVE  PowerRest'
<1> DEFINE o == Head(msgQ)
<1>1. /\ wpc["core"] = "idle" /\ coreOp' = o /\ Enter("core", CoreEntry[o.call], o.drv)
      /\ UNCHANGED <<powerVars, coreLock, rstVars, cbQ, cbVars, clientVars, granted>>
  BY DEF CoreTake, At
<1>2. o \in Request
  BY Taken DEF PowerInv, ResetInv, CallTypes, CoreTake
<1>3. o.call \in CoreCalls /\ o.drv \in Drivers
  BY <1>2 DEF Request
<1>4. /\ wpc' = [wpc EXCEPT !["core"] = CoreEntry[o.call]] /\ wdrv'["core"] = o.drv
      /\ wcurr'["core"] = {} /\ idx'["core"] = 0
  BY <1>1 DEF Enter, Goto, PowerInv, ResetInv, WorkTypes, Workers
<1>5. /\ wpc'["core"] = CoreEntry[o.call] /\ wpc'["cb"] = wpc["cb"]
      /\ wpc'["core"] \in {"onLock", "offRead", "hwopLock", "thermCheck", "dumpCheck"}
      /\ wpc'["core"] = "onLock" => o.call = "on"
      /\ wpc'["core"] = "offRead" => o.call = "off"
      /\ wpc'["core"] \notin {"onLock", "offRead"} => o.call \notin {"on", "off"}
  BY <1>3, <1>4 DEF PowerInv, ResetInv, WorkTypes, Workers, CoreCalls, CoreEntry
<1>6. NoReset' /\ LockInv'
  BY <1>1, <1>5 DEF PowerInv, NoReset, LockInv, ForcePcs, HeldPcs, rstVars, cbVars, clientVars
<1>7. On' = On /\ On \subseteq Drivers
  BY <1>1 DEF On, powerVars
<1>8. ChipInv'
  BY <1>1, <1>5, <1>7 DEF PowerInv, ChipInv, powerVars
<1>9. SeenInv'
  <2>1. \A d \in Drivers : ~(d < 0)
    BY CoreConstants DEF Drivers
  <2>2. {d \in On : d < idx'["core"]} = wcurr'["core"]
    BY <1>4, <1>7, <2>1
  <2> QED  BY <1>1, <1>5, <1>7, <2>2 DEF PowerInv, SeenInv, powerVars, clientVars
<1>10. GrantInv'
  BY <1>1, <1>4, <1>5, <1>7 DEF PowerInv, GrantInv
<1> QED  BY <1>6, <1>8, <1>9, <1>10 DEF PowerRest

(* The answer makes the grant follow what was done.                        *)
LEMMA CoreReplyPower ==
  ASSUME PowerInv, CoreReply
  PROVE  PowerRest'
<1>1. /\ wpc["core"] = "ret" /\ cpc' = [cpc EXCEPT ![coreOp.from] = "idle"]
      /\ Enter("core", "idle", 0)
      /\ UNCHANGED <<powerVars, coreLock, rstVars, cbQ, cbVars>>
  BY DEF CoreReply, At
<1>2. coreOp \in Request /\ cpc[coreOp.from] = "wait" /\ coreOp.from \in Clients
  BY <1>1 DEF PowerInv, ResetInv, QueueInv, Request
<1>3. wpc'["core"] = "idle" /\ wpc'["cb"] = wpc["cb"]
  BY <1>1 DEF Enter, Goto, PowerInv, ResetInv, WorkTypes, Workers
<1>4. \A c \in Clients : \/ cpc'[c] = cpc[c]
                         \/ cpc[c] = "wait" /\ cpc'[c] = "idle"
  BY <1>1, <1>2 DEF PowerInv, ResetInv, CallTypes
<1>5. NoReset'
  BY <1>1, <1>3, <1>4 DEF PowerInv, NoReset, ForcePcs, rstVars, cbVars
<1>6. LockInv'
  BY <1>1, <1>3, <1>4 DEF PowerInv, LockInv, HeldPcs
<1>7. On' = On
  BY <1>1 DEF On, powerVars
<1>8. ChipInv' /\ SeenInv'
  BY <1>1, <1>3, <1>4, <1>7 DEF PowerInv, ChipInv, SeenInv, powerVars
<1>9. On = granted'
  BY <1>1, <1>2 DEF CoreReply, PowerInv, GrantInv
<1>10. GrantInv'
  BY <1>3, <1>7, <1>9 DEF GrantInv
<1> QED  BY <1>5, <1>6, <1>8, <1>10 DEF PowerRest

(* A caller holds core_lock between its steps "locked" and "access".       *)
Holds(c) ==
  /\ \/ UNCHANGED coreLock /\ (cpc[c] \in {"locked", "access"} <=> cpc'[c] \in {"locked", "access"})
     \/ coreLock = "free" /\ coreLock' = c /\ cpc'[c] \in {"locked", "access"}
     \/ coreLock = c /\ coreLock' = "free" /\ cpc'[c] \notin {"locked", "access"}
  /\ cpc'[c] = "access" => infraOn

LEMMA QuietHolds ==
  ASSUME ResetInv, NEW c \in Clients, Quiet(c)
  PROVE  Holds(c)
<1> USE CoreConstants DEF Holds, ResetInv, CallTypes, others, CGoto, CReturn, CDrop
<1>1. CASE Call(c)
  <2>1. PICK k \in Calls : cpc' = [cpc EXCEPT ![c] = CallEntry[k]]
    BY <1>1 DEF Call
  <2>2. k \in AllCalls
    BY CoreAssumption
  <2>3. CallEntry[k] \notin {"locked", "access"}
    BY <2>2 DEF AllCalls, CallEntry
  <2> QED  BY <1>1, <2>1, <2>3 DEF Call
<1>2. CASE CheckRst(c) \/ CheckReset(c) \/ CheckDump(c) \/ ResetPowerState(c) \/ ReadKilled(c)
  BY <1>2 DEF CheckRst, CheckReset, CheckDump, ResetPowerState, ReadKilled
<1>3. CASE ReadLock(c)
  BY <1>3 DEF ReadLock
<1>4. CASE ReadCheck(c)
  BY <1>4 DEF ReadCheck, Unlock
<1>5. CASE ReadAccess(c)
  BY <1>5 DEF ReadAccess, Unlock
<1> QED  BY <1>1, <1>2, <1>3, <1>4, <1>5 DEF Quiet

(* So it changes neither power nor what the core thread has seen of it.     *)
LEMMA QuietPower ==
  ASSUME PowerInv, "rst" \notin Calls, NEW c \in Clients, Quiet(c)
  PROVE  PowerRest'
<1>1. /\ Moves(c) /\ UNCHANGED <<rstStatus, cbQ>>
  BY QuietMoves DEF PowerInv, ResetInv
<1>2. \A b \in Clients : b # c => cpc'[b] = cpc[b]
  BY <1>1 DEF Moves, PowerInv, ResetInv, CallTypes
<1>3. cpc'[c] \notin {"lockRst", "post"}
  <2>1. CASE Call(c)
    <3>1. PICK k \in Calls : cpc' = [cpc EXCEPT ![c] = CallEntry[k]]
      BY <2>1 DEF Call
    <3>2. k \in AllCalls /\ k # "rst"
      BY CoreAssumption
    <3>3. CallEntry[k] \notin {"lockRst", "post"}
      BY <3>2 DEF AllCalls, CallEntry
    <3> QED  BY <3>1, <3>3 DEF PowerInv, ResetInv, CallTypes
  <2>2. CASE ~Call(c)
    BY <2>2 DEF Quiet, PowerInv, ResetInv, CallTypes, CGoto, CReturn, CDrop, CheckRst, CheckReset,
       ReadLock, ReadKilled, ReadCheck, ReadAccess, CheckDump, ResetPowerState
  <2> QED  BY <2>1, <2>2
<1>4. NoReset'
  BY <1>1, <1>2, <1>3 DEF PowerInv, NoReset, Moves, cbVars, workVars
<1>5. Holds(c)
  BY QuietHolds DEF PowerInv
<1>6. LockInv'
  BY <1>1, <1>2, <1>5, CoreConstants DEF Holds, PowerInv, LockInv, Moves, workVars
<1>7. UNCHANGED <<wpc, wdrv, wcurr, wlast, wret, idx, coreOp, granted, powerVars, On>>
  BY <1>1 DEF Moves, workVars, powerVars, On
<1>8. ChipInv' /\ SeenInv' /\ GrantInv'
  BY <1>2, <1>5, <1>7 DEF Holds, PowerInv, ChipInv, SeenInv, GrantInv, powerVars
<1> QED  BY <1>4, <1>6, <1>8 DEF PowerRest

(* Queueing an op touches neither power nor lock.                          *)
LEMMA SendPower ==
  ASSUME PowerInv, NEW c \in Clients, Send(c)
  PROVE  PowerRest'
<1>1. /\ cpc[c] = "send" /\ cpc' = [cpc EXCEPT ![c] = "wait"]
      /\ UNCHANGED <<powerVars, coreLock, rstVars, cbQ, workVars, coreOp, cbVars, granted>>
  BY DEF Send, CDrop
<1>2. \A b \in Clients : \/ cpc'[b] = cpc[b]
                         \/ cpc[b] = "send" /\ cpc'[b] = "wait"
  BY <1>1 DEF PowerInv, ResetInv, CallTypes
<1>3. NoReset' /\ LockInv'
  BY <1>1, <1>2 DEF PowerInv, NoReset, LockInv, rstVars, workVars, cbVars
<1>4. On' = On
  BY <1>1 DEF On, powerVars
<1>5. ChipInv' /\ SeenInv' /\ GrantInv'
  BY <1>1, <1>2, <1>4 DEF PowerInv, ChipInv, SeenInv, GrantInv, powerVars, workVars
<1> QED  BY <1>3, <1>5 DEF PowerRest

(* The other threads have nothing to do.                                   *)
LEMMA SubStepPower ==
  ASSUME PowerInv, (\E d \in Drivers : SubStep(d)) \/ UNCHANGED vars
  PROVE  PowerRest'
<1>1. UNCHANGED <<powerVars, coreLock, rstStatus, cbQ, workVars, coreOp, cbVars, clientVars, granted>>
  BY DEF SubStep, SubCallback, SubSignal, rstVars, vars
<1>2. On' = On
  BY <1>1 DEF On, powerVars
<1> QED
  BY <1>1, <1>2 DEF PowerInv, PowerRest, NoReset, LockInv, ChipInv, SeenInv, GrantInv, powerVars,
     workVars, cbVars, clientVars

(* Every step keeps the invariant, if no call asks for a reset.            *)
LEMMA PowerNext ==
  ASSUME "rst" \notin Calls, PowerInv, [Next]_vars
  PROVE  PowerInv'
<1>1. ResetInv'
  BY ResetNext DEF PowerInv
<1>2. ~CbStep
  BY DEF PowerInv, NoReset, CbStep, CbNothingOn, CbTake, CbPre, CbReset, CbReturn, CbRepower,
     CbPostCb, CbPost, CbDone, At
<1>3. ASSUME NEW c \in Clients, Call(c) \/ ReadLock(c) \/ ReadKilled(c) \/ ClientStep(c)
      PROVE  PowerRest'
  <2>1. ~LockRst(c) /\ ~PostRst(c)
    BY DEF PowerInv, NoReset, LockRst, PostRst
  <2> QED  BY <1>3, <2>1, QuietPower, SendPower DEF ClientStep, Quiet
<1>4. PowerRest'
  BY <1>2, <1>3, OperatePower, CoreTakePower, CoreReplyPower, SubStepPower DEF Next, CoreStep
<1> QED  BY <1>1, <1>4 DEF PowerInv, PowerRest

(* The inductive invariant of power without resets.                        *)
THEOREM PowerInvariant == ASSUME "rst" \notin Calls PROVE Spec => []PowerInv
<1>1. PowerInv /\ [Next]_vars => PowerInv'
  BY PowerNext
<1> QED  BY <1>1, PowerInit, PTL DEF Spec

(* Whoever turns drivers on and off, in whatever order and however often   *)
(* powering on fails: outside the lock the chip is on as long as one is.   *)
THEOREM PowerIsExact == ASSUME "rst" \notin Calls PROVE Spec => []PowerExact
<1>1. PowerInv => PowerExact
  <2> SUFFICES ASSUME PowerInv, coreLock = "free"
               PROVE  /\ infraOn = hwOn
                      /\ hwOn <=> On # {}
                      /\ \A d \in Drivers : vcn[d] <=> drvOn[d]
    BY DEF PowerExact
  <2>1. wpc["core"] \notin HeldPcs
    BY DEF PowerInv, LockInv
  <2>2. /\ infraOn <=> hwOn
        /\ hwOn <=> On # {}
        /\ \A d \in Drivers : vcn[d] <=> drvOn[d]
    BY <2>1 DEF PowerInv, ChipInv, HeldPcs
  <2>3. infraOn = hwOn
    <3>1. infraOn \in BOOLEAN /\ hwOn \in BOOLEAN
      BY DEF PowerInv, ResetInv, PowerTypes
    <3> QED  BY <2>2, <3>1
  <2> QED  BY <2>2, <2>3
<1> QED  BY <1>1, PowerInvariant, PTL

(* No register is touched while the chip is off.                           *)
THEOREM AccessIsPowered == ASSUME "rst" \notin Calls PROVE Spec => []AccessPowered
<1>1. PowerInv => AccessPowered
  <2> SUFFICES ASSUME PowerInv PROVE AccessPowered
    OBVIOUS
  <2>1. ASSUME NEW c \in Clients, cpc[c] = "access" PROVE hwOn
    <3>1. coreLock = c /\ c # "core" /\ infraOn
      BY <2>1, CoreConstants DEF PowerInv, LockInv, SeenInv
    <3>2. wpc["core"] \notin HeldPcs
      BY <3>1 DEF PowerInv, LockInv
    <3> QED  BY <3>1, <3>2 DEF PowerInv, ChipInv, HeldPcs
  <2>2. ASSUME At("core", "access") \/ At("core", "dump") PROVE hwOn
    BY <2>2 DEF At, PowerInv, ChipInv, SeenInv
  <2>3. ~At("cb", "access") /\ ~At("cb", "dump")
    BY DEF At, PowerInv, NoReset
  <2> QED  BY <2>1, <2>2, <2>3 DEF AccessPowered, Workers
<1> QED  BY <1>1, PowerInvariant, PTL

(* A driver that was told it has power is on until it turns itself off.    *)
THEOREM GrantsAreKept == ASSUME "rst" \notin Calls PROVE Spec => []GrantsKept
<1>1. PowerInv => GrantsKept
  BY DEF PowerInv, GrantInv, GrantsKept, At
<1> QED  BY <1>1, PowerInvariant, PTL
-----------------------------------------------------------------------------
(* Without resets the power calls are a power manager.                     *)

(* A step that leaves the drivers, the chip and the answers alone.         *)
LEMMA ManagerIdle ==
  ASSUME UNCHANGED <<drvOn, hwOn, granted>>
  PROVE  [Manager!Next]_<<On, hwOn, granted>>
<1>1. On' = On
  BY DEF On
<1> QED  BY <1>1

(* The chip is switched on, or not, before a driver gets power, or an      *)
(* attempt to do so is rolled back.                                        *)
LEMMA ManagerOnHw ==
  ASSUME PowerInv, OnHw("core") \/ OnHwFails("core")
  PROVE  [Manager!Next]_<<On, hwOn, granted>>
<1>1. UNCHANGED <<drvOn, granted>> /\ wpc["core"] = "onHw" /\ hwOn \in BOOLEAN
  BY DEF OnHw, OnHwFails, elsewhere, At, PowerInv, ResetInv, PowerTypes
<1>2. On' = On /\ (hwOn <=> On # {})
  BY <1>1 DEF On, PowerInv, ChipInv
<1>3. CASE OnHw("core")
  <2>1. hwOn' = (hwOn \/ On = {})
    BY <1>3 DEF OnHw
  <2>2. CASE hwOn
    BY <1>1, <1>2, <2>1, <2>2
  <2>3. CASE ~hwOn
    BY <1>1, <1>2, <2>1, <2>3 DEF Manager!Next, Manager!SwitchOn
  <2> QED  BY <2>2, <2>3
<1>4. CASE OnHwFails("core")
  <2>1. hwOn' \in IF On = {} THEN {hwOn, FALSE} ELSE {hwOn}
    BY <1>4 DEF OnHwFails
  <2>2. hwOn' = hwOn
    BY <1>1, <1>2, <2>1
  <2> QED  BY <1>1, <1>2, <2>2
<1> QED  BY <1>3, <1>4

(* A driver gets power: the chip has it, and no answer is outstanding.     *)
LEMMA ManagerOnDrv ==
  ASSUME PowerInv, OnDrv("core")
  PROVE  [Manager!Next]_<<On, hwOn, granted>>
<1> DEFINE d == wdrv["core"]
<1>1. /\ wpc["core"] = "onDrv" /\ UNCHANGED <<hwOn, granted>> /\ d \in Drivers
      /\ drvOn' = [drvOn EXCEPT ![d] = TRUE] /\ drvOn \in [Drivers -> BOOLEAN]
  BY DEF OnDrv, elsewhere, At, PowerInv, ResetInv, PowerTypes, WorkTypes, Workers
<1>2. hwOn /\ On = granted
  BY <1>1 DEF PowerInv, ChipInv, GrantInv
<1>3. On' = On \cup {d}
  BY <1>1 DEF On
<1>4. CASE d \in On
  BY <1>1, <1>3, <1>4
<1>5. CASE d \notin On
  BY <1>1, <1>2, <1>3, <1>5 DEF Manager!Next, Manager!Grant
<1> QED  BY <1>4, <1>5

(* A driver loses power, with no answer outstanding.                       *)
LEMMA ManagerOffMark ==
  ASSUME PowerInv, OffMark("core")
  PROVE  [Manager!Next]_<<On, hwOn, granted>>
<1> DEFINE d == wdrv["core"]
<1>1. /\ wpc["core"] = "offMark" /\ UNCHANGED <<hwOn, granted>> /\ d \in Drivers /\ drvOn[d]
      /\ drvOn' = [drvOn EXCEPT ![d] = FALSE] /\ drvOn \in [Drivers -> BOOLEAN]
  BY DEF OffMark, elsewhere, At, PowerInv, ResetInv, PowerTypes, WorkTypes, Workers
<1>2. On = granted
  BY <1>1 DEF PowerInv, GrantInv
<1>3. On' = On \ {d} /\ d \in On
  BY <1>1 DEF On
<1> QED  BY <1>1, <1>2, <1>3 DEF Manager!Next, Manager!Withdraw

(* The chip is cut when no driver has power: curr_status is still true.    *)
LEMMA ManagerOffHw ==
  ASSUME PowerInv, OffHw("core")
  PROVE  [Manager!Next]_<<On, hwOn, granted>>
<1> DEFINE d == wdrv["core"]
<1>1. /\ wpc["core"] = "offHw" /\ UNCHANGED <<drvOn, granted>>
      /\ hwOn' = (hwOn /\ wcurr["core"] \ {d} # {})
  BY DEF OffHw, elsewhere, At
<1>2. hwOn = TRUE /\ wcurr["core"] = On \cup {d} /\ d \notin On
  BY <1>1 DEF PowerInv, ResetInv, PowerTypes, ChipInv
<1>3. On' = On /\ hwOn' = (On # {})
  BY <1>1, <1>2 DEF On
<1>4. CASE On # {}
  BY <1>1, <1>2, <1>3, <1>4
<1>5. CASE On = {}
  BY <1>1, <1>2, <1>3, <1>5 DEF Manager!Next, Manager!SwitchOff
<1> QED  BY <1>4, <1>5

(* The answer is what is the case.                                         *)
LEMMA ManagerTell ==
  ASSUME PowerInv, CoreReply
  PROVE  [Manager!Next]_<<On, hwOn, granted>>
<1>1. /\ wpc["core"] = "ret" /\ UNCHANGED <<drvOn, hwOn>> /\ wdrv["core"] = coreOp.drv
  BY DEF CoreReply, At, powerVars, PowerInv, GrantInv
<1>2. On' = On
  BY <1>1 DEF On
<1>3. granted' = On
  BY <1>1 DEF CoreReply, PowerInv, GrantInv
<1>4. CASE granted = On
  BY <1>1, <1>2, <1>3, <1>4
<1>5. CASE granted # On
  BY <1>1, <1>2, <1>3, <1>5 DEF Manager!Next, Manager!Tell
<1> QED  BY <1>4, <1>5

(* Each step of the core thread in an operation.                           *)
LEMMA ManagerOperate ==
  ASSUME PowerInv, NEW w \in Workers, Operate(w) \/ TakeLock(w)
  PROVE  [Manager!Next]_<<On, hwOn, granted>>
<1>1. w = "core" /\ wpc["core"] \notin ForcePcs
  <2>1. Inside(w)
    BY OperateInside DEF PowerInv, ResetInv
  <2> QED  BY <2>1 DEF Inside, PowerInv, NoReset, Workers
<1>2. CASE \/ OnHw(w) \/ OnHwFails(w) \/ OnDrv(w) \/ OffMark(w) \/ OffHw(w)
  BY <1>1, <1>2, ManagerOnHw, ManagerOnDrv, ManagerOffMark, ManagerOffHw
<1>3. CASE ForceLock(w) \/ ForceAlready(w) \/ ForceCheck(w) \/ ForceLoop(w) \/ ForceHw(w) \/ ForceEnd(w)
  BY <1>1, <1>3 DEF ForceLock, ForceAlready, ForceCheck, ForceLoop, ForceHw, ForceEnd, At, ForcePcs
<1>4. CASE \/ OnLock(w) \/ OnAlready(w) \/ OnInfra(w) \/ OffRead(w) \/ OffLock(w) \/ OffAlready(w)
           \/ OffEnd(w) \/ HwopLock(w) \/ HwopCheck(w) \/ HwopAccess(w) \/ ThermCheck(w)
           \/ ThermLock(w) \/ DumpCheck(w) \/ DumpAccess(w)
  <2>1. UNCHANGED <<drvOn, hwOn, granted>>
    BY <1>4 DEF OnLock, OnAlready, OnInfra, OffRead, OffLock, OffAlready, OffEnd, HwopLock, HwopCheck,
       HwopAccess, ThermCheck, ThermLock, DumpCheck, DumpAccess, powerVars, elsewhere
  <2> QED  BY <2>1, ManagerIdle
<1> QED  BY <1>2, <1>3, <1>4 DEF Operate, TakeLock

(* Nobody else switches anything.                                          *)
LEMMA ManagerStep ==
  ASSUME PowerInv, [Next]_vars
  PROVE  [Manager!Next]_<<On, hwOn, granted>>
<1>1. ~CbStep
  BY DEF PowerInv, NoReset, CbStep, CbNothingOn, CbTake, CbPre, CbReset, CbReturn, CbRepower,
     CbPostCb, CbPost, CbDone, At
<1>2. ASSUME \/ CoreTake
             \/ \E d \in Drivers : SubStep(d)
             \/ \E c \in Clients : Call(c) \/ ReadLock(c) \/ ReadKilled(c) \/ ClientStep(c)
             \/ UNCHANGED vars
      PROVE  [Manager!Next]_<<On, hwOn, granted>>
  <2>1. UNCHANGED <<drvOn, hwOn, granted>>
    BY <1>2 DEF CoreTake, SubStep, SubCallback, SubSignal, Call, ReadLock, ReadKilled, ClientStep,
       CheckRst, Send, LockRst, PostRst, CheckReset, ReadCheck, ReadAccess, CheckDump,
       ResetPowerState, others, powerVars, vars
  <2> QED  BY <2>1, ManagerIdle
<1> QED  BY <1>1, <1>2, ManagerOperate, ManagerTell DEF Next, CoreStep

(* To the drivers, ConninfraCore without resets is a power manager, also at *)
(* the moments inside core_lock, at which others look at drv_status: the    *)
(* chip is never cut under a driver and no driver is marked on before it is *)
(* served; each caller is told what is the case before the next change.     *)
THEOREM PowerIsManaged == ASSUME "rst" \notin Calls PROVE Spec => ImplementsManager
<1>1. Init => Manager!Init
  <2>1. Init => On = {}
    BY DEF Init, On
  <2> QED  BY <2>1 DEF Init, Manager!Init
<1>2. PowerInv /\ [Next]_vars => [Manager!Next]_<<On, hwOn, granted>>
  BY ManagerStep
<1> QED  BY <1>1, <1>2, PowerInvariant, PTL DEF Spec, ImplementsManager, Manager!Spec

-----------------------------------------------------------------------------
(* With resets: power and accesses, if no call is one that relies on what  *)
(* it saw before it had core_lock. Both threads may then switch power, and  *)
(* what a thread knows it knows because it holds the lock.                 *)

OffPcs == {"offRead", "offLock", "offMark", "offHw", "offEnd"}
LockPcs == HeldPcs \cup {"forceCheck", "forceLoop", "forceHw", "forceEnd"}
CbRuns == ForcePcs \cup {"idle", "onLock", "onHw", "onInfra", "onDrv", "ret"}
SettlingPcs == {"onInfra", "onDrv", "forceLoop", "forceHw", "forceEnd"}

(* Only what is called is queued and run, and no driver powers off.        *)
CalledInv ==
  /\ \A c \in Clients : cpc[c] \in {"check", "send"} => ccall[c] \in Calls
  /\ \A i \in 1..Len(msgQ) : msgQ[i].call \in Calls
  /\ wpc["core"] \in {"thermCheck", "thermLock"} => "therm" \in Calls
  /\ wpc["core"] \in {"dumpCheck", "dump"} => "dump" \in Calls
  /\ wpc["core"] \notin OffPcs \cup ForcePcs
  /\ wpc["cb"] \in CbRuns

(* core_lock excludes.                                                     *)
MutexInv ==
  /\ coreLock \in Workers \cup Clients \cup {"free"}
  /\ \A w \in Workers : coreLock = w <=> wpc[w] \in LockPcs
  /\ \A c \in Clients : coreLock = c <=> cpc[c] \in {"locked", "access"}

(* From the moment a reset is taken up conninfra is on until it is forced  *)
(* off, so the forced power-off always has something to do.                *)
ForcedInv ==
  /\ cbPc = "pre" => infraOn
  /\ wpc["cb"] \in ForcePcs => infraOn /\ cbPc = "force"
  /\ wpc["cb"] \in {"forceLock", "forceCheck"} => idx["cb"] = 0

(* How far status and hardware are apart, by the place of the one thread   *)
(* that is between two of its writes.                                      *)
Exact == (infraOn <=> hwOn) /\ (hwOn <=> On # {})

Apart(w) ==
  /\ wpc[w] = "onInfra" => hwOn /\ (infraOn <=> On # {})
  /\ wpc[w] = "onDrv" => hwOn /\ infraOn
  /\ wpc[w] = "forceLoop" => hwOn /\ \A d \in On : idx[w] <= d
  /\ wpc[w] = "forceHw" => On = {}
  /\ wpc[w] = "forceEnd" => ~hwOn /\ On = {}
  /\ wpc[w] = "access" /\ "therm" \notin Calls => infraOn

SharedInv ==
  /\ \A d \in Drivers : vcn[d] <=> drvOn[d]
  /\ (\A w \in Workers : wpc[w] \notin SettlingPcs) => Exact
  /\ \A w \in Workers : Apart(w)
  /\ \A c \in Clients : cpc[c] = "access" => infraOn

SwitchInv == CalledInv /\ MutexInv /\ ForcedInv /\ SharedInv
RestartInv == ResetInv /\ SwitchInv

(* It holds when all threads are idle.                                     *)
LEMMA RestartInit == Init => RestartInv
<1> SUFFICES ASSUME Init PROVE RestartInv
  OBVIOUS
<1>1. ResetInv /\ On = {}
  BY ResetInit DEF Init, On
<1>2. CalledInv /\ MutexInv /\ ForcedInv
  BY CoreConstants DEF Init, CalledInv, MutexInv, ForcedInv, OffPcs, ForcePcs, LockPcs, HeldPcs, CbRuns, Workers
<1>3. SharedInv
  BY <1>1, CoreConstants DEF Init, SharedInv, Exact, Apart, Workers
<1> QED  BY <1>1, <1>2, <1>3 DEF RestartInv, SwitchInv

(* What an operation does with core_lock, and where it goes.                *)
Locks(w) ==
  \/ wpc[w] \notin LockPcs /\ wpc'[w] \notin LockPcs /\ UNCHANGED coreLock
  \/ wpc[w] \in LockPcs /\ wpc'[w] \in LockPcs /\ UNCHANGED coreLock
  \/ wpc[w] \notin LockPcs /\ wpc'[w] \in LockPcs /\ coreLock = "free" /\ coreLock' = w
  \/ wpc[w] \in LockPcs /\ wpc'[w] \notin LockPcs /\ coreLock' = "free"

Goes(w) ==
  /\ wpc'[w] \notin OffPcs
  /\ wpc[w] \in CbRuns => wpc'[w] \in CbRuns
  /\ wpc'[w] \in ForcePcs => wpc[w] \in ForcePcs
  /\ wpc'[w] \in {"forceLock", "forceCheck"} => wpc[w] = "forceLock" /\ idx' = idx
  /\ wpc'[w] \in {"thermCheck", "thermLock"} => wpc[w] = "thermCheck"
  /\ wpc'[w] \in {"dumpCheck", "dump"} => wpc[w] = "dumpCheck"
  /\ infraOn => infraOn' \/ (wpc[w] = "forceEnd" /\ wpc'[w] = "ret")
  /\ \A v \in Workers : v # w => idx'[v] = idx[v]

(* The steps that take part if no driver powers off.                       *)
Switches(w) ==
  \/ OnHw(w) \/ OnHwFails(w) \/ OnInfra(w) \/ OnDrv(w) \/ ForceCheck(w) \/ ForceLoop(w)
  \/ ForceHw(w) \/ ForceEnd(w)
Looks(w) ==
  \/ OnLock(w) \/ OnAlready(w) \/ ForceLock(w) \/ HwopLock(w) \/ HwopCheck(w) \/ HwopAccess(w)
  \/ ThermCheck(w) \/ ThermLock(w) \/ DumpCheck(w) \/ DumpAccess(w)

LEMMA NoPowerOff ==
  ASSUME RestartInv, NEW w \in Workers, Operate(w) \/ TakeLock(w)
  PROVE  Switches(w) \/ Looks(w)
<1>1. wpc[w] \notin OffPcs /\ (wpc[w] = "forceCheck" => infraOn)
  BY DEF RestartInv, SwitchInv, CalledInv, ForcedInv, Workers, OffPcs, ForcePcs, CbRuns
<1> QED
  BY <1>1 DEF Operate, TakeLock, Switches, Looks, OffPcs, At, OffRead, OffLock, OffAlready, OffMark,
     OffHw, OffEnd, ForceAlready

LEMMA OperateLocks ==
  ASSUME WorkTypes, NEW w \in Workers, Switches(w) \/ Looks(w)
  PROVE  Locks(w) /\ Goes(w)
<1> USE DEF Locks, Goes, CbRuns, LockPcs, HeldPcs, ForcePcs, OffPcs, At, Goto, Return, ReturnLocked,
        Unlock, LockThen, locals, powerVars, WorkTypes
<1>1. CASE OnHw(w)
  BY <1>1 DEF OnHw
<1>2. CASE OnHwFails(w)
  BY <1>2 DEF OnHwFails
<1>3. CASE OnInfra(w)
  BY <1>3 DEF OnInfra
<1>4. CASE OnDrv(w)
  BY <1>4 DEF OnDrv
<1>5. CASE ForceCheck(w)
  BY <1>5 DEF ForceCheck
<1>6. CASE ForceLoop(w)
  BY <1>6 DEF ForceLoop
<1>7. CASE ForceHw(w)
  BY <1>7 DEF ForceHw
<1>8. CASE ForceEnd(w)
  BY <1>8 DEF ForceEnd
<1>9. CASE OnLock(w)
  BY <1>9 DEF OnLock
<1>10. CASE OnAlready(w)
  BY <1>10 DEF OnAlready
<1>11. CASE ForceLock(w)
  BY <1>11 DEF ForceLock
<1>12. CASE HwopLock(w)
  BY <1>12 DEF HwopLock
<1>13. CASE HwopCheck(w)
  BY <1>13 DEF HwopCheck
<1>14. CASE HwopAccess(w)
  BY <1>14 DEF HwopAccess
<1>15. CASE ThermCheck(w)
  BY <1>15 DEF ThermCheck
<1>16. CASE ThermLock(w)
  BY <1>16 DEF ThermLock
<1>17. CASE DumpCheck(w)
  BY <1>17 DEF DumpCheck
<1>18. CASE DumpAccess(w)
  BY <1>18 DEF DumpAccess
<1> QED
  BY <1>1, <1>2, <1>3, <1>4, <1>5, <1>6, <1>7, <1>8, <1>9, <1>10,
     <1>11, <1>12, <1>13, <1>14, <1>15, <1>16, <1>17, <1>18
  DEF Switches, Looks

(* While one thread is at a place where it holds the lock no other is.     *)
LEMMA OthersWait ==
  ASSUME MutexInv, NEW w \in Workers, wpc[w] \in LockPcs \/ coreLock = "free"
  PROVE  /\ \A v \in Workers : v # w => wpc[v] \notin LockPcs
         /\ \A c \in Clients : cpc[c] \notin {"locked", "access"}
BY CoreConstants DEF MutexInv, Workers

(* The steps of one thread keep what the other relies on.                  *)
LEMMA OperateMutex ==
  ASSUME RestartInv, NEW w \in Workers, Operate(w) \/ TakeLock(w)
  PROVE  CalledInv' /\ MutexInv' /\ ForcedInv'
<1>1. /\ Locks(w) /\ Goes(w)
      /\ UNCHANGED elsewhere
      /\ \A v \in Workers : v # w => wpc'[v] = wpc[v]
  BY NoPowerOff, OperateLocks, OperateInside DEF RestartInv, ResetInv, Inside
<1>2. UNCHANGED <<cpc, ccall, msgQ, cbPc>>
  BY <1>1 DEF elsewhere, clientVars, cbVars
<1>3. CalledInv /\ MutexInv /\ ForcedInv
  BY DEF RestartInv, SwitchInv
<1>4. CalledInv'
  BY <1>1, <1>2, <1>3 DEF CalledInv, Goes, Workers
<1>5. MutexInv'
  <2>1. w \notin Clients /\ w # "free"
    BY CoreConstants DEF Workers
  <2>2. w \in Workers /\ \A v \in Workers : v \notin Clients /\ v # "free"
    BY CoreConstants DEF Workers
  <2>3. CASE UNCHANGED coreLock /\ (wpc[w] \in LockPcs <=> wpc'[w] \in LockPcs)
    BY <1>1, <1>2, <1>3, <2>3 DEF MutexInv
  <2>4. CASE coreLock = "free" /\ coreLock' = w /\ wpc'[w] \in LockPcs
    <3>1. /\ \A v \in Workers : v # w => wpc'[v] \notin LockPcs
          /\ \A c \in Clients : cpc'[c] \notin {"locked", "access"} /\ c # w
      BY <1>1, <1>2, <1>3, <2>1, <2>4, OthersWait
    <3> QED  BY <2>2, <2>4, <3>1 DEF MutexInv
  <2>5. CASE wpc[w] \in LockPcs /\ wpc'[w] \notin LockPcs /\ coreLock' = "free"
    BY <1>1, <1>2, <1>3, <2>1, <2>2, <2>5, CoreConstants DEF MutexInv
  <2> QED  BY <1>1, <2>3, <2>4, <2>5 DEF Locks
<1>6. ForcedInv'
  <2>1. CASE w = "cb"
    BY <1>1, <1>2, <1>3, <2>1 DEF ForcedInv, Goes, ForcePcs
  <2>2. CASE w = "core"
    <3>1. infraOn => infraOn'
      BY <1>1, <1>3, <2>2 DEF CalledInv, Goes, ForcePcs
    <3>2. wpc'["cb"] = wpc["cb"] /\ idx'["cb"] = idx["cb"]
      BY <1>1, <2>2 DEF Goes, Workers
    <3> QED  BY <1>2, <1>3, <3>1, <3>2 DEF ForcedInv
  <2> QED  BY <2>1, <2>2 DEF Workers
<1> QED  BY <1>4, <1>5, <1>6

(* Power is switched by the thread that has the lock: what that thread     *)
(* knows of it is all there is to know.                                    *)
LEMMA SharedAlone ==
  ASSUME RestartInv, NEW w \in Workers, Switches(w),
         (\A d \in Drivers : vcn[d] <=> drvOn[d])',
         wpc'[w] \notin SettlingPcs => Exact', Apart(w)'
  PROVE  SharedInv'
<1>1. WorkTypes /\ MutexInv
  BY DEF RestartInv, ResetInv, SwitchInv
<1>2. wpc[w] \in LockPcs /\ UNCHANGED cpc /\ \A v \in Workers : v # w => wpc'[v] = wpc[v]
  BY <1>1 DEF Switches, WorkTypes, OnHw, OnHwFails, OnInfra, OnDrv, ForceCheck, ForceLoop, ForceHw,
     ForceEnd, Return, ReturnLocked, Goto, At, LockPcs, HeldPcs, elsewhere, clientVars
<1>3. /\ \A v \in Workers : v # w => wpc'[v] \notin LockPcs
      /\ \A c \in Clients : cpc'[c] # "access"
  BY <1>1, <1>2, OthersWait
<1>4. \A v \in Workers : v # w => Apart(v)'
  BY <1>3 DEF Apart, LockPcs, HeldPcs
<1>5. (\A v \in Workers : wpc[v] \notin SettlingPcs)' => Exact'
  OBVIOUS
<1> QED  BY <1>3, <1>4, <1>5 DEF SharedInv

(* Each write under the lock, in turn.                                     *)
LEMMA SwitchesShared ==
  ASSUME RestartInv, NEW w \in Workers, Switches(w)
  PROVE  SharedInv'
<1> USE CoreConstants DEF PowerTypes, WorkTypes, At, Goto, Return, ReturnLocked, locals
<1>1. /\ PowerTypes /\ WorkTypes /\ SharedInv /\ Apart(w) /\ wdrv[w] \in Drivers
      /\ \A d \in Drivers : vcn[d] <=> drvOn[d]
  BY DEF RestartInv, ResetInv, SwitchInv, SharedInv
<1>2. wpc[w] \in LockPcs
  BY <1>1 DEF Switches, OnHw, OnHwFails, OnInfra, OnDrv, ForceCheck, ForceLoop, ForceHw, ForceEnd,
     LockPcs, HeldPcs
<1>3. wpc[w] \notin SettlingPcs => Exact
  <2>1. \A v \in Workers : v # w => wpc[v] \notin LockPcs
    BY <1>2, OthersWait DEF RestartInv, SwitchInv
  <2>2. \A v \in Workers : v # w => wpc[v] \notin SettlingPcs
    BY <2>1 DEF SettlingPcs, LockPcs, HeldPcs
  <2> QED  BY <1>1, <2>2 DEF SharedInv
<1>4. On \subseteq Drivers
  BY DEF On
<1>5. CASE OnHw(w)
  <2>1. On' = On /\ Exact /\ UNCHANGED <<vcn, drvOn, infraOn>> /\ wpc'[w] = "onInfra"
        /\ hwOn' = (hwOn \/ On = {})
    BY <1>1, <1>3, <1>5 DEF OnHw, On, SettlingPcs
  <2>2. hwOn' /\ (infraOn <=> On # {})
    BY <1>1, <2>1 DEF Exact
  <2> QED  BY <1>1, <1>5, <2>1, <2>2, SharedAlone DEF Switches, Apart, SettlingPcs
<1>6. CASE OnHwFails(w)
  <2>1. On' = On /\ Exact /\ UNCHANGED <<vcn, drvOn, infraOn>> /\ wpc'[w] = "ret"
        /\ hwOn' \in IF On = {} THEN {hwOn, FALSE} ELSE {hwOn}
    BY <1>1, <1>3, <1>6 DEF OnHwFails, On, SettlingPcs
  <2>2. Exact'
    BY <1>1, <2>1 DEF Exact
  <2> QED  BY <1>1, <1>6, <2>1, <2>2, SharedAlone DEF Switches, Apart
<1>7. CASE OnInfra(w)
  <2>1. /\ UNCHANGED <<vcn, drvOn, hwOn>> /\ wpc'[w] = "onDrv" /\ infraOn' = TRUE /\ hwOn
    BY <1>1, <1>7 DEF OnInfra, Apart
  <2> QED  BY <1>1, <1>7, <2>1, SharedAlone DEF Switches, Apart, SettlingPcs
<1>8. CASE OnDrv(w)
  <2>1. /\ drvOn' = [drvOn EXCEPT ![wdrv[w]] = TRUE] /\ vcn' = [vcn EXCEPT ![wdrv[w]] = TRUE]
        /\ UNCHANGED <<infraOn, hwOn>> /\ wpc'[w] = "ret" /\ hwOn /\ infraOn
    BY <1>1, <1>8 DEF OnDrv, Apart
  <2>2. wdrv[w] \in On'
    BY <1>1, <2>1 DEF On
  <2>3. (\A d \in Drivers : vcn[d] <=> drvOn[d])'
    BY <1>1, <2>1
  <2> QED  BY <1>1, <1>8, <2>1, <2>2, <2>3, SharedAlone DEF Switches, Apart, Exact
<1>9. CASE ForceCheck(w)
  <2>1. /\ On' = On /\ Exact /\ UNCHANGED <<vcn, drvOn, infraOn, hwOn, idx>>
        /\ wpc[w] = "forceCheck" /\ wpc'[w] = "forceLoop" /\ infraOn
    BY <1>1, <1>3, <1>9 DEF ForceCheck, On, SettlingPcs
  <2>2. idx[w] = 0
    BY <2>1 DEF RestartInv, SwitchInv, ForcedInv, CalledInv, Workers, ForcePcs
  <2>3. hwOn /\ \A d \in On : 0 <= d
    BY <1>1, <1>4, <2>1 DEF Exact, Drivers
  <2> QED  BY <1>1, <1>9, <2>1, <2>2, <2>3, SharedAlone DEF Switches, Apart, SettlingPcs
<1>10. CASE ForceLoop(w)
  <2>1. /\ drvOn' = [drvOn EXCEPT ![idx[w]] = FALSE]
        /\ vcn' = [vcn EXCEPT ![idx[w]] = @ /\ ~drvOn[idx[w]]]
        /\ idx'[w] = idx[w] + 1 /\ UNCHANGED <<infraOn, hwOn>>
        /\ wpc'[w] = IF idx[w] + 1 = NumDrivers THEN "forceHw" ELSE "forceLoop"
        /\ hwOn /\ \A d \in On : idx[w] <= d
        /\ idx[w] \in Drivers
    BY <1>1, <1>10 DEF ForceLoop, Apart
  <2>2. On' = On \ {idx[w]}
    BY <1>1, <2>1 DEF On
  <2>3. \A d \in On' : idx[w] + 1 <= d
    BY <1>4, <2>1, <2>2 DEF Drivers
  <2>4. (\A d \in Drivers : vcn[d] <=> drvOn[d])'
    BY <1>1, <2>1
  <2>5. wpc'[w] = "forceHw" => On' = {}
    <3> SUFFICES ASSUME NEW d \in On', wpc'[w] = "forceHw" PROVE FALSE
      OBVIOUS
    <3>1. d \in Drivers /\ idx[w] + 1 <= d /\ idx[w] + 1 = NumDrivers
      BY <1>4, <2>1, <2>2, <2>3
    <3> QED  BY <3>1 DEF Drivers
  <2> QED  BY <1>1, <1>10, <2>1, <2>3, <2>4, <2>5, SharedAlone DEF Switches, Apart, SettlingPcs
<1>11. CASE ForceHw(w)
  <2>1. On' = On /\ UNCHANGED <<vcn, drvOn>> /\ hwOn' = FALSE /\ wpc'[w] = "forceEnd" /\ On = {}
    BY <1>1, <1>11 DEF ForceHw, Apart, On
  <2> QED  BY <1>1, <1>11, <2>1, SharedAlone DEF Switches, Apart, SettlingPcs
<1>12. CASE ForceEnd(w)
  <2>1. /\ On' = On /\ UNCHANGED <<vcn, drvOn, hwOn>> /\ infraOn' = FALSE /\ wpc'[w] = "ret"
        /\ On = {} /\ ~hwOn
    BY <1>1, <1>12 DEF ForceEnd, Apart, On
  <2> QED  BY <1>1, <1>12, <2>1, SharedAlone DEF Switches, Apart, Exact
<1> QED
  BY <1>5, <1>6, <1>7, <1>8, <1>9, <1>10, <1>11, <1>12 DEF Switches

(* A step that leaves power alone.                                         *)
LEMMA SharedFrame ==
  ASSUME SharedInv, UNCHANGED powerVars,
         \A w \in Workers : \/ wpc'[w] = wpc[w] /\ idx'[w] = idx[w]
                            \/ wpc[w] \notin SettlingPcs /\ wpc'[w] \notin SettlingPcs
                               /\ (wpc'[w] = "access" => infraOn \/ "therm" \in Calls),
         \A c \in Clients : cpc'[c] = "access" => cpc[c] = "access" \/ infraOn
  PROVE  SharedInv'
<1>1. UNCHANGED <<drvOn, vcn, infraOn, hwOn, On>>
  BY DEF powerVars, On
<1>2. \A w \in Workers : Apart(w)'
  <2>1. ASSUME NEW w \in Workers PROVE Apart(w)'
    BY <1>1 DEF SharedInv, Apart, SettlingPcs
  <2> QED  BY <2>1
<1>3. (\A w \in Workers : wpc[w] \notin SettlingPcs)' => Exact'
  BY <1>1 DEF SharedInv, Exact
<1>4. \A c \in Clients : cpc'[c] = "access" => infraOn'
  BY <1>1 DEF SharedInv
<1> QED  BY <1>1, <1>2, <1>3, <1>4 DEF SharedInv

(* What looks at power, or takes the lock, changes neither.                *)
LEMMA LooksShared ==
  ASSUME RestartInv, NEW w \in Workers, Looks(w)
  PROVE  SharedInv'
<1>1. WorkTypes /\ SharedInv
  BY DEF RestartInv, ResetInv, SwitchInv
<1>2. UNCHANGED <<powerVars, idx, cpc>>
  BY DEF Looks, OnLock, OnAlready, ForceLock, HwopLock, HwopCheck, HwopAccess, ThermCheck, ThermLock,
     DumpCheck, DumpAccess, Return, ReturnLocked, locals, elsewhere, clientVars
<1>3. /\ wpc[w] \notin SettlingPcs /\ wpc'[w] \notin SettlingPcs
      /\ \A v \in Workers : v # w => wpc'[v] = wpc[v]
      /\ wpc'[w] = "access" => infraOn \/ wpc[w] = "thermLock"
  BY <1>1 DEF WorkTypes, SettlingPcs, Looks, OnLock, OnAlready, ForceLock, HwopLock, HwopCheck,
     HwopAccess, ThermCheck, ThermLock, DumpCheck, DumpAccess, Return, ReturnLocked, LockThen,
     Goto, At
<1>4. wpc[w] = "thermLock" => "therm" \in Calls
  BY DEF RestartInv, SwitchInv, CalledInv, Workers, CbRuns, ForcePcs
<1> QED  BY <1>1, <1>2, <1>3, <1>4, SharedFrame

(* So the invariant survives every step of an operation.                   *)
LEMMA OperateRestart ==
  ASSUME RestartInv, NEW w \in Workers, Operate(w) \/ TakeLock(w)
  PROVE  SwitchInv'
BY NoPowerOff, OperateMutex, SwitchesShared, LooksShared DEF SwitchInv

(* The core thread takes an op that somebody called for.                   *)
LEMMA CoreTakeRestart ==
  ASSUME RestartInv, "off" \notin Calls, CoreTake
  PROVE  SwitchInv'
<1> DEFINE o == Head(msgQ)
<1>1. /\ wpc["core"] = "idle" /\ Enter("core", CoreEntry[o.call], o.drv)
      /\ UNCHANGED <<powerVars, coreLock, cbVars, clientVars>>
  BY DEF CoreTake, At
<1>2. /\ o = msgQ[1] /\ o \in Request /\ 1 \in 1..Len(msgQ)
      /\ \A i \in 1..Len(msgQ') : msgQ'[i] = msgQ[i + 1] /\ i + 1 \in 1..Len(msgQ)
  BY Taken DEF RestartInv, ResetInv, CallTypes, CoreTake
<1>3. o.call \in CoreCalls /\ o.call \in Calls
  BY <1>2 DEF RestartInv, SwitchInv, CalledInv, Request
<1>4. /\ wpc'["core"] = CoreEntry[o.call]
      /\ wpc'["cb"] = wpc["cb"] /\ idx'["cb"] = idx["cb"]
  BY <1>1 DEF Enter, Goto, RestartInv, ResetInv, WorkTypes, Workers
<1>5. /\ wpc'["core"] \in {"onLock", "hwopLock", "thermCheck", "dumpCheck"}
      /\ wpc'["core"] = "thermCheck" => "therm" \in Calls
      /\ wpc'["core"] = "dumpCheck" => "dump" \in Calls
  BY <1>3, <1>4 DEF CoreCalls, CoreEntry
<1>6. CalledInv /\ MutexInv /\ ForcedInv /\ SharedInv
  BY DEF RestartInv, SwitchInv
<1>7. CalledInv'
  <2>1. \A i \in 1..Len(msgQ') : msgQ'[i].call \in Calls
    BY <1>2, <1>6 DEF CalledInv
  <2> QED  BY <1>1, <1>4, <1>5, <1>6, <2>1 DEF CalledInv, clientVars, OffPcs, ForcePcs
<1>8. MutexInv'
  BY <1>1, <1>4, <1>5, <1>6 DEF MutexInv, LockPcs, HeldPcs, Workers, clientVars
<1>9. ForcedInv'
  BY <1>1, <1>4, <1>6 DEF ForcedInv, cbVars, powerVars
<1>10. SharedInv'
  BY <1>1, <1>4, <1>5, <1>6, SharedFrame DEF SettlingPcs, Workers, clientVars
<1> QED  BY <1>7, <1>8, <1>9, <1>10 DEF SwitchInv

(* And answers.                                                            *)
LEMMA CoreReplyRestart ==
  ASSUME RestartInv, CoreReply
  PROVE  SwitchInv'
<1>1. /\ wpc["core"] = "ret" /\ cpc' = [cpc EXCEPT ![coreOp.from] = "idle"]
      /\ Enter("core", "idle", 0)
      /\ UNCHANGED <<powerVars, coreLock, msgQ, cbVars, ccall>>
  BY DEF CoreReply, At
<1>2. cpc[coreOp.from] = "wait" /\ coreOp.from \in Clients
  BY <1>1 DEF RestartInv, ResetInv, QueueInv, Request
<1>3. wpc'["core"] = "idle" /\ wpc'["cb"] = wpc["cb"] /\ idx'["cb"] = idx["cb"]
  BY <1>1 DEF Enter, Goto, RestartInv, ResetInv, WorkTypes, Workers
<1>4. \A c \in Clients : \/ cpc'[c] = cpc[c]
                         \/ cpc[c] = "wait" /\ cpc'[c] = "idle"
  BY <1>1, <1>2 DEF RestartInv, ResetInv, CallTypes
<1>5. CalledInv /\ MutexInv /\ ForcedInv /\ SharedInv
  BY DEF RestartInv, SwitchInv
<1>6. CalledInv'
  BY <1>1, <1>3, <1>4, <1>5 DEF CalledInv, OffPcs, ForcePcs
<1>7. MutexInv'
  BY <1>1, <1>3, <1>4, <1>5 DEF MutexInv, LockPcs, HeldPcs, Workers
<1>8. ForcedInv'
  BY <1>1, <1>3, <1>5 DEF ForcedInv, cbVars, powerVars
<1>9. SharedInv'
  BY <1>1, <1>3, <1>4, <1>5, SharedFrame DEF SettlingPcs, Workers
<1> QED  BY <1>6, <1>7, <1>8, <1>9 DEF SwitchInv

(* The cb thread enters operations without the lock, and the forced        *)
(* power-off only in a reset that found conninfra on.                      *)
LEMMA CbStepRestart ==
  ASSUME RestartInv, CbStep
  PROVE  SwitchInv'
<1>1. UNCHANGED <<powerVars, coreLock, msgQ, clientVars>> /\ wpc'["core"] = wpc["core"]
  BY CbPhase DEF RestartInv, CbStep, CbNothingOn, CbTake, CbPre, CbReset, CbReturn, CbRepower,
     CbPostCb, CbPost, CbDone
<1>2. CalledInv /\ MutexInv /\ ForcedInv /\ SharedInv /\ WorkTypes /\ CbTypes
  BY DEF RestartInv, SwitchInv, ResetInv
<1>3. /\ idx'["core"] = idx["core"]
      /\ \/ wpc'["cb"] = wpc["cb"] /\ idx'["cb"] = idx["cb"] /\ wpc["cb"] \notin ForcePcs
         \/ /\ wpc["cb"] \in {"idle", "ret"}
            /\ wpc'["cb"] \in {"idle", "onLock", "forceLock"}
            /\ wpc'["cb"] = "forceLock" => infraOn /\ cbPc' = "force" /\ idx'["cb"] = 0
      /\ cbPc' = "pre" => infraOn
  <2> USE <1>2 DEF WorkTypes, Workers, Enter, Goto, At, workVars, CbGoto, cbVars, ForcedInv
  <2>1. CASE CbReset
    <3>1. cbPc = "pre" /\ wpc["cb"] = "idle"
      BY <2>1 DEF CbReset, CbTypes
    <3> QED  BY <2>1, <3>1 DEF CbReset
  <2>2. CASE CbReturn
    BY <2>2 DEF CbReturn
  <2>3. CASE CbRepower
    BY <2>3 DEF CbRepower, ForcePcs
  <2>4. CASE CbNothingOn \/ CbTake \/ CbPre \/ CbPostCb \/ CbPost \/ CbDone
    <3>1. wpc' = wpc /\ idx' = idx
      BY <2>4 DEF CbNothingOn, CbTake, CbPre, CbPostCb, CbPost, CbDone
    <3>2. cbPc # "force"
      BY <2>4 DEF CbNothingOn, CbTake, CbPre, CbPostCb, CbPost, CbDone
    <3>3. cbPc' = "pre" => infraOn
      BY <2>4 DEF CbNothingOn, CbTake, CbPre, CbPostCb, CbPost, CbDone
    <3> QED  BY <3>1, <3>2, <3>3
  <2> QED  BY <2>1, <2>2, <2>3, <2>4 DEF CbStep
<1>4. CalledInv'
  BY <1>1, <1>2, <1>3 DEF CalledInv, clientVars, CbRuns, ForcePcs
<1>5. MutexInv'
  BY <1>1, <1>2, <1>3 DEF MutexInv, LockPcs, HeldPcs, Workers, clientVars
<1>6. ForcedInv'
  BY <1>1, <1>2, <1>3 DEF ForcedInv, ForcePcs, powerVars
<1>7. SharedInv'
  BY <1>1, <1>2, <1>3, SharedFrame DEF SettlingPcs, Workers, clientVars
<1> QED  BY <1>4, <1>5, <1>6, <1>7 DEF SwitchInv

(* A caller changes the lock and its own place.                            *)
LEMMA ClientRestart ==
  ASSUME RestartInv, NEW c \in Clients, Moves(c), UNCHANGED <<msgQ>>, Holds(c),
         cpc'[c] \in {"check", "send"} => ccall'[c] \in Calls
  PROVE  SwitchInv'
<1>1. /\ CalledInv /\ MutexInv /\ ForcedInv /\ SharedInv
      /\ \A b \in Clients : b # c => cpc'[b] = cpc[b] /\ ccall'[b] = ccall[b]
      /\ UNCHANGED <<powerVars, wpc, idx, cbPc>>
  BY DEF RestartInv, SwitchInv, Moves, ResetInv, CallTypes, workVars, cbVars
<1>2. CalledInv'
  BY <1>1 DEF CalledInv
<1>3. MutexInv'
  <2>1. \A w \in Workers : w # c /\ "free" # c /\ w # "free"
    BY CoreConstants DEF Workers
  <2>2. CASE coreLock = c /\ coreLock' = "free" /\ cpc'[c] \notin {"locked", "access"}
    BY <1>1, <2>1, <2>2, CoreConstants DEF MutexInv
  <2>3. CASE coreLock = "free" /\ coreLock' = c /\ cpc'[c] \in {"locked", "access"}
    BY <1>1, <2>1, <2>3, CoreConstants DEF MutexInv
  <2>4. CASE UNCHANGED coreLock /\ (cpc[c] \in {"locked", "access"} <=> cpc'[c] \in {"locked", "access"})
    BY <1>1, <2>4 DEF MutexInv
  <2> QED  BY <2>2, <2>3, <2>4 DEF Holds
<1>4. ForcedInv'
  BY <1>1 DEF ForcedInv, powerVars
<1>5. SharedInv'
  BY <1>1, SharedFrame DEF Holds
<1> QED  BY <1>2, <1>3, <1>4, <1>5 DEF SwitchInv

(* What a caller is about to send is one of the calls.                     *)
LEMMA QuietCalls ==
  ASSUME RestartInv, NEW c \in Clients, Quiet(c)
  PROVE  cpc'[c] \in {"check", "send"} => ccall'[c] \in Calls
<1>1. cpc[c] \in {"check", "send"} => ccall[c] \in Calls
  BY DEF RestartInv, SwitchInv, CalledInv
<1> USE DEF RestartInv, ResetInv, CallTypes, CGoto, CReturn, CDrop
<1>2. CASE Call(c)
  BY <1>2 DEF Call
<1>3. CASE CheckRst(c)
  BY <1>1, <1>3 DEF CheckRst
<1>4. CASE ~Call(c) /\ ~CheckRst(c)
  BY <1>4 DEF Quiet, CheckReset, ReadLock, ReadKilled, ReadCheck, ReadAccess, CheckDump, ResetPowerState
<1> QED  BY <1>2, <1>3, <1>4

(* Asking for a reset touches neither power nor lock.                      *)
LEMMA AskRestart ==
  ASSUME RestartInv, NEW c \in Clients, LockRst(c) \/ PostRst(c)
  PROVE  SwitchInv'
<1>1. UNCHANGED msgQ /\ Moves(c)
  BY CoreConstants DEF RestartInv, ResetInv, CallTypes, LockRst, PostRst, Moves, ClientPcs, others,
     CGoto, CReturn, CDrop, rstVars
<1>2. cpc'[c] \notin {"check", "send"} /\ Holds(c)
  BY DEF RestartInv, ResetInv, CallTypes, LockRst, PostRst, CGoto, CReturn, CDrop, Holds
<1> QED  BY <1>1, <1>2, ClientRestart

(* Nor does queueing an op, a driver's thread, or a step of nobody.        *)
LEMMA SendRestart ==
  ASSUME RestartInv, NEW c \in Clients, Send(c)
  PROVE  SwitchInv'
<1> DEFINE o == [call |-> ccall[c], drv |-> cdrv[c], from |-> c]
<1>1. /\ cpc[c] = "send" /\ msgQ' = Append(msgQ, o) /\ cpc' = [cpc EXCEPT ![c] = "wait"]
      /\ ccall' = [ccall EXCEPT ![c] = "none"]
      /\ UNCHANGED <<powerVars, coreLock, workVars, cbVars>>
  BY DEF Send, CDrop
<1>2. /\ CalledInv /\ MutexInv /\ ForcedInv /\ SharedInv
      /\ cpc'[c] = "wait"
      /\ \A b \in Clients : b # c => cpc'[b] = cpc[b] /\ ccall'[b] = ccall[b]
  BY <1>1 DEF RestartInv, SwitchInv, ResetInv, CallTypes
<1>3. ccall[c] \in Calls /\ msgQ \in Seq(Request)
  BY <1>1, <1>2 DEF CalledInv, RestartInv, ResetInv, CallTypes
<1>4. \A i \in 1..Len(msgQ') : msgQ'[i].call \in Calls
  <2>1. \A i \in 1..Len(msgQ') : \/ i \in 1..Len(msgQ) /\ msgQ'[i] = msgQ[i]
                                 \/ msgQ'[i] = o
    BY <1>1, <1>3, AppendProperties
  <2> QED  BY <1>2, <1>3, <2>1 DEF CalledInv
<1>5. CalledInv'
  BY <1>1, <1>2, <1>4 DEF CalledInv, workVars
<1>6. MutexInv'
  BY <1>1, <1>2 DEF MutexInv, workVars
<1>7. ForcedInv'
  BY <1>1, <1>2 DEF ForcedInv, cbVars, workVars, powerVars
<1>8. SharedInv'
  BY <1>1, <1>2, SharedFrame DEF workVars
<1> QED  BY <1>5, <1>6, <1>7, <1>8 DEF SwitchInv

LEMMA SubStepRestart ==
  ASSUME RestartInv, (\E d \in Drivers : SubStep(d)) \/ UNCHANGED vars
  PROVE  SwitchInv'
<1>1. UNCHANGED <<powerVars, coreLock, msgQ, workVars, cbVars, clientVars>>
  BY DEF SubStep, SubCallback, SubSignal, vars
<1>2. SharedInv'
  BY <1>1, SharedFrame DEF RestartInv, SwitchInv, workVars, clientVars
<1>3. CalledInv' /\ MutexInv' /\ ForcedInv'
  BY <1>1 DEF RestartInv, SwitchInv, CalledInv, MutexInv, ForcedInv, powerVars, workVars, cbVars,
     clientVars
<1> QED  BY <1>2, <1>3 DEF SwitchInv

(* Every step keeps the invariant, if no call powers a driver off.         *)
LEMMA RestartNext ==
  ASSUME "off" \notin Calls, RestartInv, [Next]_vars
  PROVE  RestartInv'
<1>1. ResetInv'
  BY ResetNext DEF RestartInv
<1>2. ASSUME NEW c \in Clients, Call(c) \/ ReadLock(c) \/ ReadKilled(c) \/ ClientStep(c)
      PROVE  SwitchInv'
  <2>1. CASE Quiet(c)
    <3>1. Moves(c) /\ UNCHANGED msgQ /\ Holds(c)
      BY <2>1, QuietMoves, QuietHolds DEF RestartInv, ResetInv
    <3> QED  BY <2>1, <3>1, QuietCalls, ClientRestart
  <2> QED  BY <1>2, <2>1, SendRestart, AskRestart DEF ClientStep, Quiet
<1>3. SwitchInv'
  BY <1>2, OperateRestart, CoreTakeRestart, CoreReplyRestart, CbStepRestart, SubStepRestart
  DEF Next, CoreStep
<1> QED  BY <1>1, <1>3 DEF RestartInv

(* The inductive invariant of power across resets.                         *)
THEOREM RestartInvariant == ASSUME "off" \notin Calls PROVE Spec => []RestartInv
<1>1. RestartInv /\ [Next]_vars => RestartInv'
  BY RestartNext
<1> QED  BY <1>1, RestartInit, PTL DEF Spec

(* A reset that cuts the chip and powers it again, with power-ons of the   *)
(* core thread in between, leaves status and hardware in agreement.        *)
THEOREM PowerExactAcrossResets == ASSUME "off" \notin Calls PROVE Spec => []PowerExact
<1>1. RestartInv => PowerExact
  <2> SUFFICES ASSUME RestartInv, coreLock = "free"
               PROVE  /\ infraOn = hwOn
                      /\ hwOn <=> On # {}
                      /\ \A d \in Drivers : vcn[d] <=> drvOn[d]
    BY DEF PowerExact
  <2>1. \A w \in Workers : wpc[w] \notin SettlingPcs
    <3>1. \A w \in Workers : wpc[w] \notin LockPcs
      BY CoreConstants DEF RestartInv, SwitchInv, MutexInv, Workers
    <3> QED  BY <3>1 DEF LockPcs, HeldPcs, SettlingPcs
  <2>2. Exact /\ \A d \in Drivers : vcn[d] <=> drvOn[d]
    BY <2>1 DEF RestartInv, SwitchInv, SharedInv
  <2>3. infraOn \in BOOLEAN /\ hwOn \in BOOLEAN
    BY DEF RestartInv, ResetInv, PowerTypes
  <2>4. infraOn = hwOn
    BY <2>2, <2>3 DEF Exact
  <2> QED  BY <2>2, <2>4 DEF Exact
<1> QED  BY <1>1, RestartInvariant, PTL

(* Nor is a register touched while a reset has the chip off, by callers    *)
(* that look at infra_drv_status under the lock.                           *)
THEOREM AccessPoweredAcrossResets ==
  ASSUME Calls \cap {"off", "therm", "dump"} = {} PROVE Spec => []AccessPowered
<1>1. RestartInv => AccessPowered
  <2> SUFFICES ASSUME RestartInv PROVE AccessPowered
    OBVIOUS
  <2>1. CalledInv /\ MutexInv /\ SharedInv
    BY DEF RestartInv, SwitchInv
  <2>2. "therm" \notin Calls /\ "dump" \notin Calls
    OBVIOUS
  <2>3. ASSUME infraOn, \A w \in Workers : wpc[w] \notin SettlingPcs PROVE hwOn
    BY <2>1, <2>3 DEF SharedInv, Exact
  <2>4. ASSUME NEW c \in Clients, cpc[c] = "access" PROVE hwOn
    <3>1. infraOn /\ coreLock = c
      BY <2>1, <2>4 DEF SharedInv, MutexInv
    <3>2. \A w \in Workers : w # c
      BY CoreConstants DEF Workers
    <3>3. \A w \in Workers : wpc[w] \notin LockPcs
      BY <2>1, <3>1, <3>2 DEF MutexInv
    <3> QED  BY <2>3, <3>1, <3>3 DEF LockPcs, HeldPcs, SettlingPcs
  <2>5. ASSUME NEW w \in Workers, wpc[w] = "access" PROVE hwOn
    <3>1. infraOn
      BY <2>1, <2>2, <2>5 DEF SharedInv, Apart
    <3>2. \A v \in Workers : v # w => wpc[v] \notin LockPcs
      BY <2>1, <2>5, OthersWait DEF LockPcs, HeldPcs
    <3> QED  BY <2>3, <2>5, <3>1, <3>2 DEF LockPcs, HeldPcs, SettlingPcs
  <2>6. \A w \in Workers : wpc[w] # "dump"
    BY <2>1, <2>2 DEF CalledInv, Workers, CbRuns, ForcePcs
  <2> QED  BY <2>4, <2>5, <2>6 DEF AccessPowered, At
<1>2. "off" \notin Calls
  OBVIOUS
<1> QED  BY <1>1, <1>2, RestartInvariant, PTL

(* Whether drivers power off or the chip is reset, if not both: no driver is *)
(* marked on while the chip is off, at no moment and whoever looks.         *)
THEOREM DriversAreServed ==
  ASSUME "rst" \notin Calls \/ "off" \notin Calls
  PROVE  Spec => [](On # {} => hwOn)
<1>1. ASSUME "rst" \notin Calls PROVE Spec => [](On # {} => hwOn)
  <2>1. PowerInv => (On # {} => hwOn)
    BY DEF PowerInv, ChipInv
  <2>2. "rst" \notin Calls
    BY <1>1
  <2> QED  BY <2>1, <2>2, PowerInvariant, PTL
<1>2. ASSUME "off" \notin Calls PROVE Spec => [](On # {} => hwOn)
  <2>1. RestartInv => (On # {} => hwOn)
    BY DEF RestartInv, SwitchInv, SharedInv, Exact, Apart, SettlingPcs
  <2>2. "off" \notin Calls
    BY <1>2
  <2> QED  BY <2>1, <2>2, RestartInvariant, PTL
<1> QED  BY <1>1, <1>2

(* The self-lock of the forced power-off needs a driver that powers off.   *)
THEOREM LockIsReleased == ASSUME "off" \notin Calls PROVE Spec => []LockReleased
<1>1. RestartInv => LockReleased
  BY DEF RestartInv, SwitchInv, MutexInv, LockReleased, LockPcs, HeldPcs
<1> QED  BY <1>1, RestartInvariant, PTL
-----------------------------------------------------------------------------
(* The callbacks of a reset. rst_state is a sum of bits: v is the sum of   *)
(* the bits of the drivers in S if some function counts it up bit by bit.  *)

Counts(S, g) ==
  /\ g \in [Nat -> Nat] /\ g[0] = 0
  /\ \A n \in Nat : g[n + 1] = g[n] + (IF n \in S THEN Bit[n] ELSE 0)
Sums(S, v) == \E g : Counts(S, g) /\ v = g[NumDrivers]

(* Each bit is twice the one before.                                       *)
LEMMA BitSteps ==
  /\ Bit \in [Nat -> Nat] /\ Bit[0] = 1
  /\ \A n \in Nat : Bit[n + 1] = 2 * Bit[n]
BY DoublingSteps DEF Bit, Doubling

(* No driver, no bit.                                                      *)
LEMMA SumsNone == Sums({}, 0)
<1> DEFINE g == [n \in Nat |-> 0]
<1>1. Counts({}, g)
  BY DEF Counts
<1>2. g[NumDrivers] = 0
  BY CoreConstants
<1> QED  BY <1>1, <1>2 DEF Sums

(* atomic_add of the bit of a driver that has not called back before.      *)
LEMMA SumsAdd ==
  ASSUME NEW S, NEW v, Sums(S, v), NEW d \in Drivers, d \notin S
  PROVE  Sums(S \cup {d}, v + Bit[d])
<1>1. PICK g : Counts(S, g) /\ v = g[NumDrivers]
  BY DEF Sums
<1>2. d \in Nat /\ d < NumDrivers /\ NumDrivers \in Nat /\ Bit[d] \in Nat
  BY CoreConstants, BitSteps DEF Drivers
<1> DEFINE k == [n \in Nat |-> g[n] + (IF n > d THEN Bit[d] ELSE 0)]
<1>3. k \in [Nat -> Nat] /\ k[0] = 0
  BY <1>1, <1>2 DEF Counts
<1>4. ASSUME NEW n \in Nat
      PROVE  k[n + 1] = k[n] + (IF n \in S \cup {d} THEN Bit[n] ELSE 0)
  <2>1. g[n] \in Nat /\ g[n + 1] \in Nat /\ Bit[n] \in Nat
        /\ g[n + 1] = g[n] + (IF n \in S THEN Bit[n] ELSE 0)
    BY <1>1, BitSteps DEF Counts
  <2>2. /\ k[n] = g[n] + (IF n > d THEN Bit[d] ELSE 0)
        /\ k[n + 1] = g[n + 1] + (IF n + 1 > d THEN Bit[d] ELSE 0)
    OBVIOUS
  <2> HIDE DEF k
  <2>3. CASE n = d
    BY <1>2, <2>1, <2>2, <2>3
  <2>4. CASE n # d
    <3>1. n + 1 > d <=> n > d
      BY <1>2, <2>4
    <3>2. n \in S \cup {d} <=> n \in S
      BY <2>4
    <3>3. CASE n \in S
      BY <1>2, <2>1, <2>2, <3>1, <3>2, <3>3
    <3>4. CASE n \notin S
      BY <1>2, <2>1, <2>2, <3>1, <3>2, <3>4
    <3> QED  BY <3>3, <3>4
  <2> QED  BY <2>3, <2>4
<1>5. k[NumDrivers] = v + Bit[d]
  BY <1>1, <1>2
<1>6. Counts(S \cup {d}, k)
  <2> HIDE DEF k
  <2> QED  BY <1>3, <1>4 DEF Counts
<1> QED  BY <1>5, <1>6 DEF Sums

(* The sum never carries past the last bit, and is full only when every    *)
(* driver has called back.                                                 *)
LEMMA SumsAtMost ==
  ASSUME NEW S, NEW v, Sums(S, v)
  PROVE  v \in 0..AllBits /\ (v = AllBits => Drivers \subseteq S)
<1>1. PICK g : Counts(S, g) /\ v = g[NumDrivers]
  BY DEF Sums
<1> DEFINE T == {n \in Nat : /\ g[n] < Bit[n]
                             /\ g[n] = Bit[n] - 1 => \A i \in 0..(n - 1) : i \in S}
<1>2. 0 \in T
  BY <1>1, BitSteps DEF Counts
<1>3. ASSUME NEW n \in Nat, n \in T PROVE n + 1 \in T
  <2>1. /\ g[n] \in Nat /\ g[n + 1] \in Nat /\ Bit[n] \in Nat /\ Bit[n + 1] \in Nat
        /\ g[n + 1] = g[n] + (IF n \in S THEN Bit[n] ELSE 0)
        /\ Bit[n + 1] = 2 * Bit[n]
    BY <1>1, BitSteps DEF Counts
  <2>2. g[n] < Bit[n] /\ (g[n] = Bit[n] - 1 => \A i \in 0..(n - 1) : i \in S)
    BY <1>3
  <2>3. g[n + 1] < Bit[n + 1]
    BY <2>1, <2>2
  <2>4. ASSUME g[n + 1] = Bit[n + 1] - 1 PROVE g[n] = Bit[n] - 1 /\ n \in S
    BY <2>1, <2>2, <2>4
  <2> QED  BY <2>2, <2>3, <2>4
<1>4. Nat \subseteq T
  <2> HIDE DEF T
  <2> QED  BY <1>2, <1>3, Induction
<1>5. NumDrivers \in T /\ v \in Nat /\ AllBits \in Int /\ Bit[NumDrivers] \in Nat
  BY <1>1, <1>4, CoreConstants, BitSteps DEF Counts, AllBits
<1> QED  BY <1>1, <1>5 DEF AllBits, Drivers

(* What the rest of the variables can be.                                  *)
RestTypes ==
  /\ coreLock \in Workers \cup Clients \cup {"free"}
  /\ coreOp \in Request \cup {NoOp}
  /\ snap \in SUBSET Drivers
  /\ rstState \in 0..AllBits
  /\ subQ \in [Drivers -> Seq({"pre", "post"})]
  /\ spc \in [Drivers -> {"idle", "called"}] /\ told \in [Drivers -> {"pre", "post"}]

(* A driver's thread has nothing to do and the driver was told t last.     *)
Resting(d, t) == subQ[d] = <<>> /\ spc[d] = "idle" /\ told[d] = t

(* In a round of callbacks each driver in turn gets one op, named like the *)
(* phase: it is queued, taken, or still to be sent.                        *)
InRound(d) ==
  \/ d < cbIdx /\ subQ[d] = <<cbPc>> /\ spc[d] = "idle" /\ told[d] # cbPc
  \/ d < cbIdx /\ subQ[d] = <<>> /\ told[d] = cbPc
  \/ d >= cbIdx /\ Resting(d, told[d]) /\ told[d] # cbPc
Answered == {d \in Drivers : told[d] = cbPc /\ spc[d] = "idle"}

RoundInv ==
  \/ cbPc = "idle" /\ \A d \in Drivers : Resting(d, "post")
  \/ cbPc \in {"force", "repower"} /\ \A d \in Drivers : Resting(d, "pre")
  \/ cbPc \in {"pre", "post"} /\ (\A d \in Drivers : InRound(d)) /\ Sums(Answered, rstState)

CoreInv == ResetInv /\ RestTypes /\ RoundInv

(* It holds when all threads are idle.                                     *)
LEMMA CoreInit == Init => CoreInv
<1> SUFFICES ASSUME Init PROVE CoreInv
  OBVIOUS
<1>1. 0 \in 0..AllBits
  BY SumsNone, SumsAtMost
<1>2. RestTypes
  BY <1>1 DEF Init, RestTypes
<1>3. RoundInv
  BY DEF Init, RoundInv, Resting
<1> QED  BY <1>2, <1>3, ResetInit DEF CoreInv

(* Steps that leave the reset and the drivers' threads alone.              *)
LEMMA RoundFrame ==
  ASSUME RoundInv, UNCHANGED <<rstState, subVars, cbPc, cbIdx>>
  PROVE  RoundInv'
BY DEF RoundInv, Resting, InRound, Answered, subVars

(* The next driver of the loop is sent the op of the round.                *)
LEMMA RoundSends ==
  ASSUME CoreInv, cbPc \in {"pre", "post"}, cbIdx < NumDrivers,
         subQ' = [subQ EXCEPT ![cbIdx] = Append(@, cbPc)], cbIdx' = cbIdx + 1,
         UNCHANGED <<rstState, spc, told, cbPc>>
  PROVE  RoundInv' /\ subQ' \in [Drivers -> Seq({"pre", "post"})]
<1>1. cbIdx \in Drivers /\ cbIdx \in 0..NumDrivers
  BY CoreConstants DEF CoreInv, ResetInv, CbTypes
<1>2. subQ \in [Drivers -> Seq({"pre", "post"})]
  BY DEF CoreInv, RestTypes
<1>3. (\A d \in Drivers : InRound(d)) /\ Sums(Answered, rstState)
  BY DEF CoreInv, RoundInv
<1>4. ~(cbIdx < cbIdx)
  BY <1>1
<1>5. subQ[cbIdx] = <<>> /\ spc[cbIdx] = "idle" /\ told[cbIdx] # cbPc
  BY <1>1, <1>3, <1>4 DEF InRound, Resting
<1>6. Append(<<>>, cbPc) = <<cbPc>>
  OBVIOUS
<1>7. subQ'[cbIdx] = <<cbPc>> /\ \A d \in Drivers : d # cbIdx => subQ'[d] = subQ[d]
  BY <1>1, <1>2, <1>5, <1>6
<1>8. ASSUME NEW d \in Drivers PROVE InRound(d)'
  <2>1. CASE d = cbIdx
    <3>1. d < cbIdx'
      BY <1>1, <2>1
    <3> QED  BY <1>5, <1>7, <2>1, <3>1 DEF InRound
  <2>2. CASE d # cbIdx
    <3>1. d < cbIdx' <=> d < cbIdx
      BY <1>1, <2>2 DEF Drivers
    <3>2. d >= cbIdx' <=> d >= cbIdx
      BY <1>1, <2>2 DEF Drivers
    <3>3. InRound(d)
      BY <1>3
    <3>4. subQ'[d] = subQ[d] /\ spc'[d] = spc[d] /\ told'[d] = told[d] /\ cbPc' = cbPc
      BY <1>7, <2>2
    <3> QED  BY <3>1, <3>2, <3>3, <3>4 DEF InRound, Resting
  <2> QED  BY <2>1, <2>2
<1>9. Answered' = Answered
  BY DEF Answered
<1>10. RoundInv'
  BY <1>3, <1>8, <1>9 DEF RoundInv
<1> QED  BY <1>1, <1>2, <1>5, <1>6, <1>10

(* When the sum of the bits is full, all drivers have been told.           *)
LEMMA RoundOver ==
  ASSUME RoundInv, cbPc \in {"pre", "post"}, rstState = AllBits
  PROVE  \A d \in Drivers : Resting(d, cbPc)
<1>1. (\A d \in Drivers : InRound(d)) /\ Sums(Answered, rstState)
  BY DEF RoundInv
<1>2. Drivers \subseteq Answered
  BY <1>1, SumsAtMost
<1> QED  BY <1>1, <1>2 DEF Answered, InRound, Resting

(* The cb thread: rounds begin with rst_state cleared and end when it is   *)
(* full.                                                                   *)
LEMMA CbStepRound ==
  ASSUME CoreInv, CbStep
  PROVE  RestTypes' /\ RoundInv'
<1> USE DEF CoreInv
<1>1. 0 \in 0..AllBits
  BY SumsNone, SumsAtMost
<1>2. CASE CbNothingOn
  <2>1. UNCHANGED <<coreLock, coreOp, rstState, subVars, cbVars>>
    BY <1>2 DEF CbNothingOn
  <2> QED  BY <2>1, RoundFrame DEF RestTypes, subVars, cbVars
<1>3. CASE CbTake
  <2>1. /\ cbPc = "idle" /\ cbPc' = "pre" /\ cbIdx' = 0 /\ rstState' = 0 /\ snap' = {}
        /\ UNCHANGED <<coreLock, coreOp, subVars>>
    BY <1>3 DEF CbTake, CbGoto
  <2>2. \A d \in Drivers : Resting(d, "post")
    BY <2>1 DEF RoundInv
  <2>3. \A d \in Drivers : d >= 0
    BY DEF Drivers
  <2>4. \A d \in Drivers : InRound(d)'
    BY <2>1, <2>2, <2>3 DEF InRound, Resting, subVars
  <2>5. Answered' = {}
    BY <2>1, <2>2 DEF Answered, Resting, subVars
  <2>6. RoundInv'
    BY <2>1, <2>4, <2>5, SumsNone DEF RoundInv
  <2> QED  BY <1>1, <2>1, <2>6 DEF RestTypes, subVars
<1>4. CASE CbPre
  <2>1. /\ cbPc = "pre" /\ cbIdx < NumDrivers
        /\ subQ' = [subQ EXCEPT ![cbIdx] = Append(@, cbPc)] /\ cbIdx' = cbIdx + 1
        /\ snap' \in {snap, snap \cup {cbIdx}}
        /\ UNCHANGED <<coreLock, coreOp, rstState, spc, told, cbPc>>
    BY <1>4 DEF CbPre, rstVars
  <2>2. RoundInv' /\ subQ' \in [Drivers -> Seq({"pre", "post"})]
    BY <2>1, RoundSends
  <2>3. cbIdx \in Drivers
    BY <2>1, CoreConstants DEF ResetInv, CbTypes
  <2> QED  BY <2>1, <2>2, <2>3 DEF RestTypes
<1>5. CASE CbReset
  <2>1. /\ cbPc = "pre" /\ cbPc' = "force" /\ rstState = AllBits
        /\ UNCHANGED <<coreLock, coreOp, rstState, subVars, snap>>
    BY <1>5 DEF CbReset, CbGoto
  <2>2. \A d \in Drivers : Resting(d, "pre")
    BY <2>1, RoundOver
  <2>3. RoundInv'
    BY <2>1, <2>2 DEF RoundInv, Resting, subVars
  <2> QED  BY <2>1, <2>3 DEF RestTypes, subVars
<1>6. CASE CbReturn
  <2>1. /\ cbPc \in {"force", "repower"} /\ cbPc' \in {cbPc, "repower"}
        /\ UNCHANGED <<coreLock, coreOp, rstState, subVars, snap>>
    BY <1>6 DEF CbReturn, CbGoto, At, ResetInv, CbTypes, rstVars
  <2>2. RoundInv'
    BY <2>1 DEF RoundInv, Resting, subVars
  <2> QED  BY <2>1, <2>2 DEF RestTypes, subVars
<1>7. CASE CbRepower
  <2>1. /\ cbPc = "repower" /\ UNCHANGED <<coreLock, coreOp, rstState, subVars, snap, cbPc>>
    BY <1>7 DEF CbRepower, rstVars
  <2>2. RoundInv'
    BY <2>1 DEF RoundInv, Resting, subVars
  <2> QED  BY <2>1, <2>2 DEF RestTypes, subVars
<1>8. CASE CbPostCb
  <2>1. /\ cbPc = "repower" /\ cbPc' = "post" /\ cbIdx' = 0 /\ rstState' = 0
        /\ UNCHANGED <<coreLock, coreOp, subVars, snap>>
    BY <1>8 DEF CbPostCb, CbGoto
  <2>2. \A d \in Drivers : Resting(d, "pre")
    BY <2>1 DEF RoundInv
  <2>3. \A d \in Drivers : d >= 0
    BY DEF Drivers
  <2>4. \A d \in Drivers : InRound(d)'
    BY <2>1, <2>2, <2>3 DEF InRound, Resting, subVars
  <2>5. Answered' = {}
    BY <2>1, <2>2 DEF Answered, Resting, subVars
  <2>6. RoundInv'
    BY <2>1, <2>4, <2>5, SumsNone DEF RoundInv
  <2> QED  BY <1>1, <2>1, <2>6 DEF RestTypes, subVars
<1>9. CASE CbPost
  <2>1. /\ cbPc = "post" /\ cbIdx < NumDrivers
        /\ subQ' = [subQ EXCEPT ![cbIdx] = Append(@, cbPc)] /\ cbIdx' = cbIdx + 1
        /\ UNCHANGED <<coreLock, coreOp, rstState, spc, told, cbPc, snap>>
    BY <1>9 DEF CbPost, rstVars
  <2>2. RoundInv' /\ subQ' \in [Drivers -> Seq({"pre", "post"})]
    BY <2>1, RoundSends
  <2> QED  BY <2>1, <2>2 DEF RestTypes
<1>10. CASE CbDone
  <2>1. /\ cbPc = "post" /\ cbPc' = "idle" /\ rstState = AllBits /\ snap' = {}
        /\ UNCHANGED <<coreLock, coreOp, rstState, subVars>>
    BY <1>10 DEF CbDone, CbGoto
  <2>2. \A d \in Drivers : Resting(d, "post")
    BY <2>1, RoundOver
  <2>3. RoundInv'
    BY <2>1, <2>2 DEF RoundInv, Resting, subVars
  <2> QED  BY <2>1, <2>3 DEF RestTypes, subVars
<1> QED
  BY <1>2, <1>3, <1>4, <1>5, <1>6, <1>7, <1>8, <1>9, <1>10 DEF CbStep

(* A driver's thread calls the driver back: the op it takes is the one of  *)
(* the round.                                                              *)
LEMMA CallbackRound ==
  ASSUME CoreInv, NEW d \in Drivers, SubCallback(d)
  PROVE  RestTypes' /\ RoundInv'
<1> USE DEF CoreInv
<1>1. /\ spc[d] = "idle" /\ subQ[d] # <<>>
      /\ told' = [told EXCEPT ![d] = Head(subQ[d])]
      /\ subQ' = [subQ EXCEPT ![d] = Tail(@)]
      /\ spc' = [spc EXCEPT ![d] = "called"]
      /\ UNCHANGED <<coreLock, rstState, coreOp, cbPc, cbIdx, snap>>
  BY DEF SubCallback, rstVars, cbVars
<1>2. cbPc \in {"pre", "post"} /\ (\A c \in Drivers : InRound(c)) /\ Sums(Answered, rstState)
  BY <1>1 DEF RoundInv, Resting
<1>3. d < cbIdx /\ subQ[d] = <<cbPc>> /\ told[d] # cbPc
  BY <1>1, <1>2 DEF InRound, Resting
<1>4. Head(<<cbPc>>) = cbPc /\ Tail(<<cbPc>>) = <<>>
  OBVIOUS
<1>5. /\ told \in [Drivers -> {"pre", "post"}] /\ spc \in [Drivers -> {"idle", "called"}]
      /\ subQ \in [Drivers -> Seq({"pre", "post"})]
  BY DEF RestTypes
<1>6. /\ told'[d] = cbPc /\ subQ'[d] = <<>> /\ spc'[d] = "called"
      /\ \A c \in Drivers : c # d =>
           told'[c] = told[c] /\ subQ'[c] = subQ[c] /\ spc'[c] = spc[c]
  BY <1>1, <1>3, <1>4, <1>5
<1>7. \A c \in Drivers : InRound(c)'
  <2>1. InRound(d)'
    BY <1>1, <1>3, <1>6 DEF InRound
  <2>2. ASSUME NEW c \in Drivers, c # d PROVE InRound(c)'
    BY <1>1, <1>2, <1>6, <2>2 DEF InRound, Resting
  <2> QED  BY <2>1, <2>2
<1>8. Answered' = Answered
  BY <1>1, <1>3, <1>6 DEF Answered
<1>9. RoundInv'
  BY <1>1, <1>2, <1>7, <1>8 DEF RoundInv
<1>10. subQ' \in [Drivers -> Seq({"pre", "post"})]
  BY <1>1, <1>3, <1>4, <1>5
<1>11. told' \in [Drivers -> {"pre", "post"}] /\ spc' \in [Drivers -> {"idle", "called"}]
  BY <1>1, <1>2, <1>3, <1>4, <1>5
<1> QED  BY <1>1, <1>9, <1>10, <1>11 DEF RestTypes

(* Its bit was not in the sum, so it is added without a carry.             *)
LEMMA SignalRound ==
  ASSUME CoreInv, NEW d \in Drivers, SubSignal(d)
  PROVE  RestTypes' /\ RoundInv'
<1> USE DEF CoreInv
<1>1. /\ spc[d] = "called" /\ rstState' = rstState + Bit[d]
      /\ spc' = [spc EXCEPT ![d] = "idle"]
      /\ UNCHANGED <<coreLock, subQ, told, coreOp, cbPc, cbIdx, snap>>
  BY DEF SubSignal, cbVars
<1>2. cbPc \in {"pre", "post"} /\ (\A c \in Drivers : InRound(c)) /\ Sums(Answered, rstState)
  BY <1>1 DEF RoundInv, Resting
<1>3. d < cbIdx /\ subQ[d] = <<>> /\ told[d] = cbPc
  BY <1>1, <1>2 DEF InRound, Resting
<1>4. spc \in [Drivers -> {"idle", "called"}]
  BY DEF RestTypes
<1>5. spc'[d] = "idle" /\ \A c \in Drivers : c # d => spc'[c] = spc[c]
  BY <1>1, <1>4
<1>6. Answered' = Answered \cup {d} /\ d \notin Answered
  BY <1>1, <1>3, <1>5 DEF Answered
<1>7. Sums(Answered', rstState')
  BY <1>1, <1>2, <1>6, SumsAdd
<1>8. \A c \in Drivers : InRound(c)'
  <2>1. InRound(d)'
    BY <1>1, <1>3 DEF InRound
  <2>2. ASSUME NEW c \in Drivers, c # d PROVE InRound(c)'
    BY <1>1, <1>2, <1>5, <2>2 DEF InRound, Resting
  <2> QED  BY <2>1, <2>2
<1>9. RoundInv'
  BY <1>1, <1>2, <1>7, <1>8 DEF RoundInv
<1>10. rstState' \in 0..AllBits
  BY <1>7, SumsAtMost
<1>11. spc' \in [Drivers -> {"idle", "called"}]
  BY <1>1, <1>4
<1> QED  BY <1>1, <1>9, <1>10, <1>11 DEF RestTypes

(* An operation takes core_lock or lets go of it, and no more of this.     *)
LEMMA OperateRound ==
  ASSUME CoreInv, NEW w \in Workers, Operate(w) \/ TakeLock(w)
  PROVE  RestTypes' /\ RoundInv'
<1>1. UNCHANGED elsewhere
  BY OperateInside DEF Inside, CoreInv, ResetInv
<1>2. coreLock' \in {coreLock, w, "free"}
  BY DEF Operate, TakeLock, Return, ReturnLocked, Unlock, LockThen, OnAlready, OnHw, OnHwFails,
     OnInfra, OnDrv, OffRead, OffAlready, OffMark, OffHw, OffEnd, ForceAlready, ForceCheck,
     ForceLoop, ForceHw, ForceEnd, HwopCheck, HwopAccess, ThermCheck, DumpCheck, DumpAccess,
     OnLock, OffLock, ForceLock, HwopLock, ThermLock
<1> QED  BY <1>1, <1>2, RoundFrame DEF CoreInv, RestTypes, elsewhere, rstVars, subVars, cbVars

(* A caller does the same.                                                 *)
LEMMA ClientRound ==
  ASSUME CoreInv, NEW c \in Clients, Call(c) \/ ReadLock(c) \/ ReadKilled(c) \/ ClientStep(c)
  PROVE  RestTypes' /\ RoundInv'
<1>1. UNCHANGED <<rstState, subVars, coreOp, cbVars>>
  BY DEF ClientStep, Call, ReadLock, ReadKilled, CheckRst, Send, LockRst, PostRst, CheckReset,
     ReadCheck, ReadAccess, CheckDump, ResetPowerState, others, rstVars
<1>2. coreLock' \in {coreLock, c, "free"}
  BY DEF ClientStep, Call, ReadLock, ReadKilled, CheckRst, Send, LockRst, PostRst, CheckReset,
     ReadCheck, ReadAccess, CheckDump, ResetPowerState, others, Unlock
<1> QED  BY <1>1, <1>2, RoundFrame DEF CoreInv, RestTypes, subVars, cbVars

(* The core thread takes an op and lets go of it.                          *)
LEMMA CoreStepRound == CoreInv /\ CoreStep => RestTypes' /\ RoundInv'
<1> SUFFICES ASSUME CoreInv, CoreStep PROVE RestTypes' /\ RoundInv'
  OBVIOUS
<1>1. UNCHANGED <<coreLock, rstState, subVars, cbVars>>
  BY DEF CoreStep, CoreTake, CoreReply, rstVars
<1>2. coreOp' \in Request \cup {NoOp}
  <2>1. CASE CoreTake
    <3>1. msgQ \in Seq(Request) /\ msgQ # << >> /\ coreOp' = Head(msgQ)
      BY <2>1 DEF CoreTake, CoreInv, ResetInv, CallTypes
    <3> QED  BY <3>1, HeadTailProperties
  <2>2. CASE CoreReply
    BY <2>2 DEF CoreReply
  <2> QED  BY <2>1, <2>2 DEF CoreStep
<1> QED  BY <1>1, <1>2, RoundFrame DEF CoreInv, RestTypes, subVars, cbVars

(* Every step keeps the invariant.                                         *)
LEMMA CoreNext == CoreInv /\ [Next]_vars => CoreInv'
<1> SUFFICES ASSUME CoreInv, [Next]_vars PROVE CoreInv'
  OBVIOUS
<1>1. ResetInv'
  BY ResetNext DEF CoreInv
<1>2. ASSUME UNCHANGED vars PROVE RestTypes' /\ RoundInv'
  BY <1>2, RoundFrame DEF CoreInv, RestTypes, vars, rstVars, subVars, cbVars
<1>3. RestTypes' /\ RoundInv'
  BY <1>2, OperateRound, CoreStepRound, CbStepRound, CallbackRound, SignalRound, ClientRound
  DEF Next, SubStep
<1> QED  BY <1>1, <1>3 DEF CoreInv

(* The inductive invariant of power and reset, whatever the calls: types,  *)
(* the phase of the reset and the place of each driver in its rounds.      *)
THEOREM CoreInvariant == Spec => []CoreInv
<1> QED  BY CoreInit, CoreNext, PTL DEF Spec

(* Every variable keeps its type; rst_state never carries from one         *)
(* driver's bit into the next.                                             *)
THEOREM TypeCorrect == Spec => []TypeOK
<1>1. CoreInv => TypeOK
  <2> SUFFICES ASSUME CoreInv PROVE TypeOK
    OBVIOUS
  <2>1. rstStatus \in RstNone..RstPostCb /\ cbQ \in Nat
    BY DEF CoreInv, ResetInv, PhaseInv, RstNone, RstStart, RstPreCb, RstPostCb
  <2> QED
    BY <2>1 DEF CoreInv, ResetInv, PowerTypes, WorkTypes, CallTypes, CbTypes, RestTypes, TypeOK
<1> QED  BY <1>1, CoreInvariant, PTL

(* The chip is forced off and powered again only between the PRE_RESET and *)
(* POST_RESET callbacks of all drivers.                                    *)
THEOREM ResetIsBracketed == Spec => []ResetBracketed
<1>1. CoreInv => ResetBracketed
  <2> SUFFICES ASSUME CoreInv PROVE ResetBracketed
    OBVIOUS
  <2>1. rstStatus = RstNone => cbPc = "idle"
    BY DEF CoreInv, ResetInv, PhaseInv, RstNone, RstStart, RstPreCb, RstPostCb
  <2> QED  BY <2>1 DEF CoreInv, RoundInv, Resting, ResetBracketed
<1> QED  BY <1>1, CoreInvariant, PTL
=============================================================================
