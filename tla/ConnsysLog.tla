----------------------------- MODULE ConnsysLog -----------------------------
(***************************************************************************)
(* The dedicated log path of one radio (conn_drv/connv2/debug_utility/     *)
(* connsyslog): the firmware writes its log into a ring in shared memory   *)
(* (EMI) and raises an interrupt; a work item moves it into a cache ring,  *)
(* or prints it to the kernel log, depending on the log mode; readers take *)
(* it from the cache. No lock covers the rings: each end moves one index   *)
(* and trusts the other.                                                   *)
(*                                                                         *)
(* A log byte is its number in the order in which the firmware wrote it.   *)
(* The firmware is external: it owns the EMI write index and, as           *)
(* RING_EMI_FULL has it, always leaves one slot free.                      *)
(***************************************************************************)
EXTENDS Integers, Sequences, FiniteSets, Functions

CONSTANTS
  EmiSize,     \* log_offset.emi_size, max_size of the ring
  CacheSize,   \* the cache, of twice that size in the code
  Modulus,     \* where the indexes of the cache wrap, 2^32 for an unsigned int
  Readers,     \* threads in connlog_read_internal
  Counts,      \* the sizes of the buffers they bring
  Modes,       \* the log modes that are set during the run
  AlarmOn,     \* the log alarm is enabled (ConnlogAlarm)
  MaxBytes     \* the bytes the firmware writes (bounds the run)

(* Sizes are powers of two in the code: what counts is that the cache's    *)
(* indexes wrap at a multiple of its size.                                 *)
ASSUME ConnsysLogAssumption ==
  /\ EmiSize \in Nat \ {0} /\ CacheSize \in Nat \ {0} /\ Modulus \in Nat \ {0}
  /\ CacheSize < Modulus /\ Modulus % CacheSize = 0
  /\ MaxBytes \in Nat /\ Counts \subseteq Nat \ {0}
  /\ Modes \subseteq {"file", "print"} /\ Modes # {} /\ AlarmOn \in BOOLEAN

VARIABLES
  emiRd, emiWr, emiBuf,      \* ring_emi
  caRd, caWr, caBuf,         \* ring_cache
  produced, irq,             \* bytes written by the firmware; its interrupt line
  pending, eirqOn, timer,    \* logDataWorker queued; eirqOn; workTimer armed
  mode,                      \* g_log_mode
  wpc, room,                 \* the work item: control point, cache_max_size
  remain, sz,                \* ring_emi_seg.remain, .sz
  iremain, isz, ipos,        \* ring_cache_seg.remain, .sz, .data_pos
  short,                     \* its last run left data because the cache was full
  rpc, rsize, rremain, rsz,  \* a reader: control point, size, ring_seg.remain, .sz
  rpos,                      \* ring_seg.ring_pt
  out, printed               \* what readers were given, and the kernel log

emiVars == <<emiRd, emiWr, emiBuf>>
caVars == <<caRd, caWr, caBuf>>
fwVars == <<produced, irq>>
schedVars == <<pending, eirqOn, timer>>
workVars == <<wpc, room, remain, sz, iremain, isz, ipos, short>>
readVars == <<rpc, rsize, rremain, rsz, rpos>>
vars == <<emiVars, caVars, fwVars, schedVars, mode, workVars, readVars, out, printed>>

Least(a, b) == IF a < b THEN a ELSE b

EmiCount == (emiWr - emiRd) % EmiSize         \* ring_emi_read_prepare, ROUND_REPEAT
CaCount == (caWr - caRd) % Modulus            \* RING_SIZE
CaRoom == (CacheSize - CaCount) % Modulus     \* RING_WRITE_REMAIN_SIZE

(* The part of n bytes from an index that lies before the end of the ring: *)
(* _ring_emi_segment_prepare, __ring_segment_prepare.                      *)
EmiSeg(from, n) == Least(n, EmiSize - from)
CacheSeg(from, n) == Least(n, CacheSize - (from % CacheSize))

Init ==
  /\ emiRd = 0 /\ emiWr = 0 /\ emiBuf = [i \in 0..(EmiSize - 1) |-> 0]
  /\ caRd = 0 /\ caWr = 0 /\ caBuf = [i \in 0..(CacheSize - 1) |-> 0]
  /\ produced = 0 /\ irq = FALSE
  /\ pending = FALSE /\ eirqOn = FALSE /\ timer = FALSE
  /\ mode \in Modes
  /\ wpc = "idle" /\ room = 0 /\ remain = 0 /\ sz = 0
  /\ iremain = 0 /\ isz = 0 /\ ipos = 0 /\ short = FALSE
  /\ rpc = [r \in Readers |-> "idle"]
  /\ rsize = [r \in Readers |-> 0] /\ rremain = [r \in Readers |-> 0]
  /\ rsz = [r \in Readers |-> 0] /\ rpos = [r \in Readers |-> 0]
  /\ out = <<>> /\ printed = <<>>
-----------------------------------------------------------------------------
(* The firmware and its interrupt                                          *)

(* It writes n bytes if there is room for them: one slot stays empty.      *)
FwWrite(n) ==
  /\ produced + n <= MaxBytes
  /\ n <= EmiSize - 1 - EmiCount
  /\ emiBuf' = [i \in DOMAIN emiBuf |->
                  LET k == (i - emiWr) % EmiSize IN IF k < n THEN produced + k + 1 ELSE emiBuf[i]]
  /\ emiWr' = (emiWr + n) % EmiSize
  /\ produced' = produced + n
  /\ irq' = TRUE
  /\ UNCHANGED <<emiRd, caVars, schedVars, mode, workVars, readVars, out, printed>>

(* Mutant: the work is not queued again while it runs.                     *)
ScheduleIfIdle == pending' = (pending \/ wpc = "idle") /\ eirqOn' = pending

(* connlog_do_schedule_work, under irq_lock: eirqOn says that the work was *)
(* queued already.                                                         *)
Schedule == pending' = TRUE /\ eirqOn' = pending

(* connsys_log_irq_handler                                                 *)
Irq ==
  /\ irq
  /\ irq' = FALSE
  /\ Schedule
  /\ UNCHANGED <<emiVars, caVars, produced, timer, mode, workVars, readVars, out, printed>>

(* work_timer_handler                                                      *)
TimerFires ==
  /\ timer
  /\ timer' = FALSE
  /\ Schedule
  /\ UNCHANGED <<emiVars, caVars, fwVars, mode, workVars, readVars, out, printed>>

(* Mutant: the alarm only repeats a request that came too early.           *)
AlarmIfOn ==
  /\ AlarmOn
  /\ pending' = (pending \/ eirqOn) /\ eirqOn' = pending
  /\ UNCHANGED <<emiVars, caVars, fwVars, timer, mode, workVars, readVars, out, printed>>

(* connlog_alarm_timer_handler, "starts every sec seconds"                 *)
Alarm ==
  /\ AlarmOn
  /\ Schedule
  /\ UNCHANGED <<emiVars, caVars, fwVars, timer, mode, workVars, readVars, out, printed>>

(* connsys_dedicated_log_set_log_mode                                      *)
SetMode(m) ==
  /\ mode # m
  /\ mode' = m
  /\ UNCHANGED <<emiVars, caVars, fwVars, schedVars, workVars, readVars, out, printed>>
-----------------------------------------------------------------------------
(* The work item: connlog_log_data_handler                                 *)

outside == <<emiWr, emiBuf, caRd, fwVars, mode, readVars, out>>

WorkStart ==
  /\ wpc = "idle" /\ pending
  /\ pending' = FALSE
  /\ wpc' = "check"
  /\ UNCHANGED <<outside, emiRd, caWr, caBuf, eirqOn, timer, room, remain, sz, iremain, isz,
                 ipos, short, printed>>

WorkCheck ==
  /\ wpc = "check"
  /\ wpc' = IF emiRd = emiWr THEN "end" ELSE IF mode = "file" THEN "room" ELSE "print"
  /\ UNCHANGED <<outside, emiRd, caWr, caBuf, schedVars, room, remain, sz, iremain, isz, ipos,
                 short, printed>>

(* connlog_ring_emi_to_cache: a full cache ends the run.                   *)
WorkRoom ==
  /\ wpc = "room"
  /\ room' = CaRoom
  /\ wpc' = IF CaCount = CacheSize THEN "end" ELSE "prepare"
  /\ short' = (CaCount = CacheSize)
  /\ UNCHANGED <<outside, emiRd, caWr, caBuf, schedVars, remain, sz, iremain, isz, ipos, printed>>

(* ring_emi_read_prepare(n), then the first segment.                       *)
FirstSegment(n, p) ==
  LET total == Least(n, EmiCount)
  IN /\ sz' = EmiSeg(emiRd, total)
     /\ remain' = total - EmiSeg(emiRd, total)
     /\ wpc' = p

(* Mutant: everything in the EMI ring is taken, room in the cache or not.  *)
WorkPrepareAll ==
  /\ wpc = "prepare"
  /\ FirstSegment(EmiSize, "segment")
  /\ short' = FALSE
  /\ UNCHANGED <<outside, emiRd, caWr, caBuf, schedVars, room, iremain, isz, ipos, printed>>

WorkPrepare ==
  /\ wpc = "prepare"
  /\ FirstSegment(room, "segment")
  /\ short' = (room < EmiCount)
  /\ UNCHANGED <<outside, emiRd, caWr, caBuf, schedVars, room, iremain, isz, ipos, printed>>

(* RING_WRITE_FOR_EACH over one EMI segment                                *)
WorkSegment ==
  /\ wpc = "segment"
  /\ LET total == Least(sz, CaRoom)
     IN isz' = CacheSeg(caWr, total) /\ iremain' = total - CacheSeg(caWr, total)
  /\ ipos' = 0
  /\ wpc' = "copy"
  /\ UNCHANGED <<outside, emiRd, caWr, caBuf, schedVars, room, remain, sz, short, printed>>

WorkCopy ==
  /\ wpc = "copy"
  /\ caBuf' = [i \in DOMAIN caBuf |->
                 LET k == (i - caWr) % CacheSize
                 IN IF k < isz THEN emiBuf[emiRd + ipos + k] ELSE caBuf[i]]
  /\ wpc' = "commit"
  /\ UNCHANGED <<outside, emiRd, caWr, schedVars, room, remain, sz, iremain, isz, ipos, short,
                 printed>>

(* _ring_write_commit and the next piece of the segment                    *)
WorkCommit ==
  /\ wpc = "commit"
  /\ caWr' = (caWr + isz) % Modulus
  /\ isz' = CacheSeg(caWr + isz, iremain)
  /\ iremain' = iremain - isz'
  /\ ipos' = ipos + isz
  /\ wpc' = IF isz' = 0 THEN "emiCommit" ELSE "copy"
  /\ UNCHANGED <<outside, emiRd, caBuf, schedVars, room, remain, sz, short, printed>>

(* _ring_emi_read_commit and the next segment                              *)
NextSegment(p) ==
  /\ emiRd' = (emiRd + sz) % EmiSize
  /\ sz' = EmiSeg(emiRd', remain)
  /\ remain' = remain - sz'
  /\ wpc' = IF sz' = 0 THEN "end" ELSE p

WorkEmiCommit ==
  /\ wpc = "emiCommit"
  /\ NextSegment("segment")
  /\ UNCHANGED <<outside, caWr, caBuf, schedVars, room, iremain, isz, ipos, short, printed>>

(* connlog_ring_print: everything there is goes to the kernel log.         *)
WorkPrint ==
  /\ wpc = "print"
  /\ FirstSegment(EmiSize, "printCopy")
  /\ short' = FALSE
  /\ UNCHANGED <<outside, emiRd, caWr, caBuf, schedVars, room, iremain, isz, ipos, printed>>

WorkPrintCopy ==
  /\ wpc = "printCopy"
  /\ printed' = printed \o [k \in 1..sz |-> emiBuf[emiRd + k - 1]]
  /\ wpc' = "printCommit"
  /\ UNCHANGED <<outside, emiRd, caWr, caBuf, schedVars, room, remain, sz, iremain, isz, ipos,
                 short>>

WorkPrintCommit ==
  /\ wpc = "printCommit"
  /\ NextSegment("printCopy")
  /\ UNCHANGED <<outside, caWr, caBuf, schedVars, room, iremain, isz, ipos, short, printed>>

(* "IRQ is still on, do schedule_work again"                               *)
WorkEnd ==
  /\ wpc = "end"
  /\ timer' = (timer \/ eirqOn)
  /\ wpc' = "idle"
  /\ room' = 0 /\ ipos' = 0
  /\ UNCHANGED <<outside, emiRd, caWr, caBuf, pending, eirqOn, remain, sz, iremain, isz, short,
                 printed>>
-----------------------------------------------------------------------------
(* A reader: connlog_read_internal                                         *)

workside == <<emiVars, caWr, caBuf, fwVars, schedVars, mode, workVars, printed>>

(* connsys_log_read checks the mode, connlog_read_internal fixes the size. *)
ReadStart(r) ==
  /\ rpc[r] = "idle" /\ mode = "file" /\ CaCount # 0
  /\ \E count \in Counts : rsize' = [rsize EXCEPT ![r] = Least(count, CaCount)]
  /\ rpc' = [rpc EXCEPT ![r] = "prepare"]
  /\ UNCHANGED <<workside, caRd, rremain, rsz, rpos, out>>

(* __ring_segment_prepare: the next piece of the n bytes still to be read  *)
NextPiece(r, from, n) ==
  /\ rsz' = [rsz EXCEPT ![r] = CacheSeg(from, n)]
  /\ rremain' = [rremain EXCEPT ![r] = n - CacheSeg(from, n)]
  /\ rpos' = [rpos EXCEPT ![r] = IF n = 0 THEN 0 ELSE from % CacheSize]
  /\ rpc' = [rpc EXCEPT ![r] = IF n = 0 THEN "idle" ELSE "copy"]
  /\ rsize' = [rsize EXCEPT ![r] = 0]

ReadPrepare(r) ==
  /\ rpc[r] = "prepare"
  /\ NextPiece(r, caRd, Least(rsize[r], CaCount))
  /\ UNCHANGED <<workside, caRd, out>>

ReadCopy(r) ==
  /\ rpc[r] = "copy"
  /\ out' = out \o [k \in 1..rsz[r] |-> caBuf[rpos[r] + k - 1]]
  /\ rpc' = [rpc EXCEPT ![r] = "commit"]
  /\ UNCHANGED <<workside, caRd, rsize, rremain, rsz, rpos>>

(* copy_to_user fails: what was not copied stays in the ring.              *)
ReadFault(r) ==
  /\ rpc[r] = "copy"
  /\ rpc' = [rpc EXCEPT ![r] = "idle"]
  /\ rremain' = [rremain EXCEPT ![r] = 0] /\ rsz' = [rsz EXCEPT ![r] = 0]
  /\ rpos' = [rpos EXCEPT ![r] = 0]
  /\ UNCHANGED <<workside, caRd, rsize, out>>

(* Mutant: the read index stays where it is at the end of the ring.        *)
ReadCommitLast(r) ==
  /\ rpc[r] = "commit"
  /\ caRd' = IF rremain[r] = 0 THEN (caRd + rsz[r]) % Modulus ELSE caRd
  /\ NextPiece(r, caRd', rremain[r])
  /\ UNCHANGED <<workside, out>>

(* _ring_read_commit and the next piece                                    *)
ReadCommit(r) ==
  /\ rpc[r] = "commit"
  /\ caRd' = (caRd + rsz[r]) % Modulus
  /\ NextPiece(r, caRd', rremain[r])
  /\ UNCHANGED <<workside, out>>
-----------------------------------------------------------------------------
Firmware == \E n \in 1..(EmiSize - 1) : FwWrite(n)

Work ==
  \/ WorkStart \/ WorkCheck \/ WorkRoom \/ WorkPrepare \/ WorkSegment \/ WorkCopy
  \/ WorkCommit \/ WorkEmiCommit \/ WorkPrint \/ WorkPrintCopy \/ WorkPrintCommit \/ WorkEnd

Read(r) == ReadStart(r) \/ ReadPrepare(r) \/ ReadCopy(r) \/ ReadFault(r) \/ ReadCommit(r)

(* The run is over: the firmware has written its last byte.                *)
Finished ==
  /\ produced = MaxBytes /\ ~irq /\ ~pending /\ ~timer /\ wpc = "idle"
  /\ \A r \in Readers : rpc[r] = "idle"
  /\ UNCHANGED vars

Next ==
  \/ Firmware \/ Irq \/ TimerFires \/ Alarm \/ Work \/ Finished
  \/ \E m \in Modes : SetMode(m)
  \/ \E r \in Readers : Read(r)

Spec == Init /\ [][Next]_vars

(* The interrupt is delivered, timer and alarm expire, the work queue runs *)
(* and readers poll; user buffers that fault do not fault for ever.        *)
LiveSpec ==
  /\ Spec
  /\ WF_vars(Irq) /\ WF_vars(TimerFires) /\ WF_vars(Alarm) /\ WF_vars(Work)
  /\ \A r \in Readers : WF_vars(Read(r)) /\ SF_vars(ReadCopy(r))
-----------------------------------------------------------------------------
InEmi == {emiBuf[(emiRd + k) % EmiSize] : k \in 0..(EmiCount - 1)}
InCache == {caBuf[(caRd + k) % CacheSize] : k \in 0..(Least(CaCount, CacheSize) - 1)}

(* No byte of the firmware's log disappears: each is still in one of the   *)
(* rings, or went to a reader or to the kernel log. The indexes of the two *)
(* rings move at different moments, and a full cache, a failed             *)
(* copy_to_user or a change of mode in between must not lose what was      *)
(* already claimed.                                                        *)
NothingLost == 1..produced = InEmi \cup InCache \cup Range(out) \cup Range(printed)

Increasing(s) == \A i \in 1..(Len(s) - 1) : s[i] < s[i + 1]

(* Readers and the kernel log get the bytes in the order in which the      *)
(* firmware wrote them, none of them twice and none in both places, across *)
(* wrap-arounds of both rings and of the cache's free-running indexes.     *)
InOrder ==
  /\ Increasing(out) /\ Increasing(printed)
  /\ Range(out) \cap Range(printed) = {}

(* Data in the EMI ring is never forgotten: an interrupt, the queued work, *)
(* a run of it or the timer will look at the ring again, unless the last   *)
(* run had to leave data because the cache was full. That the interrupt    *)
(* may come at any point of a run is what the eirqOn logic is about.       *)
NoLostWakeup ==
  emiRd # emiWr => irq \/ pending \/ timer \/ wpc # "idle" \/ short

(* Once the mode stays at file, every byte the firmware wrote reaches a     *)
(* reader, if it was not printed before, provided that the log alarm is on: *)
(* it is the only thing that looks again at data left behind because the   *)
(* cache was full.                                                         *)
AllRead ==
  <>[](mode = "file") => []<>(1..produced = Range(out) \cup Range(printed))
=============================================================================
