# Verification of the connectivity drivers: conninfra, STP, receive reordering

The repository holds the out-of-tree kernel modules of a MediaTek phone: the
connectivity drivers (`src/connectivity`) and two vendored GPU drivers
(`src/gpu`). The radios - Bluetooth, FM, GPS, Wi-Fi - sit on one chip, and
`conninfra` is the piece of the program's own code that lets them share it. It
is small, all drivers depend on it, and nearly everything in it happens between
threads; most of this project is about it. Two more parts are protocols of
their own: the serial transport of the older combo chips (STP) and the block-ack
reordering in the receive path of the WLAN driver.

Paths below are relative to `src/connectivity/`. The shorthand `core:365` means
line 365 of `conninfra/conn_drv/connv2/core/conninfra_core.c`, `msg:282` of
`conninfra/base/msg_thread.c`, `log:982` of
`conninfra/conn_drv/connv2/debug_utility/connsyslog/connsyslog.c`, `stp:1367` of
`common/common_main/core/stp_core.c`, `que:5463` of
`wlan/core/gen4m/nic/que_mgt.c`.

## 1. Inventory

### Message thread (`conninfra/base/msg_thread.c`)
*State.* 64 op buffers per context, a free queue and an active queue (masked
rings with a lock each), per op a reference count, a completion, `timeoutValue`
and `result`; `cur_op`. *Operations.* `msg_thread_send*` (fire and forget),
`msg_thread_send_wait*` (waits with a timeout), the loop `msg_evt_thread`.
*Hard.* Caller and thread give the op back to the pool by
`atomic_dec_and_test`; both read fields of the op after giving up their
reference; timeouts race with late answers. *Correct when* ops are neither lost
nor freed twice, requests are served once each and in order, every call returns
and reads its own result.

### Conninfra core (`core:`, `conninfra/src/conninfra.c`)
*State.* `drv_status` per driver, `infra_drv_status`, `rst_status`, `rst_state`,
`power_dump_enable`, `core_lock`, the hardware's power state. *Operations.*
Power on and off per driver, whole-chip reset, register access and readability
check, RF SPI access, thermal query, power dump, suspend. *Interaction.* Callers
send ops to the thread "core"; a reset runs on the thread "cb", calls every
driver back on that driver's own thread, forces the chip off and powers it
again. *Hard.* Two threads run the same power functions; some status is read
before the lock; callbacks must bracket the power cut; power-on may fail
half-way. *Correct when* a driver that is on has power, the chip is off when
nobody is on, no register is touched while it is off, there is one reset at a
time and it ends.

### Pre-calibration (`core:`)
At boot, and when the screen comes on after both were off, conninfra powers
Bluetooth and Wi-Fi on by itself, lets them calibrate and powers them off again.
*State.* `cal_info` (status, caller), `pre_cal_lock`, `ever_pre_cal`, the
registered callbacks, the mode. *Operations.* PREPARE and CHECK ops of the core
thread, the work item, `opfunc_pre_cal` on the thread "cb", the blocking of
power calls, the screen's notifier. *Hard.* The work item holds `pre_cal_lock`
while it waits for the cb thread, which waits for the core thread, which wants
the lock; four sources ask for the same calibration in any order; power calls
poll a status and give up after a time. *Correct when* no radio loses power it
was granted, no radio is powered before the first calibration, and a blocked
call is let go.

### connsyslog (`log:`, `conninfra/base/ring.c`)
*State.* Per radio an EMI ring written by the firmware, a cache ring,
`eirqOn`, a work item, a timer, the log mode. *Operations.* Interrupt, work
handler (copies to the cache or prints), readers, mode changes, timer. *Hard.*
No lock covers the rings; the work is re-queued while it runs; both rings and
the free-running indexes wrap. *Correct when* no byte is lost, repeated or
reordered, and none is forgotten in the ring.

*Log alarm* (`log:1378-1517`): a kernel alarm that empties the ring from time to
time while the screen is on. State under `alarm_lock`; its handler re-arms
itself. *Correct when* its period and its silence follow what was configured,
whatever the handler was doing at the time.

### Serial transport of the combo chips (`stp:`, `btm_core.c`)
*State.* Per link `txseq`, `txack`, `rxack`, `winspace`, a retransmission
counter, the copies of the packets that are out, the timer, the parser's state
and two static variables of the receiver (`fgRxOk`, the failure count).
*Operations.* Send, receive a data frame or an acknowledgement, the timeout and
the retry it asks the BTM thread for, resync, restart of the chip. *Hard.* Eight
sequence numbers that wrap under a window of seven; a retry runs some time after
the timeout that asked for it; a restart leaves the timer, a queued retry and
the static variables as they are. *Correct when* in each direction
every packet arrives once and in order and is kept by its sender until then (not that the
user is given it: the receiver drops what it has no room or use for), an unacknowledged packet always has a
retry on its way, and a loss alone does not reset the chip.

### Receive reordering of the WLAN driver (`que:`)
*State.* A table of block-ack agreements, each with a sorted queue, a window, a
bubble (a gap) with a timer; two lists by which the main thread hands timeouts
and deleted agreements to the NAPI poll. *Operations.* Agreement made and
deleted, packet, aggregate, block-ack request, timer, flush, suspend. *Hard.*
Sequence numbers wrap at 4096; the timer expires in one thread and its flush
runs in another, later; an agreement can be made again before the old one was
flushed. *Correct when* a queue is sorted and within its window, what waits has
a timer or a flush coming, a slot is neither lost nor freed twice, and every
packet is let go.

### Other parts
Coredump (firmware-driven state machine with timeouts), the connv3 core (the
same design for the next chip), the hardware layer and the platform code
(register sequences; conninfra's wake-up count lives there), osal (wrappers of
kernel primitives, which appear inside the actions that use them), the GPS data
link, WMT and the power-saving core of the combo chips, the BT and FM drivers,
the rest of the WLAN driver, and the vendored GPU drivers. `PROJECT.json` lists
each with its status and, when it is not modelled, why.

## 2. Modules and how they correspond to the code

| module | models | composed with |
|---|---|---|
| `MsgThread` | a context of `msg_thread.c`: callers, thread, pool | implements `RequestQueue` |
| `RequestQueue` | what a context promises: queued requests are served once, in order | |
| `OpQueue` | the `MSG_OP_*` ring with masked, wrapping counters | implements `BoundedFifo` |
| `BoundedFifo` | the queue that `MsgThread` uses as a sequence | |
| `ConninfraCore` | power, reset and register access, with the threads as FIFO queues (what `RequestQueue` promises) | without resets it implements `PowerManager` |
| `PowerManager` | what power-on and power-off promise the drivers, and when the chip may be cut | |
| `PreCal` | pre-calibration: core thread, work item, cb thread, power calls, screen | the core thread as in `ConninfraCore` |
| `ConnsysLog` | EMI ring, cache, work item, readers | |
| `ConnlogAlarm` | the log alarm | |
| `Stp` | both ends of the serial link, the wires, the BTM thread's retries, restarts | implements `ReliableStream` in both directions |
| `ReliableStream` | what the transport promises for one direction | |
| `RxReorder` | reorder table, queue, window, timer and flushes of one pair of station and TID | |
| `DataLemmas` | lemmas about sequences without duplicates, induction, recursion and loops over the naturals, remainders, powers of two | used by `MsgThreadProofs`, `ConninfraCoreProofs`, `RxReorderProofs` |
| `MsgThreadProofs`, `ConninfraCoreProofs`, `PreCalProofs`, `ConnsysLogProofs`, `ConnlogAlarmProofs`, `StpProofs`, `RxReorderProofs` | theorems of the modules they are named after | |
| `MC*` | symmetry sets and constants for TLC | |

`ConnsysLog` takes the alarm as a constant (`AlarmOn`: an alarm that fires again
and again); `ConnlogAlarm` says under which circumstances there is one.

**Granularity.** An action is what the code does without another thread being
able to observe or disturb it: the body of a critical section where one is used,
a single access to shared memory where none is. In `MsgThread` each access to a
field of an op is a step, since no lock covers them. In `ConninfraCore` taking
`core_lock`, the hardware calls and the assignments under the lock are separate
steps, since `rst_status`, `infra_drv_status` and the drivers' status are also
read without it. In `ConnsysLog` copying and committing are separate steps. In
`Stp` handling a frame is one step, since it happens under the sequence lock, and
the timeout, the retry it queues and the retry's run are three. In `RxReorder`
a packet or a flush is one step under the reorder lock; starting the timer again
is a step of its own, since the code does it after the unlock.

**Control points.** `pc`, `wpc`, `rpc`, `cbPc` and their like hold the place in the
function; locals that are used later are variables (`curr_status` is `wcurr`,
`try_power_off` is `wlast`, `drv_pwr_state` is `snap`, `ring_seg.remain` is
`rremain`). Locals are set to a default when the function returns, so that
states that do not differ are not told apart.

**Abstractions.** Log text, op data, register addresses and times are left out.
An op carries the name of its request and a handler returns that name, so a
wrong answer can be seen. A log byte is its serial number, and so is a packet of
`Stp`. `osal_lock_*` is a variable with the owner. A timeout may happen at any
moment while a caller waits (`MayTimeout`), whatever its length. `rst_sema` is
left out: `opfunc_chip_rst` polls `rst_state`, which is what decides.
`ConninfraCore` reads the drivers' status one driver at a time where the code
does so before it has the lock (`OffRead`); under the lock
`opfunc_get_current_status` is one step. The firmware writes any amount of log
that fits (`RING_EMI_FULL` leaves a slot free).

- `PreCal`: `pre_cal_lock` is held across steps by the work item alone, which is
  when `cbPc` is not idle, so it needs no variable; `pre_cal_work` is pending
  exactly while the status is SCHEDULED. CHECK has one trylock, which a poller may
  make fail; PREPARE gives up after ten, which only the work item can make fail
  (`core:1062` says that pollers try less often). The 20 s limit of the work item's
  wait is left out: beyond it a calibration would count as done while it
  runs. A driver registers before its first power call, as all of them do.
- `Stp`: the firmware end runs the same protocol, since its code is not here.
  The wire keeps the order, loses frames and damages them in ways the checksum
  sees; damage it does not see is left out. `acked` counts what an end has acknowledged,
  `got` what its function was given. An expected packet is acknowledged first; then it is
  kept, or dropped without a complaint (bluez not there, function inactive, type unknown,
  or an earlier part of a WMT packet; `MaxDrops` bounds these), or the ring is full and it is
  dropped, counted as a fault. That GPS then empties its ring is left out: what
  was enqueued has been given to it. A restart is what the code resets and nothing else: the host's timer,
  queued retry, `fgRxOk` and failure count stay. An end that has asked for an
  assert goes on.
- `RxReorder`: packets have numbers that are not reduced, their sequence number
  is the number modulo `SeqSize`; `Apart` keeps the sender within half the number
  space, as 802.11 does. The two subframes of an aggregate arrive back to back, with no
  middle ones: the comment at `que:5124` speaks of subframes interleaved under MLO, which the
  build for this chip does not have. `fgMoveWinOnMissingLast` (`que:5152-5165`) is off, its default
  (`wlan_lib.c:7211`), and `checkToFlushReordering` (`que:4516-4525`) does nothing in the default
  build; both are left out. The sender repeats only what is in its own window (`Late` is at most
  `WinSize`), and the window is at most a quarter of the numbers (the code's is 256
  of 4096). A resume that moves the window away from packets still queued sets
  the history variable `torn`. Which late timeouts `g_arMissTimeout` recognises depends
  on times and is a choice. Packets behind the window change no state of the
  queue and are left out.

Operators whose comment says *Mutant* or *Faulty* are not part of any
specification. They are plausible bugs: with one of them put in place of the
definition it varies, the property named in `PROJECT.json` fails, so each
property is known to be able to fail.

## 3. What the runs check

| run | instance | shows |
|---|---|---|
| `msg_calls` | 2 callers, 2 ops, 3 requests, timeouts | ops are held by exactly those that `ref_count` counts, none lost or freed twice; no put fails; requests are served in order (`ServesInOrder`: refinement of `RequestQueue`); every call returns without help of its timeout, and reads its own result as long as none has timed out |
| `msg_mixed` | 2 callers, 1 op, both kinds of call | *violated* `QueuedNotFreed`, see below |
| `core_power` | 3 drivers, 3 callers, every call but reset, failing hardware | power follows the drivers, no access to a chip that is off, grants hold; `PowerManager` is implemented at every step, those inside `core_lock` too (`ImplementsManager`) |
| `core_all` | 2 drivers, 2 callers, every call, failing hardware | one reset at a time, bracketed by the callbacks |
| `core_reset` | 2 drivers, 2 callers, power-on, reset, read | power and access across resets; resets end and calls return |
| `core_self_lock` | 1 driver | *violated* `LockReleased` |
| `pre_cal` | both radios, all four modes, 2 screen changes | a calibration takes no granted power, comes first, and the block ends |
| `op_queue` | 4 slots, 4-bit counters | the ring implements the FIFO across wrap-around and reset to 0 |
| `log_safe` | EMI ring of 4, cache of 2, indexes modulo 4, 6 bytes, both modes, failing copies, alarm | no byte lost, repeated, reordered or forgotten; every byte is delivered once the mode stays at file |
| `alarm_safe` | 2 threads, 2 periods | period, silence and re-arming of the alarm |
| `stp` | 3 sequence numbers, window 2, 4 packets and 1 back, 1 fault, 1 packet dropped by the host, 1 restart | in both directions every packet arrives once and in order and is kept until then (`ImplementsStream`: refinement of `ReliableStream`); window exact; a retry always armed; the loss of a frame alone does not assert; what is sent is acknowledged or given up |
| `rx_reorder` | 2 slots, numbers modulo 16, window 3, 5 packets, 2 agreements, 1 suspend | sorted queues, covered bubbles, slots accounted for, every packet let go |

**Bounds and why they are enough.** Two ops and two callers are the smallest
pool in which one op is reused while another is queued, and a caller that timed
out can meet the next user of its op. Requests are distinct and each is made
once, which bounds the run; with more of them the same buffers go round again,
and the theorems hold without that bound. Two drivers distinguish "the last one
off" from "an earlier one"; the third in `core_power` lets two remain. Callers of
`ConninfraCore` call again and again; queues cannot grow beyond the callers
because each waits for its op (the reset does not wait, but `rst_status` admits
one). In `pre_cal` two screen changes are off and on, what it takes to schedule
a second calibration; three pass as well. `log_safe` has
a cache smaller than the EMI ring (the code's has twice its size) so that it fills
up; 6 bytes take the cache's indexes and both rings once round. In `stp` the host sends more packets
than there are sequence numbers, so they wrap, and the window is one less than
them, as in the code; one fault is enough for a retransmission of
packets that were already taken, or for a full ring. The retry limit is not below the window, as in the
code (10 and 7): a resync pattern that is lost makes a window of repeated packets
odd, so `LossSurvived` fails with a smaller limit (seen with limit 1, window 2 and
`MaxWire` 2). The number of faults matters too: with limit 2, two packets from the
host and `MaxWire` 3, TLC finds it true for two faults and false for three; and so
does the number of retries queued: with limit 2, window 2, one restart and three
queued retries it is false. These are the hypotheses of the theorem `LossIsSurvived`.
`MaxWire` bounds the frames on the wire at a retransmission only:
an early timeout would fill it without end. In `rx_reorder` the numbers 13..17
wrap at 16, two agreements and two slots let a new agreement overtake the flush
of the old one. `MaxBytes`, `Requests`, `Width`, `MaxScreens`, `MaxData`,
`MaxWire`, `MaxFaults`, `MaxDrops`, `MaxRestarts`, `MaxRetryOps`, `First`, `Final`, `Late`, `Gap`,
`MaxAdds` and `MaxSleeps` are the bounds; everything else is finite by itself.

**Deadlock** is checked except in four passing runs. In `core_all` the system does stop
(the self-lock below).
`alarm_safe` stops when a caller cancels under the lock that the handler
waits for (below). `stp` stops when all packets have been sent and answered.
`pre_cal` stops when calls stay blocked (below) and the screen changes no more.

**Fairness.** Weak fairness for threads, work items, timers and callbacks:
handlers return, a thread that can run does. Strong fairness for taking
`core_lock`: a mutex hands over to its waiters, so nobody is overtaken for ever.
None for making a call, for a call's timeout, for the screen, for sending, for
faults of a link, or for the firmware's log. In `ConnsysLog` readers poll and
`copy_to_user` does not fail for ever (strong fairness of the copy). In `PreCal`
both radios' drivers do register, as their module initialisation makes them.

**Properties with a condition.** `OwnResult` ends with the first timeout,
`CalIsolated` excepts a calibration that was scheduled with a call past the
block, `CalibratedFirst` and `BlockEnds` except a block that was left by its
timeout and the modes named in them, `NoLostWakeup` a full cache,
`LossSurvived` whatever is worse than a loss, and `InOrder`, `BubbleCovered` and
`EveryPacketReleased` a resume with packets still queued (`torn`). Each condition is a
history variable or a mode and nothing wider; without it TLC shows the
behaviours listed below.

### Where the code departs from what it says

*Runs that end in a counterexample.*

- `msg_mixed`: a fire-and-forget caller holds no reference, but reads
  `timeoutValue` again at `msg:253` and `msg:282`. If the op was served and
  reused by a waiting caller in between, it drops that caller's reference and puts
  the op into the free queue while it is queued. The comment at `msg:234` says the
  counting is there to prevent just this. Needs both kinds of caller on one
  context, as the core and cb contexts have.
- `core_self_lock`: the forced power-off returns at `core:393`, with
  `core_lock` held, when the chip is already off. This happens when a power-off
  was queued before the reset's callbacks; the reset then waits for itself.

*Met while modelling, and seen in the same models with other constants or
without the condition.* They are not runs of the project, which keeps one run for
each question.

- `msg:531`: the thread drops its reference, then writes `result` and signals.
  If the caller has timed out and the buffer is already in use again, the next
  caller is woken for a request that has not run (`OwnResult` without its
  condition). With 64 buffers in FIFO order the buffer is reused late,
  so the window is long but improbable.
- `core:365`: `curr_status` is read before `core_lock`. A reset in between makes
  it stale and the chip may be cut with another driver on. `core_reset`
  therefore has no power-off among its calls, so power-offs are checked on one
  thread only.
- `core:485`: the reset notes which drivers are on without the lock while
  the core thread may be in the middle of a power-on. That driver is forced off
  and not powered again, though its power-on succeeded (`GrantsKept` with
  resets).
- `core:818`: the thermal query looks at `infra_drv_status` before it takes the
  lock and not again, so a reset in between makes it read a chip that is off
  (`AccessPowered` with "therm" among the calls of `core_reset`).
- `core:2068`: the suspend callback tests `power_dump_enable` and then uses the
  chip, without the lock that power-off takes.
- `core:590`: a power call past the block - by its timeout, or because the status
  NEED_RESCHEDULE lets it pass - may be queued around a calibration: it is granted
  power and the calibration takes it (`CalIsolated` without `overtaken`).
- `core:1361`, mode PWR_ON_DISABLED: the PREPARE that a power-on sends is sent
  once (`ever_pre_cal`) and ignored if registration's own has just scheduled the
  work, which that mode skips, or if the other driver has not registered. The
  calls that are blocked then wait for their timeout or the next screen-on; the comment at
  `core:1988` has the power-on start the calibration.
- The same, after a block timeout (a callback missing for 60 s): Bluetooth is on,
  the PREPARE of the later registration finds it on and leaves the status at
  NOT_INIT, and all power calls, Bluetooth's power-off too, block. The driver's
  comment (`bt/mt66xx/btif/btmtk_mt66xx.c:1612`) says that a power-on returns
  after the calibration.
- The same, mode SCREEN_ON_DISABLED: a screen-on that is queued before the
  registration schedules with caller SCREEN_ON, which the work skips to DONE: there is
  no calibration at all (`CalibratedFirst` without the mode).
- `log:982`: two readers of one log both commit the same bytes and the read
  index overtakes the write index (two `Readers`). `ring.h:19` says that it does
  not. The project's runs have one reader per log.
- `log:646`: with the cache full, data stays in the EMI ring until the next
  interrupt or alarm. `NoLostWakeup` excepts it; `AllRead` needs the alarm. Bytes
  in the cache when the mode changes to printing wait until it changes back.
- `log:1479`: `alarm_cancel` waits for a running handler while it holds the lock
  that the handler takes at `log:1409`.
- `stp:1367`: the acknowledgement is sent before the packet is enqueued. When the
  ring is full the packet is dropped though the peer lets go of it; the comment at
  `stp:1426` says "enqueue fail, don't send ack and wait for peer retry". TLC refutes that
  comment (no frame is sent in the step in which `rxOk` becomes false) in three
  states. `ImplementsStream` therefore speaks of arrival, and lets the receiver drop what has
  arrived. Once a ring was full `fgRxOk` is -1, in which state a lost acknowledgement is not
  repeated and the peer retries up to its limit.
- `stp:2199`: the parser goes to RESYNC1 on a damaged acknowledgement and leaves
  it by a resync pattern, which the peer sends only when it retransmits; the
  comment leaves the error to the timeout, which the peer may have no reason for.
- `btm_core.c:462`, `stp:660`: a retry for which there is no op, or that runs
  during a coredump, is dropped, and nothing starts the timer again.
- `que:5644`: a packet behind a second bubble waits for two timeouts. A timeout
  that was queued before its bubble was filled flushes a newer one early.
- `que:4490`: after a resume with packets still queued the window moves to the
  first packet that arrives. The old one at the head, released by a missed timeout,
  moves the window back, and a newer packet leaves before an older one (`InOrder`
  without its condition, with one slot, numbers modulo 16, window 2). Or the flush of
  the bubble, which by its comment lets go of everything before the end of the
  window, stops at the old one and leaves packets with neither bubble nor timer
  (`BubbleCovered` without its condition, two suspends).
- `stp:1347`: a packet that goes straight to bluez does not reset the failure count,
  which otherwise starts anew with each good packet: on that path odd packets add
  up over the life of the link until the firmware is asked to assert.
- `que:5877`: the flush of a deleted agreement can be overtaken by packets that
  no longer find one. If a flush's list entry cannot be allocated, the
  timeout or the slot is lost.

*Read, and not checked by a property.* `msg:268` (a timeout between two ops
finds `cur_op` NULL and follows it for its warning); `msg:511` (`deinit`
leaves queued ops, with a TODO); `core:490` (a callback message that cannot be
queued leaves the reset waiting); `core:841` (a result written through a pointer
to the caller's stack after the caller timed out); `conninfra.c:201` (a reset op that cannot
be queued leaves `rst_status` set); `log:1480` (disabling leaves `alarm_state`
at ENABLE and the next screen-on starts the alarm); `consys_hw.c:553` (the wake-up
count is not reset with the chip); the block-ack count, changed by two threads without
a lock.

## 4. What is proved

All theorems hold for every value of the constants that satisfies the named
assumptions (`MsgThreadAssumption`, `CoreAssumption`, `PreCalAssumption`,
`ConnsysLogAssumption`, `ConnlogAlarmAssumption`, `StpAssumption`,
`RxReorderAssumption`). Every safety property that a passing run checks is a
theorem, and so are the four refinements.

**`DataLemmas`.** What several proofs need of data. Induction over the naturals is
stated for a set (a set with 0 and, with n, n + 1 holds all of them: `Induction`),
and so are recursion and bounded loops (`Recursion`, `Loop`): the library's own
theorems take an operator, which the provers cannot instantiate. On them rest the
facts about remainders, powers of two and sums of bits. The loops of the code are
therefore recursive functions in the models, and what they compute is proved.

**`MsgThreadProofs`.** `TypeCorrect` needs nothing else. `FreeOpsUnused`, `NoOpLost`,
`RefCountExact` and `PutNeverFails` are not inductive: a put succeeds because the
op is not in the queue yet, which holds because exactly one party had it, which
holds because the last reference was really the last. `OpInv` says all of it at
once: the free queue and the active queue have no duplicates and are disjoint,
each op is free, owned by one party or referred to by the parties that
`ref_count` counts, and `timeoutValue` agrees with the kind of its caller. It is
preserved by every action (one lemma per action that moves an op, and one
for all that do not) under `UniformCalls`: all callers wait, or none does. The
assumption is needed, as `msg_mixed` shows. The theorems therefore also cover
contexts with fire-and-forget callers only, for which there is no run.
That a put succeeds uses that a queue without duplicates shorter than the set of
ops has room.

`RequestsInOrder` is the refinement `ServesInOrder`, by simulation: each step of
`MsgThread` is a step of `RequestQueue` or leaves it alone. The abstract queue is
the requests in the buffers of the active queue, so the simulation needs to know
that a buffer carries the request of the caller who filled it (`CarriesInv`) and
that a request is prepared by one caller at most and is then no longer free for
another (`CallsInv`). Both use `OpInv`: a buffer is not filled again while it is
queued, because it is not free.

`ResultsAreOwn` is `OwnResult`. Until the first timeout the op that the thread
serves is awaited by exactly one caller, who has not been woken; what is written
into it and signalled is the answer to that caller's request, and it stays
there until the caller has read it, because an op with a reader is not free.

`RingIsFifo` is the refinement `ImplementsFifo` of `OpQueue`, for counters of any
width and any smaller power of two of slots. The counters tell the length although
they wrap, because the number of their values is a multiple of the number of
slots; the elements lie at consecutive masked positions, which differ as long
as there are no more than slots.

**`ConninfraCoreProofs`.** For any number of drivers and callers and any calls,
`CoreInvariant` gives `OneReset`, `TypeOK` and `ResetBracketed`. `ResetInv` says
that each queued op has a caller that waits for it and
for no other (so a caller that posts a reset has no op in the queue), and that
the reset `rst_status` stands for is in one place: with the caller that asked for
it, in the queue of the thread "cb", or on that thread. `RoundInv` says where
each driver is in a round of callbacks: not called yet, its op queued, called, or
done; and that `rst_state` is the sum of the bits of those that are done. That sum
is defined by recursion over the drivers; that it never carries and is full only
when all have called back (`SumsAtMost`) is proved by induction. Hence the
round that ends with a full `rst_state` has told every driver.

`PowerExact`, `AccessPowered` and `GrantsKept` hold for any calls but "rst".
`PowerInv` tells, for each
place of the core thread, how far status and hardware are apart (`ChipInv`) and
who has been granted power (`GrantInv`), and that what the thread
found out before it had the lock stays true while it relies on it, since it
alone switches power (`SeenInv`). That is the reason these functions are right,
and it needs "no reset": with one the thread "cb" switches power too, and
`core:365`, `core:485` and `core:818` break the properties, as described above.

`PowerIsManaged` is the refinement `ImplementsManager`, for the same calls.
`PowerExact` speaks of the moments when nobody has `core_lock`; the refinement of
every step. The abstract chip is `hwOn`, the abstract drivers are those whose
`drv_inst` status is on, and the simulation follows from `PowerInv`: a driver is
marked after the chip has been switched on, unmarked before it is cut, the
chip is cut only if no mark is left, and the answer to the caller (`granted`) comes
before the core thread changes anything else. What it says at
every moment of the chip and the drivers, that no driver is marked on while the
chip is off, is `DriversAreServed`; that holds for calls with resets too, if
they have no power-off.

With resets, `PowerExactAcrossResets` and `AccessPoweredAcrossResets` are the same
properties for calls without a power-off, and for the second without the thermal
query and the power dump, which look at a status before the lock or without it.
The argument is another one: what a thread knows it knows because it holds
`core_lock` (`MutexInv`), so status and hardware are apart by what the holder has
still to write (`SharedInv`), whichever thread that is. The forced power-off finds
conninfra on, because it was when the reset began and nobody else turns it off
(`ForcedInv`); so it never takes the early return at `core:393`, and
`LockIsReleased` shows that the self-lock of `core_self_lock` needs a power-off.

**`PreCalProofs`.** `CalibrationIsIsolated` and `CalibrationIsFirst`, for any set
of other drivers, any modes and any number of screen changes. The property
"no power is taken" depends on who is in the core thread's queue at the moment
of scheduling and on everybody who may join it later. `CalInv` therefore says that each
queued op belongs to a sender that waits for it, at most one each (`QueueInv`);
at which point of the calibration each of the work item, the cb thread and the
status can be (`WorkInv`); that while a calibration is scheduled or running no call
is between the block and its answer unless one was there when it was
scheduled (`IsolationInv`); and that before the first calibration the block
keeps all calls out (`EarlyInv`).

**`StpProofs`.** `StpInv` is the types, `WindowExact` and `RetryArmed` together:
the acknowledgement search of `stp:1267` keeps the window exact only if it is
exact before, and the timer is armed by what the window says. The
arithmetic is in lemmas about the distance of two numbers modulo
`SeqSize`; the one fact everything needs is that the window leaves a number
unused, which `StpAssumption` states and the code's 7 of 8 satisfies. Any limits, number of
retries queued, faults and restarts are covered.

`StreamImplemented` is the refinement `ImplementsStream`: whatever is lost, damaged
or repeated on the way, in each direction every packet arrives once and in order, its
sender keeps it until then, and it is delivered or, by the receiver, dropped. That it is
delivered is not promised, and false (`stp:1367` above). `StreamInv` says of each
direction which packet each frame under way is. A data frame's number is that of
its packet relative to the one the receiver expects, and its packet is less than a
window older than what the receiver has (`DataWire`): hence an expected number is
the expected packet and no older one. That stays true when the receiver moves on
because retransmissions never put a packet behind one that is a window newer.
Acknowledgements name packets that have arrived since the last one the sender
took, and never step back (`AckWire`); the copies in `txbuf` are the packets of the
window (`Kept`).

`LossIsSurvived` is `LossSurvived` for one loss, at any moment and in either
direction, as long as every timeout finds the wires empty (else `upset` is set, as
it is by a full ring and a damaged header). There are two ways to an assert, and
each needs a count.

- *Odd packets at the receiver.* A wire loses frames at its head only, so within it
  nothing is missing (`Chain`). Until the loss the receiver expects what comes
  (`InStep`). After it, the odd packets are those up to the next resync pattern:
  the rest of the window behind the missing packet, or a window that is repeated
  without its pattern, or the one after the other; `Behind` says how many are still
  to come beside those counted, and that all are at most a window.
- *Retries at the sender.* A sender that has repeated its packets has two chances to
  be acknowledged (`Ways`: two copies of its next packet, two acknowledgements of
  it, or one of each), so one loss leaves one, and no timeout falls between the
  repetition and the acknowledgement. What can still reach the limit are
  retries that have been queued while the BTM thread was behind. Each takes
  a timeout on empty wires: without a loss there are none, the loss allows one
  for each packet that is out, and a restart, which leaves the timer and the queue
  alone, adds one (`Backlog`). Hence the hypothesis `Paced`: the window and the
  restarts together are within the limit, or the queue itself is. With the code's
  7 and 10 that is three restarts of the chip, whatever the queue
  (`STP_BTM_OP_BUF_SIZE` is 64). Beyond it the property is false, as the
  counterexample above shows with a window and a limit of 2.

`CalmInv` is the conjunction of both; it needs `StreamInv` for the numbers, and
`WinSize <= RetryLimit`.

**`RxReorderProofs`.** `SlotsAccounted` for any table and any traffic, from
`SlotInv`: a slot that is valid serves the pair or is in the list of the deleted, once
and not both. Renewing an agreement queues the old slot first, so it cannot be
the free one that is found.

`QueuesInOrder` and `BubblesAreCovered` are `InOrder` and `BubbleCovered` for any
table, number space, window and traffic within the sender's assumption. The code
compares wrapping numbers; the proof knows for each agreement the number that is not
reduced with which its window begins (`WindowAt`). A queue is sorted (`Order`), fits
the window, except that the second half of an aggregate may have been left behind
at its head (`Fit`), and is newer than what has left (`Passed`). `SenderAt` keeps
the sender close enough for the comparisons modulo `SeqSize` to be right, and says
when a repeated half of an aggregate is recognised. The loops that pop packets
are treated by induction over the packets that have left (`WithinLoop`,
`AheadLoop`): they release a prefix, move the window to just behind it and stop at
a packet that is not the next, which is then noted as a bubble. So `CoverInv`
follows: a queue that is not empty has a bubble, and a bubble has its timer or a
flush to come. All of it is claimed until `torn` (`RxInv`), and slots for ever.

**`ConnsysLogProofs`.** `DataIsNotForgotten` is `NoLostWakeup` for rings of any
size and any readers. `WakeInv` says at each place of a run of the work item why
data it has not claimed will be looked at: the interrupt, the queued work or a
full cache; `ClaimInv` keeps its claim within the ring.
`NothingIsLost` and `LogIsInOrder` hold for rings of any size and one reader
(`OneReader`; with two they fail, see `log:982` above). `LogInv` adds that the
work item never claims more than the cache has room for (`RoomInv`), though the
reader moves the other index meanwhile; that the reader's piece lies in the cache
(`ReadInv`); and `DataInv`, which says what the rings contain: the EMI ring the
bytes after `Gone`, and what was read followed by what the cache still holds is,
with what was printed, bytes 1 to `Done` in order (`EmiHolds`, `CacheHolds`).
`Done` also counts the bytes that are in the cache or printed already while the EMI
ring still holds them, the ones that a commit in the wrong order would lose or
repeat. One lemma per step that moves
data shows what it does to a ring; under them are lemmas about indexes that wrap
at a multiple of the ring's size.

**`ConnlogAlarmProofs`.** The types and the three properties of `alarm_safe` follow from
`AlarmInv`, which extends them into the critical section: with the screen off,
either the timer is quiet or a cancel is on its way; a cancel always has its
reason (screen off or alarm not wanted), because the lock excludes other callers.

**Only model-checked.** Liveness, which is out of the prover's reach, as is whatever
needs ENABLED: `EveryCallReturns`, `ResetEnds`, `CallsReturn`, `BlockEnds`, `AllRead`,
`Progress`, `EveryPacketReleased`. Of `LossSurvived`, more than one loss.
`GrantsKept` and the thermal query across resets are false and described above.

## 5. Not modelled, and why

The models cover a small part of the repository's lines, for two reasons. Most
of it is not code of this kind: the two GPU drivers are vendored, and the headers
of register addresses under `wlan/core/gen4m/include/chips` and the conninfra platform
code are generated. Most of the rest is the WLAN driver, whose logic is wide rather than
concurrent: command handlers, scanning, station management and per-chip variants,
one of which is modelled where its threads and wrapping numbers meet.

- Coredump: copies memory out; its states follow the firmware.
- The connv3 core: the same design as `ConninfraCore`; a second module would repeat it.
- The wake-up count, clocks, EMI and bus settings of the hardware layer.
- Initialisation and removal of modules, which have one thread.
- WMT, the power-saving core and the other operations of BTM; the mandatory and
  SDIO modes of STP, its in-band reset, and the firmware messages it carries.
- GPS links, BT and FM: clients of the parts above.
- A whole-chip reset during a calibration: each is checked alone.

## 6. Plan

*Done*, in this order: `MsgThread`, `RequestQueue`; `OpQueue`, `BoundedFifo`;
`ConninfraCore`; `ConnsysLog`, `ConnlogAlarm`; `Stp`, `ReliableStream`;
`RxReorder`; `PreCal`; the proofs of `MsgThread`, `ConnlogAlarm`, `Stp`, `PreCal`,
of the reorder table, of `ConninfraCore` without resets, that `MsgThread` implements
`RequestQueue`, and of `ConnsysLog`; then `ResetBracketed` and all types of
`ConninfraCore`, that `Stp` implements `ReliableStream` and `OpQueue` `BoundedFifo`,
`OwnResult`, the queues and bubbles of `RxReorder`, and power across resets; that
`Stp` survives a loss; and that `ConninfraCore` without resets implements
`PowerManager`.

Theorems worth proving next: `GrantsKept` across resets for drivers that
do not call while one is under way.

Modules worth adding: the power-saving core that STP calls when it has sent or
received (`psm_core.c`), the per-link states of the GPS data link, the wake-up
count, and a reset during a calibration, which takes `PreCal` and `ConninfraCore`
together.
