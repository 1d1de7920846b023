---------------------------- MODULE PreCalProofs ----------------------------
(***************************************************************************)
(* What is proved of pre-calibration for any set of other drivers, any     *)
(* choice of modes and any number of screen changes: it is isolated from   *)
(* the radios' own power calls, and comes before them at boot.             *)
(***************************************************************************)
EXTENDS PreCal, SequenceTheorems, TLAPS

Senders == Drivers \cup {"cb", None}
Ops == [op : {"on", "off", "clean", "backup", "prepare", "check"},
        what : Drivers \cup {"register", "pwrOn", "screenOn", None}, by : Senders]

Types ==
  /\ q \in Seq(Ops)
  /\ status \in {"notInit", "needReschedule", "scheduled", "executing", "done"}
  /\ pc \in [Drivers -> {"idle", "block", "mark", "send", "wait"}]
  /\ want \in [Drivers -> {"on", "off"}]
  /\ granted \subseteq Drivers
  /\ {overtaken, attempted, timedOut} \subseteq BOOLEAN

\* The places at which cb waits for the core thread, unless it has its answer.
Asking == {"clean", "onBt", "onWifi", "undo", "offBt", "offWifi", "backup"}

\* Who sent an op that is still in the queue is waiting for it.
Waited(o, p, c, a) ==
  \/ o.by \in Drivers /\ o.op \in {"on", "off"} /\ o.what = o.by /\ p[o.by] = "wait"
  \/ /\ o.by = "cb" /\ c \in Asking /\ a = None
     /\ o.op \in {"clean", "backup"} \/ (o.op \in {"on", "off"} /\ o.what \in CalDrivers)
  \/ o.by = None /\ o.op \in {"prepare", "check"}

QueueInv ==
  /\ \A i \in 1..Len(q) : Waited(q[i], pc, cbPc, answer)
  /\ \A i, j \in 1..Len(q) : q[i].by = q[j].by /\ q[i].by # None => i = j

\* Where the work item, the thread cb and the status have to agree.
WorkInv ==
  /\ Locked <=> status = "executing"
  /\ mode = "allDisabled" => status # "executing"
  /\ status \in {"scheduled", "executing"} => CalDrivers \subseteq registered

\* From the moment a calibration is scheduled no radio is past the block or
\* has been granted power.
IsolationInv ==
  ~overtaken =>
    /\ granted \subseteq on
    /\ status \in {"scheduled", "executing"} /\ mode # "allDisabled" =>
         \A d \in CalDrivers : d \notin granted /\ pc[d] \notin {"send", "wait"}

\* Before the first calibration is over nobody has got past the block.
EarlyInv ==
  mode \in {"allEnabled", "pwrOnDisabled"} /\ ~timedOut /\ ~attempted =>
    /\ status \in {"notInit", "scheduled", "executing"}
    /\ granted = {}
    /\ \A d \in Drivers : pc[d] \in {"idle", "block", "mark"}

CalInv == Types /\ QueueInv /\ WorkInv /\ IsolationInv /\ EarlyInv

-----------------------------------------------------------------------------
(* The queue.                                                               *)

\* A new op at the end keeps the order and the ops before it.
LEMMA Appended ==
  ASSUME Types, NEW o \in Ops, q' = Append(q, o)
  PROVE  /\ q' \in Seq(Ops) /\ Len(q') = Len(q) + 1 /\ Len(q) \in Nat
         /\ \A i \in 1..Len(q) : q'[i] = q[i]
         /\ q'[Len(q) + 1] = o
BY AppendProperties DEF Types

\* Taking the head moves the others up by one.
LEMMA Taken ==
  ASSUME Types, q # << >>, q' = Tail(q)
  PROVE  /\ Head(q) = q[1] /\ Head(q) \in Ops /\ 1 \in 1..Len(q)
         /\ q' \in Seq(Ops) /\ Len(q') = Len(q) - 1 /\ Len(q) \in Nat
         /\ \A i \in 1..Len(q') : q'[i] = q[i + 1] /\ i + 1 \in 1..Len(q)
BY HeadTailProperties DEF Types

\* An op that nobody else's wait depends on may be added by one who has none in
\* the queue.
LEMMA QueueGrows ==
  ASSUME Types, QueueInv, NEW o \in Ops, q' = Append(q, o), Waited(o, pc', cbPc', answer'),
         \A i \in 1..Len(q) : Waited(q[i], pc, cbPc, answer) => Waited(q[i], pc', cbPc', answer'),
         \A i \in 1..Len(q) : o.by # None => q[i].by # o.by
  PROVE  QueueInv'
<1>1. \A i \in 1..Len(q') : i \in 1..Len(q) \/ i = Len(q) + 1
  BY Appended
<1>2. \A i \in 1..Len(q) : q'[i] = q[i] /\ Waited(q'[i], pc', cbPc', answer')
  BY Appended DEF QueueInv
<1>3. \A i \in 1..Len(q') : Waited(q'[i], pc', cbPc', answer')
  BY <1>1, <1>2, Appended
<1>4. \A i, j \in 1..Len(q') : q'[i].by = q'[j].by /\ q'[i].by # None => i = j
  BY <1>1, <1>2, Appended DEF QueueInv
<1> QED  BY <1>3, <1>4 DEF QueueInv

\* The op at the head goes; those whose senders are others stay waited for.
LEMMA QueueShrinks ==
  ASSUME Types, QueueInv, q # << >>, q' = Tail(q),
         \A i \in 1..Len(q) :
           Waited(q[i], pc, cbPc, answer) /\ (q[i].by # Head(q).by \/ q[i].by = None) => Waited(q[i], pc', cbPc', answer')
  PROVE  QueueInv'
<1>1. \A i \in 1..Len(q') : /\ q'[i] = q[i + 1] /\ i + 1 \in 1..Len(q) /\ i + 1 # 1
                            /\ q[i + 1].by # Head(q).by \/ q[i + 1].by = None
  BY Taken DEF QueueInv
<1>2. \A i \in 1..Len(q') : Waited(q'[i], pc', cbPc', answer')
  BY <1>1, Taken DEF QueueInv
<1>3. \A i, j \in 1..Len(q') : q'[i].by = q'[j].by /\ q'[i].by # None => i = j
  BY <1>1, Taken DEF QueueInv
<1> QED  BY <1>2, <1>3 DEF QueueInv

\* An unchanged queue, and every sender still waits.
LEMMA QueueStays ==
  ASSUME QueueInv, q' = q, \A i \in 1..Len(q) : Waited(q[i], pc, cbPc, answer) => Waited(q[i], pc', cbPc', answer')
  PROVE  QueueInv'
BY DEF QueueInv
-----------------------------------------------------------------------------
(* Initially nothing is queued and nobody is granted anything.              *)
LEMMA CalInit == Init => CalInv
<1> SUFFICES ASSUME Init PROVE CalInv
  OBVIOUS
<1>1. q \in Seq(Ops) /\ Len(q) = 0
  BY DEF Init
<1>2. Types
  BY <1>1 DEF Init, Types
<1>3. QueueInv
  BY <1>1 DEF QueueInv
<1>4. WorkInv /\ IsolationInv /\ EarlyInv
  BY DEF Init, WorkInv, IsolationInv, EarlyInv, Locked
<1> QED  BY <1>2, <1>3, <1>4 DEF CalInv

(* A step that changes nothing keeps the invariant.                         *)
LEMMA CalStutter == CalInv /\ UNCHANGED vars => CalInv'
BY DEF CalInv, Types, QueueInv, WorkInv, IsolationInv, EarlyInv, Locked, vars,
       calVars, cbVars, callVars, history

-----------------------------------------------------------------------------
(* The drivers' power calls.                                                *)

\* A call that is not waiting yet has nothing in the queue.
LEMMA CallerMoves ==
  ASSUME CalInv, NEW d \in Drivers, NEW p, pc' = [pc EXCEPT ![d] = p], pc[d] # "wait",
         UNCHANGED cbVars
  PROVE  \A i \in 1..Len(q) : /\ Waited(q[i], pc, cbPc, answer) =>
                                   Waited(q[i], pc', cbPc', answer')
                              /\ q[i].by # d
<1>1. \A i \in 1..Len(q) : Waited(q[i], pc, cbPc, answer)
  BY DEF CalInv, QueueInv
<1>2. pc \in [Drivers -> {"idle", "block", "mark", "send", "wait"}]
  BY DEF CalInv, Types
<1>3. d # "cb" /\ d # None
  BY PreCalAssumption DEF Drivers, CalDrivers
<1> QED  BY <1>1, <1>2, <1>3 DEF Waited, cbVars

LEMMA CallStays ==
  ASSUME CalInv, NEW d \in Drivers, Call(d)
  PROVE  CalInv'
<1>1. QueueInv'
  BY CallerMoves, QueueStays DEF Call, CalInv
<1>2. Types' /\ WorkInv'
  BY DEF CalInv, Types, WorkInv, Locked, Call, calVars, cbVars, history
<1>3. IsolationInv' /\ EarlyInv'
  BY DEF CalInv, Types, IsolationInv, EarlyInv, Call, calVars, cbVars, history
<1> QED  BY <1>1, <1>2, <1>3 DEF CalInv

LEMMA TriggerStays ==
  ASSUME CalInv, NEW d \in Drivers, Trigger(d)
  PROVE  CalInv'
<1> DEFINE o == Op("prepare", "pwrOn", None)
<1>1. o \in Ops /\ o.by = None /\ Waited(o, pc', cbPc', answer')
  BY DEF Op, Ops, Senders, Waited
<1>2. QueueInv'
  BY <1>1, CallerMoves, QueueGrows DEF Trigger, CalInv
<1>3. Types' /\ WorkInv'
  BY <1>1, Appended DEF CalInv, Types, WorkInv, Locked, Trigger, calVars, cbVars, history
<1>4. IsolationInv' /\ EarlyInv'
  BY DEF CalInv, Types, IsolationInv, EarlyInv, Trigger, calVars, cbVars, history
<1> QED  BY <1>2, <1>3, <1>4 DEF CalInv

LEMMA MarkStays ==
  ASSUME CalInv, NEW d \in Drivers, Mark(d)
  PROVE  CalInv'
<1>1. QueueInv'
  BY CallerMoves, QueueStays DEF Mark, CalInv
<1>2. Types' /\ WorkInv'
  BY DEF CalInv, Types, WorkInv, Locked, Mark, calVars, cbVars, history
<1>3. IsolationInv' /\ EarlyInv'
  BY DEF CalInv, Types, IsolationInv, EarlyInv, Mark, calVars, cbVars, history
<1> QED  BY <1>1, <1>2, <1>3 DEF CalInv

\* The block lets nobody pass while a calibration is scheduled or running, nor
\* before the first.
LEMMA PassStays ==
  ASSUME CalInv, NEW d \in Drivers, Pass(d)
  PROVE  CalInv'
<1>1. QueueInv'
  BY CallerMoves, QueueStays DEF Pass, CalInv
<1>2. Types' /\ WorkInv'
  BY DEF CalInv, Types, WorkInv, Locked, Pass, calVars, cbVars, history
<1>3. status \notin {"notInit", "scheduled", "executing"}
  BY DEF CalInv, WorkInv, Pass, Blocking
<1>4. IsolationInv' /\ EarlyInv'
  BY <1>3 DEF CalInv, Types, IsolationInv, EarlyInv, Pass, calVars, cbVars, history
<1> QED  BY <1>1, <1>2, <1>4 DEF CalInv

LEMMA BlockTimeoutStays ==
  ASSUME CalInv, NEW d \in Drivers, BlockTimeout(d)
  PROVE  CalInv'
<1>1. QueueInv'
  BY CallerMoves, QueueStays DEF BlockTimeout, CalInv
<1>2. Types' /\ WorkInv'
  BY DEF CalInv, Types, WorkInv, Locked, BlockTimeout, calVars, cbVars
<1>3. status \notin {"scheduled", "executing"}
  BY DEF CalInv, WorkInv, BlockTimeout
<1>4. IsolationInv' /\ EarlyInv'
  BY <1>3 DEF CalInv, Types, IsolationInv, EarlyInv, BlockTimeout, calVars, cbVars
<1> QED  BY <1>1, <1>2, <1>4 DEF CalInv

LEMMA SendStays ==
  ASSUME CalInv, NEW d \in Drivers, Send(d)
  PROVE  CalInv'
<1> DEFINE o == Op(want[d], d, d)
<1>1. o \in Ops /\ o.by = d /\ Waited(o, pc', cbPc', answer')
  BY DEF Op, Ops, Senders, Waited, Send, CalInv, Types
<1>2. QueueInv'
  BY <1>1, CallerMoves, QueueGrows DEF Send, CalInv
<1>3. Types' /\ WorkInv'
  BY <1>1, Appended DEF CalInv, Types, WorkInv, Locked, Send, calVars, cbVars, history
<1>4. IsolationInv' /\ EarlyInv'
  BY DEF CalInv, Types, IsolationInv, EarlyInv, Send, calVars, cbVars, history
<1> QED  BY <1>2, <1>3, <1>4 DEF CalInv
-----------------------------------------------------------------------------
(* Registration and the screen send ops that nobody waits for.              *)
LEMMA NoticeStays ==
  ASSUME CalInv, NEW o \in Ops, o.by = None, o.op \in {"prepare", "check"},
         q' = Append(q, o), registered \subseteq registered',
         UNCHANGED <<calVars, on, cbVars, callVars, history>>
  PROVE  CalInv'
<1>1. /\ Waited(o, pc', cbPc', answer')
      /\ \A i \in 1..Len(q) : Waited(q[i], pc, cbPc, answer) =>
                                Waited(q[i], pc', cbPc', answer')
  BY DEF Waited, callVars, cbVars
<1>2. QueueInv'
  BY <1>1, QueueGrows DEF CalInv
<1>3. Types' /\ WorkInv'
  BY Appended DEF CalInv, Types, WorkInv, Locked, calVars, cbVars, callVars, history
<1>4. IsolationInv' /\ EarlyInv'
  BY DEF CalInv, IsolationInv, EarlyInv, calVars, callVars, history
<1> QED  BY <1>2, <1>3, <1>4 DEF CalInv

LEMMA RegisterStays ==
  ASSUME CalInv, NEW d \in CalDrivers, Register(d)
  PROVE  CalInv'
<1> DEFINE o == Op("prepare", "register", None)
<1>1. o \in Ops /\ o.by = None /\ o.op = "prepare"
  BY DEF Op, Ops, Senders
<1>2. CASE q' = Append(q, o)
  BY <1>1, <1>2, NoticeStays DEF Register
<1>3. CASE q' = q
  <2>1. QueueInv'
    BY <1>3, QueueStays DEF CalInv, Register, cbVars, callVars
  <2>2. Types' /\ WorkInv'
    BY <1>3 DEF CalInv, Types, WorkInv, Locked, Register, calVars, cbVars, callVars, history
  <2>3. IsolationInv' /\ EarlyInv'
    BY DEF CalInv, IsolationInv, EarlyInv, Register, calVars, callVars, history
  <2> QED  BY <2>1, <2>2, <2>3 DEF CalInv
<1> QED  BY <1>2, <1>3 DEF Register

LEMMA ScreenStays == CalInv /\ (ScreenOn \/ ScreenOff) => CalInv'
<1> DEFINE p == Op("prepare", "screenOn", None)
           c == Op("check", None, None)
<1>1. /\ p \in Ops /\ p.by = None /\ p.op = "prepare"
      /\ c \in Ops /\ c.by = None /\ c.op = "check"
  BY DEF Op, Ops, Senders
<1>2. ASSUME CalInv, ScreenOn PROVE CalInv'
  BY <1>1, <1>2, NoticeStays DEF ScreenOn
<1>3. ASSUME CalInv, ScreenOff PROVE CalInv'
  BY <1>1, <1>3, NoticeStays DEF ScreenOff
<1> QED  BY <1>2, <1>3

-----------------------------------------------------------------------------
(* The core thread.                                                         *)

\* Whom the op at the head belongs to, and what that says of the sender.
LEMMA HeadWaited ==
  ASSUME CalInv, q # << >>
  PROVE  /\ Head(q) \in Ops /\ Waited(Head(q), pc, cbPc, answer)
         /\ Head(q).by \in Drivers => pc[Head(q).by] = "wait" /\ Head(q).what = Head(q).by
         /\ Head(q).by \notin Drivers /\ Head(q).by # None => cbPc \in Asking
<1>1. Head(q) \in Ops /\ Waited(Head(q), pc, cbPc, answer)
  <2>1. /\ Head(q) = q[1] /\ Head(q) \in Ops /\ 1 \in 1..Len(q)
    BY HeadTailProperties DEF CalInv, Types
  <2> QED  BY <2>1 DEF CalInv, QueueInv
<1>2. "cb" \notin Drivers /\ None \notin Drivers
  BY PreCalAssumption DEF Drivers, CalDrivers
<1> QED  BY <1>1, <1>2 DEF Waited

\* An answer goes to the sender of the head, whose op leaves the queue.
LEMMA AnswerQueue ==
  ASSUME CalInv, q # << >>, q' = Tail(q), NEW ok \in BOOLEAN, Answer(ok),
         Head(q).by # None, UNCHANGED <<cbPc, want>>
  PROVE  /\ QueueInv'
         /\ pc' \in [Drivers -> {"idle", "block", "mark", "send", "wait"}]
         /\ granted' \subseteq Drivers /\ q' \in Seq(Ops)
<1> DEFINE o == Head(q)
<1>1. pc \in [Drivers -> {"idle", "block", "mark", "send", "wait"}] /\ granted \subseteq Drivers
  BY DEF CalInv, Types
<1>2. \A i \in 1..Len(q) :
        Waited(q[i], pc, cbPc, answer) /\ (q[i].by # o.by \/ q[i].by = None)
          => Waited(q[i], pc', cbPc', answer')
  <2>1. CASE o.by \in Drivers
    BY <1>1, <2>1 DEF Answer, Waited
  <2>2. CASE o.by \notin Drivers
    <3>1. o.by = "cb"
      BY <2>2, HeadWaited DEF Waited
    <3> QED  BY <2>2, <3>1, PreCalAssumption DEF Answer, Waited, Drivers, CalDrivers
  <2> QED  BY <2>1, <2>2
<1>3. QueueInv'
  BY <1>2, QueueShrinks DEF CalInv
<1> QED  BY <1>1, <1>3, Taken DEF Answer, CalInv

\* Power goes on for the sender of the op or, while it calibrates, for cb.
LEMMA CoreOnStays == CalInv /\ CoreOn => CalInv'
<1> SUFFICES ASSUME CalInv, CoreOn PROVE CalInv'
  OBVIOUS
<1>1. q # << >> /\ q' = Tail(q) /\ Head(q).op = "on"
  BY DEF CoreOn, Serving
<1>2. Head(q).by # None
  BY <1>1, HeadWaited, PreCalAssumption DEF Waited, Drivers, CalDrivers
<1>3. PICK ok \in BOOLEAN : Answer(ok)
  BY DEF CoreOn
<1>4. QueueInv' /\ Types'
  BY <1>1, <1>2, <1>3, AnswerQueue DEF CoreOn, calVars, CalInv, Types
<1>5. WorkInv'
  BY DEF CoreOn, CalInv, WorkInv, Locked, calVars
<1>6. IsolationInv'
  <2>1. CASE Head(q).by \in Drivers
    <3> DEFINE d == Head(q).by
    <3>1. /\ pc[d] = "wait" /\ pc' = [pc EXCEPT ![d] = "idle"]
          /\ granted' \subseteq granted \cup {d} /\ (granted' \subseteq granted \/ on' = on \cup {d})
          /\ on \subseteq on'
      BY <1>1, <2>1, HeadWaited DEF CoreOn, Answer
    <3>2. pc \in [Drivers -> {"idle", "block", "mark", "send", "wait"}]
      BY DEF CalInv, Types
    <3>3. UNCHANGED <<overtaken, status, mode>>
      BY DEF CoreOn, calVars
    <3>4. ~overtaken => granted' \subseteq on'
      BY <3>1 DEF CalInv, IsolationInv
    <3>5. ASSUME ~overtaken, status \in {"scheduled", "executing"}, mode # "allDisabled",
                 NEW e \in CalDrivers
          PROVE  e \notin granted' /\ pc'[e] \notin {"send", "wait"}
      <4>1. e \in Drivers /\ e \notin granted /\ pc[e] \notin {"send", "wait"}
        BY <3>5 DEF CalInv, IsolationInv, Drivers
      <4> QED  BY <4>1, <2>1, <3>1, <3>2
    <3> QED  BY <3>3, <3>4, <3>5 DEF IsolationInv
  <2>2. CASE Head(q).by \notin Drivers
    BY <1>3, <2>2 DEF CoreOn, Answer, CalInv, IsolationInv, calVars
  <2> QED  BY <2>1, <2>2
<1>7. EarlyInv'
  BY <1>1, <1>3, HeadWaited DEF CoreOn, Answer, CalInv, Types, EarlyInv, calVars
<1> QED  BY <1>4, <1>5, <1>6, <1>7 DEF CalInv

\* Power goes off for the sender, or for a radio that cb calibrates: that one
\* has not been granted any.
LEMMA CoreOffStays == CalInv /\ CoreOff => CalInv'
<1> SUFFICES ASSUME CalInv, CoreOff PROVE CalInv'
  OBVIOUS
<1>1. q # << >> /\ q' = Tail(q) /\ Head(q).op = "off" /\ Answer(TRUE)
  BY DEF CoreOff, Serving
<1>2. Head(q).by # None
  BY <1>1, HeadWaited, PreCalAssumption DEF Waited, Drivers, CalDrivers
<1>3. QueueInv' /\ Types'
  BY <1>1, <1>2, AnswerQueue DEF CoreOff, calVars, CalInv, Types
<1>4. WorkInv'
  BY DEF CoreOff, CalInv, WorkInv, Locked, calVars
<1>5. IsolationInv'
  <2>1. CASE Head(q).by \in Drivers
    <3> DEFINE d == Head(q).by
    <3>1. /\ pc' = [pc EXCEPT ![d] = "idle"] /\ granted' = granted \ {d} /\ on' = on \ {d}
      BY <1>1, <2>1, HeadWaited DEF CoreOff, Answer
    <3>2. pc \in [Drivers -> {"idle", "block", "mark", "send", "wait"}] /\ CalDrivers \subseteq Drivers
      BY DEF CalInv, Types, Drivers
    <3>3. UNCHANGED <<overtaken, status, mode>>
      BY DEF CoreOff, calVars
    <3> QED  BY <2>1, <3>1, <3>2, <3>3 DEF CalInv, IsolationInv
  <2>2. CASE Head(q).by \notin Drivers
    <3>1. Head(q).what \in CalDrivers /\ Locked
      BY <1>1, <1>2, <2>2, HeadWaited DEF Waited, Locked, Asking
    <3>2. status = "executing" /\ mode # "allDisabled"
      BY <3>1 DEF CalInv, WorkInv
    <3> QED  BY <1>1, <2>2, <3>1, <3>2 DEF CoreOff, Answer, CalInv, IsolationInv, calVars
  <2> QED  BY <2>1, <2>2
<1>6. EarlyInv'
  BY <1>1, HeadWaited DEF CoreOff, Answer, CalInv, Types, EarlyInv, calVars
<1> QED  BY <1>3, <1>4, <1>5, <1>6 DEF CalInv

LEMMA CoreDataStays == CalInv /\ CoreData => CalInv'
<1> SUFFICES ASSUME CalInv, CoreData PROVE CalInv'
  OBVIOUS
<1>1. q # << >> /\ q' = Tail(q) /\ Head(q).op \in {"clean", "backup"} /\ Answer(TRUE)
  BY DEF CoreData, Serving
<1>2. Head(q).by # None /\ Head(q).by \notin Drivers
  BY <1>1, HeadWaited, PreCalAssumption DEF Waited, Drivers, CalDrivers
<1>3. QueueInv' /\ Types'
  BY <1>1, <1>2, AnswerQueue DEF CoreData, calVars, CalInv, Types
<1>4. WorkInv' /\ IsolationInv' /\ EarlyInv'
  BY <1>1, <1>2 DEF CoreData, Answer, CalInv, WorkInv, Locked, IsolationInv, EarlyInv, calVars
<1> QED  BY <1>3, <1>4 DEF CalInv
\* An op that nobody waits for leaves the queue.
LEMMA NoticeTaken ==
  ASSUME CalInv, q # << >>, q' = Tail(q), Head(q).op \in {"prepare", "check"},
         UNCHANGED <<cbVars, pc>>
  PROVE  QueueInv' /\ q' \in Seq(Ops)
<1>1. Head(q).by = None
  BY HeadWaited DEF Waited
<1>2. \A i \in 1..Len(q) : Waited(q[i], pc, cbPc, answer) => Waited(q[i], pc', cbPc', answer')
  BY DEF Waited, cbVars
<1> QED  BY <1>2, Taken, QueueShrinks DEF CalInv

\* A calibration is scheduled: both radios are off, so that neither has been
\* granted power, and if a call is past the block that is remembered.
LEMMA PrepareStays == CalInv /\ Prepare => CalInv'
<1> SUFFICES ASSUME CalInv, Prepare PROVE CalInv'
  OBVIOUS
<1>1. QueueInv' /\ q' \in Seq(Ops)
  BY NoticeTaken DEF Prepare, Serving, callVars
<1> DEFINE Schedules == /\ CalDrivers \subseteq registered
                        /\ status \in {"notInit", "needReschedule"} /\ RadiosOff
<1>2. CASE Schedules
  <2>1. /\ status' = "scheduled" /\ overtaken' = (overtaken \/ PastBlock # {})
        /\ UNCHANGED <<mode, registered, on, cbVars, callVars, screens, granted, attempted, timedOut>>
    BY <1>2 DEF Prepare
  <2>2. Types' /\ EarlyInv' /\ WorkInv'
    BY <1>1, <1>2, <2>1 DEF CalInv, Types, EarlyInv, WorkInv, Locked, cbVars, callVars
  <2>3. ASSUME ~overtaken'
        PROVE  /\ granted \subseteq on
               /\ \A d \in CalDrivers : d \notin granted /\ pc[d] \notin {"send", "wait"}
    <3>1. ~overtaken /\ PastBlock = {}
      BY <2>1, <2>3 DEF CalInv, Types
    <3>2. granted \subseteq on
      BY <3>1 DEF CalInv, IsolationInv
    <3> QED  BY <1>2, <3>1, <3>2 DEF PastBlock, RadiosOff
  <2>4. IsolationInv'
    BY <2>1, <2>3 DEF IsolationInv, callVars
  <2> QED  BY <1>1, <2>2, <2>4 DEF CalInv
<1>3. CASE ~Schedules
  <2>1. UNCHANGED <<calVars, registered, on, cbVars, callVars, history>>
    BY <1>3 DEF Prepare, calVars, history
  <2>2. Types' /\ EarlyInv' /\ WorkInv' /\ IsolationInv'
    BY <1>1, <2>1 DEF CalInv, Types, EarlyInv, WorkInv, IsolationInv, Locked,
                      calVars, cbVars, callVars, history
  <2> QED  BY <1>1, <2>2 DEF CalInv
<1> QED  BY <1>2, <1>3

LEMMA GiveUpStays == CalInv /\ PrepareGiveUp => CalInv'
<1> SUFFICES ASSUME CalInv, PrepareGiveUp PROVE CalInv'
  OBVIOUS
<1>1. QueueInv' /\ q' \in Seq(Ops)
  BY NoticeTaken DEF PrepareGiveUp, Serving, callVars
<1>2. Types' /\ EarlyInv' /\ WorkInv' /\ IsolationInv'
  BY <1>1 DEF PrepareGiveUp, CalInv, Types, EarlyInv, WorkInv, IsolationInv, Locked,
              calVars, cbVars, callVars, history
<1> QED  BY <1>1, <1>2 DEF CalInv

LEMMA CheckStays == CalInv /\ Check => CalInv'
<1> SUFFICES ASSUME CalInv, Check PROVE CalInv'
  OBVIOUS
<1>1. QueueInv' /\ q' \in Seq(Ops)
  BY NoticeTaken DEF Check, Serving, callVars
<1>2. status' = status \/ (status = "done" /\ status' = "needReschedule")
  BY DEF Check
<1>3. UNCHANGED <<mode, caller, registered, on, cbVars, callVars, history>>
  BY DEF Check
<1>4. Types' /\ EarlyInv' /\ WorkInv' /\ IsolationInv'
  BY <1>1, <1>2, <1>3 DEF CalInv, Types, EarlyInv, WorkInv, IsolationInv, Locked,
                          cbVars, callVars, history
<1> QED  BY <1>1, <1>4 DEF CalInv

-----------------------------------------------------------------------------
(* The work item.                                                           *)
LEMMA WorkStartStays == CalInv /\ WorkStart => CalInv'
<1> SUFFICES ASSUME CalInv, WorkStart PROVE CalInv'
  OBVIOUS
<1>1. /\ status = "scheduled" /\ cbPc = "idle"
      /\ \/ status' = "executing" /\ cbPc' = "check" /\ mode # "allDisabled"
         \/ status' = "notInit" /\ cbPc' = "idle"
         \/ /\ status' = "done" /\ cbPc' = "idle"
            /\ mode \notin {"allEnabled", "pwrOnDisabled"}
  <2>1. \/ StartStatus = "executing" /\ mode # "allDisabled"
        \/ StartStatus = "notInit"
        \/ StartStatus = "done" /\ mode \notin {"allEnabled", "pwrOnDisabled"}
    BY DEF StartStatus
  <2>2. /\ status = "scheduled" /\ cbPc = "idle" /\ status' = StartStatus
        /\ cbPc' = IF StartStatus = "executing" THEN "check" ELSE "idle"
    BY DEF WorkStart, Locked
  <2> QED  BY <2>1, <2>2
<1>2. UNCHANGED <<mode, registered, q, on, answer, callVars, history>>
  BY DEF WorkStart
<1>3. QueueInv'
  <2>1. \A i \in 1..Len(q) : Waited(q[i], pc, cbPc, answer) => Waited(q[i], pc', cbPc', answer')
    BY <1>1, <1>2 DEF Waited, Asking, callVars
  <2> QED  BY <1>2, <2>1, QueueStays DEF CalInv
<1>4. Types' /\ WorkInv' /\ IsolationInv' /\ EarlyInv'
  BY <1>1, <1>2 DEF CalInv, Types, WorkInv, IsolationInv, EarlyInv, Locked, callVars, history
<1> QED  BY <1>3, <1>4 DEF CalInv

LEMMA WorkEndStays == CalInv /\ WorkEnd => CalInv'
<1> SUFFICES ASSUME CalInv, WorkEnd PROVE CalInv'
  OBVIOUS
<1>1. UNCHANGED <<mode, registered, q, on, answer, callVars, granted, overtaken, timedOut>>
  BY DEF WorkEnd
<1>2. QueueInv'
  <2>1. \A i \in 1..Len(q) : Waited(q[i], pc, cbPc, answer) => Waited(q[i], pc', cbPc', answer')
    BY <1>1 DEF WorkEnd, Waited, Asking, callVars
  <2> QED  BY <1>1, <2>1, QueueStays DEF CalInv
<1>3. Types' /\ WorkInv' /\ IsolationInv' /\ EarlyInv'
  BY <1>1 DEF WorkEnd, CalInv, Types, WorkInv, IsolationInv, EarlyInv, Locked, callVars
<1> QED  BY <1>2, <1>3 DEF CalInv

-----------------------------------------------------------------------------
(* The thread cb.                                                           *)

\* cb goes on from a place where it has no op in the queue, to a place of
\* opfunc_pre_cal or to one where it has asked.
LEMMA CbMoves ==
  ASSUME CalInv, CbFrame, Locked, cbPc \notin Asking \/ answer # None,
         NEW next, next # "idle",
         \/ CbGo(next)
         \/ /\ next \in Asking
            /\ \/ \E op \in {"clean", "backup"} : CbAsk(op, None, next)
               \/ \E op \in {"on", "off"}, d \in CalDrivers : CbAsk(op, d, next)
  PROVE  CalInv'
<1>1. \A i \in 1..Len(q) : /\ q[i].by # "cb"
                           /\ Waited(q[i], pc, cbPc, answer) => Waited(q[i], pc', cbPc', answer')
  <2>1. \A i \in 1..Len(q) : Waited(q[i], pc, cbPc, answer)
    BY DEF CalInv, QueueInv
  <2>2. "cb" # None /\ "cb" \notin Drivers
    BY PreCalAssumption DEF Drivers, CalDrivers
  <2>3. \A i \in 1..Len(q) : q[i].by # "cb"
    BY <2>1, <2>2 DEF Waited
  <2> QED  BY <2>3 DEF Waited, CbFrame, callVars
<1>2. cbPc' # "idle"
  BY DEF CbGo, CbAsk
<1>3. QueueInv' /\ q' \in Seq(Ops)
  <2>1. CASE CbGo(next)
    BY <1>1, <2>1, QueueStays DEF CbGo, CalInv, Types
  <2>2. CASE /\ next \in Asking
             /\ \/ \E op \in {"clean", "backup"} : CbAsk(op, None, next)
                \/ \E op \in {"on", "off"}, d \in CalDrivers : CbAsk(op, d, next)
    <3>1. PICK o \in Ops : /\ q' = Append(q, o) /\ o.by = "cb"
                           /\ Waited(o, pc', cbPc', answer')
      <4>1. ASSUME NEW op \in {"clean", "backup"}, CbAsk(op, None, next)
            PROVE  LET o == Op(op, None, "cb") IN
                     o \in Ops /\ q' = Append(q, o) /\ o.by = "cb" /\ Waited(o, pc', cbPc', answer')
        BY <2>2, <4>1 DEF CbAsk, Op, Ops, Senders, Waited
      <4>2. ASSUME NEW op \in {"on", "off"}, NEW d \in CalDrivers, CbAsk(op, d, next)
            PROVE  LET o == Op(op, d, "cb") IN
                     o \in Ops /\ q' = Append(q, o) /\ o.by = "cb" /\ Waited(o, pc', cbPc', answer')
        BY <2>2, <4>2 DEF CbAsk, Op, Ops, Senders, Waited, Drivers
      <4> QED  BY <2>2, <4>1, <4>2
    <3> QED  BY <1>1, <3>1, QueueGrows, Appended DEF CalInv
  <2> QED  BY <2>1, <2>2
<1>4. Types' /\ WorkInv' /\ IsolationInv' /\ EarlyInv'
  BY <1>2, <1>3 DEF CbFrame, CalInv, Types, WorkInv, IsolationInv, EarlyInv, Locked,
                    calVars, callVars, history
<1> QED  BY <1>3, <1>4 DEF CalInv

LEMMA CbStays == CalInv /\ CbStep => CalInv'
<1> SUFFICES ASSUME CalInv, CbStep PROVE CalInv'
  OBVIOUS
<1> USE DEF Answered, Locked, Asking
<1>1. CASE CbCheck
  BY <1>1, CbMoves DEF CbCheck
<1>2. CASE CbCleaned
  BY <1>2, CbMoves DEF CbCleaned, CalDrivers
<1>3. CASE CbBtOn
  BY <1>3, CbMoves DEF CbBtOn, CalDrivers
<1>4. CASE CbWifiOn
  BY <1>4, CbMoves DEF CbWifiOn, CalDrivers
<1>5. CASE CbPwrOn
  BY <1>5, CbMoves DEF CbPwrOn
<1>6. CASE CbCalBt
  BY <1>6, CbMoves DEF CbCalBt, CalDrivers
<1>7. CASE CbCalWifi
  BY <1>7, CbMoves DEF CbCalWifi, CalDrivers
<1>8. CASE CbResult
  BY <1>8, CbMoves DEF CbResult
<1>9. CASE CbEnd
  BY <1>9, CbMoves DEF CbEnd
<1> QED  BY <1>1, <1>2, <1>3, <1>4, <1>5, <1>6, <1>7, <1>8, <1>9 DEF CbStep

-----------------------------------------------------------------------------
LEMMA CalStep == CalInv /\ [Next]_vars => CalInv'
<1> SUFFICES ASSUME CalInv, [Next]_vars PROVE CalInv'
  OBVIOUS
<1>1. ASSUME NEW d \in Drivers, Call(d) \/ CallStep(d) \/ BlockTimeout(d) PROVE CalInv'
  BY <1>1, CallStays, TriggerStays, MarkStays, PassStays, SendStays, BlockTimeoutStays
     DEF CallStep
<1>2. ASSUME NEW d \in CalDrivers, Register(d) PROVE CalInv'
  BY <1>2, RegisterStays
<1>3. CASE ScreenOn \/ ScreenOff
  BY <1>3, ScreenStays
<1>4. CASE CoreStep
  BY <1>4, CoreOnStays, CoreOffStays, CoreDataStays, PrepareStays, GiveUpStays, CheckStays
     DEF CoreStep
<1>5. CASE WorkStep
  BY <1>5, WorkStartStays, WorkEndStays DEF WorkStep
<1>6. CASE CbStep
  BY <1>6, CbStays
<1>7. CASE UNCHANGED vars
  BY <1>7, CalStutter
<1> QED  BY <1>1, <1>2, <1>3, <1>4, <1>5, <1>6, <1>7 DEF Next

(* The inductive invariant: who sent an op that is still queued is waiting  *)
(* for it, and nobody gets past conninfra_core_pre_cal_blocking while a     *)
(* calibration is scheduled or runs, nor at boot before the first is over.  *)
THEOREM CalInvariant == Spec => []CalInv
BY CalInit, CalStep, PTL DEF Spec

(* opfunc_pre_cal never takes power from a radio that was granted it, nor   *)
(* runs while one has been: whatever the threads do, unless a call was past *)
(* the block when the calibration was scheduled.                            *)
THEOREM CalibrationIsIsolated == Spec => []CalIsolated
<1>1. CalInv => CalIsolated
  BY DEF CalInv, WorkInv, IsolationInv, CalIsolated
<1> QED  BY <1>1, CalInvariant, PTL

(* Where it is enabled at boot, no driver gets power from conninfra_pwr_on  *)
(* before the first calibration has been attempted or a wait timed out.     *)
THEOREM CalibrationIsFirst == Spec => []CalibratedFirst
<1>1. CalInv => CalibratedFirst
  BY DEF CalInv, EarlyInv, CalibratedFirst
<1> QED  BY <1>1, CalInvariant, PTL
=============================================================================
