------------------------- MODULE RxReorderProofs -------------------------
(***************************************************************************)
(* What is proved of the reorder table for any number of slots, any window *)
(* and any bounds on the sender: no slot is lost or freed twice; packets   *)
(* are queued and popped in order; and a packet that is queued has a timer *)
(* or the poll to look after it.                                           *)
(***************************************************************************)
EXTENDS RxReorder, DataLemmas, TLAPS

(* The variables that decide who has a slot, their types, and the property *)
(* itself, which is inductive with them.                                   *)
slots == <<valid, ref, flushQ>>

SlotTypes ==
  /\ valid \in [Entries -> BOOLEAN]
  /\ ref \in Entries \cup {None}
  /\ flushQ \in Seq(Entries)

SlotInv == SlotTypes /\ SlotsAccounted

(* It holds when the driver is started: all slots are free.                *)
LEMMA SlotInit == Init => SlotInv
BY RxReorderAssumption, EmptyDistinct DEF Init, SlotInv, SlotTypes, SlotsAccounted

(* Packets, block-ack requests, timers and the suspend leave slots alone.  *)
LEMMA SlotStutter == SlotInv /\ UNCHANGED slots => SlotInv'
BY DEF SlotInv, SlotTypes, SlotsAccounted, slots

(* Unref hands the slot of the pair over to the poll: it is queued, once.  *)
LEMMA UnrefQueues ==
  ASSUME SlotInv, Unref
  PROVE  /\ ref \in Entries /\ valid[ref]
         /\ flushQ' \in Seq(Entries) /\ IsInjective(flushQ')
         /\ Range(flushQ') = Range(flushQ) \cup {ref}
<1>1. ref \in Entries /\ flushQ \in Seq(Entries) /\ flushQ' = Append(flushQ, ref)
  BY DEF SlotInv, SlotTypes, Unref
<1>2. valid[ref] /\ IsInjective(flushQ) /\ ref \notin Range(flushQ)
  BY <1>1 DEF SlotInv, SlotsAccounted
<1> QED  BY <1>1, <1>2, AppendDistinct

(* The deletion of the agreement.                                          *)
LEMMA DelBaStep == SlotInv /\ DelBa => SlotInv'
<1> SUFFICES ASSUME SlotInv, DelBa PROVE SlotInv'
  OBVIOUS
<1>1. Unref /\ ref' = None /\ valid' = valid
  BY DEF DelBa
<1>2. None \notin Range(flushQ')
  <2>1. Range(flushQ) \subseteq Entries
    BY DEF SlotInv, SlotTypes, Range
  <2> QED  BY <1>1, <2>1, UnrefQueues, RxReorderAssumption
<1>3. \A e \in Entries : valid'[e] <=> (ref' = e \/ e \in Range(flushQ'))
  BY <1>1, UnrefQueues, RxReorderAssumption DEF SlotInv, SlotsAccounted
<1> QED
  BY <1>1, <1>2, <1>3, UnrefQueues DEF SlotInv, SlotTypes, SlotsAccounted

(* A new agreement takes a free slot; the one that was there is queued.    *)
LEMMA AddBaStep ==
  ASSUME SlotInv, NEW e \in Entries, AddBa(e)
  PROVE  SlotInv'
<1>1. ~valid[e] /\ ref' = e /\ valid' = [valid EXCEPT ![e] = TRUE]
  BY DEF AddBa
<1>2. /\ ref # e /\ e \notin Range(flushQ)
      /\ valid \in [Entries -> BOOLEAN]
  BY <1>1 DEF SlotInv, SlotTypes, SlotsAccounted
<1>3. CASE Unref
  <2>1. e \notin Range(flushQ')
    BY <1>2, <1>3, UnrefQueues
  <2>2. \A d \in Entries : valid'[d] <=> (ref' = d \/ d \in Range(flushQ'))
    BY <1>1, <1>2, <1>3, UnrefQueues DEF SlotInv, SlotsAccounted
  <2> QED
    BY <1>1, <1>2, <1>3, <2>1, <2>2, UnrefQueues DEF SlotInv, SlotTypes, SlotsAccounted
<1>4. CASE ref = None /\ UNCHANGED flushQ
  BY <1>1, <1>2, <1>4, RxReorderAssumption DEF SlotInv, SlotTypes, SlotsAccounted
<1> QED
  BY <1>3, <1>4 DEF AddBa

(* The poll frees the slot at the head of the queue, and no other.         *)
LEMMA FlushDeletedStep == SlotInv /\ FlushDeleted => SlotInv'
<1> SUFFICES ASSUME SlotInv, FlushDeleted PROVE SlotInv'
  OBVIOUS
<1> DEFINE e == Head(flushQ)
<1>1. /\ flushQ # <<>> /\ flushQ' = Tail(flushQ)
      /\ valid' = [valid EXCEPT ![e] = FALSE] /\ ref' = ref
  BY DEF FlushDeleted
<1>2. /\ e \in Entries /\ e \in Range(flushQ) /\ flushQ' \in Seq(Entries)
      /\ IsInjective(flushQ') /\ Range(flushQ') = Range(flushQ) \ {e}
  BY <1>1, TailDistinct DEF SlotInv, SlotTypes, SlotsAccounted
<1>3. ref # e /\ valid \in [Entries -> BOOLEAN]
  BY <1>2 DEF SlotInv, SlotTypes, SlotsAccounted
<1>4. \A d \in Entries : valid'[d] <=> (ref' = d \/ d \in Range(flushQ'))
  BY <1>1, <1>2, <1>3 DEF SlotInv, SlotsAccounted
<1> HIDE DEF e
<1> QED
  BY <1>1, <1>2, <1>3, <1>4 DEF SlotInv, SlotTypes, SlotsAccounted

(* Every step keeps the slots accounted for.                               *)
LEMMA SlotStep == SlotInv /\ [Next]_vars => SlotInv'
<1> SUFFICES ASSUME SlotInv, [Next]_vars PROVE SlotInv'
  OBVIOUS
<1>1. ASSUME NEW n \in Numbers, NEW fmt \in Formats, Receive(n, fmt) PROVE SlotInv'
  BY <1>1, SlotStutter DEF Receive, slots
<1>2. ASSUME NEW ssn \in Numbers, Bar(ssn) PROVE SlotInv'
  BY <1>2, SlotStutter DEF Bar, slots
<1>3. CASE Sleep
  BY <1>3, SlotStutter DEF Sleep, slots
<1>4. CASE FlushTimeout
  BY <1>4, SlotStutter DEF FlushTimeout, slots
<1>5. CASE RestartTimer
  BY <1>5, SlotStutter DEF RestartTimer, slots
<1>6. ASSUME NEW e \in Entries, TimerFires(e) PROVE SlotInv'
  BY <1>6, SlotStutter DEF TimerFires, slots
<1>7. CASE UNCHANGED vars
  BY <1>7, SlotStutter DEF vars, slots
<1> QED
  BY <1>1, <1>2, <1>3, <1>4, <1>5, <1>6, <1>7, DelBaStep, AddBaStep, FlushDeletedStep
  DEF Next

(* For any table and any pair, a slot in use serves the pair or is queued  *)
(* for the poll, exactly once: qmDelRxBaEntry and qmFlushDeletedBaReorder  *)
(* together lose none and free none twice.                                 *)
THEOREM SlotsAreAccounted == Spec => []SlotsAccounted
<1>1. SlotInv => SlotsAccounted
  BY DEF SlotInv
<1> QED
  BY <1>1, SlotInit, SlotStep, PTL DEF Spec

-----------------------------------------------------------------------------
(* Order.  From here on a window is known by the number c that it begins   *)
(* with, which is not reduced.                                             *)

Half == SeqSize \div 2

LEMMA Sizes ==
  /\ SeqSize \in Nat \ {0} /\ WinSize \in Nat \ {0} /\ Half \in Nat
  /\ 2 * Half <= SeqSize /\ SeqSize <= 2 * Half + 1 /\ 2 * WinSize <= Half
  /\ Late \in Nat /\ Gap \in Nat /\ Late <= WinSize /\ WinSize + Gap < Half
  /\ First \in Nat /\ Final \in Nat /\ WinSize + 1 < Half
BY RxReorderAssumption DEF Half

(* Sequence numbers compare as the numbers do, if these are close enough.  *)
LEMMA Compare ==
  ASSUME NEW a \in Int, NEW b \in Int, a - b < Half, b - a < Half
  PROVE  /\ Smaller(a % SeqSize, b % SeqSize) <=> a < b
         /\ a % SeqSize = b % SeqSize <=> a = b
         /\ AtMost(a % SeqSize, b % SeqSize) <=> a <= b
<1> DEFINE q == a \div SeqSize  r == a % SeqSize
           u == b \div SeqSize  v == b % SeqSize
<1>1. /\ q \in Int /\ r \in Int /\ a = SeqSize * q + r
      /\ u \in Int /\ v \in Int /\ b = SeqSize * u + v
  BY Sizes, DivMod
<1> HIDE DEF q, r, u, v
<1>2. /\ u - q \in Int /\ SeqSize * (u - q) = SeqSize * u - SeqSize * q
      /\ SeqSize * u \in Int /\ SeqSize * q \in Int
  BY <1>1, Sizes
<1>3. r - v = (a - b) + SeqSize * (u - q)
  BY <1>1, <1>2
<1>4. (r - v) % SeqSize = (a - b) % SeqSize
  <2>1. a - b \in Int
    OBVIOUS
  <2>2. ((a - b) + (SeqSize * (u - q))) % SeqSize = (a - b) % SeqSize
    BY <1>2, <2>1, Sizes, ModTurns, Zenon
  <2> QED  BY <1>3, <2>2
<1>5. (a - b) % SeqSize = IF a < b THEN (a - b) + SeqSize ELSE a - b
  <2>1. a < b => a - b \in (-SeqSize)..(-1)
    BY Sizes
  <2>2. ~(a < b) => a - b \in 0..(SeqSize - 1)
    BY Sizes
  <2>3. a - b \in Int
    OBVIOUS
  <2>4. /\ a - b \in 0..(SeqSize - 1) => (a - b) % SeqSize = a - b
        /\ a - b \in (-SeqSize)..(-1) => (a - b) % SeqSize = (a - b) + SeqSize
    BY <2>3, Sizes, ModNear, Zenon
  <2> QED  BY <2>1, <2>2, <2>4
<1>6. Smaller(r, v) <=> a < b
  BY <1>4, <1>5, Sizes DEF Smaller, Half
<1>7. r = v <=> a = b
  <2>1. r = v => (r - v) % SeqSize = 0
    <3>1. 0 % SeqSize = 0
      BY Sizes, ModNear
    <3> QED  BY <1>1, <3>1
  <2> QED  BY <1>4, <1>5, <2>1, Sizes DEF r, v
<1>8. AtMost(r, v) <=> a <= b
  BY <1>6, <1>7 DEF AtMost
<1> QED  BY <1>6, <1>7, <1>8 DEF r, v

(* Adding to a sequence number.                                            *)
LEMMA AddSeq ==
  ASSUME NEW c \in Int, NEW k \in Int
  PROVE  SeqAdd(c % SeqSize, k) = (c + k) % SeqSize /\ c % SeqSize \in Seqs
<1> DEFINE q == c \div SeqSize  r == c % SeqSize
<1>1. q \in Int /\ r \in 0..(SeqSize - 1) /\ c = SeqSize * q + r
  BY Sizes, DivMod
<1> HIDE DEF q, r
<1>2. SeqSize * q \in Int /\ r + k \in Int /\ c + k = (r + k) + (SeqSize * q)
  BY <1>1, Sizes
<1>3. ((r + k) + (SeqSize * q)) % SeqSize = (r + k) % SeqSize
  BY <1>1, <1>2, Sizes, ModTurns, Zenon
<1>4. (c + k) % SeqSize = (r + k) % SeqSize
  BY <1>2, <1>3
<1> QED  BY <1>1, <1>4 DEF SeqAdd, Seqs, r

(* The packets that the model knows.                                       *)
Packets == {p \in [n : Numbers, fmt : Formats] : p.fmt = "msdu" <=> p.n \notin Amsdus}

LEMMA PacketFields ==
  ASSUME NEW p \in Packets
  PROVE  /\ p.n \in Int /\ p.n \in Nat /\ p.n \in Numbers /\ p.fmt \in Formats
         /\ SN(p) = p.n % SeqSize /\ SN(p) \in Seqs
<1>1. p.n \in Numbers /\ p.fmt \in Formats
  BY DEF Packets
<1>2. p.n \in Nat /\ p.n \in Int
  BY <1>1, Sizes DEF Numbers
<1> QED  BY <1>1, <1>2, AddSeq DEF SN

(* The part of it that says how far apart numbers are.                     *)
LEMMA Lengths ==
  /\ WinSize \in Int /\ Late \in Int /\ Half \in Int
  /\ 1 <= WinSize /\ 0 <= Late /\ Late <= WinSize
  /\ WinSize + 1 < Half /\ 2 * WinSize <= Half
BY Sizes

(* The packets of a queue are in order if each is older than all behind    *)
(* it, but for the two subframes of an aggregate.                          *)
InTurn(p, r) == p.n = r.n /\ p.fmt = "first" /\ r.fmt = "last"
Order(q) ==
  \A i, j \in 1 .. Len(q) : i < j => q[i].n < q[j].n \/ (j = i + 1 /\ InTurn(q[i], q[j]))

(* From the k-th on, they are for the window that begins with c; a         *)
(* subframe may have been left behind at the head.  l is the newest packet *)
(* that has left.                                                          *)
Fit(q, k, c, l) ==
  /\ l <= c
  /\ \A j \in (k + 1) .. Len(q) :
       q[j].n >= l /\ (q[j].n >= c \/ (j = k + 1 /\ q[j].n = c - 1 /\ q[j].fmt = "last"))
Newest(q, k, l) == IF k = 0 THEN l ELSE q[k].n

(* What a loop over q leaves: out packets have gone and the window begins  *)
(* with d; if packets stay, the next one is not the one waited for.        *)
Leaves(e, q, w, c, l, d) ==
  /\ w.start = d % SeqSize /\ c <= d
  /\ d = c \/ (w.out > 0 /\ d <= q[w.out].n + 1)
  /\ Fit(q, w.out, d, Newest(q, w.out, l))
  /\ w.out < Len(q) => q[w.out + 1].n # d /\ HasBubble(e, w)

(* The state of a loop.                                                    *)
Marks == {"kept", "opened", "closed"}
Walks == [out : Nat, start : Seqs, sub : Formats, adv : BOOLEAN, late : BOOLEAN,
          mark : Marks, first : Seqs, stop : BOOLEAN]

LEMMA WalkType ==
  ASSUME NEW e \in Entries, firstBubble[e] \in Seqs, NEW from \in Seqs, NEW late \in BOOLEAN
  PROVE  Walk(e, from, late) \in Walks
BY DEF Walk, Walks, Marks, Formats

(* Opening and closing a bubble touches nothing else.                      *)
LEMMA OpenedFields ==
  ASSUME NEW e, NEW w \in Walks
  PROVE  LET v == Opened(e, w) IN
         /\ v \in Walks /\ HasBubble(e, v)
         /\ v.out = w.out /\ v.start = w.start /\ v.sub = w.sub /\ v.adv = w.adv
         /\ v.late = w.late /\ v.stop = w.stop
BY DEF Opened, HasBubble, Walks, Marks

LEMMA ClosedFields ==
  ASSUME NEW e, NEW w \in Walks
  PROVE  LET v == Closed(e, w) IN
         /\ v \in Walks
         /\ v.out = w.out /\ v.start = w.start /\ v.sub = w.sub /\ v.adv = w.adv
         /\ v.late = w.late /\ v.stop = w.stop
BY DEF Closed, HasBubble, Walks, Marks

LEMMA MatchedFields ==
  ASSUME NEW e, NEW w \in Walks, NEW p \in Packets
  PROVE  LET v == Matched(e, w, p) IN
         /\ v \in Walks
         /\ v.out = w.out + 1
         /\ v.start = IF p.fmt # "first" THEN SeqAdd(w.start, 1) ELSE w.start
         /\ v.sub = w.sub /\ v.late = w.late /\ v.stop = w.stop
<1> DEFINE x == IF w.adv THEN Closed(e, w) ELSE w
           whole == p.fmt # "first"
<1>1. /\ x \in Walks /\ x.out = w.out /\ x.start = w.start /\ x.sub = w.sub
      /\ x.adv = w.adv /\ x.late = w.late /\ x.stop = w.stop
  BY ClosedFields
<1>2. SeqAdd(x.start, 1) \in Seqs
  <2>1. x.start \in Int /\ x.start + 1 \in Int
    BY <1>1, Sizes DEF Walks, Seqs
  <2> QED  BY <2>1, Sizes, DivMod DEF SeqAdd, Seqs
<1>3. Matched(e, w, p) = [x EXCEPT !.out = @ + 1, !.start = IF whole THEN SeqAdd(@, 1) ELSE @,
                                  !.adv = @ \/ whole]
  BY DEF Matched
<1> HIDE DEF x
<1>4. (x.adv \/ whole) \in BOOLEAN
  BY <1>1 DEF Walks
<1> DEFINE s == IF whole THEN SeqAdd(x.start, 1) ELSE x.start
           y == x.adv \/ whole
<1>5. s \in Seqs /\ y \in BOOLEAN /\ x.out + 1 \in Nat
  BY <1>1, <1>2, <1>4 DEF Walks
<1>6. Matched(e, w, p) = [x EXCEPT !.out = x.out + 1, !.start = s, !.adv = y]
  BY <1>3
<1>7. s = IF p.fmt # "first" THEN SeqAdd(w.start, 1) ELSE w.start
  BY <1>1
<1> HIDE DEF whole, s, y
<1>8. Matched(e, w, p) \in Walks
  BY <1>1, <1>5, <1>6 DEF Walks
<1> QED  BY <1>1, <1>6, <1>7, <1>8 DEF Walks

(* One turn of the first loop.                                             *)
LEMMA WithinFields ==
  ASSUME NEW e, NEW w \in Walks, NEW p \in Packets
  PROVE  LET v == WithinStep(e, w, p) IN
         /\ v \in Walks
         /\ w.stop => v = w
         /\ ~w.stop /\ SN(p) = w.start =>
              /\ v.out = w.out + 1 /\ ~v.stop
              /\ v.start = IF p.fmt # "first" THEN SeqAdd(w.start, 1) ELSE w.start
         /\ ~w.stop /\ SN(p) # w.start =>
              \/ v.out = w.out + 1 /\ ~v.stop /\ v.start = SeqAdd(SN(p), 1)
              \/ v.out = w.out /\ v.stop /\ v.start = w.start /\ HasBubble(e, v)
<1> DEFINE v == WithinStep(e, w, p)
           o == Opened(e, w)
<1>1. CASE w.stop
  BY <1>1 DEF WithinStep
<1>2. CASE ~w.stop /\ SN(p) = w.start
  <2>1. v = Matched(e, w, p)
    BY <1>2 DEF WithinStep
  <2> HIDE DEF v
  <2> QED  BY <1>2, <2>1, MatchedFields DEF v
<1>3. CASE ~w.stop /\ SN(p) # w.start
  <2>1. /\ o \in Walks /\ HasBubble(e, o) /\ o.out = w.out /\ o.start = w.start
        /\ o.stop = w.stop
    BY OpenedFields
  <2>2. CASE w.late
    <3> DEFINE s == SeqAdd(SN(p), 1)
    <3>1. v = [o EXCEPT !.out = o.out + 1, !.start = s, !.late = FALSE]
      BY <1>3, <2>2 DEF WithinStep
    <3>2. s \in Seqs
      <4>1. SN(p) + 1 \in Int
        BY PacketFields, Sizes DEF Seqs
      <4> QED  BY <4>1, Sizes, DivMod DEF SeqAdd, Seqs
    <3> HIDE DEF v, o, s
    <3>3. o.out + 1 \in Nat
      BY <2>1 DEF Walks
    <3>4. v \in Walks /\ v.out = o.out + 1 /\ v.start = s /\ v.stop = o.stop
      BY <2>1, <3>1, <3>2, <3>3 DEF Walks
    <3> QED  BY <1>3, <2>1, <3>4 DEF s, v
  <2>3. CASE ~w.late
    <3>1. v = [o EXCEPT !.stop = TRUE]
      BY <1>3, <2>3 DEF WithinStep
    <3> HIDE DEF v, o
    <3>2. /\ v \in Walks /\ v.out = w.out /\ v.start = w.start /\ v.stop
          /\ v.mark = o.mark
      BY <2>1, <3>1 DEF Walks
    <3>3. HasBubble(e, v)
      BY <2>1, <3>2 DEF HasBubble
    <3> QED  BY <1>3, <3>2, <3>3 DEF v
  <2> HIDE DEF v, o
  <2> QED  BY <2>2, <2>3
<1> QED  BY <1>1, <1>2, <1>3

(* One turn of the second; x is the state after an aggregate was given up. *)
Cut(w, s, p) == w.sub = "first" /\ Smaller(w.start, SN(p)) /\ s # w.start

LEMMA AheadFields ==
  ASSUME NEW e, NEW w \in Walks, NEW p \in Packets, NEW s
  PROVE  LET v == AheadStep(e, s, w, p)
             a == IF Cut(w, s, p) THEN SeqAdd(w.start, 1) ELSE w.start
         IN
         /\ v \in Walks
         /\ w.stop => v = w
         /\ ~w.stop /\ SN(p) = a =>
              /\ v.out = w.out + 1 /\ ~v.stop /\ v.sub = p.fmt
              /\ v.start = IF p.fmt # "first" THEN SeqAdd(a, 1) ELSE a
         /\ ~w.stop /\ SN(p) # a /\ Smaller(SN(p), a) =>
              /\ v.out = w.out + 1 /\ ~v.stop /\ v.start = a
              /\ v.sub = IF Cut(w, s, p) THEN "msdu" ELSE w.sub
         /\ ~w.stop /\ SN(p) # a /\ ~Smaller(SN(p), a) =>
              v.out = w.out /\ v.stop /\ v.start = a /\ HasBubble(e, v)
<1> DEFINE v == AheadStep(e, s, w, p)
           a == IF Cut(w, s, p) THEN SeqAdd(w.start, 1) ELSE w.start
           x == IF Cut(w, s, p) THEN [w EXCEPT !.start = SeqAdd(w.start, 1), !.sub = "msdu"]
                ELSE w
<1>1. /\ x \in Walks /\ x.start = a /\ x.out = w.out /\ x.stop = w.stop
      /\ x.sub = IF Cut(w, s, p) THEN "msdu" ELSE w.sub
  <2>1. SeqAdd(w.start, 1) \in Seqs
    <3>1. w.start + 1 \in Int
      BY Sizes DEF Walks, Seqs
    <3> QED  BY <3>1, Sizes, DivMod DEF SeqAdd, Seqs
  <2>2. "msdu" \in Formats
    BY DEF Formats
  <2> HIDE DEF a, v
  <2>3. CASE Cut(w, s, p)
    <3> DEFINE t == SeqAdd(w.start, 1)
    <3> HIDE DEF t
    <3>1. x = [w EXCEPT !.start = t, !.sub = "msdu"] /\ t \in Seqs
      BY <2>1, <2>3 DEF t
    <3>2. a = t
      BY <2>3 DEF a, t
    <3> HIDE DEF x
    <3> QED  BY <2>2, <2>3, <3>1, <3>2 DEF Walks
  <2>4. CASE ~Cut(w, s, p)
    BY <2>4 DEF a
  <2> QED  BY <2>3, <2>4
<1>2. v = IF w.stop THEN w
          ELSE IF SN(p) = x.start THEN [Matched(e, x, p) EXCEPT !.sub = p.fmt]
          ELSE IF Smaller(SN(p), x.start) THEN [x EXCEPT !.out = @ + 1]
          ELSE [Opened(e, x) EXCEPT !.stop = TRUE]
  BY DEF AheadStep, Cut
<1> HIDE DEF v, x, a
<1>3. CASE w.stop
  BY <1>1, <1>2, <1>3 DEF v, a
<1>4. CASE ~w.stop /\ SN(p) = a
  <2> DEFINE m == Matched(e, x, p)
  <2>1. v = [m EXCEPT !.sub = p.fmt]
    BY <1>1, <1>2, <1>4
  <2>2. /\ m \in Walks /\ m.out = x.out + 1 /\ m.stop = x.stop
        /\ m.start = IF p.fmt # "first" THEN SeqAdd(x.start, 1) ELSE x.start
    BY <1>1, MatchedFields
  <2>3. p.fmt \in Formats
    BY PacketFields
  <2> HIDE DEF m
  <2>4. v \in Walks /\ v.out = m.out /\ v.stop = m.stop /\ v.start = m.start /\ v.sub = p.fmt
    BY <2>1, <2>2, <2>3 DEF Walks
  <2> QED  BY <1>1, <1>4, <2>2, <2>4 DEF v, a
<1>5. CASE ~w.stop /\ SN(p) # a /\ Smaller(SN(p), a)
  <2>1. v = [x EXCEPT !.out = x.out + 1]
    BY <1>1, <1>2, <1>5
  <2>2. v \in Walks /\ v.out = x.out + 1 /\ v.stop = x.stop /\ v.start = x.start /\ v.sub = x.sub
    BY <1>1, <2>1 DEF Walks
  <2> QED  BY <1>1, <1>5, <2>2 DEF v, a
<1>6. CASE ~w.stop /\ SN(p) # a /\ ~Smaller(SN(p), a)
  <2> DEFINE o == Opened(e, x)
  <2>1. v = [o EXCEPT !.stop = TRUE]
    BY <1>1, <1>2, <1>6
  <2>2. o \in Walks /\ HasBubble(e, o) /\ o.out = x.out /\ o.start = x.start
    BY <1>1, OpenedFields
  <2> HIDE DEF o
  <2>3. v \in Walks /\ v.out = o.out /\ v.start = o.start /\ v.stop /\ v.mark = o.mark
    BY <2>1, <2>2 DEF Walks
  <2>4. HasBubble(e, v)
    BY <2>2, <2>3 DEF HasBubble
  <2> QED  BY <1>1, <1>6, <2>2, <2>3, <2>4 DEF v, a
<1>7. QED
  <2>1. \/ w.stop \/ (~w.stop /\ SN(p) = a)
        \/ (~w.stop /\ SN(p) # a /\ Smaller(SN(p), a))
        \/ (~w.stop /\ SN(p) # a /\ ~Smaller(SN(p), a))
    OBVIOUS
  <2> QED  BY <1>3, <1>4, <1>5, <1>6, <2>1 DEF v, a

(* The loops are what their turns make of them.                            *)
LEMMA OnceIs == ASSUME NEW x PROVE Once({x}) = x
BY DEF Once

LEMMA WithinLoop ==
  ASSUME NEW e \in Entries, firstBubble[e] \in Seqs, NEW q \in Seq(Packets),
         NEW from \in Seqs, NEW late \in BOOLEAN
  PROVE  \E W : /\ W[0] = Walk(e, from, late)
                /\ \A i \in 1 .. Len(q) : W[i] = WithinStep(e, W[i - 1], q[i])
                /\ PopWithin(e, q, from, late) = W[Len(q)]
<1> DEFINE a == Walk(e, from, late)
           D(f) == f = [i \in 0 .. Len(q) |-> IF i = 0 THEN a
                          ELSE Once({WithinStep(e, w, q[i]) : w \in {f[i - 1]}})]
           h == [x \in (1 .. Len(q)) \X Walks |-> WithinStep(e, x[2], q[x[1]])]
<1>1. Len(q) \in Nat /\ \A i \in 1 .. Len(q) : q[i] \in Packets
  OBVIOUS
<1>2. a \in Walks
  BY WalkType
<1>3. h \in [(1 .. Len(q)) \X Walks -> Walks]
  BY <1>1, WithinFields
<1>4. PICK f \in [0 .. Len(q) -> Walks] : Loops(f, Len(q), a, h)
  <2> HIDE DEF a, h
  <2> QED  BY <1>1, <1>2, <1>3, Loop
<1>5. D(f)
  <2>1. ASSUME NEW i \in 1 .. Len(q)
        PROVE  h[<<i, f[i - 1]>>] = Once({WithinStep(e, w, q[i]) : w \in {f[i - 1]}})
    <3>1. f[i - 1] \in Walks
      BY <1>1, <1>4
    <3>2. h[<<i, f[i - 1]>>] = WithinStep(e, f[i - 1], q[i])
      BY <3>1
    <3>3. {WithinStep(e, w, q[i]) : w \in {f[i - 1]}} = {WithinStep(e, f[i - 1], q[i])}
      OBVIOUS
    <3> QED  BY <3>2, <3>3, OnceIs
  <2>2. \A i \in 0 .. Len(q) : i # 0 => i \in 1 .. Len(q)
    BY <1>1
  <2> HIDE DEF a, h
  <2> QED  BY <1>4, <2>1, <2>2 DEF Loops
<1> DEFINE W == CHOOSE g : D(g)
<1>6. D(W)
  <2> HIDE DEF D
  <2> QED  BY <1>5
<1>7. PopWithin(e, q, from, late) = W[Len(q)]
  BY DEF PopWithin
<1> HIDE DEF W, a
<1>8. W[0] = a
  BY <1>1, <1>6
<1>9. ASSUME NEW i \in 1 .. Len(q) PROVE W[i] = WithinStep(e, W[i - 1], q[i])
  <2>1. W[i] = Once({WithinStep(e, w, q[i]) : w \in {W[i - 1]}})
    <3>1. i \in 0 .. Len(q) /\ i # 0
      BY <1>1
    <3> QED  BY <1>6, <3>1
  <2>2. {WithinStep(e, w, q[i]) : w \in {W[i - 1]}} = {WithinStep(e, W[i - 1], q[i])}
    OBVIOUS
  <2> QED  BY <2>1, <2>2, OnceIs
<1> QED  BY <1>7, <1>8, <1>9 DEF a

AheadRun(e, q, from, s, W) ==
  /\ W[0] = Walk(e, from, FALSE)
  /\ \A i \in 1 .. Len(q) : W[i] = AheadStep(e, s, W[i - 1], q[i])
  /\ PopAhead(e, q, from, s) =
       IF W[Len(q)].out = Len(q) THEN Closed(e, W[Len(q)]) ELSE W[Len(q)]

LEMMA AheadLoop ==
  ASSUME NEW e \in Entries, firstBubble[e] \in Seqs, NEW q \in Seq(Packets),
         NEW from \in Seqs, NEW s
  PROVE  \E W : AheadRun(e, q, from, s, W)
<1> DEFINE a == Walk(e, from, FALSE)
           D(f) == f = [i \in 0 .. Len(q) |-> IF i = 0 THEN a
                          ELSE Once({AheadStep(e, s, w, q[i]) : w \in {f[i - 1]}})]
           h == [x \in (1 .. Len(q)) \X Walks |-> AheadStep(e, s, x[2], q[x[1]])]
<1>1. Len(q) \in Nat /\ \A i \in 1 .. Len(q) : q[i] \in Packets
  OBVIOUS
<1>2. a \in Walks
  BY WalkType
<1>3. h \in [(1 .. Len(q)) \X Walks -> Walks]
  BY <1>1, AheadFields
<1>4. PICK f \in [0 .. Len(q) -> Walks] : Loops(f, Len(q), a, h)
  <2> HIDE DEF a, h
  <2> QED  BY <1>1, <1>2, <1>3, Loop
<1>5. D(f)
  <2>1. ASSUME NEW i \in 1 .. Len(q)
        PROVE  h[<<i, f[i - 1]>>] = Once({AheadStep(e, s, w, q[i]) : w \in {f[i - 1]}})
    <3>1. f[i - 1] \in Walks
      BY <1>1, <1>4
    <3>2. h[<<i, f[i - 1]>>] = AheadStep(e, s, f[i - 1], q[i])
      BY <3>1
    <3>3. {AheadStep(e, s, w, q[i]) : w \in {f[i - 1]}} = {AheadStep(e, s, f[i - 1], q[i])}
      OBVIOUS
    <3> QED  BY <3>2, <3>3, OnceIs
  <2>2. \A i \in 0 .. Len(q) : i # 0 => i \in 1 .. Len(q)
    BY <1>1
  <2> HIDE DEF a, h
  <2> QED  BY <1>4, <2>1, <2>2 DEF Loops
<1> DEFINE W == CHOOSE g : D(g)
<1>6. D(W)
  <2> HIDE DEF D
  <2> QED  BY <1>5
<1>7. PopAhead(e, q, from, s) = IF W[Len(q)].out = Len(q) THEN Closed(e, W[Len(q)]) ELSE W[Len(q)]
  BY DEF PopAhead
<1> HIDE DEF W, a
<1>8. W[0] = a
  BY <1>1, <1>6
<1>9. ASSUME NEW i \in 1 .. Len(q) PROVE W[i] = AheadStep(e, s, W[i - 1], q[i])
  <2>1. W[i] = Once({AheadStep(e, s, w, q[i]) : w \in {W[i - 1]}})
    <3>1. i \in 0 .. Len(q) /\ i # 0
      BY <1>1
    <3> QED  BY <1>6, <3>1
  <2>2. {AheadStep(e, s, w, q[i]) : w \in {W[i - 1]}} = {AheadStep(e, s, W[i - 1], q[i])}
    OBVIOUS
  <2> QED  BY <2>1, <2>2, OnceIs
<1> QED  BY <1>7, <1>8, <1>9 DEF a, AheadRun

(* The first loop: the packets are for the window that begins with c.  d is *)
(* the number that the window begins with after i turns.                   *)
Turn(e, q, w, i, c, l, d) ==
  /\ IF w.stop THEN w.out < i ELSE w.out = i
  /\ w.start = d % SeqSize /\ c <= d
  /\ d = c \/ (w.out > 0 /\ d <= q[w.out].n + 1)
  /\ Fit(q, w.out, d, Newest(q, w.out, l))
  /\ w.stop => q[w.out + 1].n # d /\ HasBubble(e, w)

LEMMA WithinTurn ==
  ASSUME NEW e, NEW q \in Seq(Packets), Order(q), NEW c \in Int, NEW l \in Int, NEW d \in Int,
         \A j \in 1 .. Len(q) : q[j].n < c + WinSize,
         NEW w \in Walks, NEW i \in Nat, i < Len(q), Turn(e, q, w, i, c, l, d)
  PROVE  \E b \in Int : Turn(e, q, WithinStep(e, w, q[i + 1]), i + 1, c, l, b)
<1> DEFINE p == q[i + 1]
           v == WithinStep(e, w, p)
<1>1. /\ i + 1 \in 1 .. Len(q) /\ Len(q) \in Nat /\ p \in Packets
      /\ p.n \in Int /\ SN(p) = p.n % SeqSize /\ p.n < c + WinSize
      /\ \A j \in 1 .. Len(q) : q[j] \in Packets /\ q[j].n \in Int
  BY PacketFields
<1>2. /\ w.stop => v = w
      /\ ~w.stop /\ SN(p) = w.start =>
           /\ v.out = w.out + 1 /\ ~v.stop
           /\ v.start = IF p.fmt # "first" THEN SeqAdd(w.start, 1) ELSE w.start
      /\ ~w.stop /\ SN(p) # w.start =>
           \/ v.out = w.out + 1 /\ ~v.stop /\ v.start = SeqAdd(SN(p), 1)
           \/ v.out = w.out /\ v.stop /\ v.start = w.start /\ HasBubble(e, v)
  BY <1>1, WithinFields
<1> HIDE DEF v, p
<1>3. CASE w.stop
  <2>1. Turn(e, q, w, i + 1, c, l, d)
    BY <1>3 DEF Turn, Walks
  <2> QED  BY <1>2, <1>3, <2>1 DEF v, p
<1>4. CASE ~w.stop
  <2>1. /\ w.out = i /\ w.start = d % SeqSize /\ c <= d
        /\ Newest(q, i, l) <= d
        /\ \A j \in (i + 1) .. Len(q) :
             /\ q[j].n >= Newest(q, i, l)
             /\ q[j].n >= d \/ (j = i + 1 /\ q[j].n = d - 1 /\ q[j].fmt = "last")
    BY <1>4 DEF Turn, Fit
  <2>2. p.n >= d \/ (p.n = d - 1 /\ p.fmt = "last")
    BY <1>1, <2>1 DEF p
  <2>3. SN(p) = w.start <=> p.n = d
    <3>1. p.n \in Int /\ p.n < c + WinSize /\ c <= d /\ d - 1 <= p.n
      BY <1>1, <2>1, <2>2
    <3>2. p.n - d < Half /\ d - p.n < Half
      BY <3>1, Lengths
    <3> QED  BY <2>1, <3>1, <3>2, <1>1, Compare
  <2>4. Newest(q, i + 1, l) = p.n
    BY DEF Newest, p
  <2>5. \A j \in (i + 2) .. Len(q) : p.n < q[j].n \/ (j = i + 2 /\ InTurn(p, q[j]))
    BY <1>1 DEF Order, p
  <2>6. CASE p.n = d
    <3> DEFINE b == IF p.fmt # "first" THEN d + 1 ELSE d
    <3>1. b \in Int /\ d <= b /\ b <= p.n + 1 /\ p.n <= b
      BY <2>6
    <3>2. v.out = i + 1 /\ ~v.stop /\ v.start = b % SeqSize
      <4>1. SeqAdd(w.start, 1) = (d + 1) % SeqSize
        BY <2>1, AddSeq
      <4> QED  BY <1>2, <1>4, <2>1, <2>3, <2>6, <4>1
    <3>3. \A j \in (i + 2) .. Len(q) : q[j].n >= b
      BY <1>1, <2>5, <2>6 DEF InTurn
    <3> HIDE DEF b
    <3>4. Fit(q, i + 1, b, p.n)
      BY <1>1, <2>5, <3>1, <3>3 DEF Fit, InTurn
    <3>5. Turn(e, q, v, i + 1, c, l, b)
      BY <1>1, <2>1, <2>4, <3>1, <3>2, <3>4 DEF Turn, p
    <3> QED  BY <3>1, <3>5 DEF v, p
  <2>7. CASE p.n # d /\ v.stop
    <3>1. v.out = i /\ v.start = d % SeqSize /\ HasBubble(e, v)
      BY <1>2, <1>4, <2>1, <2>3, <2>7
    <3>2. Turn(e, q, v, i + 1, c, l, d)
      BY <1>4, <2>1, <2>7, <3>1 DEF Turn, p
    <3> QED  BY <3>2 DEF v, p
  <2>8. CASE p.n # d /\ ~v.stop
    <3> DEFINE b == p.n + 1
    <3>1. b \in Int /\ d <= b /\ b <= p.n + 1 /\ p.n <= b
      BY <1>1, <2>2
    <3>2. v.out = i + 1 /\ v.start = b % SeqSize
      <4>0. p.n \in Int /\ 1 \in Int /\ SN(p) = p.n % SeqSize
        BY <1>1
      <4>1. SeqAdd(SN(p), 1) = (p.n + 1) % SeqSize
        BY <4>0, AddSeq, Zenon
      <4> QED  BY <1>2, <1>4, <2>1, <2>3, <2>8, <4>1
    <3>3. \A j \in (i + 2) .. Len(q) :
             q[j].n >= b \/ (j = i + 2 /\ q[j].n = b - 1 /\ q[j].fmt = "last")
      BY <1>1, <2>5 DEF InTurn
    <3> HIDE DEF b
    <3>4. Fit(q, i + 1, b, p.n)
      <4>1. (i + 1) + 1 = i + 2
        BY <1>1
      <4>2. \A j \in (i + 2) .. Len(q) : q[j].n >= p.n
        <5>1. \A j \in (i + 2) .. Len(q) : p.n < q[j].n \/ p.n = q[j].n
          BY <2>5 DEF InTurn
        <5>2. \A j \in (i + 2) .. Len(q) : q[j].n \in Int
          BY <1>1
        <5> QED  BY <1>1, <5>1, <5>2
      <4> QED  BY <3>1, <3>3, <4>1, <4>2 DEF Fit
    <3>5. Turn(e, q, v, i + 1, c, l, b)
      BY <1>1, <2>1, <2>4, <2>8, <3>1, <3>2, <3>4 DEF Turn, p
    <3> QED  BY <3>1, <3>5 DEF v, p
  <2> QED  BY <2>6, <2>7, <2>8
<1> QED  BY <1>3, <1>4

LEMMA WithinPops ==
  ASSUME NEW e \in Entries, firstBubble[e] \in Seqs, NEW q \in Seq(Packets), Order(q),
         NEW c \in Int, NEW l \in Int, Fit(q, 0, c, l),
         \A j \in 1 .. Len(q) : q[j].n < c + WinSize, NEW late \in BOOLEAN
  PROVE  LET w == PopWithin(e, q, c % SeqSize, late) IN
         /\ w \in Walks /\ w.out \in 0 .. Len(q)
         /\ \E d \in Int : Leaves(e, q, w, c, l, d)
<1> DEFINE a == Walk(e, c % SeqSize, late)
<1>1. Len(q) \in Nat /\ \A j \in 1 .. Len(q) : q[j] \in Packets
  OBVIOUS
<1>2. a \in Walks /\ a.out = 0 /\ ~a.stop /\ a.start = c % SeqSize
  BY AddSeq, WalkType DEF Walk
<1>3. PICK W : /\ W[0] = a
               /\ \A i \in 1 .. Len(q) : W[i] = WithinStep(e, W[i - 1], q[i])
               /\ PopWithin(e, q, c % SeqSize, late) = W[Len(q)]
  BY AddSeq, WithinLoop
<1> HIDE DEF a
<1> DEFINE T == {i \in Nat : i <= Len(q) => /\ W[i] \in Walks
                                            /\ \E d \in Int : Turn(e, q, W[i], i, c, l, d)}
<1>4. 0 \in T
  <2>1. Turn(e, q, a, 0, c, l, c)
    BY <1>2 DEF Turn, Newest
  <2> QED  BY <1>2, <1>3, <2>1
<1>5. ASSUME NEW i \in Nat, i \in T PROVE i + 1 \in T
  <2> SUFFICES ASSUME i + 1 <= Len(q)
               PROVE  W[i + 1] \in Walks /\ \E d \in Int : Turn(e, q, W[i + 1], i + 1, c, l, d)
    OBVIOUS
  <2>1. i + 1 \in 1 .. Len(q) /\ i < Len(q) /\ (i + 1) - 1 = i
    BY <1>1
  <2>2. W[i] \in Walks
    BY <1>5, <2>1
  <2>3. PICK d \in Int : Turn(e, q, W[i], i, c, l, d)
    BY <1>5, <2>1
  <2>4. W[i + 1] = WithinStep(e, W[i], q[i + 1])
    BY <1>3, <2>1
  <2>5. W[i + 1] \in Walks
    BY <1>1, <2>1, <2>2, <2>4, WithinFields
  <2> HIDE DEF T
  <2>6. \E b \in Int : Turn(e, q, WithinStep(e, W[i], q[i + 1]), i + 1, c, l, b)
    BY <2>1, <2>2, <2>3, WithinTurn
  <2> QED  BY <2>4, <2>5, <2>6
<1>6. Len(q) \in T
  <2> HIDE DEF T
  <2> QED  BY <1>1, <1>4, <1>5, Induction
<1> DEFINE w == W[Len(q)]
<1>7. w \in Walks
  BY <1>1, <1>6
<1>8. PICK d \in Int : Turn(e, q, w, Len(q), c, l, d)
  BY <1>1, <1>6
<1> HIDE DEF T, w
<1>9. w.out \in 0 .. Len(q) /\ (w.out < Len(q) => w.stop)
  BY <1>1, <1>7, <1>8 DEF Turn, Walks
<1>10. Leaves(e, q, w, c, l, d)
  BY <1>8, <1>9 DEF Turn, Leaves
<1> QED  BY <1>3, <1>7, <1>9, <1>10 DEF w

(* The second loop: the packets may be behind c or ahead of it.            *)
Near(q, c) == \A j \in 1 .. Len(q) : q[j].n - c < Half /\ c - q[j].n < Half

Ahead(e, q, w, i, c, l, d) ==
  /\ IF w.stop THEN w.out < i ELSE w.out = i
  /\ w.start = d % SeqSize /\ c <= d
  /\ d = c \/ (w.out > 0 /\ d <= q[w.out].n + 1)
  /\ Newest(q, w.out, l) <= d
  /\ w.stop => q[w.out + 1].n > d /\ HasBubble(e, w)
  /\ ~w.stop /\ w.sub = "first" => w.out > 0 /\ d = q[w.out].n

LEMMA AheadTurn ==
  ASSUME NEW e, NEW q \in Seq(Packets), Order(q), NEW c \in Int, NEW l \in Int, l <= c,
         Near(q, c), NEW d \in Int, NEW s,
         NEW w \in Walks, NEW i \in Nat, i < Len(q), Ahead(e, q, w, i, c, l, d)
  PROVE  \E b \in Int : Ahead(e, q, AheadStep(e, s, w, q[i + 1]), i + 1, c, l, b)
<1> DEFINE p == q[i + 1]
           v == AheadStep(e, s, w, p)
           a == IF Cut(w, s, p) THEN SeqAdd(w.start, 1) ELSE w.start
<1>1. /\ i + 1 \in 1 .. Len(q) /\ Len(q) \in Nat /\ p \in Packets
      /\ p.n \in Int /\ SN(p) = p.n % SeqSize
      /\ \A j \in 1 .. Len(q) : q[j] \in Packets /\ q[j].n \in Int
  BY PacketFields
<1>2. /\ w.stop => v = w
      /\ ~w.stop /\ SN(p) = a =>
           /\ v.out = w.out + 1 /\ ~v.stop /\ v.sub = p.fmt
           /\ v.start = IF p.fmt # "first" THEN SeqAdd(a, 1) ELSE a
      /\ ~w.stop /\ SN(p) # a /\ Smaller(SN(p), a) =>
           /\ v.out = w.out + 1 /\ ~v.stop /\ v.start = a
           /\ v.sub = IF Cut(w, s, p) THEN "msdu" ELSE w.sub
      /\ ~w.stop /\ SN(p) # a /\ ~Smaller(SN(p), a) =>
           v.out = w.out /\ v.stop /\ v.start = a /\ HasBubble(e, v)
  BY <1>1, AheadFields
<1> HIDE DEF v, p, a
<1>3. CASE w.stop
  <2>1. Ahead(e, q, w, i + 1, c, l, d)
    BY <1>3 DEF Ahead, Walks
  <2> QED  BY <1>2, <1>3, <2>1 DEF v, p
<1>4. CASE ~w.stop
  <2>1. /\ w.out = i /\ w.start = d % SeqSize /\ c <= d
        /\ d = c \/ (i > 0 /\ d <= q[i].n + 1)
        /\ Newest(q, i, l) <= d
        /\ w.sub = "first" => i > 0 /\ d = q[i].n
    BY <1>4 DEF Ahead
  <2>2. /\ i > 0 => /\ i \in 1 .. Len(q) /\ q[i].n \in Int
                    /\ q[i].n <= p.n
    BY <1>1 DEF Order, InTurn, p
  <2>3. p.n - c < Half /\ c - p.n < Half
    BY <1>1 DEF Near, p
  <2>4. p.n - d < Half /\ d - p.n < Half
    BY <1>1, <2>1, <2>2, <2>3, Lengths
  <2>5. Cut(w, s, p) => d < p.n
    <3>1. Smaller(d % SeqSize, p.n % SeqSize) <=> d < p.n
      BY <1>1, <2>4, Compare
    <3> QED  BY <1>1, <2>1, <3>1 DEF Cut
  \* b is where the window begins when the packet is looked at.
  <2> DEFINE b == IF Cut(w, s, p) THEN d + 1 ELSE d
  <2>6. /\ b \in Int /\ d <= b /\ b <= d + 1 /\ c <= b
        /\ b = c \/ (i > 0 /\ b <= q[i].n + 1)
        /\ Cut(w, s, p) => b <= p.n
        /\ ~Cut(w, s, p) => b = d
    BY <1>1, <2>1, <2>2, <2>5 DEF Cut
  <2>7. a = b % SeqSize
    <3>1. SeqAdd(d % SeqSize, 1) = (d + 1) % SeqSize
      BY AddSeq
    <3> QED  BY <2>1, <3>1 DEF a
  <2> HIDE DEF b
  <2>8. /\ SN(p) = a <=> p.n = b
        /\ Smaller(SN(p), a) <=> p.n < b
    <3>1. p.n - b < Half /\ b - p.n < Half
      <4>1. p.n \in Int /\ (b = d \/ (d <= b /\ b <= p.n))
        BY <1>1, <2>6
      <4> QED  BY <2>4, <2>6, <4>1, Lengths
    <3> QED  BY <1>1, <2>6, <2>7, <3>1, Compare
  <2>9. Newest(q, i + 1, l) = p.n /\ q[i + 1].n = p.n
    BY DEF Newest, p
  <2>10. CASE p.n = b
    <3> DEFINE t == IF p.fmt # "first" THEN b + 1 ELSE b
    <3>1. v.out = i + 1 /\ ~v.stop /\ v.sub = p.fmt
      BY <1>2, <1>4, <2>1, <2>8, <2>10
    <3>2. v.start = t % SeqSize
      <4>1. SeqAdd(b % SeqSize, 1) = (b + 1) % SeqSize
        BY <2>6, AddSeq
      <4> QED  BY <1>2, <1>4, <2>7, <2>8, <2>10, <4>1
    <3>3. /\ t \in Int /\ c <= t /\ t <= p.n + 1 /\ p.n <= t
          /\ p.fmt = "first" => t = p.n
      BY <2>6, <2>10
    <3> HIDE DEF t
    <3>4. Ahead(e, q, v, i + 1, c, l, t)
      BY <2>9, <3>1, <3>2, <3>3 DEF Ahead
    <3> QED  BY <3>3, <3>4 DEF v, p
  <2>11. CASE p.n < b
    <3>1. /\ v.out = i + 1 /\ ~v.stop /\ v.start = b % SeqSize
          /\ v.sub = IF Cut(w, s, p) THEN "msdu" ELSE w.sub
      BY <1>2, <1>1, <1>4, <2>1, <2>6, <2>7, <2>8, <2>11
    <3>2. ~Cut(w, s, p) /\ b = d
      BY <1>1, <2>6, <2>11
    <3>3. v.sub # "first"
      BY <1>1, <2>1, <2>2, <2>11, <3>1, <3>2
    <3>4. b = c \/ b <= p.n + 1
      BY <1>1, <2>2, <2>6
    <3>5. Ahead(e, q, v, i + 1, c, l, b)
      BY <1>1, <2>6, <2>9, <2>11, <3>1, <3>3, <3>4 DEF Ahead
    <3> QED  BY <2>6, <3>5 DEF v, p
  <2>12. CASE p.n > b
    <3>1. v.out = i /\ v.stop /\ v.start = b % SeqSize /\ HasBubble(e, v)
      BY <1>1, <1>2, <1>4, <2>1, <2>6, <2>7, <2>8, <2>12
    <3>2. Newest(q, i, l) <= b
      <4>1. Newest(q, i, l) \in Int
        BY <2>2 DEF Newest
      <4> QED  BY <2>1, <2>6, <4>1
    <3>3. Ahead(e, q, v, i + 1, c, l, b)
      BY <2>6, <2>9, <2>12, <3>1, <3>2 DEF Ahead
    <3> QED  BY <2>6, <3>3 DEF v, p
  <2> QED  BY <1>1, <2>6, <2>10, <2>11, <2>12
<1> QED  BY <1>3, <1>4

LEMMA AheadPops ==
  ASSUME NEW e \in Entries, firstBubble[e] \in Seqs, NEW q \in Seq(Packets), Order(q),
         NEW c \in Int, NEW l \in Int, l <= c, Near(q, c), NEW s
  PROVE  LET w == PopAhead(e, q, c % SeqSize, s) IN
         /\ w \in Walks /\ w.out \in 0 .. Len(q)
         /\ w.out < Len(q) => q[w.out + 1].n > c
         /\ \E d \in Int : Leaves(e, q, w, c, l, d)
<1> DEFINE a == Walk(e, c % SeqSize, FALSE)
           u == PopAhead(e, q, c % SeqSize, s)
<1>1. Len(q) \in Nat /\ \A j \in 1 .. Len(q) : q[j] \in Packets /\ q[j].n \in Int
  BY PacketFields
<1>2. /\ a \in Walks /\ a.out = 0 /\ ~a.stop /\ a.start = c % SeqSize /\ a.sub = "msdu"
      /\ c % SeqSize \in Seqs
  BY AddSeq, WalkType DEF Walk
<1>3. PICK W : /\ W[0] = a
               /\ \A i \in 1 .. Len(q) : W[i] = AheadStep(e, s, W[i - 1], q[i])
               /\ u = IF W[Len(q)].out = Len(q) THEN Closed(e, W[Len(q)]) ELSE W[Len(q)]
  <2>1. c % SeqSize \in Seqs
    BY <1>2
  <2>2. \E W : AheadRun(e, q, c % SeqSize, s, W)
    BY <2>1, AheadLoop, Zenon
  <2> QED  BY <2>2 DEF AheadRun
<1> HIDE DEF a, u
<1> DEFINE T == {i \in Nat : i <= Len(q) => /\ W[i] \in Walks
                                            /\ \E d \in Int : Ahead(e, q, W[i], i, c, l, d)}
<1>4. 0 \in T
  <2>1. Ahead(e, q, a, 0, c, l, c)
    BY <1>2 DEF Ahead, Newest
  <2> QED  BY <1>2, <1>3, <2>1
<1>5. ASSUME NEW i \in Nat, i \in T PROVE i + 1 \in T
  <2> SUFFICES ASSUME i + 1 <= Len(q)
               PROVE  W[i + 1] \in Walks /\ \E d \in Int : Ahead(e, q, W[i + 1], i + 1, c, l, d)
    OBVIOUS
  <2>1. i + 1 \in 1 .. Len(q) /\ i < Len(q) /\ (i + 1) - 1 = i
    BY <1>1
  <2>2. W[i] \in Walks
    BY <1>5, <2>1
  <2>3. PICK d \in Int : Ahead(e, q, W[i], i, c, l, d)
    BY <1>5, <2>1
  <2>4. W[i + 1] = AheadStep(e, s, W[i], q[i + 1])
    BY <1>3, <2>1
  <2>5. W[i + 1] \in Walks
    BY <1>1, <2>1, <2>2, <2>4, AheadFields
  <2> HIDE DEF T
  <2>6. \E b \in Int : Ahead(e, q, AheadStep(e, s, W[i], q[i + 1]), i + 1, c, l, b)
    BY <2>1, <2>2, <2>3, AheadTurn
  <2> QED  BY <2>4, <2>5, <2>6
<1>6. Len(q) \in T
  <2> HIDE DEF T
  <2> QED  BY <1>1, <1>4, <1>5, Induction
<1> DEFINE w == W[Len(q)]
<1>7. w \in Walks
  BY <1>1, <1>6
<1>8. PICK d \in Int : Ahead(e, q, w, Len(q), c, l, d)
  BY <1>1, <1>6
<1> HIDE DEF T, w
<1>9. w.out \in 0 .. Len(q) /\ (w.out < Len(q) => w.stop)
  BY <1>1, <1>7, <1>8 DEF Ahead, Walks
<1>10. /\ w.start = d % SeqSize /\ c <= d
       /\ d = c \/ (w.out > 0 /\ d <= q[w.out].n + 1)
       /\ Newest(q, w.out, l) <= d
       /\ w.out < Len(q) => q[w.out + 1].n > d /\ HasBubble(e, w)
  BY <1>8, <1>9 DEF Ahead
<1>11. Newest(q, w.out, l) \in Int
  BY <1>1, <1>9 DEF Newest
<1>12. \A j \in (w.out + 1) .. Len(q) : q[j].n > d
  <2> SUFFICES ASSUME NEW j \in (w.out + 1) .. Len(q) PROVE q[j].n > d
    OBVIOUS
  <2>1. w.out < Len(q) /\ w.out + 1 \in 1 .. Len(q) /\ j \in 1 .. Len(q)
    BY <1>9
  <2>2. j = w.out + 1 \/ w.out + 1 < j
    BY <1>9
  <2>3. q[w.out + 1].n <= q[j].n
    BY <1>1, <2>1, <2>2 DEF Order, InTurn
  <2> QED  BY <1>1, <1>10, <2>1, <2>3
<1>13. Fit(q, w.out, d, Newest(q, w.out, l))
  <2>1. \A j \in (w.out + 1) .. Len(q) : j \in 1 .. Len(q)
    BY <1>9
  <2> QED  BY <1>1, <1>10, <1>11, <1>12, <2>1 DEF Fit
<1>14. /\ u \in Walks /\ u.out = w.out /\ u.start = w.start
       /\ w.out < Len(q) => u = w
  BY <1>3, <1>7, ClosedFields DEF w
<1>15. w.out < Len(q) => w.out + 1 \in 1 .. Len(q)
  BY <1>9
<1>16. Leaves(e, q, u, c, l, d)
  BY <1>1, <1>9, <1>10, <1>13, <1>14, <1>15 DEF Leaves
<1>17. u.out < Len(q) => q[u.out + 1].n > c
  BY <1>1, <1>10, <1>14, <1>15
<1> QED  BY <1>9, <1>14, <1>16, <1>17 DEF u

-----------------------------------------------------------------------------
(* Where a packet is put.                                                  *)

LEMMA MaxOfTwo ==
  ASSUME NEW a \in Int, NEW b \in Int
  PROVE  Max({a, b}) = IF a >= b THEN a ELSE b
<1> DEFINE m == IF a >= b THEN a ELSE b
<1>1. m \in {a, b} /\ m \in Int /\ \A y \in {a, b} : m >= y
  OBVIOUS
<1>2. \A x \in {a, b} : (\A y \in {a, b} : x >= y) => x = m
  OBVIOUS
<1> HIDE DEF m
<1>3. Max({a, b}) = m
  BY <1>1, <1>2 DEF Max
<1> QED  BY <1>3 DEF m

LEMMA MinOfTwo ==
  ASSUME NEW a \in Int, NEW b \in Int
  PROVE  Min({a, b}) = IF a <= b THEN a ELSE b
<1> DEFINE m == IF a <= b THEN a ELSE b
<1>1. m \in {a, b} /\ m \in Int /\ \A y \in {a, b} : m <= y
  OBVIOUS
<1>2. \A x \in {a, b} : (\A y \in {a, b} : x <= y) => x = m
  OBVIOUS
<1> HIDE DEF m
<1>3. Min({a, b}) = m
  BY <1>1, <1>2 DEF Min
<1> QED  BY <1>3 DEF m

LEMMA MinIsLeast ==
  ASSUME NEW S, S \subseteq Nat, S # {}
  PROVE  Min(S) \in S /\ \A y \in S : Min(S) <= y
<1>1. \E x \in S : \A y \in S : x <= y
  BY LeastNumber
<1> QED  BY <1>1 DEF Min

LEMMA InsertedAt ==
  ASSUME NEW S, NEW q \in Seq(S), NEW p \in S, NEW at \in 1 .. Len(q) + 1
  PROVE  LET r == InsertAt(q, at, p) IN
         /\ r \in Seq(S) /\ Len(r) = Len(q) + 1
         /\ \A i \in 1 .. Len(r) :
              r[i] = IF i < at THEN q[i] ELSE IF i = at THEN p ELSE q[i - 1]
<1> DEFINE a == SubSeq(q, 1, at - 1)
           b == SubSeq(q, at, Len(q))
           ap == a \o <<p>>
<1>1. Len(q) \in Nat /\ \A i \in 1 .. Len(q) : q[i] \in S
  OBVIOUS
<1>2. /\ a \in Seq(S) /\ Len(a) = at - 1 /\ \A i \in 1 .. at - 1 : a[i] = q[i]
  <2>1. 1 \in Int /\ at - 1 \in Int /\ \A i \in 1 .. (at - 1) : q[i] \in S
    BY <1>1
  <2>2. /\ a \in Seq(S) /\ Len(a) = IF 1 <= at - 1 THEN (at - 1) - 1 + 1 ELSE 0
        /\ \A i \in 1 .. (at - 1) - 1 + 1 : a[i] = q[1 + i - 1]
    BY <2>1, SubSeqProperties
  <2> HIDE DEF a
  <2> QED  BY <2>1, <2>2
<1>3. /\ b \in Seq(S) /\ Len(b) = Len(q) - at + 1
      /\ \A i \in 1 .. Len(q) - at + 1 : b[i] = q[at + i - 1]
  <2>1. at \in Int /\ Len(q) \in Int /\ \A i \in at .. Len(q) : q[i] \in S
    BY <1>1
  <2>2. /\ b \in Seq(S) /\ Len(b) = IF at <= Len(q) THEN Len(q) - at + 1 ELSE 0
        /\ \A i \in 1 .. Len(q) - at + 1 : b[i] = q[at + i - 1]
    BY <2>1, SubSeqProperties
  <2> HIDE DEF b
  <2> QED  BY <1>1, <2>1, <2>2
<1> HIDE DEF a, b
<1>4. /\ ap \in Seq(S) /\ Len(ap) = at
      /\ \A i \in 1 .. at : ap[i] = IF i < at THEN q[i] ELSE p
  <2>1. <<p>> \in Seq(S) /\ Len(<<p>>) = 1 /\ <<p>>[1] = p
    OBVIOUS
  <2>2. /\ ap \in Seq(S) /\ Len(ap) = Len(a) + Len(<<p>>)
        /\ \A i \in 1 .. Len(a) + Len(<<p>>) :
             ap[i] = IF i <= Len(a) THEN a[i] ELSE <<p>>[i - Len(a)]
    BY <1>2, <2>1, ConcatProperties
  <2> HIDE DEF ap
  <2> QED  BY <1>2, <2>1, <2>2
<1> HIDE DEF ap
<1>5. /\ ap \o b \in Seq(S) /\ Len(ap \o b) = Len(ap) + Len(b)
      /\ \A i \in 1 .. Len(ap) + Len(b) :
           (ap \o b)[i] = IF i <= Len(ap) THEN ap[i] ELSE b[i - Len(ap)]
  BY <1>3, <1>4, ConcatProperties
<1>6. InsertAt(q, at, p) = ap \o b
  BY DEF InsertAt, ap, a, b
<1>7. Len(ap \o b) = Len(q) + 1 /\ Len(ap) + Len(b) = Len(q) + 1
  BY <1>1, <1>3, <1>4, <1>5
<1>8. ASSUME NEW i \in 1 .. Len(q) + 1
      PROVE  (ap \o b)[i] = IF i < at THEN q[i] ELSE IF i = at THEN p ELSE q[i - 1]
  <2>1. (ap \o b)[i] = IF i <= at THEN ap[i] ELSE b[i - at]
    BY <1>4, <1>5, <1>7
  <2>2. CASE i <= at
    BY <1>4, <2>1, <2>2
  <2>3. CASE i > at
    <3>1. i - at \in 1 .. Len(q) - at + 1 /\ at + (i - at) - 1 = i - 1
      BY <1>1, <2>3
    <3>2. b[i - at] = q[i - 1]
      BY <1>3, <3>1
    <3> QED  BY <2>1, <2>3, <3>2
  <2>4. i <= at \/ i > at
    BY <1>1
  <2> QED  BY <2>2, <2>3, <2>4
<1> DEFINE r == InsertAt(q, at, p)
<1>9. r = ap \o b
  BY <1>6
<1> HIDE DEF r
<1>10. r \in Seq(S) /\ Len(r) = Len(q) + 1
  BY <1>5, <1>7, <1>9
<1>11. \A i \in 1 .. Len(q) + 1 :
         r[i] = IF i < at THEN q[i] ELSE IF i = at THEN p ELSE q[i - 1]
  BY <1>8, <1>9, Zenon
<1>12. \A i \in 1 .. Len(r) :
         r[i] = IF i < at THEN q[i] ELSE IF i = at THEN p ELSE q[i - 1]
  BY <1>10, <1>11, Zenon
<1> QED  BY <1>10, <1>12, Zenon DEF r

(* qmInsertFallWithinReorderPkt keeps a queue in order.  A last subframe   *)
(* arrives with dup unset only if the queue has at most the first one.     *)
LEMMA InsertedOrder ==
  ASSUME NEW e \in Entries, que[e] \in Seq(Packets), dup[e] \in BOOLEAN, Order(que[e]),
         NEW p \in Packets,
         \A j \in 1 .. Len(que[e]) : p.n - que[e][j].n < Half /\ que[e][j].n - p.n < Half,
         p.fmt = "last" /\ ~dup[e] =>
           \A j \in 1 .. Len(que[e]) : que[e][j].n = p.n => que[e][j].fmt = "first"
  PROVE  LET r == Inserted(e, p) IN
         /\ r.que \in Seq(Packets) /\ r.dup \in BOOLEAN /\ Order(r.que)
         /\ \A j \in 1 .. Len(r.que) : r.que[j] = p \/ \E k \in 1 .. Len(que[e]) : r.que[j] = que[e][k]
         /\ p.fmt = "first" /\ ~r.dup =>
              \A j \in 1 .. Len(r.que) : r.que[j].n = p.n => r.que[j] = p
<1> DEFINE q == que[e]
           same == {i \in DOMAIN q : SN(q[i]) = SN(p)}
           newer == {i \in DOMAIN q : Smaller(SN(p), SN(q[i]))}
           at == IF newer = {} THEN Len(q) + 1 ELSE Min(newer)
           r == Inserted(e, p)
<1>1. /\ Len(q) \in Nat /\ DOMAIN q = 1 .. Len(q) /\ p.n \in Int
      /\ \A j \in 1 .. Len(q) : q[j] \in Packets /\ q[j].n \in Int
  BY PacketFields
<1>2. \A j \in 1 .. Len(q) : /\ SN(q[j]) = SN(p) <=> q[j].n = p.n
                             /\ Smaller(SN(p), SN(q[j])) <=> p.n < q[j].n
  <2> TAKE j \in 1 .. Len(q)
  <2>1. /\ q[j].n \in Int /\ SN(q[j]) = q[j].n % SeqSize /\ SN(p) = p.n % SeqSize
        /\ p.n - q[j].n < Half /\ q[j].n - p.n < Half
    BY <1>1, PacketFields
  <2>2. /\ Smaller(p.n % SeqSize, q[j].n % SeqSize) <=> p.n < q[j].n
        /\ p.n % SeqSize = q[j].n % SeqSize <=> p.n = q[j].n
    BY <1>1, <2>1, Compare
  <2> QED  BY <2>1, <2>2
<1>3. same = {j \in 1 .. Len(q) : q[j].n = p.n} /\ newer = {j \in 1 .. Len(q) : p.n < q[j].n}
  BY <1>1, <1>2
<1> HIDE DEF same, newer
<1>4. /\ at \in 1 .. Len(q) + 1
      /\ \A j \in 1 .. Len(q) : j < at => q[j].n <= p.n
      /\ \A j \in 1 .. Len(q) : at <= j => p.n < q[j].n
  <2>1. CASE newer = {}
    BY <1>1, <1>3, <2>1
  <2>2. CASE newer # {}
    <3>1. newer \subseteq Nat
      BY <1>3
    <3>2. at \in newer /\ \A y \in newer : at <= y
      BY <2>2, <3>1, MinIsLeast
    <3> HIDE DEF at
    <3>3. at \in 1 .. Len(q) /\ p.n < q[at].n
      BY <1>3, <3>2
    <3>4. ASSUME NEW j \in 1 .. Len(q), j < at PROVE q[j].n <= p.n
      BY <1>1, <1>3, <3>2, <3>3, <3>4
    <3>5. ASSUME NEW j \in 1 .. Len(q), at <= j PROVE p.n < q[j].n
      <4>1. q[at].n <= q[j].n
        BY <1>1, <3>3, <3>5 DEF Order, InTurn
      <4> QED  BY <1>1, <3>3, <3>5, <4>1
    <3> QED  BY <1>1, <3>3, <3>4, <3>5
  <2> QED  BY <2>1, <2>2
<1>5. r = IF q = <<>> THEN [que |-> <<p>>, dup |-> dup[e]]
          ELSE IF same # {} /\ (dup[e] \/ p.fmt # "last")
          THEN [que |-> q, dup |-> dup[e] \/ p.fmt = "first"]
          ELSE [que |-> InsertAt(q, at, p), dup |-> FALSE]
  BY DEF Inserted, same, newer
<1> HIDE DEF at, r
<1>6. CASE q = <<>>
  <2>1. r.que = <<p>> /\ r.dup = dup[e]
    BY <1>5, <1>6
  <2>2. <<p>> \in Seq(Packets) /\ Len(<<p>>) = 1 /\ <<p>>[1] = p
    OBVIOUS
  <2> QED  BY <2>1, <2>2 DEF Order, r
<1>7. CASE q # <<>> /\ same # {} /\ (dup[e] \/ p.fmt # "last")
  <2>1. r.que = q /\ r.dup = (dup[e] \/ p.fmt = "first")
    BY <1>5, <1>7
  <2>2. r.dup \in BOOLEAN
    BY <2>1
  <2> QED  BY <2>1, <2>2 DEF r
<1>8. CASE q # <<>> /\ (same = {} \/ (~dup[e] /\ p.fmt = "last"))
  <2> DEFINE n == InsertAt(q, at, p)
  <2>1. r.que = n /\ r.dup = FALSE
    BY <1>5, <1>8
  <2>2. /\ n \in Seq(Packets) /\ Len(n) = Len(q) + 1
        /\ \A i \in 1 .. Len(n) :
             n[i] = IF i < at THEN q[i] ELSE IF i = at THEN p ELSE q[i - 1]
    BY <1>4, InsertedAt
  <2> HIDE DEF n
  <2>3. \A j \in 1 .. Len(q) : q[j].n = p.n => q[j].fmt = "first" /\ p.fmt = "last"
    BY <1>1, <1>3, <1>8
  <2>4. Order(n)
    <3> SUFFICES ASSUME NEW i \in 1 .. Len(n), NEW j \in 1 .. Len(n), i < j
                 PROVE  n[i].n < n[j].n \/ (j = i + 1 /\ InTurn(n[i], n[j]))
      BY DEF Order
    <3>1. CASE j < at
      <4>1. i \in 1 .. Len(q) /\ j \in 1 .. Len(q) /\ n[i] = q[i] /\ n[j] = q[j]
        BY <1>1, <1>4, <2>2, <3>1
      <4> QED  BY <4>1 DEF Order
    <3>2. CASE j = at
      <4>1. i \in 1 .. Len(q) /\ n[i] = q[i] /\ n[j] = p
        BY <1>1, <1>4, <2>2, <3>2
      <4>2. q[i].n <= p.n
        BY <1>4, <3>2, <4>1
      <4>3. CASE q[i].n = p.n
        <5>1. InTurn(q[i], p)
          BY <2>3, <4>1, <4>3 DEF InTurn
        <5>2. i + 1 = j
          <6> SUFFICES ASSUME i + 1 < j PROVE FALSE
            BY <1>1
          <6>1. i + 1 \in 1 .. Len(q) /\ q[i + 1].n <= p.n
            BY <1>1, <1>4, <3>2, <4>1
          <6>2. q[i].n < q[i + 1].n \/ InTurn(q[i], q[i + 1])
            BY <1>1, <4>1, <6>1 DEF Order
          <6>3. q[i + 1].n = p.n /\ q[i + 1].fmt = "last"
            BY <1>1, <4>1, <4>3, <6>1, <6>2 DEF InTurn
          <6> QED  BY <2>3, <6>1, <6>3
        <5> QED  BY <4>1, <5>1, <5>2
      <4> QED  BY <1>1, <4>1, <4>2, <4>3
    <3>3. CASE j > at /\ i = at
      <4>1. j - 1 \in 1 .. Len(q) /\ at <= j - 1 /\ n[i] = p /\ n[j] = q[j - 1]
        BY <1>1, <1>4, <2>2, <3>3
      <4> QED  BY <1>4, <4>1
    <3>4. CASE j > at /\ i < at
      <4>1. /\ j - 1 \in 1 .. Len(q) /\ at <= j - 1 /\ n[j] = q[j - 1]
            /\ i \in 1 .. Len(q) /\ n[i] = q[i]
        BY <1>1, <1>4, <2>2, <3>4
      <4>2. q[i].n <= p.n /\ p.n < q[j - 1].n
        BY <1>4, <3>4, <4>1
      <4>3. q[i].n \in Int /\ p.n \in Int /\ q[j - 1].n \in Int
        BY <1>1, <4>1
      <4>4. n[i].n < n[j].n
        BY <4>1, <4>2, <4>3
      <4> QED  BY <4>4
    <3>5. CASE j > at /\ i > at
      <4>1. /\ j - 1 \in 1 .. Len(q) /\ n[j] = q[j - 1]
            /\ i - 1 \in 1 .. Len(q) /\ n[i] = q[i - 1] /\ i - 1 < j - 1
        BY <1>1, <1>4, <2>2, <3>5
      <4>2. q[i - 1].n < q[j - 1].n \/ (j - 1 = (i - 1) + 1 /\ InTurn(q[i - 1], q[j - 1]))
        BY <4>1 DEF Order
      <4> QED  BY <1>1, <4>1, <4>2
    <3> QED  BY <1>1, <1>4, <2>2, <3>1, <3>2, <3>3, <3>4, <3>5
  <2>5. \A j \in 1 .. Len(n) : n[j] = p \/ \E k \in 1 .. Len(q) : n[j] = q[k]
    <3> SUFFICES ASSUME NEW j \in 1 .. Len(n) PROVE n[j] = p \/ \E k \in 1 .. Len(q) : n[j] = q[k]
      OBVIOUS
    <3>1. CASE j < at
      BY <1>1, <1>4, <2>2, <3>1
    <3>2. CASE j = at
      BY <2>2, <3>2
    <3>3. CASE j > at
      <4>1. j - 1 \in 1 .. Len(q) /\ n[j] = q[j - 1]
        BY <1>1, <1>4, <2>2, <3>3
      <4> QED  BY <4>1
    <3> QED  BY <1>4, <2>2, <3>1, <3>2, <3>3
  <2>6. p.fmt = "first" => \A j \in 1 .. Len(n) : n[j].n = p.n => n[j] = p
    BY <2>3, <2>5
  <2> QED  BY <2>1, <2>2, <2>4, <2>5, <2>6 DEF r
<1> QED  BY <1>6, <1>7, <1>8

-----------------------------------------------------------------------------
(* The state of the queues.                                                *)

RxTypes ==
  /\ que \in [Entries -> Seq(Packets)] /\ start \in [Entries -> Seqs]
  /\ waiting \in [Entries -> BOOLEAN] /\ dup \in [Entries -> BOOLEAN]
  /\ resumed \in [Entries -> BOOLEAN]
  /\ bubble \in [Entries -> BOOLEAN] /\ timer \in [Entries -> BOOLEAN]
  /\ firstBubble \in [Entries -> Seqs] /\ lastOut \in [Entries -> Int]
  /\ hi \in Int /\ open \in Numbers \cup {None}
  /\ miss \in BOOLEAN /\ swapped \in BOOLEAN
  /\ napi \in Entries \cup {None} /\ timeoutQ \in Seq(Entries)

(* The packets of q have a place after l, the newest that has left.        *)
Passed(q, l) == \A j \in 1 .. Len(q) : q[j].n > l \/ (q[j].n = l /\ q[j].fmt = "last")
Below(q, m) == \A j \in 1 .. Len(q) : q[j].n < m

(* The window of an agreement begins with c.                               *)
WindowAt(e, c) ==
  /\ start[e] = c % SeqSize
  /\ Order(que[e]) /\ Fit(que[e], 0, c, lastOut[e])
  /\ Below(que[e], c + WinSize) /\ Passed(que[e], lastOut[e])
  /\ waiting[e] => que[e] = <<>>

(* How the sender stands to it: after a suspend it may be far ahead until  *)
(* the first packet arrives.  While the second subframe of an aggregate    *)
(* may still come, dup tells whether the queue has one already.            *)
SenderAt(e, c) ==
  /\ c <= hi /\ Below(que[e], hi)
  /\ resumed[e] \/ hi <= c + WinSize
  /\ open # None /\ open >= c /\ ~dup[e] =>
       \A j \in 1 .. Len(que[e]) : que[e][j].n = open => que[e][j].fmt = "first"

EntryInv(e) ==
  IF valid[e] THEN \E c \in Int : WindowAt(e, c) /\ (e = ref => SenderAt(e, c))
              ELSE que[e] = <<>>

OrderInv == RxTypes /\ ~swapped /\ \A e \in Entries : EntryInv(e)

(* The timer of a bubble runs, or the poll will look at the queue.         *)
Covered(e) == timer[e] \/ napi = e \/ e \in Range(timeoutQ) \/ e \in Range(flushQ)
CoverInv ==
  \A e \in Entries : /\ bubble[e] => valid[e] /\ Covered(e)
                     /\ que[e] # <<>> => bubble[e]

(* Until a window is torn from its queue all of it holds.                  *)
RxInv == SlotInv /\ torn \in BOOLEAN /\ (~torn => OrderInv /\ CoverInv)

(* What stays of a queue when m packets have left.                         *)
LEMMA SuffixIs ==
  ASSUME NEW S, NEW q \in Seq(S), NEW m \in 0 .. Len(q)
  PROVE  LET r == SubSeq(q, m + 1, Len(q)) IN
         /\ r \in Seq(S) /\ Len(r) = Len(q) - m
         /\ \A j \in 1 .. Len(q) - m : r[j] = q[m + j]
<1>1. Len(q) \in Nat /\ \A j \in 1 .. Len(q) : q[j] \in S
  OBVIOUS
<1>2. PICK k \in Int : k = m + 1
  OBVIOUS
<1> DEFINE r == SubSeq(q, k, Len(q))
<1>3. Len(q) \in Int /\ \A i \in k .. Len(q) : q[i] \in S
  BY <1>1, <1>2
<1>4. /\ r \in Seq(S) /\ Len(r) = IF k <= Len(q) THEN Len(q) - k + 1 ELSE 0
      /\ \A i \in 1 .. Len(q) - k + 1 : r[i] = q[k + i - 1]
  BY <1>3, SubSeqProperties
<1> HIDE DEF r
<1>5. Len(r) = Len(q) - m
  BY <1>1, <1>2, <1>4
<1>6. ASSUME NEW j \in 1 .. Len(q) - m PROVE r[j] = q[m + j]
  <2>1. j \in 1 .. Len(q) - k + 1 /\ k + j - 1 = m + j
    BY <1>1, <1>2
  <2> QED  BY <1>4, <2>1
<1> QED  BY <1>2, <1>4, <1>5, <1>6 DEF r

(* What Settle leaves behind.                                              *)
Left(e, q, w, c, d) ==
  /\ que' \in [Entries -> Seq(Packets)] /\ start' \in [Entries -> Seqs]
  /\ bubble' \in [Entries -> BOOLEAN] /\ timer' \in [Entries -> BOOLEAN]
  /\ firstBubble' \in [Entries -> Seqs] /\ lastOut' \in [Entries -> Int]
  /\ swapped' = swapped
  /\ \A x \in Entries : x # e =>
       /\ que'[x] = que[x] /\ start'[x] = start[x] /\ bubble'[x] = bubble[x]
       /\ timer'[x] = timer[x] /\ lastOut'[x] = lastOut[x]
  /\ start'[e] = d % SeqSize /\ Order(que'[e]) /\ Fit(que'[e], 0, d, lastOut'[e])
  /\ Below(que'[e], d + WinSize) /\ Passed(que'[e], lastOut'[e])
  /\ \A j \in 1 .. Len(que'[e]) : \E k \in 1 .. Len(q) : que'[e][j] = q[k]
  /\ w.out = Len(q) => que'[e] = <<>>
  /\ que'[e] # <<>> => bubble'[e]
  /\ bubble'[e] => timer'[e] \/ (bubble[e] /\ timer'[e] = timer[e])
  /\ c <= d /\ (d = c \/ \E k \in 1 .. Len(q) : d <= q[k].n + 1)

LEMMA Settled ==
  ASSUME RxTypes, NEW e \in Entries, NEW q \in Seq(Packets), Order(q),
         NEW w \in Walks, w.out \in 0 .. Len(q), NEW c \in Int, NEW since \in Int,
         NEW d \in Int, Leaves(e, q, w, c, since, d),
         Below(q, c + WinSize), \A j \in 1 .. Len(q) : q[j].n >= since,
         Settle(e, q, w, since)
  PROVE  Left(e, q, w, c, d)
<1> DEFINE r == SubSeq(q, w.out + 1, Len(q))
           l == IF w.out = 0 THEN since ELSE q[w.out].n
<1>1. /\ Len(q) \in Nat /\ w.out \in Nat
      /\ \A j \in 1 .. Len(q) : q[j] \in Packets /\ q[j].n \in Int
  BY PacketFields
<1>2. /\ r \in Seq(Packets) /\ Len(r) = Len(q) - w.out
      /\ \A j \in 1 .. Len(r) : /\ r[j] = q[w.out + j]
                                /\ w.out + j \in 1 .. Len(q)
  <2>1. /\ r \in Seq(Packets) /\ Len(r) = Len(q) - w.out
        /\ \A j \in 1 .. Len(q) - w.out : r[j] = q[w.out + j]
    BY SuffixIs
  <2> HIDE DEF r
  <2> QED  BY <1>1, <2>1
<1>3. l \in Int
  BY <1>1
<1>4. /\ w.start \in Seqs /\ w.first \in Seqs /\ HasBubble(e, w) \in BOOLEAN
      /\ (w.mark = "opened" \/ (w.mark = "kept" /\ timer[e])) \in BOOLEAN
  BY DEF Walks, HasBubble, RxTypes
<1>5. /\ que' = [que EXCEPT ![e] = r] /\ start' = [start EXCEPT ![e] = w.start]
      /\ bubble' = [bubble EXCEPT ![e] = HasBubble(e, w)]
      /\ timer' = [timer EXCEPT ![e] = w.mark = "opened" \/ (w.mark = "kept" /\ timer[e])]
      /\ firstBubble' = [firstBubble EXCEPT ![e] = w.first]
      /\ lastOut' = [lastOut EXCEPT ![e] = l]
      /\ swapped' = (swapped \/ \E i \in 1 .. w.out :
                                  q[i].n < IF i = 1 THEN since ELSE q[i - 1].n)
  BY DEF Settle
<1>6. swapped' = swapped
  <2> SUFFICES ASSUME NEW i \in 1 .. w.out
               PROVE  ~(q[i].n < IF i = 1 THEN since ELSE q[i - 1].n)
    BY <1>5 DEF RxTypes
  <2>1. i \in 1 .. Len(q) /\ (i # 1 => i - 1 \in 1 .. Len(q) /\ i - 1 < i)
    BY <1>1
  <2>2. i # 1 => q[i - 1].n <= q[i].n
    BY <1>1, <2>1 DEF Order, InTurn
  <2> QED  BY <1>1, <2>1, <2>2
<1>7. /\ w.start = d % SeqSize /\ c <= d
      /\ d = c \/ (w.out > 0 /\ d <= q[w.out].n + 1)
      /\ Fit(q, w.out, d, l)
      /\ w.out < Len(q) => q[w.out + 1].n # d /\ HasBubble(e, w)
  BY DEF Leaves, Newest
<1> HIDE DEF r, l
<1>8. Fit(r, 0, d, l)
  <2> SUFFICES ASSUME NEW j \in (0 + 1) .. Len(r)
               PROVE  /\ r[j].n >= l
                      /\ r[j].n >= d \/ (j = 0 + 1 /\ r[j].n = d - 1 /\ r[j].fmt = "last")
    BY <1>7 DEF Fit
  <2>1. /\ j \in 1 .. Len(r) /\ w.out + j \in (w.out + 1) .. Len(q)
        /\ w.out + j = w.out + 1 => j = 0 + 1
    BY <1>1, <1>2
  <2>2. r[j] = q[w.out + j]
    BY <1>2, <2>1
  <2> QED  BY <1>7, <2>1, <2>2 DEF Fit
<1>9. Order(r)
  <2> SUFFICES ASSUME NEW i \in 1 .. Len(r), NEW j \in 1 .. Len(r), i < j
               PROVE  r[i].n < r[j].n \/ (j = i + 1 /\ InTurn(r[i], r[j]))
    BY DEF Order
  <2>1. /\ w.out + i \in 1 .. Len(q) /\ w.out + j \in 1 .. Len(q) /\ w.out + i < w.out + j
        /\ r[i] = q[w.out + i] /\ r[j] = q[w.out + j]
        /\ w.out + j = (w.out + i) + 1 => j = i + 1
    BY <1>1, <1>2
  <2> QED  BY <2>1 DEF Order
<1>10. Passed(r, l)
  <2> SUFFICES ASSUME NEW j \in 1 .. Len(r), ~(r[j].n > l)
               PROVE  r[j].n = l /\ r[j].fmt = "last"
    BY DEF Passed
  <2>1. /\ r[j].n \in Int /\ 1 \in 1 .. Len(r) /\ r[1].n \in Int
        /\ r[1] = q[w.out + 1] /\ w.out < Len(q)
    <3>1. Len(r) \in Nat
      BY <1>1, <1>2
    <3>2. 1 \in 1 .. Len(r) /\ w.out < Len(q)
      BY <1>1, <1>2, <3>1
    <3> QED  BY <1>1, <1>2, <3>2
  <2>2. /\ l <= d /\ r[j].n >= l /\ r[1].n >= l
        /\ r[j].n >= d \/ (j = 1 /\ r[j].n = d - 1 /\ r[j].fmt = "last")
    BY <1>8, <2>1 DEF Fit
  <2>3. r[j].n = l
    BY <1>3, <2>1, <2>2
  <2>4. CASE r[j].n >= d
    <3>1. r[j].n = d /\ l = d
      BY <1>3, <2>1, <2>2, <2>3, <2>4
    <3>2. j # 1 => r[1].n <= r[j].n
      <4> SUFFICES ASSUME j # 1 PROVE r[1].n <= r[j].n
        OBVIOUS
      <4>1. 1 < j /\ j \in 1 .. Len(r)
        BY <1>2
      <4>2. r[1].n < r[j].n \/ r[1].n = r[j].n
        BY <1>9, <2>1, <4>1 DEF Order, InTurn
      <4> QED  BY <2>1, <4>2
    <3>3. r[1].n = d
      BY <2>1, <2>2, <3>1, <3>2
    <3> QED  BY <1>7, <2>1, <3>3
  <2> QED  BY <2>2, <2>3, <2>4
<1>11. Below(r, d + WinSize)
  <2>1. \A j \in 1 .. Len(r) : r[j].n \in Int /\ r[j].n < c + WinSize
    BY <1>1, <1>2 DEF Below
  <2> QED  BY <1>7, <2>1, Sizes DEF Below
<1>12. /\ que'[e] = r /\ start'[e] = w.start /\ lastOut'[e] = l
       /\ bubble'[e] = HasBubble(e, w)
       /\ timer'[e] = (w.mark = "opened" \/ (w.mark = "kept" /\ timer[e]))
  BY <1>5 DEF RxTypes
<1>13. w.out = Len(q) => r = <<>>
  BY <1>1, <1>2
<1>14. r # <<>> => HasBubble(e, w)
  BY <1>1, <1>7, <1>13
<1>15. HasBubble(e, w) =>
         LET t == w.mark = "opened" \/ (w.mark = "kept" /\ timer[e])
         IN  t \/ (bubble[e] /\ t = timer[e])
  BY DEF HasBubble, RxTypes
<1>16. d = c \/ \E k \in 1 .. Len(q) : d <= q[k].n + 1
  <2>1. w.out > 0 => w.out \in 1 .. Len(q)
    BY <1>1
  <2> QED  BY <1>7, <2>1
<1>17. /\ que' \in [Entries -> Seq(Packets)] /\ start' \in [Entries -> Seqs]
       /\ bubble' \in [Entries -> BOOLEAN] /\ timer' \in [Entries -> BOOLEAN]
       /\ firstBubble' \in [Entries -> Seqs] /\ lastOut' \in [Entries -> Int]
  BY <1>2, <1>3, <1>4, <1>5 DEF RxTypes
<1>18. \A x \in Entries : x # e =>
              /\ que'[x] = que[x] /\ start'[x] = start[x] /\ bubble'[x] = bubble[x]
              /\ timer'[x] = timer[x] /\ lastOut'[x] = lastOut[x]
  BY <1>5 DEF RxTypes
<1>19. \A j \in 1 .. Len(r) : \E k \in 1 .. Len(q) : r[j] = q[k]
  BY <1>2
<1> QED
  BY <1>6, <1>7, <1>8, <1>9, <1>10, <1>11, <1>12, <1>13, <1>14, <1>15, <1>16, <1>17, <1>18, <1>19
  DEF Left

-----------------------------------------------------------------------------
(* A packet arrives.                                                       *)

(* What has to hold of the queue of e for a packet n that finds the window *)
(* beginning with b.                                                       *)
Ready(e, n, fmt, b, since) ==
  /\ b <= hi \/ b = n
  /\ hi <= b + WinSize /\ b - n <= Late /\ n - hi <= Gap
  /\ Order(que[e]) /\ Fit(que[e], 0, b, since)
  /\ Below(que[e], b + WinSize) /\ Below(que[e], hi)
  /\ waiting[e] => que[e] = <<>>
  /\ fmt = "last" /\ ~dup[e] /\ b <= n =>
       \A j \in 1 .. Len(que[e]) : que[e][j].n = n => que[e][j].fmt = "first"

(* What the handling of the packet, and of the rest that pops packets,     *)
(* leaves behind.                                                          *)
Landed(e) ==
  /\ que' \in [Entries -> Seq(Packets)] /\ start' \in [Entries -> Seqs]
  /\ bubble' \in [Entries -> BOOLEAN] /\ timer' \in [Entries -> BOOLEAN]
  /\ firstBubble' \in [Entries -> Seqs] /\ lastOut' \in [Entries -> Int]
  /\ waiting' \in [Entries -> BOOLEAN] /\ dup' \in [Entries -> BOOLEAN]
  /\ miss' \in BOOLEAN /\ swapped' = swapped
  /\ \A x \in Entries : x # e =>
       /\ que'[x] = que[x] /\ start'[x] = start[x] /\ bubble'[x] = bubble[x]
       /\ timer'[x] = timer[x] /\ lastOut'[x] = lastOut[x]
       /\ waiting'[x] = waiting[x] /\ dup'[x] = dup[x]
  /\ \E d \in Int : WindowAt(e, d)' /\ (e = ref' => SenderAt(e, d)')
  /\ que'[e] # <<>> => bubble'[e]
  /\ bubble'[e] => timer'[e] \/ (bubble[e] /\ timer'[e] = timer[e])

(* The sender's side.                                                      *)
LEMMA ArrivesPacket ==
  ASSUME RxTypes, NEW n \in Numbers, NEW fmt \in Formats, Arrives(n, fmt)
  PROVE  LET p == [n |-> n, fmt |-> fmt] IN
         /\ p \in Packets /\ p.n = n /\ p.fmt = fmt /\ SN(p) = n % SeqSize
         /\ n \in Int /\ hi \in Int /\ hi - n <= Late /\ n - hi <= Gap
         /\ hi' \in Int /\ hi' = IF hi >= n + 1 THEN hi ELSE n + 1
         /\ Apart(hi')
         /\ open' \in Numbers \cup {None}
         /\ open' # None => fmt = "first" /\ open' = n
         /\ fmt = "last" => open = n /\ open # None
<1> DEFINE p == [n |-> n, fmt |-> fmt]
<1>1. /\ n \in Int /\ hi \in Int /\ n \in hi - Late .. hi + Gap
      /\ IF n \in Amsdus THEN fmt = "first" \/ (fmt = "last" /\ open = n) ELSE fmt = "msdu"
      /\ hi' = Max({hi, n + 1}) /\ Apart(hi')
      /\ open' = IF fmt = "first" THEN n ELSE None
  BY Sizes DEF Arrives, RxTypes, Numbers
<1>2. hi' = IF hi >= n + 1 THEN hi ELSE n + 1
  BY <1>1, MaxOfTwo
<1>3. p \in Packets
  BY <1>1 DEF Packets, Formats
<1>4. n # None
  BY RxReorderAssumption DEF Numbers
<1> QED  BY <1>1, <1>2, <1>3, <1>4, Sizes DEF SN

(* It falls within the window.                                             *)
LEMMA LandsWithin ==
  ASSUME RxTypes, ~swapped, NEW e \in Entries, e = ref', NEW n \in Numbers, NEW fmt \in Formats,
         NEW b \in Int, NEW since \in Int, Ready(e, n, fmt, b, since), Arrives(n, fmt),
         NEW p \in Packets, p = [n |-> n, fmt |-> fmt], b <= n, n <= b + WinSize - 1,
         NEW late \in BOOLEAN, NEW ins, ins = Inserted(e, p),
         LET pos == IF waiting[e] THEN SN(p) ELSE b % SeqSize
         IN  Settle(e, ins.que, PopWithin(e, ins.que, pos, late), since),
         dup' = [dup EXCEPT ![e] = ins.dup], miss' = (que'[e] # <<>>),
         waiting' = [waiting EXCEPT ![e] = FALSE]
  PROVE  Landed(e)
<1> DEFINE q == que[e]
           r == ins.que
<1>1. /\ q \in Seq(Packets) /\ Len(q) \in Nat /\ dup[e] \in BOOLEAN /\ firstBubble[e] \in Seqs
      /\ \A j \in 1 .. Len(q) : q[j] \in Packets /\ q[j].n \in Int
      /\ n \in Int
  BY PacketFields, ArrivesPacket DEF RxTypes
<1>2. /\ p.n = n /\ p.fmt = fmt /\ SN(p) = n % SeqSize
      /\ hi' \in Int /\ hi \in Int /\ hi' = IF hi >= n + 1 THEN hi ELSE n + 1
      /\ open' # None => fmt = "first" /\ open' = n
      /\ open' \in Numbers \cup {None}
  BY ArrivesPacket
<1>3. /\ b <= hi \/ b = n
      /\ hi <= b + WinSize
      /\ Order(q) /\ Fit(q, 0, b, since)
      /\ Below(q, b + WinSize) /\ Below(q, hi)
      /\ waiting[e] => q = <<>>
      /\ fmt = "last" /\ ~dup[e] =>
           \A j \in 1 .. Len(q) : q[j].n = n => q[j].fmt = "first"
  BY DEF Ready
<1>4. \A j \in 1 .. Len(q) :
        /\ q[j].n >= since /\ since <= b /\ q[j].n < b + WinSize /\ q[j].n < hi
        /\ q[j].n >= b \/ (j = 1 /\ q[j].n = b - 1 /\ q[j].fmt = "last")
  BY <1>3 DEF Fit, Below
<1>5. since <= b
  BY <1>3 DEF Fit
<1>6. \A j \in 1 .. Len(q) : p.n - q[j].n < Half /\ q[j].n - p.n < Half
  <2> TAKE j \in 1 .. Len(q)
  <2>1. /\ q[j].n \in Int /\ q[j].n < b + WinSize /\ q[j].n >= b - 1
    <3>1. q[j].n < b + WinSize /\ (q[j].n >= b \/ q[j].n = b - 1)
      BY <1>4
    <3> QED  BY <1>1, <3>1
  <2>2. p.n \in Int /\ p.n <= b + WinSize - 1 /\ p.n >= b
    BY <1>1, <1>2
  <2> QED  BY <2>1, <2>2, Lengths
<1>7. /\ r \in Seq(Packets) /\ ins.dup \in BOOLEAN /\ Order(r)
      /\ \A j \in 1 .. Len(r) : r[j] = p \/ \E k \in 1 .. Len(q) : r[j] = q[k]
      /\ p.fmt = "first" /\ ~ins.dup => \A j \in 1 .. Len(r) : r[j].n = p.n => r[j] = p
  <2>1. p.fmt = "last" /\ ~dup[e] =>
           \A j \in 1 .. Len(q) : q[j].n = p.n => q[j].fmt = "first"
    BY <1>2, <1>3
  <2>2. LET v == Inserted(e, p) IN
        /\ v.que \in Seq(Packets) /\ v.dup \in BOOLEAN /\ Order(v.que)
        /\ \A j \in 1 .. Len(v.que) : v.que[j] = p \/ \E k \in 1 .. Len(que[e]) : v.que[j] = que[e][k]
        /\ p.fmt = "first" /\ ~v.dup =>
             \A j \in 1 .. Len(v.que) : v.que[j].n = p.n => v.que[j] = p
    BY <1>1, <1>3, <1>6, <2>1, InsertedOrder
  <2> QED  BY <2>2
<1>8. PICK a \in Int : a = IF waiting[e] THEN n ELSE b
  BY <1>1
<1>9. b <= a /\ (a = b \/ a = n) /\ (IF waiting[e] THEN SN(p) ELSE b % SeqSize) = a % SeqSize
  BY <1>1, <1>2, <1>8
<1> DEFINE w == PopWithin(e, r, a % SeqSize, late)
<1>10. Settle(e, r, w, since)
  BY <1>9
<1> HIDE DEF r, w
<1>11. waiting[e] => \A j \in 1 .. Len(r) : r[j] = p
  BY <1>1, <1>3, <1>7
<1>12. Len(r) \in Nat /\ \A j \in 1 .. Len(r) : r[j] \in Packets /\ r[j].n \in Int
  BY <1>7, PacketFields
<1>13. \A j \in 1 .. Len(r) :
         /\ r[j].n >= since /\ r[j].n < b + WinSize /\ r[j].n < hi'
         /\ r[j].n >= b \/ (r[j].n = b - 1 /\ r[j].fmt = "last")
  <2> TAKE j \in 1 .. Len(r)
  <2>1. CASE r[j] = p
    BY <1>1, <1>2, <1>5, <2>1, Sizes
  <2>2. CASE \E k \in 1 .. Len(q) : r[j] = q[k]
    <3>1. PICK k \in 1 .. Len(q) : r[j] = q[k]
      BY <2>2
    <3> QED  BY <1>1, <1>2, <1>4, <3>1
  <2> QED  BY <1>7, <2>1, <2>2
<1>14. Fit(r, 0, a, since)
  <2> SUFFICES ASSUME NEW j \in 1 .. Len(r)
               PROVE  r[j].n >= a \/ (j = 1 /\ r[j].n = a - 1 /\ r[j].fmt = "last")
    BY <1>5, <1>9, <1>13 DEF Fit
  <2>1. CASE waiting[e]
    BY <1>1, <1>2, <1>8, <1>11, <2>1
  <2>2. CASE ~waiting[e] /\ r[j].n = b - 1 /\ r[j].fmt = "last"
    <3>1. a = b
      BY <1>8, <2>2
    <3>2. 1 \in 1 .. Len(r) /\ r[1].n \in Int
      BY <1>12
    <3>3. j # 1 => r[1].n < r[j].n \/ (r[1].n = r[j].n /\ r[1].fmt = "first")
      BY <1>7, <1>12, <3>2 DEF Order, InTurn
    <3>4. j = 1
      BY <1>12, <1>13, <2>2, <3>2, <3>3
    <3> QED  BY <2>2, <3>1, <3>4
  <2> QED  BY <1>8, <1>13, <2>1, <2>2
<1>15. Below(r, a + WinSize) /\ \A j \in 1 .. Len(r) : r[j].n < a + WinSize
  BY <1>9, <1>12, <1>13, Sizes DEF Below
<1>16. /\ w \in Walks /\ w.out \in 0 .. Len(r)
       /\ \E d \in Int : Leaves(e, r, w, a, since, d)
  BY <1>1, <1>7, <1>14, <1>15, WithinPops DEF w
<1>17. PICK d \in Int : Leaves(e, r, w, a, since, d)
  BY <1>16
<1>18. /\ que' \in [Entries -> Seq(Packets)] /\ start' \in [Entries -> Seqs]
       /\ bubble' \in [Entries -> BOOLEAN] /\ timer' \in [Entries -> BOOLEAN]
       /\ firstBubble' \in [Entries -> Seqs] /\ lastOut' \in [Entries -> Int]
       /\ swapped' = swapped
       /\ \A x \in Entries : x # e =>
            /\ que'[x] = que[x] /\ start'[x] = start[x] /\ bubble'[x] = bubble[x]
            /\ timer'[x] = timer[x] /\ lastOut'[x] = lastOut[x]
       /\ start'[e] = d % SeqSize /\ Order(que'[e]) /\ Fit(que'[e], 0, d, lastOut'[e])
       /\ Below(que'[e], d + WinSize) /\ Passed(que'[e], lastOut'[e])
       /\ \A j \in 1 .. Len(que'[e]) : \E k \in 1 .. Len(r) : que'[e][j] = r[k]
       /\ que'[e] # <<>> => bubble'[e]
       /\ bubble'[e] => timer'[e] \/ (bubble[e] /\ timer'[e] = timer[e])
       /\ a <= d /\ (d = a \/ \E k \in 1 .. Len(r) : d <= r[k].n + 1)
  <2>1. \A j \in 1 .. Len(r) : r[j].n >= since
    BY <1>13
  <2>2. Left(e, r, w, a, d)
    BY <1>7, <1>10, <1>15, <1>16, <1>17, <2>1, Settled
  <2> QED  BY <2>2 DEF Left
<1>19. /\ waiting' \in [Entries -> BOOLEAN] /\ dup' \in [Entries -> BOOLEAN]
       /\ ~waiting'[e] /\ dup'[e] = ins.dup
       /\ \A x \in Entries : x # e => waiting'[x] = waiting[x] /\ dup'[x] = dup[x]
  BY <1>7 DEF RxTypes
<1>20. WindowAt(e, d)'
  BY <1>18, <1>19 DEF WindowAt
<1>21. SenderAt(e, d)'
  <2>1. d <= hi'
    BY <1>1, <1>2, <1>3, <1>9, <1>12, <1>13, <1>18
  <2>2. Below(que'[e], hi')
    BY <1>13, <1>18 DEF Below
  <2>3. hi' <= d + WinSize
    <3>1. n <= b + WinSize - 1 /\ hi <= b + WinSize /\ b <= d /\ WinSize \in Int
      BY <1>3, <1>9, <1>18, Sizes
    <3>2. hi' <= b + WinSize
      BY <1>1, <1>2, <3>1
    <3> QED  BY <1>2, <3>1, <3>2
  <2>4. ASSUME open' # None, ~dup'[e], NEW j \in 1 .. Len(que'[e]), que'[e][j].n = open'
        PROVE  que'[e][j].fmt = "first"
    <3>1. PICK k \in 1 .. Len(r) : que'[e][j] = r[k]
      BY <1>18, <2>4
    <3>2. p.fmt = "first" /\ open' = p.n /\ ~ins.dup /\ r[k].n = p.n
      BY <1>2, <1>19, <2>4, <3>1
    <3> QED  BY <1>7, <3>1, <3>2
  <2> QED  BY <2>1, <2>2, <2>3, <2>4 DEF SenderAt
<1> QED  BY <1>18, <1>19, <1>20, <1>21 DEF Landed

(* It falls ahead of the window, which moves so as to end with it.         *)
LEMMA AppendedOrder ==
  ASSUME NEW q \in Seq(Packets), Order(q), NEW p \in Packets, Below(q, p.n)
  PROVE  LET r == Append(q, p) IN
         /\ r \in Seq(Packets) /\ Order(r)
         /\ \A j \in 1 .. Len(r) : r[j] = p \/ (r[j].n < p.n /\ \E k \in 1 .. Len(q) : r[j] = q[k])
<1> DEFINE r == Append(q, p)
<1>1. /\ r \in Seq(Packets) /\ Len(r) = Len(q) + 1 /\ Len(q) \in Nat
      /\ \A i \in 1 .. Len(q) : r[i] = q[i]
      /\ r[Len(q) + 1] = p
  BY AppendProperties
<1> HIDE DEF r
<1>2. \A i \in 1 .. Len(r) : i \in 1 .. Len(q) \/ i = Len(q) + 1
  BY <1>1
<1>3. Order(r)
  <2> SUFFICES ASSUME NEW i \in 1 .. Len(r), NEW j \in 1 .. Len(r), i < j
               PROVE  r[i].n < r[j].n \/ (j = i + 1 /\ InTurn(r[i], r[j]))
    BY DEF Order
  <2>1. i \in 1 .. Len(q)
    BY <1>1
  <2>2. CASE j \in 1 .. Len(q)
    BY <1>1, <2>1, <2>2 DEF Order
  <2>3. CASE j = Len(q) + 1
    BY <1>1, <2>1, <2>3 DEF Below
  <2> QED  BY <1>2, <2>2, <2>3
<1> QED  BY <1>1, <1>2, <1>3 DEF Below, r

LEMMA LandsAhead ==
  ASSUME RxTypes, ~swapped, NEW e \in Entries, e = ref, e = ref', e # None,
         NEW n \in Numbers, NEW fmt \in Formats,
         NEW b \in Int, NEW since \in Int, Ready(e, n, fmt, b, since), Arrives(n, fmt),
         NEW p \in Packets, p = [n |-> n, fmt |-> fmt], b + WinSize - 1 < n,
         LET r == Append(que[e], p)
         IN  Settle(e, r, PopAhead(e, r, SeqAdd(SN(p), -(WinSize - 1)), SN(p)), since),
         dup' = [dup EXCEPT ![e] = FALSE], miss' = (miss /\ que'[e] # <<>>),
         waiting' = [waiting EXCEPT ![e] = FALSE]
  PROVE  Landed(e)
<1> DEFINE q == que[e]
           r == Append(q, p)
<1>1. /\ q \in Seq(Packets) /\ Len(q) \in Nat /\ firstBubble[e] \in Seqs
      /\ \A j \in 1 .. Len(q) : q[j] \in Packets /\ q[j].n \in Int
      /\ n \in Int
  BY PacketFields, ArrivesPacket DEF RxTypes
<1>2. /\ p.n = n /\ p.fmt = fmt /\ SN(p) = n % SeqSize
      /\ hi' \in Int /\ hi \in Int /\ hi' = IF hi >= n + 1 THEN hi ELSE n + 1
      /\ open' # None => fmt = "first" /\ open' = n
      /\ Apart(hi')
  BY ArrivesPacket
<1>3. /\ hi <= b + WinSize /\ Order(q) /\ Fit(q, 0, b, since)
      /\ Below(q, b + WinSize) /\ Below(q, hi)
  BY DEF Ready
<1>4. \A j \in 1 .. Len(q) :
        /\ q[j].n >= since /\ q[j].n < b + WinSize /\ q[j].n < hi
        /\ hi' - q[j].n < Half
  <2>1. \A j \in 1 .. Len(q) : hi' - q[j].n < Half
    <3>1. ref # None => \A i \in DOMAIN que[ref] : hi' - que[ref][i].n < SeqSize \div 2
      BY <1>2 DEF Apart
    <3>2. DOMAIN q = 1 .. Len(q)
      BY <1>1
    <3> QED  BY <3>1, <3>2 DEF Half
  <2>2. \A j \in 1 .. Len(q) : q[j].n >= since /\ q[j].n < b + WinSize /\ q[j].n < hi
    BY <1>3 DEF Fit, Below
  <2> QED  BY <2>1, <2>2
<1>5. since <= b
  BY <1>3 DEF Fit
<1>6. Below(q, p.n)
  <2>1. \A j \in 1 .. Len(q) : q[j].n \in Int /\ q[j].n < b + WinSize
    BY <1>1, <1>4
  <2>2. b + WinSize <= p.n
    BY <1>1, <1>2, Lengths
  <2>3. ASSUME NEW j \in 1 .. Len(q) PROVE q[j].n < p.n
    BY <1>1, <1>2, <2>1, <2>2, <2>3, Sizes
  <2> QED  BY <2>3 DEF Below
<1>7. /\ r \in Seq(Packets) /\ Order(r)
      /\ \A j \in 1 .. Len(r) : r[j] = p \/ (r[j].n < p.n /\ \E k \in 1 .. Len(q) : r[j] = q[k])
  BY <1>1, <1>3, <1>6, AppendedOrder
<1>8. PICK a \in Int : a = n - (WinSize - 1)
  BY <1>1, Sizes
<1>9. b <= a /\ since <= a /\ SeqAdd(SN(p), -(WinSize - 1)) = a % SeqSize
  <2>1. -(WinSize - 1) \in Int /\ n + (-(WinSize - 1)) = a
    BY <1>1, <1>8, Sizes
  <2>2. SeqAdd(n % SeqSize, -(WinSize - 1)) = (n + (-(WinSize - 1))) % SeqSize
    BY <1>1, <2>1, AddSeq, Zenon
  <2>3. b <= a /\ since <= a
    BY <1>1, <1>5, <1>8, Lengths
  <2> QED  BY <1>2, <2>1, <2>2, <2>3
<1> DEFINE w == PopAhead(e, r, a % SeqSize, SN(p))
<1>10. Settle(e, r, w, since)
  BY <1>9
<1> HIDE DEF r, w
<1>11. Len(r) \in Nat /\ \A j \in 1 .. Len(r) : r[j] \in Packets /\ r[j].n \in Int
  BY <1>7, PacketFields
<1>12. \A j \in 1 .. Len(r) :
         /\ r[j].n >= since /\ r[j].n <= n /\ r[j].n < hi'
         /\ hi' - r[j].n < Half \/ r[j] = p
  <2> TAKE j \in 1 .. Len(r)
  <2>1. CASE r[j] = p
    <3>1. since <= n /\ n < hi'
      BY <1>1, <1>2, <1>5, Sizes
    <3> QED  BY <1>1, <1>2, <2>1, <3>1
  <2>2. CASE r[j].n < p.n /\ \E k \in 1 .. Len(q) : r[j] = q[k]
    <3>1. PICK k \in 1 .. Len(q) : r[j] = q[k]
      BY <2>2
    <3> QED  BY <1>1, <1>2, <1>4, <2>2, <3>1
  <2> QED  BY <1>7, <2>1, <2>2
<1>13. Near(r, a)
  <2> SUFFICES ASSUME NEW j \in 1 .. Len(r) PROVE r[j].n - a < Half /\ a - r[j].n < Half
    BY DEF Near
  <2>1. /\ r[j].n \in Int /\ r[j].n <= n /\ n < hi'
        /\ hi' - r[j].n < Half \/ r[j].n = n
    BY <1>1, <1>2, <1>11, <1>12
  <2>2. a \in Int /\ hi' \in Int /\ n \in Int /\ Half \in Int
    BY <1>1, <1>2, <1>8, Lengths
  <2>3. a <= n /\ n - a < Half
    <3>1. n \in Int /\ a = n - (WinSize - 1)
      BY <1>1, <1>8
    <3> QED  BY <3>1, Lengths
  <2> QED  BY <2>1, <2>2, <2>3
<1>14. Below(r, a + WinSize)
  <2>1. n < a + WinSize /\ a + WinSize \in Int
    <3>1. n \in Int /\ a = n - (WinSize - 1)
      BY <1>1, <1>8
    <3> QED  BY <3>1, Lengths
  <2> QED  BY <1>1, <1>11, <1>12, <2>1 DEF Below
<1>15. /\ w \in Walks /\ w.out \in 0 .. Len(r)
       /\ \E d \in Int : Leaves(e, r, w, a, since, d)
  BY <1>1, <1>7, <1>9, <1>13, AheadPops DEF w
<1>16. PICK d \in Int : Leaves(e, r, w, a, since, d)
  BY <1>15
<1>17. /\ que' \in [Entries -> Seq(Packets)] /\ start' \in [Entries -> Seqs]
       /\ bubble' \in [Entries -> BOOLEAN] /\ timer' \in [Entries -> BOOLEAN]
       /\ firstBubble' \in [Entries -> Seqs] /\ lastOut' \in [Entries -> Int]
       /\ swapped' = swapped
       /\ \A x \in Entries : x # e =>
            /\ que'[x] = que[x] /\ start'[x] = start[x] /\ bubble'[x] = bubble[x]
            /\ timer'[x] = timer[x] /\ lastOut'[x] = lastOut[x]
       /\ start'[e] = d % SeqSize /\ Order(que'[e]) /\ Fit(que'[e], 0, d, lastOut'[e])
       /\ Below(que'[e], d + WinSize) /\ Passed(que'[e], lastOut'[e])
       /\ \A j \in 1 .. Len(que'[e]) : \E k \in 1 .. Len(r) : que'[e][j] = r[k]
       /\ que'[e] # <<>> => bubble'[e]
       /\ bubble'[e] => timer'[e] \/ (bubble[e] /\ timer'[e] = timer[e])
       /\ a <= d /\ (d = a \/ \E k \in 1 .. Len(r) : d <= r[k].n + 1)
  <2>1. \A j \in 1 .. Len(r) : r[j].n >= since
    BY <1>12
  <2>2. Left(e, r, w, a, d)
    BY <1>7, <1>10, <1>14, <1>15, <1>16, <2>1, Settled
  <2> QED  BY <2>2 DEF Left
<1>18. /\ waiting' \in [Entries -> BOOLEAN] /\ dup' \in [Entries -> BOOLEAN]
       /\ ~waiting'[e] /\ miss' \in BOOLEAN
       /\ \A x \in Entries : x # e => waiting'[x] = waiting[x] /\ dup'[x] = dup[x]
  BY DEF RxTypes
<1>19. WindowAt(e, d)'
  BY <1>17, <1>18 DEF WindowAt
<1>20. SenderAt(e, d)'
  <2>1. d <= hi'
    <3>1. a <= hi'
      BY <1>1, <1>2, <1>8, Lengths
    <3>2. ASSUME NEW k \in 1 .. Len(r), d <= r[k].n + 1 PROVE d <= hi'
      BY <1>2, <1>11, <1>12, <3>2
    <3> QED  BY <1>17, <3>1, <3>2
  <2>2. Below(que'[e], hi')
    BY <1>12, <1>17 DEF Below
  <2>3. hi' <= d + WinSize
    BY <1>1, <1>2, <1>3, <1>8, <1>17, Lengths
  <2>4. ASSUME open' # None, ~dup'[e], NEW j \in 1 .. Len(que'[e]), que'[e][j].n = open'
        PROVE  que'[e][j].fmt = "first"
    <3>1. PICK k \in 1 .. Len(r) : que'[e][j] = r[k]
      BY <1>17, <2>4
    <3>2. p.fmt = "first" /\ r[k].n = p.n /\ p.n \in Int
      BY <1>1, <1>2, <2>4, <3>1
    <3>3. r[k] = p
      BY <1>7, <3>2
    <3> QED  BY <3>1, <3>2, <3>3
  <2> QED  BY <2>1, <2>2, <2>3, <2>4 DEF SenderAt
<1> QED  BY <1>17, <1>18, <1>19, <1>20 DEF Landed

(* It falls behind the window, and is not queued.                          *)
LEMMA LandsBehind ==
  ASSUME OrderInv, CoverInv, NEW e \in Entries, e = ref, e = ref',
         NEW n \in Numbers, NEW fmt \in Formats, NEW b \in Int,
         WindowAt(e, b), SenderAt(e, b), Arrives(n, fmt), n < b,
         hi <= b + WinSize,
         UNCHANGED <<que, dup, start, waiting, gap, miss, lastOut, swapped>>
  PROVE  Landed(e)
<1> USE DEF gap
<1>1. RxTypes
  BY DEF OrderInv
<1>2. /\ hi' = IF hi >= n + 1 THEN hi ELSE n + 1
      /\ n \in Int /\ hi \in Int
      /\ open' # None => fmt = "first" /\ open' = n
  BY <1>1, ArrivesPacket
<1>3. WindowAt(e, b)'
  BY DEF WindowAt
<1>4. hi' = hi
  BY <1>2 DEF SenderAt
<1>5. SenderAt(e, b)'
  BY <1>2, <1>4 DEF SenderAt
<1>6. que[e] # <<>> => bubble[e]
  BY DEF CoverInv
<1> QED  BY <1>1, <1>3, <1>5, <1>6 DEF Landed, RxTypes

(* An entry to which nothing happens.                                      *)
LEMMA EntryStays ==
  ASSUME NEW x \in Entries, EntryInv(x),
         valid'[x] = valid[x], que'[x] = que[x], start'[x] = start[x],
         lastOut'[x] = lastOut[x], waiting'[x] = waiting[x],
         \/ x # ref'
         \/ /\ ref' = ref /\ hi' = hi /\ open' = open
            /\ dup'[x] = dup[x] /\ resumed'[x] = resumed[x]
  PROVE  EntryInv(x)'
<1>1. CASE ~valid[x]
  BY <1>1 DEF EntryInv
<1>2. CASE valid[x]
  <2>1. PICK c \in Int : WindowAt(x, c) /\ (x = ref => SenderAt(x, c))
    BY <1>2 DEF EntryInv
  <2>2. WindowAt(x, c)'
    BY <2>1 DEF WindowAt
  <2>3. x = ref' => SenderAt(x, c)'
    BY <2>1 DEF SenderAt
  <2> QED  BY <1>2, <2>2, <2>3 DEF EntryInv
<1> QED  BY <1>1, <1>2

(* What Landed says is enough if the slots and the lists stay.             *)
LEMMA LandedKeeps ==
  ASSUME OrderInv, CoverInv, NEW e \in Entries, valid[e], Landed(e),
         valid' = valid, ref' = ref, flushQ' = flushQ, napi' = napi,
         resumed' \in [Entries -> BOOLEAN], hi' \in Int, open' \in Numbers \cup {None},
         timeoutQ' \in Seq(Entries),
         e = ref \/ UNCHANGED <<hi, open, resumed>>,
         \A x \in Range(timeoutQ) : x \in Range(timeoutQ') \/ (x = e /\ ~bubble'[e])
  PROVE  OrderInv' /\ CoverInv'
<1>1. RxTypes' /\ ~swapped'
  BY DEF OrderInv, RxTypes, Landed
<1>2. ASSUME NEW x \in Entries PROVE EntryInv(x)'
  <2>1. CASE x = e
    <3>1. PICK d \in Int : WindowAt(e, d)' /\ (e = ref' => SenderAt(e, d)')
      BY DEF Landed
    <3> QED  BY <2>1, <3>1 DEF EntryInv
  <2>2. CASE x # e
    <3>1. EntryInv(x)
      BY DEF OrderInv
    <3>2. /\ que'[x] = que[x] /\ start'[x] = start[x] /\ lastOut'[x] = lastOut[x]
          /\ waiting'[x] = waiting[x] /\ dup'[x] = dup[x]
      BY <2>2 DEF Landed
    <3> QED  BY <2>2, <3>1, <3>2, EntryStays
  <2> QED  BY <2>1, <2>2
<1>3. CoverInv'
  <2> SUFFICES ASSUME NEW x \in Entries
               PROVE  /\ bubble'[x] => valid'[x] /\ Covered(x)'
                      /\ que'[x] # <<>> => bubble'[x]
    BY DEF CoverInv
  <2>1. (bubble[x] => valid[x] /\ Covered(x)) /\ (que[x] # <<>> => bubble[x])
    BY DEF CoverInv
  <2>2. CASE x = e
    <3>1. /\ que'[e] # <<>> => bubble'[e]
          /\ bubble'[e] => timer'[e] \/ (bubble[e] /\ timer'[e] = timer[e])
      BY DEF Landed
    <3> QED  BY <2>1, <2>2, <3>1 DEF Covered
  <2>3. CASE x # e
    <3>1. que'[x] = que[x] /\ bubble'[x] = bubble[x] /\ timer'[x] = timer[x]
      BY <2>3 DEF Landed
    <3> QED  BY <2>1, <2>3, <3>1 DEF Covered
  <2> QED  BY <2>2, <2>3
<1> QED  BY <1>1, <1>2, <1>3 DEF OrderInv

(* Whichever it is, which the driver tells from the reduced numbers.       *)
LEMMA Places ==
  ASSUME NEW n \in Int, NEW b \in Int, b - n <= Late, n - b <= WinSize + Gap
  PROVE  LET from == b % SeqSize
             to == SeqAdd(from, WinSize - 1)
         IN /\ AtMost(from, n % SeqSize) <=> b <= n
            /\ AtMost(n % SeqSize, to) <=> n <= b + WinSize - 1
            /\ Smaller(to, n % SeqSize) <=> b + WinSize - 1 < n
            /\ Smaller(from, n % SeqSize) <=> b < n
<1>1. PICK t \in Int : t = b + WinSize - 1
  BY Sizes
<1>2. SeqAdd(b % SeqSize, WinSize - 1) = t % SeqSize
  <2>1. WinSize - 1 \in Int /\ b + (WinSize - 1) = t
    BY <1>1, Sizes
  <2>2. SeqAdd(b % SeqSize, WinSize - 1) = (b + (WinSize - 1)) % SeqSize
    BY <2>1, AddSeq, Zenon
  <2> QED  BY <2>1, <2>2
<1>3. /\ b - n < Half /\ n - b < Half /\ t - n < Half /\ n - t < Half
  BY <1>1, Sizes
<1>4. /\ AtMost(b % SeqSize, n % SeqSize) <=> b <= n
      /\ Smaller(b % SeqSize, n % SeqSize) <=> b < n
  BY <1>3, Compare
<1>5. /\ AtMost(n % SeqSize, t % SeqSize) <=> n <= t
      /\ Smaller(t % SeqSize, n % SeqSize) <=> t < n
  BY <1>3, Compare
<1> QED  BY <1>1, <1>2, <1>4, <1>5

LEMMA InsertLands ==
  ASSUME OrderInv, CoverInv, NEW e \in Entries, e = ref, e = ref', e # None,
         NEW n \in Numbers, NEW fmt \in Formats,
         NEW b \in Int, NEW since \in Int, Ready(e, n, fmt, b, since), Arrives(n, fmt),
         NEW p \in Packets, p = [n |-> n, fmt |-> fmt],
         n < b => WindowAt(e, b) /\ SenderAt(e, b),
         Insert(e, p, b % SeqSize, since)
  PROVE  Landed(e)
<1>1. RxTypes /\ ~swapped
  BY DEF OrderInv
<1>2. /\ n \in Int /\ hi \in Int /\ SN(p) = n % SeqSize
      /\ b - n <= Late /\ hi <= b + WinSize /\ n - hi <= Gap
  BY <1>1, ArrivesPacket DEF Ready
<1>3. n - b <= WinSize + Gap
  BY <1>2, Sizes
<1> DEFINE to == SeqAdd(b % SeqSize, WinSize - 1)
           within == AtMost(b % SeqSize, SN(p)) /\ AtMost(SN(p), to)
           ahead == Smaller(to, SN(p)) /\ Smaller(b % SeqSize, SN(p))
<1>4. /\ within <=> b <= n /\ n <= b + WinSize - 1
      /\ ahead <=> b + WinSize - 1 < n
  <2>1. /\ AtMost(b % SeqSize, n % SeqSize) <=> b <= n
        /\ AtMost(n % SeqSize, to) <=> n <= b + WinSize - 1
        /\ Smaller(to, n % SeqSize) <=> b + WinSize - 1 < n
        /\ Smaller(b % SeqSize, n % SeqSize) <=> b < n
    BY <1>2, <1>3, Places
  <2>2. b + WinSize - 1 < n => b < n
    BY <1>2, Sizes
  <2> HIDE DEF to
  <2> QED  BY <1>2, <2>1, <2>2
<1> DEFINE ins == Inserted(e, p)
           pos == IF waiting[e] THEN SN(p) ELSE b % SeqSize
           Inside == /\ \E late \in {FALSE, miss} :
                          /\ Settle(e, ins.que, PopWithin(e, ins.que, pos, late), since)
                          /\ dup' = [dup EXCEPT ![e] = ins.dup]
                     /\ miss' = (que'[e] # <<>>)
                     /\ waiting' = [waiting EXCEPT ![e] = FALSE]
           Beyond == /\ LET r == Append(que[e], p)
                        IN Settle(e, r, PopAhead(e, r, SeqAdd(SN(p), -(WinSize - 1)), SN(p)), since)
                     /\ dup' = [dup EXCEPT ![e] = FALSE] /\ miss' = (miss /\ que'[e] # <<>>)
                     /\ waiting' = [waiting EXCEPT ![e] = FALSE]
           Before0 == UNCHANGED <<que, dup, start, waiting, gap, miss, lastOut, swapped>>
<1>0. \/ within /\ Inside
      \/ ahead /\ Beyond
      \/ ~within /\ ~ahead /\ Before0
  BY Zenon DEF Insert
<1> HIDE DEF within, ahead
<1>5. CASE within /\ Inside
  <2>1. PICK late \in {FALSE, miss} :
          /\ Settle(e, ins.que, PopWithin(e, ins.que, pos, late), since)
          /\ dup' = [dup EXCEPT ![e] = ins.dup]
    BY <1>5
  <2>2. late \in BOOLEAN
    BY <1>1 DEF RxTypes
  <2>3. miss' = (que'[e] # <<>>) /\ waiting' = [waiting EXCEPT ![e] = FALSE]
    BY <1>5
  <2>4. b <= n /\ n <= b + WinSize - 1
    BY <1>4, <1>5
  <2> QED  BY <1>1, <2>1, <2>2, <2>3, <2>4, LandsWithin
<1>6. CASE ahead /\ Beyond
  <2>1. b + WinSize - 1 < n
    BY <1>4, <1>6
  <2>3. /\ LET r == Append(que[e], p)
           IN Settle(e, r, PopAhead(e, r, SeqAdd(SN(p), -(WinSize - 1)), SN(p)), since)
        /\ dup' = [dup EXCEPT ![e] = FALSE] /\ miss' = (miss /\ que'[e] # <<>>)
        /\ waiting' = [waiting EXCEPT ![e] = FALSE]
    BY <1>6
  <2> QED  BY <1>1, <2>1, <2>3, LandsAhead
<1>7. CASE ~within /\ ~ahead /\ Before0
  <2>1. n < b
    BY <1>2, <1>4, <1>7, Sizes
  <2>2. UNCHANGED <<que, dup, start, waiting, gap, miss, lastOut, swapped>>
    BY <1>7
  <2>3. /\ WindowAt(e, b) /\ SenderAt(e, b) /\ hi <= b + WinSize
    BY <1>2, <2>1
  <2> QED  BY <2>1, <2>2, <2>3, LandsBehind
<1> QED  BY <1>0, <1>5, <1>6, <1>7

(* The window that the packet finds is the one of the entry, or begins     *)
(* with the packet itself after a suspend.                                 *)
LEMMA ReceiveOrder ==
  ASSUME SlotInv, OrderInv, CoverInv, ~torn', NEW n \in Numbers, NEW fmt \in Formats,
         Receive(n, fmt)
  PROVE  OrderInv' /\ CoverInv'
<1>1. RxTypes /\ ~swapped
  BY DEF OrderInv
<1>2. Arrives(n, fmt) /\ UNCHANGED <<valid, ref, timeoutQ, flushQ, napi>>
  BY DEF Receive
<1> DEFINE p == [n |-> n, fmt |-> fmt]
<1>3. /\ p \in Packets /\ p.n = n /\ p.fmt = fmt /\ SN(p) = n % SeqSize
      /\ n \in Int /\ hi \in Int /\ hi - n <= Late /\ n - hi <= Gap
      /\ hi' \in Int /\ open' \in Numbers \cup {None}
      /\ fmt = "last" => open = n /\ open # None
  BY <1>1, <1>2, ArrivesPacket
<1>4. CASE ref = None
  <2>1. UNCHANGED <<que, dup, window, gap, miss, lastOut, swapped>>
    <3>1. ref \notin Entries
      BY <1>4, RxReorderAssumption
    <3> QED  BY <1>4 DEF Receive
  <2>2. RxTypes' /\ ~swapped'
    BY <1>1, <1>2, <1>3, <2>1 DEF RxTypes, window, gap
  <2>3. ASSUME NEW x \in Entries PROVE EntryInv(x)'
    <3>1. x # ref' /\ EntryInv(x)
      BY <1>2, <1>4, RxReorderAssumption DEF OrderInv
    <3> QED  BY <1>2, <2>1, <3>1, EntryStays DEF window
  <2>4. CoverInv'
    BY <1>2, <2>1 DEF CoverInv, Covered, gap
  <2> QED  BY <2>2, <2>3, <2>4 DEF OrderInv
<1>5. CASE ref # None
  <2>1. PICK e \in Entries : e = ref
    BY <1>5 DEF SlotInv, SlotTypes
  <2>2. valid[e] /\ e # None /\ e = ref'
    BY <1>2, <1>5, <2>1 DEF SlotInv, SlotsAccounted
  <2>3. PICK c \in Int : WindowAt(e, c) /\ SenderAt(e, c)
    BY <2>1, <2>2 DEF OrderInv, EntryInv
  <2> DEFINE from == IF resumed[e] THEN SN(p) ELSE start[e]
             since == IF resumed[e] THEN Min({lastOut[e], n - 1}) ELSE lastOut[e]
  <2>4. /\ Insert(e, p, from, since) /\ resumed' = [resumed EXCEPT ![e] = FALSE]
        /\ torn' = (torn \/ (resumed[e] /\ que[e] # <<>>))
    BY <2>1, <2>2 DEF Receive
  <2>5. lastOut[e] \in Int /\ start[e] = c % SeqSize
    BY <1>1, <2>3 DEF RxTypes, WindowAt
  <2>6. since \in Int
    <3>1. Min({lastOut[e], n - 1}) \in Int
      <4>1. n - 1 \in Int
        BY <1>3
      <4> QED  BY <2>5, <4>1, MinOfTwo
    <3> QED  BY <2>5, <3>1
  <2>7. Landed(e)
    <3>1. CASE ~resumed[e]
      <4>1. Ready(e, n, fmt, c, since)
        <5>1. /\ c <= hi /\ Below(que[e], hi) /\ hi <= c + WinSize
          BY <2>3, <3>1 DEF SenderAt
        <5>2. /\ Order(que[e]) /\ Fit(que[e], 0, c, since)
              /\ Below(que[e], c + WinSize) /\ (waiting[e] => que[e] = <<>>)
          BY <2>3, <3>1 DEF WindowAt
        <5>3. ASSUME fmt = "last", ~dup[e], c <= n,
                     NEW j \in 1 .. Len(que[e]), que[e][j].n = n
              PROVE  que[e][j].fmt = "first"
          BY <1>3, <2>3, <5>3 DEF SenderAt
        <5> QED  BY <1>3, <5>1, <5>2, <5>3, Sizes DEF Ready
      <4> QED  BY <1>2, <1>3, <2>1, <2>2, <2>3, <2>4, <2>5, <2>6, <3>1, <4>1, InsertLands
    <3>2. CASE resumed[e]
      <4>1. que[e] = <<>>
        BY <2>4, <3>2
      <4>2. from = n % SeqSize /\ since <= n
        <5>1. Min({lastOut[e], n - 1}) <= n
          <6>1. PICK m \in Int : m = n - 1
            BY <1>3
          <6>2. PICK l \in Int : l = lastOut[e]
            BY <2>5
          <6>3. Min({l, m}) = IF l <= m THEN l ELSE m
            BY MinOfTwo
          <6>4. (IF l <= m THEN l ELSE m) <= n
            BY <1>3, <6>1
          <6> QED  BY <6>1, <6>2, <6>3, <6>4
        <5> QED  BY <1>3, <3>2, <5>1
      <4>3. Ready(e, n, fmt, n, since)
        <5>1. Len(que[e]) = 0
          BY <4>1
        <5>2. Order(que[e]) /\ Fit(que[e], 0, n, since)
          BY <4>2, <5>1 DEF Order, Fit
        <5>3. Below(que[e], n + WinSize) /\ Below(que[e], hi)
          BY <5>1 DEF Below
        <5> HIDE DEF since
        <5>4. hi <= n + WinSize
          BY <1>3, Sizes
        <5>5. n - n <= Late
          BY <1>3, Sizes
        <5> QED  BY <1>3, <4>1, <5>1, <5>2, <5>3, <5>4, <5>5 DEF Ready
      <4>4. ~(n < n)
        BY <1>3
      <4> HIDE DEF from, since
      <4> QED  BY <1>2, <1>3, <2>1, <2>2, <2>4, <2>6, <4>2, <4>3, <4>4, InsertLands
    <3> QED  BY <3>1, <3>2
  <2>8. /\ resumed' \in [Entries -> BOOLEAN] /\ timeoutQ' \in Seq(Entries)
        /\ \A x \in Range(timeoutQ) : x \in Range(timeoutQ') \/ (x = e /\ ~bubble'[e])
    BY <1>1, <1>2, <2>4 DEF RxTypes
  <2>9. /\ valid' = valid /\ ref' = ref /\ flushQ' = flushQ /\ napi' = napi
    BY <1>2
  <2> QED  BY <1>3, <2>1, <2>2, <2>7, <2>8, <2>9, LandedKeeps
<1> QED  BY <1>4, <1>5

(* A block-ack request moves the window on to its number.                  *)
LEMMA BarOrder ==
  ASSUME SlotInv, OrderInv, CoverInv, NEW ssn \in Numbers, Bar(ssn)
  PROVE  OrderInv' /\ CoverInv'
<1>1. RxTypes /\ ~swapped
  BY DEF OrderInv
<1>2. PICK e \in Entries : e = ref
  BY DEF SlotInv, SlotTypes, Bar
<1>3. valid[e] /\ e # None
  BY <1>2 DEF SlotInv, SlotsAccounted, Bar
<1>4. PICK c \in Int : WindowAt(e, c) /\ SenderAt(e, c)
  BY <1>2, <1>3 DEF OrderInv, EntryInv
<1> DEFINE q == que[e]
           w == PopAhead(e, q, ssn % SeqSize, seqNo[e])
<1>5. /\ ssn \in hi - Late .. hi + Gap /\ Smaller(start[e], ssn % SeqSize)
      /\ hi' = Max({hi, ssn}) /\ Apart(hi')
      /\ Settle(e, q, w, lastOut[e]) /\ miss' = (miss /\ que'[e] # <<>>)
      /\ UNCHANGED <<valid, dup, waiting, resumed, seqNo, ref, timeoutQ, flushQ, napi,
                     open, adds, sleeps, torn>>
  BY <1>2 DEF Bar
<1>6. /\ ssn \in Int /\ hi \in Int /\ lastOut[e] \in Int /\ firstBubble[e] \in Seqs
      /\ q \in Seq(Packets) /\ Len(q) \in Nat
      /\ \A j \in 1 .. Len(q) : q[j].n \in Int
  BY <1>1, PacketFields, Sizes DEF RxTypes, Numbers
<1>7. hi' \in Int /\ hi' = IF hi >= ssn THEN hi ELSE ssn
  BY <1>5, <1>6, MaxOfTwo
<1>8. /\ start[e] = c % SeqSize /\ c <= hi
      /\ Order(q) /\ Fit(q, 0, c, lastOut[e]) /\ Below(q, hi)
      /\ waiting[e] => q = <<>>
      /\ resumed[e] \/ hi <= c + WinSize
      /\ open # None /\ open >= c /\ ~dup[e] =>
           \A j \in 1 .. Len(q) : q[j].n = open => q[j].fmt = "first"
  BY <1>4 DEF WindowAt, SenderAt
<1>9. c < ssn
  <2> SUFFICES ASSUME ssn <= c PROVE FALSE
    BY <1>6
  <2>1. c - ssn < Half /\ ssn - c < Half
    BY <1>5, <1>6, <1>8, Sizes
  <2>2. Smaller(c % SeqSize, ssn % SeqSize) <=> c < ssn
    BY <1>6, <2>1, Compare
  <2> QED  BY <1>5, <1>6, <1>8, <2>2
<1>10. /\ lastOut[e] <= ssn
       /\ \A j \in 1 .. Len(q) : q[j].n >= lastOut[e] /\ q[j].n < hi
  BY <1>6, <1>8, <1>9 DEF Fit, Below
<1>11. Near(q, ssn)
  <2>1. \A j \in 1 .. Len(q) : hi' - q[j].n < Half
    <3>1. ref # None => \A i \in DOMAIN que[ref] : hi' - que[ref][i].n < SeqSize \div 2
      BY <1>5 DEF Apart
    <3>2. DOMAIN q = 1 .. Len(q)
      BY <1>6
    <3> QED  BY <1>2, <1>3, <3>1, <3>2 DEF Half
  <2> SUFFICES ASSUME NEW j \in 1 .. Len(q)
               PROVE  q[j].n - ssn < Half /\ ssn - q[j].n < Half
    BY DEF Near
  <2>2. q[j].n \in Int /\ q[j].n < hi /\ hi' - q[j].n < Half
    BY <1>6, <1>10, <2>1
  <2>3. /\ hi <= ssn + Late /\ ssn <= hi' /\ Late < Half /\ Half \in Int /\ Late \in Int
        /\ ssn \in Int /\ hi' \in Int /\ hi \in Int
    BY <1>5, <1>6, <1>7, Sizes
  <2>4. q[j].n - ssn < Half
    BY <2>2, <2>3
  <2>5. ssn - q[j].n < Half
    BY <2>2, <2>3
  <2> QED  BY <2>4, <2>5
<1>12. /\ w \in Walks /\ w.out \in 0 .. Len(q)
       /\ \E d \in Int : Leaves(e, q, w, ssn, lastOut[e], d)
  BY <1>6, <1>8, <1>10, <1>11, AheadPops
<1> HIDE DEF w
<1>13. PICK d \in Int : Leaves(e, q, w, ssn, lastOut[e], d)
  BY <1>12
<1>14. Below(q, ssn + WinSize)
  <2> SUFFICES ASSUME NEW j \in 1 .. Len(q) PROVE q[j].n < ssn + WinSize
    BY DEF Below
  <2>1. q[j].n \in Int /\ q[j].n < hi
    BY <1>6, <1>10
  <2> QED  BY <1>5, <1>6, <2>1, Sizes
<1>15. /\ que' \in [Entries -> Seq(Packets)] /\ start' \in [Entries -> Seqs]
       /\ bubble' \in [Entries -> BOOLEAN] /\ timer' \in [Entries -> BOOLEAN]
       /\ firstBubble' \in [Entries -> Seqs] /\ lastOut' \in [Entries -> Int]
       /\ swapped' = swapped
       /\ \A x \in Entries : x # e =>
            /\ que'[x] = que[x] /\ start'[x] = start[x] /\ bubble'[x] = bubble[x]
            /\ timer'[x] = timer[x] /\ lastOut'[x] = lastOut[x]
       /\ start'[e] = d % SeqSize /\ Order(que'[e]) /\ Fit(que'[e], 0, d, lastOut'[e])
       /\ Below(que'[e], d + WinSize) /\ Passed(que'[e], lastOut'[e])
       /\ \A j \in 1 .. Len(que'[e]) : \E k \in 1 .. Len(q) : que'[e][j] = q[k]
       /\ w.out = Len(q) => que'[e] = <<>>
       /\ que'[e] # <<>> => bubble'[e]
       /\ bubble'[e] => timer'[e] \/ (bubble[e] /\ timer'[e] = timer[e])
       /\ ssn <= d /\ (d = ssn \/ \E k \in 1 .. Len(q) : d <= q[k].n + 1)
  <2>1. \A j \in 1 .. Len(q) : q[j].n >= lastOut[e]
    BY <1>10
  <2>2. Settle(e, q, w, lastOut[e]) /\ lastOut[e] \in Int /\ Order(q) /\ q \in Seq(Packets)
    BY <1>5, <1>6, <1>8
  <2> HIDE DEF q
  <2>3. Left(e, q, w, ssn, d)
    BY <1>1, <1>6, <1>12, <1>13, <1>14, <2>1, <2>2, Settled
  <2> QED  BY <2>3 DEF Left
<1>16. WindowAt(e, d)'
  <2>1. waiting'[e] => que'[e] = <<>>
    <3> SUFFICES ASSUME q = <<>> PROVE que'[e] = <<>>
      BY <1>5, <1>8
    <3>1. w.out = Len(q)
      BY <1>12
    <3> QED  BY <1>15, <3>1
  <2> QED  BY <1>15, <2>1 DEF WindowAt
<1>17. SenderAt(e, d)'
  <2>1. d <= hi'
    <3>1. ssn <= hi'
      BY <1>6, <1>7
    <3>2. ASSUME NEW k \in 1 .. Len(q), d <= q[k].n + 1 PROVE d <= hi'
      BY <1>6, <1>7, <1>10, <3>2
    <3> QED  BY <1>15, <3>1, <3>2
  <2>2. Below(que'[e], hi')
    <3>1. \A j \in 1 .. Len(q) : q[j].n < hi'
      BY <1>6, <1>7, <1>10
    <3> QED  BY <1>15, <3>1 DEF Below
  <2>3. resumed'[e] \/ hi' <= d + WinSize
    <3>1. hi' <= ssn + Late /\ Late <= WinSize /\ ssn <= d /\ Late \in Int /\ WinSize \in Int
      BY <1>5, <1>6, <1>7, <1>15, Sizes
    <3> QED  BY <1>6, <1>7, <3>1
  <2>4. ASSUME open' # None, open' >= d, ~dup'[e],
               NEW j \in 1 .. Len(que'[e]), que'[e][j].n = open'
        PROVE  que'[e][j].fmt = "first"
    <3>1. PICK k \in 1 .. Len(q) : que'[e][j] = q[k]
      BY <1>15
    <3>2. open \in Int
      BY <1>1, <1>5, <2>4, Sizes DEF RxTypes, Numbers
    <3>3. open >= c
      BY <1>5, <1>6, <1>9, <1>15, <2>4, <3>2
    <3> QED  BY <1>5, <1>8, <2>4, <3>1, <3>3
  <2> QED  BY <2>1, <2>2, <2>3, <2>4 DEF SenderAt
<1>18. Landed(e)
  BY <1>1, <1>5, <1>15, <1>16, <1>17 DEF Landed, RxTypes
<1> QED  BY <1>1, <1>2, <1>3, <1>5, <1>7, <1>18, LandedKeeps DEF RxTypes

LEMMA TailRange ==
  ASSUME NEW S, NEW q \in Seq(S), q # <<>>
  PROVE  /\ Head(q) \in S /\ Tail(q) \in Seq(S)
         /\ \A x \in Range(q) : x \in Range(Tail(q)) \/ x = Head(q)
<1> DEFINE r == Tail(q)
<1>1. /\ Head(q) \in S /\ Head(q) = q[1] /\ r \in Seq(S)
      /\ Len(q) \in Nat /\ Len(r) = Len(q) - 1 /\ DOMAIN q = 1 .. Len(q)
      /\ DOMAIN r = 1 .. Len(r) /\ \A i \in 1 .. Len(r) : r[i] = q[i + 1]
  BY HeadTailProperties
<1> HIDE DEF r
<1>2. ASSUME NEW x \in Range(q), x # Head(q) PROVE x \in Range(r)
  <2>1. PICK i \in 1 .. Len(q) : x = q[i]
    BY <1>1 DEF Range
  <2>2. PICK k \in Int : k = i - 1
    OBVIOUS
  <2>3. k \in 1 .. Len(r) /\ k + 1 = i
    BY <1>1, <1>2, <2>1, <2>2
  <2>4. x = r[k]
    BY <1>1, <2>1, <2>3
  <2> QED  BY <1>1, <2>3, <2>4 DEF Range
<1> QED  BY <1>1, <1>2 DEF r

(* The poll looks at the queue whose timer has expired: the window moves   *)
(* past the newest packet, and nothing stays.                              *)
LEMMA FlushAll ==
  ASSUME OrderInv, NEW e \in Entries, valid[e], e # None, que[e] # <<>>, ref' = ref,
         LET w == PopAhead(e, que[e], SeqAdd(SN(Last(que[e])), 1), seqNo[e])
         IN  Settle(e, que[e], [w EXCEPT !.mark = "closed"], lastOut[e]),
         miss' = (que'[e] # <<>>),
         UNCHANGED <<waiting, dup, resumed, hi, open>>
  PROVE  Landed(e) /\ ~bubble'[e]
<1>1. RxTypes /\ ~swapped
  BY DEF OrderInv
<1>2. PICK c \in Int : WindowAt(e, c) /\ (e = ref => SenderAt(e, c))
  BY DEF OrderInv, EntryInv
<1> DEFINE q == que[e]
<1>3. /\ lastOut[e] \in Int /\ firstBubble[e] \in Seqs /\ hi \in Int
      /\ q \in Seq(Packets) /\ Len(q) \in Nat /\ Len(q) \in 1 .. Len(q)
      /\ \A j \in 1 .. Len(q) : q[j] \in Packets /\ q[j].n \in Int
  <2>1. q \in Seq(Packets) /\ q # <<>>
    BY <1>1 DEF RxTypes
  <2>2. Len(q) \in Nat /\ Len(q) # 0
    BY <2>1, EmptySeq
  <2> QED  BY <1>1, <2>1, <2>2, PacketFields DEF RxTypes
<1>4. PICK last \in Packets : last = q[Len(q)] /\ last = Last(q)
  BY <1>3 DEF Last
<1>5. PICK f \in Int : f = last.n + 1
  BY PacketFields
<1>6. SeqAdd(SN(Last(q)), 1) = f % SeqSize
  <2>1. last.n \in Int /\ SN(last) = last.n % SeqSize
    BY PacketFields
  <2> QED  BY <1>4, <1>5, <2>1, AddSeq
<1>7. /\ start[e] = c % SeqSize /\ Order(q) /\ Fit(q, 0, c, lastOut[e])
      /\ Below(q, c + WinSize)
  BY <1>2 DEF WindowAt
<1>8. /\ lastOut[e] <= c
      /\ \A j \in 1 .. Len(q) :
           /\ q[j].n >= lastOut[e] /\ q[j].n >= c - 1 /\ q[j].n < c + WinSize
           /\ q[j].n < f
  <2>1. ASSUME NEW j \in 1 .. Len(q) PROVE q[j].n <= last.n
    <3>1. j = Len(q) \/ j < Len(q)
      BY <1>3
    <3>2. j < Len(q) => q[j].n < last.n \/ q[j].n = last.n
      BY <1>3, <1>4, <1>7 DEF Order, InTurn
    <3>3. j = Len(q) => q[j].n = last.n
      BY <1>4
    <3>4. q[j].n \in Int /\ last.n \in Int
      BY <1>3, PacketFields
    <3> QED  BY <3>1, <3>2, <3>3, <3>4
  <2>2. last.n \in Int
    BY PacketFields
  <2> QED  BY <1>3, <1>5, <1>7, <2>1, <2>2 DEF Fit, Below
<1>9. c <= f /\ f <= c + WinSize /\ lastOut[e] <= f
  <2>1. last.n >= c - 1 /\ last.n < c + WinSize /\ last.n \in Int
    BY <1>3, <1>4, <1>8
  <2>2. lastOut[e] <= c /\ lastOut[e] \in Int /\ WinSize \in Int
    BY <1>3, <1>8, Sizes
  <2> QED  BY <1>5, <2>1, <2>2
<1>10. Near(q, f)
  <2> SUFFICES ASSUME NEW j \in 1 .. Len(q) PROVE q[j].n - f < Half /\ f - q[j].n < Half
    BY DEF Near
  <2>1. q[j].n \in Int /\ q[j].n < f /\ q[j].n >= c - 1
    BY <1>3, <1>8
  <2>2. WinSize \in Int /\ WinSize + 1 < Half /\ 0 < Half /\ Half \in Int
    BY Sizes
  <2>3. f - q[j].n <= WinSize + 1
    BY <1>9, <2>1, <2>2
  <2>4. q[j].n - f < 0
    BY <2>1
  <2> QED  BY <2>1, <2>2, <2>3, <2>4
<1>11. Below(q, f + WinSize)
  <2> SUFFICES ASSUME NEW j \in 1 .. Len(q) PROVE q[j].n < f + WinSize
    BY DEF Below
  <2>1. q[j].n \in Int /\ q[j].n < f
    BY <1>3, <1>8
  <2> QED  BY <2>1, Lengths
<1> DEFINE v == PopAhead(e, q, f % SeqSize, seqNo[e])
           w == [v EXCEPT !.mark = "closed"]
<1>12. Settle(e, q, w, lastOut[e])
  BY <1>6
<1>13. /\ v \in Walks /\ v.out \in 0 .. Len(q)
       /\ v.out < Len(q) => q[v.out + 1].n > f
       /\ \E d \in Int : Leaves(e, q, v, f, lastOut[e], d)
  BY <1>3, <1>7, <1>9, <1>10, AheadPops
<1> HIDE DEF v
<1>14. v.out = Len(q)
  <2> SUFFICES ASSUME v.out < Len(q) PROVE FALSE
    BY <1>3, <1>13
  <2>1. v.out + 1 \in 1 .. Len(q)
    BY <1>3, <1>13
  <2>2. q[v.out + 1].n \in Int /\ q[v.out + 1].n < f
    BY <1>3, <1>8, <2>1
  <2> QED  BY <1>13, <2>2
<1>15. /\ w \in Walks /\ w.out = v.out /\ w.start = v.start /\ w.mark = "closed"
  BY <1>13 DEF Walks, Marks
<1>16. PICK d \in Int : Leaves(e, q, v, f, lastOut[e], d)
  BY <1>13
<1> HIDE DEF w
<1>17. Leaves(e, q, w, f, lastOut[e], d)
  <2>1. ~(w.out < Len(q))
    BY <1>3, <1>14, <1>15
  <2> QED  BY <1>15, <1>16, <2>1 DEF Leaves
<1>18. /\ que' \in [Entries -> Seq(Packets)] /\ start' \in [Entries -> Seqs]
       /\ bubble' \in [Entries -> BOOLEAN] /\ timer' \in [Entries -> BOOLEAN]
       /\ firstBubble' \in [Entries -> Seqs] /\ lastOut' \in [Entries -> Int]
       /\ swapped' = swapped
       /\ \A x \in Entries : x # e =>
            /\ que'[x] = que[x] /\ start'[x] = start[x] /\ bubble'[x] = bubble[x]
            /\ timer'[x] = timer[x] /\ lastOut'[x] = lastOut[x]
       /\ start'[e] = d % SeqSize /\ Order(que'[e]) /\ Fit(que'[e], 0, d, lastOut'[e])
       /\ Below(que'[e], d + WinSize) /\ Passed(que'[e], lastOut'[e])
       /\ w.out = Len(q) => que'[e] = <<>>
       /\ f <= d /\ (d = f \/ \E k \in 1 .. Len(q) : d <= q[k].n + 1)
  <2>1. w.out \in 0 .. Len(q)
    BY <1>13, <1>15
  <2>2. \A j \in 1 .. Len(q) : q[j].n >= lastOut[e]
    BY <1>8
  <2>3. q \in Seq(Packets) /\ lastOut[e] \in Int /\ Order(q) /\ w \in Walks
    BY <1>3, <1>7, <1>15
  <2> HIDE DEF q
  <2>4. Left(e, q, w, f, d)
    BY <1>1, <1>11, <1>12, <1>17, <2>1, <2>2, <2>3, Settled
  <2> QED  BY <2>4 DEF Left
<1>19. que'[e] = <<>> /\ ~bubble'[e]
  <2>1. que'[e] = <<>>
    BY <1>14, <1>15, <1>18
  <2>2. bubble' = [bubble EXCEPT ![e] = HasBubble(e, w)] /\ ~HasBubble(e, w)
    BY <1>12, <1>15 DEF Settle, HasBubble
  <2> QED  BY <1>1, <2>1, <2>2 DEF RxTypes
<1>20. WindowAt(e, d)'
  BY <1>18, <1>19 DEF WindowAt
<1>21. e = ref' => SenderAt(e, d)'
  <2> SUFFICES ASSUME e = ref PROVE SenderAt(e, d)'
    OBVIOUS
  <2>1. /\ c <= hi /\ Below(q, hi) /\ (resumed[e] \/ hi <= c + WinSize)
    BY <1>2 DEF SenderAt
  <2>2. \A k \in 1 .. Len(q) : q[k].n + 1 <= hi
    BY <1>3, <2>1 DEF Below
  <2>3. f <= hi
    BY <1>3, <1>4, <1>5, <2>2
  <2>4. d <= hi'
    <3>1. ASSUME NEW k \in 1 .. Len(q), d <= q[k].n + 1 PROVE d <= hi
      BY <1>3, <2>2, <3>1
    <3> QED  BY <1>18, <2>3, <3>1
  <2>5. resumed'[e] \/ hi' <= d + WinSize
    BY <1>3, <1>9, <1>18, <2>1, Lengths
  <2>6. Len(que'[e]) = 0
    BY <1>19
  <2>7. Below(que'[e], hi')
    BY <2>6 DEF Below
  <2> QED  BY <2>4, <2>5, <2>6, <2>7 DEF SenderAt
<1>22. /\ waiting' \in [Entries -> BOOLEAN] /\ dup' \in [Entries -> BOOLEAN]
       /\ \A x \in Entries : waiting'[x] = waiting[x] /\ dup'[x] = dup[x]
       /\ miss' \in BOOLEAN
  BY <1>1 DEF RxTypes
<1> QED  BY <1>18, <1>19, <1>20, <1>21, <1>22 DEF Landed

LEMMA FlushTimeoutOrder ==
  ASSUME OrderInv, CoverInv, FlushTimeout
  PROVE  OrderInv' /\ CoverInv'
<1>1. RxTypes /\ ~swapped
  BY DEF OrderInv
<1>2. /\ napi = None /\ timeoutQ # <<>> /\ timeoutQ' = Tail(timeoutQ)
      /\ UNCHANGED <<valid, dup, waiting, resumed, seqNo, ref, flushQ, sender>>
  BY DEF FlushTimeout
<1>3. timeoutQ \in Seq(Entries)
  BY <1>1 DEF RxTypes
<1>4. PICK e \in Entries : e = Head(timeoutQ)
  BY <1>2, <1>3, TailRange
<1>5. /\ timeoutQ' \in Seq(Entries)
      /\ \A x \in Range(timeoutQ) : x \in Range(timeoutQ') \/ x = e
  BY <1>2, <1>3, <1>4, TailRange
<1>6. e # None /\ hi' = hi /\ open' = open
  BY <1>2, RxReorderAssumption DEF sender
<1>7. (que[e] # <<>> => bubble[e]) /\ (bubble[e] => valid[e])
  BY DEF CoverInv
<1>8. ASSUME UNCHANGED <<que, start, lastOut>>, NEW x \in Entries PROVE EntryInv(x)'
  <2>1. EntryInv(x)
    BY DEF OrderInv
  <2> QED  BY <1>2, <1>6, <1>8, <2>1, EntryStays
<1>9. ASSUME UNCHANGED <<que, start, timer, lastOut, swapped>>, miss' = miss,
             napi' \in Entries \cup {None}, firstBubble' \in [Entries -> Seqs],
             bubble' \in [Entries -> BOOLEAN]
      PROVE  OrderInv'
  <2>1. RxTypes'
    BY <1>1, <1>2, <1>5, <1>6, <1>9 DEF RxTypes
  <2> QED  BY <1>1, <1>8, <1>9, <2>1 DEF OrderInv
<1>10. CASE /\ ~valid[e] \/ ~bubble[e]
            /\ UNCHANGED <<que, start, gap, miss, napi, lastOut, swapped>>
  <2>1. OrderInv'
    BY <1>1, <1>9, <1>10 DEF gap, RxTypes
  <2>2. ~bubble[e] /\ UNCHANGED <<que, bubble, timer, napi>>
    BY <1>7, <1>10 DEF gap
  <2>3. CoverInv'
    BY <1>2, <1>5, <2>2 DEF CoverInv, Covered
  <2> QED  BY <2>1, <2>3
<1>11. CASE /\ valid[e] /\ bubble[e] /\ que[e] = <<>>
            /\ bubble' = [bubble EXCEPT ![e] = FALSE]
            /\ UNCHANGED <<que, start, firstBubble, timer, miss, napi, lastOut, swapped>>
  <2>1. /\ bubble' \in [Entries -> BOOLEAN]
        /\ \A x \in Entries : bubble'[x] <=> x # e /\ bubble[x]
    BY <1>1, <1>11 DEF RxTypes
  <2>2. OrderInv'
    BY <1>1, <1>9, <1>11, <2>1 DEF RxTypes
  <2>3. CoverInv'
    BY <1>2, <1>5, <1>11, <2>1 DEF CoverInv, Covered
  <2> QED  BY <2>2, <2>3
<1>12. CASE /\ valid[e] /\ bubble[e] /\ que[e] # <<>>
            /\ LET w == PopAhead(e, que[e], SeqAdd(SN(Last(que[e])), 1), seqNo[e])
               IN  Settle(e, que[e], [w EXCEPT !.mark = "closed"], lastOut[e])
            /\ miss' = (que'[e] # <<>>)
            /\ UNCHANGED napi
  <2>1. Landed(e) /\ ~bubble'[e]
    BY <1>2, <1>6, <1>12, FlushAll
  <2>2. /\ resumed' \in [Entries -> BOOLEAN] /\ hi' \in Int
        /\ open' \in Numbers \cup {None} /\ UNCHANGED <<hi, open, resumed>>
        /\ \A x \in Range(timeoutQ) : x \in Range(timeoutQ') \/ (x = e /\ ~bubble'[e])
    BY <1>1, <1>2, <1>5, <1>6, <2>1 DEF RxTypes
  <2> QED  BY <1>2, <1>5, <1>12, <2>1, <2>2, LandedKeeps
<1>13. CASE /\ valid[e] /\ bubble[e]
            /\ firstBubble' = [firstBubble EXCEPT ![e] = NextBubble(e)]
            /\ napi' = e
            /\ UNCHANGED <<que, start, bubble, timer, miss, lastOut, swapped>>
  <2>1. NextBubble(e) \in Seqs
    BY <1>1 DEF RxTypes, NextBubble
  <2>2. firstBubble' \in [Entries -> Seqs]
    BY <1>1, <1>13, <2>1 DEF RxTypes
  <2>3. OrderInv'
    BY <1>1, <1>9, <1>13, <2>2 DEF RxTypes
  <2>4. CoverInv'
    BY <1>2, <1>5, <1>13, RxReorderAssumption DEF CoverInv, Covered
  <2> QED  BY <2>3, <2>4
<1> QED  BY <1>4, <1>10, <1>11, <1>12, <1>13 DEF FlushTimeout

(* A new agreement begins with the sender's next packet.                   *)
LEMMA Queued ==
  ASSUME SlotInv, Unref \/ UNCHANGED flushQ
  PROVE  \A x \in Range(flushQ) : x \in Range(flushQ')
BY UnrefQueues

LEMMA AddBaOrder ==
  ASSUME SlotInv, OrderInv, CoverInv, NEW e \in Entries, AddBa(e)
  PROVE  OrderInv' /\ CoverInv'
<1>1. RxTypes /\ ~swapped
  BY DEF OrderInv
<1>2. /\ ~valid[e] /\ ref' = e /\ (Unref \/ UNCHANGED flushQ)
      /\ valid' = [valid EXCEPT ![e] = TRUE]
      /\ start' = [start EXCEPT ![e] = hi % SeqSize]
      /\ waiting' = [waiting EXCEPT ![e] = TRUE]
      /\ bubble' = [bubble EXCEPT ![e] = FALSE]
      /\ dup' = [dup EXCEPT ![e] = FALSE]
      /\ miss' = FALSE
      /\ lastOut' = [lastOut EXCEPT ![e] = hi - 1]
      /\ UNCHANGED <<que, resumed, firstBubble, timer, timeoutQ, napi, hi, open, swapped>>
  BY DEF AddBa
<1>3. hi \in Int /\ hi % SeqSize \in Seqs
  BY <1>1, AddSeq DEF RxTypes
<1>4. RxTypes'
  <2>1. hi - 1 \in Int
    BY <1>3
  <2>2. /\ start' \in [Entries -> Seqs] /\ waiting' \in [Entries -> BOOLEAN]
        /\ bubble' \in [Entries -> BOOLEAN] /\ dup' \in [Entries -> BOOLEAN]
        /\ lastOut' \in [Entries -> Int]
    BY <1>1, <1>2, <1>3, <2>1 DEF RxTypes
  <2>3. miss' \in BOOLEAN
    BY <1>2
  <2> QED  BY <1>1, <1>2, <2>2, <2>3 DEF RxTypes
<1>5. que[e] = <<>> /\ Len(que'[e]) = 0
  BY <1>2 DEF OrderInv, EntryInv
<1>6. EntryInv(e)'
  <2>1. valid'[e] /\ start'[e] = hi % SeqSize /\ lastOut'[e] = hi - 1
    BY <1>1, <1>2 DEF RxTypes, SlotInv, SlotTypes
  <2>2. /\ Order(que[e])' /\ Fit(que[e], 0, hi, lastOut[e])'
        /\ Below(que[e], hi + WinSize)' /\ Below(que[e], hi)' /\ Passed(que[e], lastOut[e])'
    BY <1>2, <1>3, <1>5, <2>1 DEF Order, Fit, Below, Passed
  <2>3. WindowAt(e, hi)'
    BY <1>2, <1>5, <2>1, <2>2 DEF WindowAt
  <2>4. SenderAt(e, hi)'
    BY <1>2, <1>3, <1>5, <2>2, Sizes DEF SenderAt
  <2> QED  BY <1>2, <1>3, <2>1, <2>3, <2>4 DEF EntryInv
<1>7. ASSUME NEW x \in Entries, x # e PROVE EntryInv(x)'
  <2>1. EntryInv(x) /\ x # ref'
    BY <1>2, <1>7 DEF OrderInv
  <2>2. /\ valid'[x] = valid[x] /\ start'[x] = start[x] /\ waiting'[x] = waiting[x]
        /\ lastOut'[x] = lastOut[x] /\ que'[x] = que[x]
    BY <1>1, <1>2, <1>7 DEF RxTypes, SlotInv, SlotTypes
  <2> QED  BY <2>1, <2>2, EntryStays
<1>8. CoverInv'
  <2>1. \A x \in Entries : /\ bubble'[x] <=> x # e /\ bubble[x]
                           /\ x # e => valid'[x] = valid[x]
    BY <1>1, <1>2 DEF RxTypes, SlotInv, SlotTypes
  <2>2. \A x \in Range(flushQ) : x \in Range(flushQ')
    BY <1>2, Queued
  <2> QED  BY <1>2, <1>5, <2>1, <2>2 DEF CoverInv, Covered
<1> QED  BY <1>1, <1>2, <1>4, <1>6, <1>7, <1>8 DEF OrderInv

LEMMA DelBaOrder ==
  ASSUME SlotInv, OrderInv, CoverInv, DelBa
  PROVE  OrderInv' /\ CoverInv'
<1>1. /\ ref' = None /\ (Unref \/ UNCHANGED flushQ)
      /\ UNCHANGED <<valid, que, dup, start, waiting, resumed, bubble, firstBubble, timer,
                     timeoutQ, miss, napi, hi, open, lastOut, swapped>>
  BY DEF DelBa, window, gap, sender
<1>2. RxTypes' /\ ~swapped'
  BY <1>1 DEF OrderInv, RxTypes
<1>3. ASSUME NEW x \in Entries PROVE EntryInv(x)'
  <2>1. EntryInv(x) /\ x # ref'
    BY <1>1, RxReorderAssumption DEF OrderInv
  <2> QED  BY <1>1, <2>1, EntryStays
<1>4. CoverInv'
  BY <1>1, Queued DEF CoverInv, Covered
<1> QED  BY <1>2, <1>3, <1>4 DEF OrderInv

(* A suspend only lets the sender run ahead.                               *)
LEMMA SleepOrder ==
  ASSUME SlotInv, OrderInv, CoverInv, Sleep
  PROVE  OrderInv' /\ CoverInv'
<1>1. /\ ref # None /\ resumed' = [resumed EXCEPT ![ref] = TRUE]
      /\ hi' \in Numbers \cap (hi .. hi + Gap)
      /\ UNCHANGED <<valid, que, dup, start, waiting, bubble, firstBubble, timer, ref,
                     timeoutQ, flushQ, miss, napi, open, lastOut, swapped>>
  BY DEF Sleep, gap
<1>2. PICK e \in Entries : e = ref
  BY <1>1 DEF SlotInv, SlotTypes
<1>3. hi \in Int /\ hi' \in Int /\ hi <= hi'
  BY <1>1, Sizes DEF OrderInv, RxTypes, Numbers
<1>4. RxTypes' /\ ~swapped'
  BY <1>1, <1>2, <1>3 DEF OrderInv, RxTypes
<1>5. EntryInv(e)'
  <2>1. valid[e] /\ resumed'[e]
    BY <1>1, <1>2 DEF SlotInv, SlotsAccounted, OrderInv, RxTypes
  <2>2. PICK c \in Int : WindowAt(e, c) /\ SenderAt(e, c)
    BY <1>2, <2>1 DEF OrderInv, EntryInv
  <2>3. WindowAt(e, c)'
    BY <1>1, <2>2 DEF WindowAt
  <2>4. c <= hi' /\ Below(que'[e], hi')
    <3>1. c <= hi /\ Below(que[e], hi)
      BY <2>2 DEF SenderAt
    <3>2. que[e] \in Seq(Packets)
      BY DEF OrderInv, RxTypes
    <3>3. \A j \in 1 .. Len(que[e]) : que[e][j].n \in Int
      BY <3>2, PacketFields
    <3> QED  BY <1>1, <1>3, <3>1, <3>3 DEF Below
  <2>5. SenderAt(e, c)'
    BY <1>1, <2>1, <2>2, <2>4 DEF SenderAt
  <2> QED  BY <1>1, <2>1, <2>3, <2>5 DEF EntryInv
<1>6. ASSUME NEW x \in Entries, x # e PROVE EntryInv(x)'
  <2>1. EntryInv(x) /\ x # ref'
    BY <1>1, <1>2, <1>6 DEF OrderInv
  <2> QED  BY <1>1, <2>1, EntryStays
<1>7. CoverInv'
  BY <1>1 DEF CoverInv, Covered
<1> QED  BY <1>4, <1>5, <1>6, <1>7 DEF OrderInv

(* The timer: it expires, is started again, or dies with its agreement.    *)
LEMMA TimerFiresOrder ==
  ASSUME OrderInv, CoverInv, NEW e \in Entries, TimerFires(e)
  PROVE  OrderInv' /\ CoverInv'
<1>1. /\ timer' = [timer EXCEPT ![e] = FALSE] /\ timeoutQ' = Append(timeoutQ, e)
      /\ UNCHANGED <<valid, que, dup, start, waiting, resumed, bubble, firstBubble, ref,
                     flushQ, miss, napi, hi, open, lastOut, swapped>>
  BY DEF TimerFires, window, sender
<1>2. /\ timeoutQ' \in Seq(Entries) /\ Range(timeoutQ') = Range(timeoutQ) \cup {e}
  BY <1>1, AppendDistinct DEF OrderInv, RxTypes
<1>3. RxTypes' /\ ~swapped'
  BY <1>1, <1>2 DEF OrderInv, RxTypes
<1>4. ASSUME NEW x \in Entries PROVE EntryInv(x)'
  BY <1>1, EntryStays DEF OrderInv
<1>5. \A x \in Entries : timer[x] => timer'[x] \/ x = e
  BY <1>1 DEF OrderInv, RxTypes
<1>6. CoverInv'
  BY <1>1, <1>2, <1>5 DEF CoverInv, Covered
<1> QED  BY <1>3, <1>4, <1>6 DEF OrderInv

LEMMA RestartTimerOrder ==
  ASSUME OrderInv, CoverInv, RestartTimer
  PROVE  OrderInv' /\ CoverInv'
<1>1. /\ napi # None /\ timer' = [timer EXCEPT ![napi] = TRUE] /\ napi' = None
      /\ miss' = (que[napi] # <<>>)
      /\ UNCHANGED <<valid, que, dup, start, waiting, resumed, bubble, firstBubble, ref,
                     timeoutQ, flushQ, hi, open, lastOut, swapped>>
  BY DEF RestartTimer, window, sender
<1>2. RxTypes' /\ ~swapped'
  BY <1>1 DEF OrderInv, RxTypes
<1>3. ASSUME NEW x \in Entries PROVE EntryInv(x)'
  BY <1>1, EntryStays DEF OrderInv
<1>4. \A x \in Entries : timer[x] \/ napi = x => timer'[x]
  BY <1>1 DEF OrderInv, RxTypes
<1>5. CoverInv'
  BY <1>1, <1>4 DEF CoverInv, Covered
<1> QED  BY <1>2, <1>3, <1>5 DEF OrderInv

LEMMA FlushDeletedOrder ==
  ASSUME SlotInv, OrderInv, CoverInv, FlushDeleted
  PROVE  OrderInv' /\ CoverInv'
<1>1. flushQ \in Seq(Entries) /\ flushQ # <<>>
  BY DEF SlotInv, SlotTypes, FlushDeleted
<1>2. PICK e \in Entries : e = Head(flushQ)
  BY <1>1, TailRange
<1>3. /\ flushQ' = Tail(flushQ)
      /\ que' = [que EXCEPT ![e] = <<>>]
      /\ timer' = [timer EXCEPT ![e] = timer[e] /\ ~bubble[e]]
      /\ bubble' = [bubble EXCEPT ![e] = FALSE]
      /\ valid' = [valid EXCEPT ![e] = FALSE]
      /\ UNCHANGED <<dup, start, waiting, resumed, firstBubble, ref, timeoutQ, miss, napi,
                     hi, open, lastOut, swapped>>
  BY <1>2 DEF FlushDeleted, window, sender
<1>4. \A x \in Range(flushQ) : x \in Range(flushQ') \/ x = e
  BY <1>1, <1>2, <1>3, TailRange
<1>5. <<>> \in Seq(Packets)
  OBVIOUS
<1>6. (timer[e] /\ ~bubble[e]) \in BOOLEAN
  OBVIOUS
<1>7. RxTypes' /\ ~swapped'
  BY <1>3, <1>5, <1>6 DEF OrderInv, RxTypes
<1>8. /\ ~valid'[e] /\ que'[e] = <<>> /\ ~bubble'[e]
      /\ \A x \in Entries : x # e =>
           /\ valid'[x] = valid[x] /\ que'[x] = que[x] /\ bubble'[x] = bubble[x]
           /\ timer'[x] = timer[x]
  BY <1>3 DEF OrderInv, RxTypes, SlotInv, SlotTypes
<1>9. ASSUME NEW x \in Entries PROVE EntryInv(x)'
  <2>1. CASE x = e
    BY <1>8, <2>1 DEF EntryInv
  <2>2. CASE x # e
    BY <1>3, <1>8, <2>2, EntryStays DEF OrderInv
  <2> QED  BY <2>1, <2>2
<1>10. CoverInv'
  BY <1>3, <1>4, <1>8 DEF CoverInv, Covered
<1> QED  BY <1>7, <1>9, <1>10 DEF OrderInv

LEMMA RxInit == Init => RxInv
<1> SUFFICES ASSUME Init PROVE RxInv
  OBVIOUS
<1>1. SlotInv
  BY SlotInit
<1>2. First \in Int /\ 0 \in Seqs /\ SeqSize - 1 \in Seqs
  BY Sizes DEF Seqs
<1>3. RxTypes
  <2>1. <<>> \in Seq(Packets) /\ <<>> \in Seq(Entries) /\ First - 1 \in Int
    BY <1>2
  <2>2. /\ que \in [Entries -> Seq(Packets)] /\ start \in [Entries -> Seqs]
        /\ firstBubble \in [Entries -> Seqs] /\ lastOut \in [Entries -> Int]
    BY <1>2, <2>1 DEF Init
  <2>3. /\ waiting \in [Entries -> BOOLEAN] /\ dup \in [Entries -> BOOLEAN]
        /\ resumed \in [Entries -> BOOLEAN] /\ bubble \in [Entries -> BOOLEAN]
        /\ timer \in [Entries -> BOOLEAN]
    BY DEF Init
  <2>4. /\ hi \in Int /\ open \in Numbers \cup {None} /\ miss \in BOOLEAN
        /\ swapped \in BOOLEAN /\ napi \in Entries \cup {None} /\ timeoutQ \in Seq(Entries)
    BY <1>2, <2>1 DEF Init
  <2> QED  BY <2>2, <2>3, <2>4 DEF RxTypes
<1>4. \A e \in Entries : EntryInv(e) /\ ~bubble[e] /\ que[e] = <<>>
  BY DEF Init, EntryInv
<1> QED  BY <1>1, <1>3, <1>4 DEF Init, RxInv, OrderInv, CoverInv

LEMMA RxStutter == RxInv /\ UNCHANGED vars => RxInv'
<1> SUFFICES ASSUME RxInv, UNCHANGED vars PROVE RxInv'
  OBVIOUS
<1>1. UNCHANGED <<valid, que, dup, start, waiting, resumed, bubble, firstBubble, timer, ref,
                  timeoutQ, flushQ, miss, napi, hi, open, torn, lastOut, swapped>>
  BY DEF vars, window, gap, sender
<1>2. SlotInv'
  BY <1>1, SlotStutter DEF RxInv, slots
<1>3. ASSUME OrderInv, CoverInv PROVE OrderInv' /\ CoverInv'
  <2>1. RxTypes' /\ ~swapped'
    BY <1>1, <1>3 DEF OrderInv, RxTypes
  <2>2. ASSUME NEW x \in Entries PROVE EntryInv(x)'
    BY <1>1, <1>3, EntryStays DEF OrderInv
  <2>3. CoverInv'
    BY <1>1, <1>3 DEF CoverInv, Covered
  <2> QED  BY <2>1, <2>2, <2>3 DEF OrderInv
<1> QED  BY <1>1, <1>2, <1>3 DEF RxInv

LEMMA RxStep == RxInv /\ [Next]_vars => RxInv'
<1> SUFFICES ASSUME RxInv, [Next]_vars PROVE RxInv'
  OBVIOUS
<1>1. CASE UNCHANGED vars
  BY <1>1, RxStutter
<1>2. CASE Next
  <2>1. SlotInv /\ SlotInv' /\ torn \in BOOLEAN
    BY SlotStep DEF RxInv
  <2>2. torn' \in BOOLEAN /\ (torn => torn')
    <3>1. ASSUME NEW n \in Numbers, NEW fmt \in Formats, Receive(n, fmt)
          PROVE  torn' = torn \/ \E b \in BOOLEAN : torn' = (torn \/ b)
      BY <3>1 DEF Receive
    <3>2. \/ \E n \in Numbers, fmt \in Formats : Receive(n, fmt)
          \/ torn' = torn
      BY <1>2 DEF Next, Bar, DelBa, Sleep, FlushTimeout, RestartTimer, FlushDeleted, AddBa,
                  TimerFires, sender
    <3> QED  BY <2>1, <3>1, <3>2
  <2>3. ASSUME ~torn' PROVE OrderInv' /\ CoverInv'
    <3>1. OrderInv /\ CoverInv
      BY <2>2, <2>3 DEF RxInv
    <3>2. ASSUME NEW n \in Numbers, NEW fmt \in Formats, Receive(n, fmt)
          PROVE  OrderInv' /\ CoverInv'
      BY <2>1, <2>3, <3>1, <3>2, ReceiveOrder
    <3>3. ASSUME NEW ssn \in Numbers, Bar(ssn) PROVE OrderInv' /\ CoverInv'
      BY <2>1, <3>1, <3>3, BarOrder
    <3>4. ASSUME NEW e \in Entries, AddBa(e) PROVE OrderInv' /\ CoverInv'
      BY <2>1, <3>1, <3>4, AddBaOrder
    <3>5. ASSUME NEW e \in Entries, TimerFires(e) PROVE OrderInv' /\ CoverInv'
      BY <3>1, <3>5, TimerFiresOrder
    <3>6. CASE DelBa
      BY <2>1, <3>1, <3>6, DelBaOrder
    <3>7. CASE Sleep
      BY <2>1, <3>1, <3>7, SleepOrder
    <3>8. CASE FlushTimeout
      BY <3>1, <3>8, FlushTimeoutOrder
    <3>9. CASE RestartTimer
      BY <3>1, <3>9, RestartTimerOrder
    <3>10. CASE FlushDeleted
      BY <2>1, <3>1, <3>10, FlushDeletedOrder
    <3> QED
      BY <1>2, <3>2, <3>3, <3>4, <3>5, <3>6, <3>7, <3>8, <3>9, <3>10 DEF Next
  <2> QED  BY <2>1, <2>2, <2>3 DEF RxInv
<1> QED  BY <1>1, <1>2

(* What the invariant says of the order, in the words of the property.     *)
LEMMA RxInOrder == RxInv => InOrder
<1> SUFFICES ASSUME RxInv, ~torn
             PROVE  /\ ~swapped
                    /\ \A e \in Entries : \A i \in DOMAIN que[e] :
                         LET p == que[e][i] IN
                         /\ p.n > lastOut[e] \/ (p.n = lastOut[e] /\ p.fmt = "last")
                         /\ i > 1 => \/ que[e][i - 1].n < p.n
                                     \/ /\ que[e][i - 1].n = p.n
                                        /\ que[e][i - 1].fmt = "first" /\ p.fmt = "last"
  BY DEF InOrder
<1>1. OrderInv
  BY DEF RxInv
<1>2. ASSUME NEW e \in Entries, NEW i \in DOMAIN que[e]
      PROVE  LET p == que[e][i] IN
             /\ p.n > lastOut[e] \/ (p.n = lastOut[e] /\ p.fmt = "last")
             /\ i > 1 => \/ que[e][i - 1].n < p.n
                         \/ /\ que[e][i - 1].n = p.n
                            /\ que[e][i - 1].fmt = "first" /\ p.fmt = "last"
  <2>1. que[e] \in Seq(Packets) /\ i \in 1 .. Len(que[e])
    BY <1>1 DEF OrderInv, RxTypes
  <2>2. que[e] # <<>>
    BY <2>1
  <2>3. Order(que[e]) /\ Passed(que[e], lastOut[e])
    BY <1>1, <2>2 DEF OrderInv, EntryInv, WindowAt
  <2>4. que[e][i].n > lastOut[e] \/ (que[e][i].n = lastOut[e] /\ que[e][i].fmt = "last")
    BY <2>1, <2>3 DEF Passed
  <2>5. ASSUME i > 1
        PROVE  \/ que[e][i - 1].n < que[e][i].n
               \/ /\ que[e][i - 1].n = que[e][i].n
                  /\ que[e][i - 1].fmt = "first" /\ que[e][i].fmt = "last"
    <3>1. i - 1 \in 1 .. Len(que[e]) /\ i - 1 < i
      BY <2>1, <2>5
    <3> QED  BY <2>1, <2>3, <3>1 DEF Order, InTurn
  <2> QED  BY <2>4, <2>5
<1> QED  BY <1>1, <1>2 DEF OrderInv

(* For any table, any window of at most a quarter of the sequence numbers  *)
(* and any bounds on the sender that keep what is in use within half of    *)
(* them: what qmInsertReorderPkt and the poll hand up is in order, and the *)
(* queues hold what is left of it in order and without duplicates.         *)
THEOREM QueuesInOrder == Spec => []InOrder
BY RxInit, RxStep, RxInOrder, PTL DEF Spec

(* And a packet that is queued always has a timer, or the poll, to look    *)
(* after it: no interleaving of the main thread and the poll forgets one.  *)
THEOREM BubblesAreCovered == Spec => []BubbleCovered
<1>1. RxInv => BubbleCovered
  BY DEF RxInv, CoverInv, Covered, BubbleCovered
<1> QED  BY <1>1, RxInit, RxStep, PTL DEF Spec
=============================================================================
