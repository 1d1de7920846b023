------------------------------ MODULE RxReorder ------------------------------
(* Block-ack reordering in the receive path of the WLAN driver (gen4m): the    *)
(* table of agreements, the reorder queue and window of each, the bubble timer *)
(* and the work that the main thread hands to the NAPI poll.  The model        *)
(* follows one pair of station and TID.  Events from the firmware and timers   *)
(* run in the main thread; packets and flushes run in the poll.                *)
EXTENDS Integers, SequencesExt

CONSTANTS
  Entries,        \* slots of arRxBaTable that the pair may get (80 in all)
  None,
  SeqSize,        \* number of sequence numbers (4096 in the code)
  WinSize,        \* buffer size of the agreement
  Amsdus,         \* packets that arrive as two subframes
  Late, Gap,      \* bound: how far a packet may be behind or ahead of the newest
  First, Final,   \* bound: numbers of the packets the sender has
  MaxAdds, MaxSleeps   \* bounds: agreements made, suspends

ASSUME RxReorderAssumption ==
  /\ None \notin Entries \cup (First .. Final)
  /\ {SeqSize, WinSize} \subseteq Nat \ {0} /\ 4 * WinSize <= SeqSize /\ SeqSize >= 8
  /\ {Late, Gap, First, Final, MaxAdds, MaxSleeps} \subseteq Nat
  \* The sender repeats what is in its window, and what is lost fits in it.
  /\ Late <= WinSize /\ WinSize + Gap < SeqSize \div 2
  /\ Amsdus \subseteq First .. Final

VARIABLES
  \* RX_BA_ENTRY, one function per field
  valid,          \* fgIsValid
  que,            \* rReOrderQue
  start,          \* u2WinStart; u2WinEnd is always WinSize - 1 further on
  waiting,        \* fgIsWaitingForPktWithSsn
  bubble,         \* fgHasBubble
  firstBubble,    \* u2FirstBubbleSn
  dup,            \* fgIsAmsduDuplicated
  resumed,        \* fgFirstSnToWinStart
  seqNo,          \* u2SeqNo: sequence number of the packet processed last
  timer,          \* rReorderBubbleTimer is pending
  \* around the table
  ref,            \* aprRxReorderParamRefTbl of the pair
  timeoutQ,       \* rTimeoutRxBaEntry
  flushQ,         \* rFlushRxBaEntry
  miss,           \* g_arMissTimeout of the pair is set
  napi,           \* entry whose timer the poll is about to start again
  \* the sender, and histories
  hi,             \* number of the next new packet
  open,           \* aggregate of which the first subframe has just arrived
  lastOut,        \* number of the packet popped last out of each queue
  swapped,        \* a packet was popped after a newer one
  torn,           \* a window was moved away from the packets in its queue
  adds, sleeps

window == <<start, waiting, resumed, seqNo>>
gap == <<bubble, firstBubble, timer>>
sender == <<hi, open, adds, sleeps, torn>>
vars == <<valid, que, dup, window, gap, ref, timeoutQ, flushQ, miss, napi, sender,
          lastOut, swapped>>

Numbers == First .. Final
Seqs == 0 .. SeqSize - 1
Formats == {"msdu", "first", "last"}

----------------------------------------------------------------------------
(* Sequence numbers.  A packet has a number n; the driver sees SN.            *)

SN(p) == p.n % SeqSize

SeqAdd(a, k) == (a + k) % SeqSize
Smaller(a, b) == (a - b) % SeqSize > SeqSize \div 2
AtMost(a, b) == a = b \/ Smaller(a, b)

\* qmInit.  start is 0xFFFF there, and read only after an agreement has set it.
Init ==
  /\ valid = [e \in Entries |-> FALSE]
  /\ que = [e \in Entries |-> <<>>]
  /\ start = [e \in Entries |-> SeqSize - 1]
  /\ waiting = [e \in Entries |-> FALSE]
  /\ bubble = [e \in Entries |-> FALSE]
  /\ firstBubble = [e \in Entries |-> 0]
  /\ dup = [e \in Entries |-> FALSE]
  /\ resumed = [e \in Entries |-> FALSE]
  /\ seqNo = [e \in Entries |-> 0]
  /\ timer = [e \in Entries |-> FALSE]
  /\ ref = None
  /\ timeoutQ = <<>> /\ flushQ = <<>>
  /\ miss = FALSE
  /\ napi = None
  /\ hi = First /\ open = None
  /\ lastOut = [e \in Entries |-> First - 1]
  /\ swapped = FALSE /\ torn = FALSE
  /\ adds = 0 /\ sleeps = 0

----------------------------------------------------------------------------
(* Popping out.  Each loop over the queue is a recursive function, W[i] after  *)
(* i packets: it counts those that leave and stops where the code breaks.     *)
(* mark says what the loop has done to the bubble and its timer.              *)

Walk(e, from, late) ==
  [out |-> 0, start |-> from, sub |-> "msdu", adv |-> FALSE, late |-> late,
   mark |-> "kept", first |-> firstBubble[e], stop |-> FALSE]

HasBubble(e, w) == w.mark = "opened" \/ (w.mark = "kept" /\ bubble[e])
Opened(e, w) ==
  IF HasBubble(e, w) THEN w ELSE [w EXCEPT !.mark = "opened", !.first = w.start]
Closed(e, w) == IF HasBubble(e, w) THEN [w EXCEPT !.mark = "closed"] ELSE w

\* The head is the packet that the window starts with.  After an advance in
\* the same loop this means that a bubble has been filled.
Matched(e, w, p) ==
  LET whole == p.fmt # "first" IN
  [IF w.adv THEN Closed(e, w) ELSE w
   EXCEPT !.out = @ + 1, !.start = IF whole THEN SeqAdd(@, 1) ELSE @,
          !.adv = @ \/ whole]

\* qmPopOutDueToFallWithin, for one packet; one that has been missing for long
\* is skipped, once.  fgMoveWinOnMissingLast is off, as it is by default.
WithinStep(e, w, p) ==
  IF w.stop THEN w
  ELSE IF SN(p) = w.start THEN Matched(e, w, p)
  ELSE IF w.late
  THEN [Opened(e, w) EXCEPT !.out = @ + 1, !.start = SeqAdd(SN(p), 1), !.late = FALSE]
  ELSE [Opened(e, w) EXCEPT !.stop = TRUE]

\* qmPopOutDueToFallAhead, for one packet.  An aggregate whose last subframe is
\* missing is given up when a later packet is at the head.  s is u2SeqNo.
AheadStep(e, s, w0, p) ==
  LET cut == w0.sub = "first" /\ Smaller(w0.start, SN(p)) /\ s # w0.start
      w == IF cut THEN [w0 EXCEPT !.start = SeqAdd(@, 1), !.sub = "msdu"] ELSE w0
  IN IF w0.stop THEN w0
     ELSE IF SN(p) = w.start THEN [Matched(e, w, p) EXCEPT !.sub = p.fmt]
     ELSE IF Smaller(SN(p), w.start) THEN [w EXCEPT !.out = @ + 1]
     ELSE [Opened(e, w) EXCEPT !.stop = TRUE]

\* The element of a set that has one; TLC then computes it once.
Once(S) == CHOOSE r \in S : TRUE

PopWithin(e, q, from, late) ==
  LET W[i \in 0 .. Len(q)] ==
        IF i = 0 THEN Walk(e, from, late)
        ELSE Once({WithinStep(e, w, q[i]) : w \in {W[i - 1]}})
  IN  W[Len(q)]

\* The bubble is over when the queue has run empty.
PopAhead(e, q, from, s) ==
  LET W[i \in 0 .. Len(q)] ==
        IF i = 0 THEN Walk(e, from, FALSE)
        ELSE Once({AheadStep(e, s, w, q[i]) : w \in {W[i - 1]}})
  IN  IF W[Len(q)].out = Len(q) THEN Closed(e, W[Len(q)]) ELSE W[Len(q)]

\* What a loop over q leaves behind in the entry.  since is the newest packet
\* that had left the queue before.
Settle(e, q, w, since) ==
  /\ que' = [que EXCEPT ![e] = SubSeq(q, w.out + 1, Len(q))]
  /\ start' = [start EXCEPT ![e] = w.start]
  /\ bubble' = [bubble EXCEPT ![e] = HasBubble(e, w)]
  /\ timer' = [timer EXCEPT ![e] = w.mark = "opened" \/ (w.mark = "kept" /\ @)]
  /\ firstBubble' = [firstBubble EXCEPT ![e] = w.first]
  /\ lastOut' = [lastOut EXCEPT ![e] = IF w.out = 0 THEN since ELSE q[w.out].n]
  /\ swapped' = (swapped \/ \E i \in 1 .. w.out :
                              q[i].n < IF i = 1 THEN since ELSE q[i - 1].n)

----------------------------------------------------------------------------
(* Packets *)

\* Mutant: the search for the place does not look for the packet itself.
InsertedDuplicate(e, p) ==
  LET q == que[e]
      stops == {i \in DOMAIN q : Smaller(SN(p), SN(q[i]))}
      at == IF stops = {} THEN Len(q) + 1 ELSE Min(stops)
  IN [que |-> InsertAt(q, at, p), dup |-> FALSE]

\* qmInsertFallWithinReorderPkt: the queue with p at its place.  A packet that
\* is there already is dropped, and so are the subframes that follow it.
Inserted(e, p) ==
  LET q == que[e]
      same == {i \in DOMAIN q : SN(q[i]) = SN(p)}
      newer == {i \in DOMAIN q : Smaller(SN(p), SN(q[i]))}
      at == IF newer = {} THEN Len(q) + 1 ELSE Min(newer)
  IN IF q = <<>> THEN [que |-> <<p>>, dup |-> dup[e]]
     ELSE IF same # {} /\ (dup[e] \/ p.fmt # "last")
     THEN [que |-> q, dup |-> dup[e] \/ p.fmt = "first"]
     ELSE [que |-> InsertAt(q, at, p), dup |-> FALSE]

\* Numbers that are in use lie within half of the number space.
Apart(h) == ref # None => \A i \in DOMAIN que[ref] : h - que[ref][i].n < SeqSize \div 2

\* The sender's side of a packet's arrival.  The subframes of an aggregate come
\* one right after the other, as they do without MLO, and there are two of them.
Arrives(n, fmt) ==
  /\ n \in Numbers \cap (hi - Late .. hi + Gap)
  /\ IF n \in Amsdus THEN fmt = "first" \/ (fmt = "last" /\ open = n) ELSE fmt = "msdu"
  /\ hi' = Max({hi, n + 1})
  /\ Apart(hi')
  /\ open' = IF fmt = "first" THEN n ELSE None
  /\ UNCHANGED <<adds, sleeps>>

\* qmInsertReorderPkt: p falls within the window that begins at from, ahead of
\* it or behind it.  A packet behind it is handed up or dropped, and leaves the
\* queue alone.
Insert(e, p, from, since) ==
  LET to == SeqAdd(from, WinSize - 1)
      within == AtMost(from, SN(p)) /\ AtMost(SN(p), to)
      ahead == Smaller(to, SN(p)) /\ Smaller(from, SN(p))
  IN
  \/ /\ within
     /\ LET ins == Inserted(e, p)
            pos == IF waiting[e] THEN SN(p) ELSE from
        IN \E late \in {FALSE, miss} :
             /\ Settle(e, ins.que, PopWithin(e, ins.que, pos, late), since)
             /\ dup' = [dup EXCEPT ![e] = ins.dup]
     /\ miss' = (que'[e] # <<>>)
     /\ waiting' = [waiting EXCEPT ![e] = FALSE]
  \/ /\ ahead
     /\ LET q == Append(que[e], p)
        IN Settle(e, q, PopAhead(e, q, SeqAdd(SN(p), -(WinSize - 1)), SN(p)), since)
     /\ dup' = [dup EXCEPT ![e] = FALSE]
     /\ miss' = (miss /\ que'[e] # <<>>)
     /\ waiting' = [waiting EXCEPT ![e] = FALSE]
  \/ /\ ~within /\ ~ahead
     /\ UNCHANGED <<que, dup, start, waiting, gap, miss, lastOut, swapped>>

\* qmProcessPktWithReordering: without an agreement the packet goes straight up.
\* The first one after a resume says where the window begins.
Receive(n, fmt) ==
  LET p == [n |-> n, fmt |-> fmt]
      e == ref
      from == IF resumed[e] THEN SN(p) ELSE start[e]
      since == IF resumed[e] THEN Min({lastOut[e], n - 1}) ELSE lastOut[e]
  IN
  /\ napi = None
  /\ Arrives(n, fmt)
  /\ UNCHANGED <<valid, ref, timeoutQ, flushQ, napi>>
  /\ \/ /\ ref = None
        /\ UNCHANGED <<que, dup, window, gap, miss, lastOut, swapped, torn>>
     \/ /\ ref # None
        /\ Insert(e, p, from, since)
        /\ resumed' = [resumed EXCEPT ![e] = FALSE]
        /\ seqNo' = [seqNo EXCEPT ![e] = SN(p)]
        /\ torn' = (torn \/ (resumed[e] /\ que[e] # <<>>))

\* qmHandleRxReorderWinShift: the sender does not repeat what is before ssn.
\* Runs in the poll for a frame and in the main thread for a stored one.
Bar(ssn) ==
  LET e == ref
      from == ssn % SeqSize
  IN
  /\ ssn \in hi - Late .. hi + Gap
  /\ ref # None
  /\ Smaller(start[e], from)
  /\ hi' = Max({hi, ssn})
  /\ Apart(hi')
  /\ Settle(e, que[e], PopAhead(e, que[e], from, seqNo[e]), lastOut[e])
  /\ miss' = (miss /\ que'[e] # <<>>)
  /\ UNCHANGED <<valid, dup, waiting, resumed, seqNo, ref, timeoutQ, flushQ, napi,
                 open, adds, sleeps, torn>>

----------------------------------------------------------------------------
(* The main thread *)

\* qmDelRxBaEntry: the entry is taken out of the reference table at once, and
\* flushed by the poll.
Unref == /\ ref # None
         /\ flushQ' = Append(flushQ, ref)

DelBa ==
  /\ Unref
  /\ ref' = None
  /\ UNCHANGED <<valid, que, dup, window, gap, timeoutQ, miss, napi, sender, lastOut,
                 swapped>>

\* Mutant: the agreement that is there is forgotten.
AddBaOnly(e) ==
  /\ adds < MaxAdds
  /\ ~valid[e]
  /\ ref' = e
  /\ valid' = [valid EXCEPT ![e] = TRUE]
  /\ start' = [start EXCEPT ![e] = hi % SeqSize]
  /\ waiting' = [waiting EXCEPT ![e] = TRUE]
  /\ bubble' = [bubble EXCEPT ![e] = FALSE]
  /\ dup' = [dup EXCEPT ![e] = FALSE]
  /\ miss' = FALSE
  /\ lastOut' = [lastOut EXCEPT ![e] = hi - 1]
  /\ adds' = adds + 1
  /\ UNCHANGED <<que, resumed, seqNo, firstBubble, timer, timeoutQ, flushQ, napi, hi, open,
                 sleeps, swapped, torn>>

\* qmAddRxBaEntry; an agreement that is there is deleted first.
AddBa(e) ==
  /\ adds < MaxAdds
  /\ ~valid[e]
  /\ Unref \/ (ref = None /\ UNCHANGED flushQ)
  /\ ref' = e
  /\ valid' = [valid EXCEPT ![e] = TRUE]
  /\ start' = [start EXCEPT ![e] = hi % SeqSize]
  /\ waiting' = [waiting EXCEPT ![e] = TRUE]
  /\ bubble' = [bubble EXCEPT ![e] = FALSE]
  /\ dup' = [dup EXCEPT ![e] = FALSE]
  /\ miss' = FALSE
  /\ lastOut' = [lastOut EXCEPT ![e] = hi - 1]
  /\ adds' = adds + 1
  /\ UNCHANGED <<que, resumed, seqNo, firstBubble, timer, timeoutQ, napi, hi, open,
                 sleeps, swapped, torn>>

\* The suspend marks the window as out of date; packets pass meanwhile.
Sleep ==
  /\ sleeps < MaxSleeps
  /\ ref # None
  /\ resumed' = [resumed EXCEPT ![ref] = TRUE]
  /\ hi' \in Numbers \cap (hi .. hi + Gap)
  /\ sleeps' = sleeps + 1
  /\ UNCHANGED <<valid, que, dup, start, waiting, seqNo, gap, ref, timeoutQ, flushQ,
                 miss, napi, open, adds, lastOut, swapped, torn>>

\* qmHandleReorderBubbleTimeout
TimerFires(e) ==
  /\ timer[e]
  /\ timer' = [timer EXCEPT ![e] = FALSE]
  /\ timeoutQ' = Append(timeoutQ, e)
  /\ UNCHANGED <<valid, que, dup, window, bubble, firstBubble, ref, flushQ, miss, napi,
                 sender, lastOut, swapped>>

----------------------------------------------------------------------------
(* The poll *)

\* Mutant: the bubble stays the one that has been filled.
BubbleNow(e) == firstBubble[e]

\* The bubble that the timer waits for from now on.
NextBubble(e) == start[e]

\* qmFlushTimeoutReorderBubble: everything queued is popped if the bubble is
\* the one that the timer was started for; if not, the timer runs once more.
FlushTimeout ==
  LET e == Head(timeoutQ)
      q == que[e]
  IN
  /\ napi = None
  /\ timeoutQ # <<>>
  /\ timeoutQ' = Tail(timeoutQ)
  /\ UNCHANGED <<valid, dup, waiting, resumed, seqNo, ref, flushQ, sender>>
  /\ \/ /\ ~valid[e] \/ ~bubble[e]
        /\ UNCHANGED <<que, start, gap, miss, napi, lastOut, swapped>>
     \/ /\ valid[e] /\ bubble[e] /\ q = <<>>
        /\ bubble' = [bubble EXCEPT ![e] = FALSE]
        /\ UNCHANGED <<que, start, firstBubble, timer, miss, napi, lastOut, swapped>>
     \/ /\ valid[e] /\ bubble[e] /\ q # <<>>
        /\ firstBubble[e] = start[e]
        /\ LET w == PopAhead(e, q, SeqAdd(SN(Last(q)), 1), seqNo[e])
           IN Settle(e, q, [w EXCEPT !.mark = "closed"], lastOut[e])
        /\ miss' = (que'[e] # <<>>)
        /\ UNCHANGED napi
     \/ /\ valid[e] /\ bubble[e] /\ q # <<>>
        /\ firstBubble[e] # start[e]
        /\ firstBubble' = [firstBubble EXCEPT ![e] = NextBubble(e)]
        /\ napi' = e
        /\ UNCHANGED <<que, start, bubble, timer, miss, lastOut, swapped>>

\* Mutant: the timer is not started again.
NoRestart ==
  /\ napi # None
  /\ miss' = (que[napi] # <<>>)
  /\ napi' = None
  /\ UNCHANGED <<valid, que, dup, window, gap, ref, timeoutQ, flushQ, sender, lastOut,
                 swapped>>

\* The end of qmHandleEventCheckReorderBubble, after it has released the lock.
RestartTimer ==
  /\ napi # None
  /\ timer' = [timer EXCEPT ![napi] = TRUE]
  /\ miss' = (que[napi] # <<>>)
  /\ napi' = None
  /\ UNCHANGED <<valid, que, dup, window, bubble, firstBubble, ref, timeoutQ, flushQ,
                 sender, lastOut, swapped>>

\* qmFlushDeletedBaReorder
FlushDeleted ==
  LET e == Head(flushQ) IN
  /\ napi = None
  /\ flushQ # <<>>
  /\ flushQ' = Tail(flushQ)
  /\ que' = [que EXCEPT ![e] = <<>>]
  /\ timer' = [timer EXCEPT ![e] = @ /\ ~bubble[e]]
  /\ bubble' = [bubble EXCEPT ![e] = FALSE]
  /\ valid' = [valid EXCEPT ![e] = FALSE]
  /\ UNCHANGED <<dup, window, firstBubble, ref, timeoutQ, miss, napi, sender, lastOut,
                 swapped>>

----------------------------------------------------------------------------
Next ==
  \/ \E n \in Numbers, fmt \in Formats : Receive(n, fmt)
  \/ \E ssn \in Numbers : Bar(ssn)
  \/ DelBa \/ Sleep \/ FlushTimeout \/ RestartTimer \/ FlushDeleted
  \/ \E e \in Entries : AddBa(e) \/ TimerFires(e)

Spec == Init /\ [][Next]_vars

\* The timers expire, and the poll that was scheduled runs.
Fairness ==
  /\ WF_vars(FlushTimeout) /\ WF_vars(RestartTimer) /\ WF_vars(FlushDeleted)
  /\ \A e \in Entries : WF_vars(TimerFires(e))
FairSpec == Spec /\ Fairness

----------------------------------------------------------------------------
\* The queues hold packets in order, without duplicates, and nothing older than
\* what has been popped; what is popped comes out in order.  This and the next
\* end when a resume moves the window away from packets in its queue.
InOrder == ~torn =>
  /\ ~swapped
  /\ \A e \in Entries : \A i \in DOMAIN que[e] :
       LET p == que[e][i] IN
       /\ p.n > lastOut[e] \/ (p.n = lastOut[e] /\ p.fmt = "last")
       /\ i > 1 => \/ que[e][i - 1].n < p.n
                   \/ que[e][i - 1].n = p.n /\ que[e][i - 1].fmt = "first" /\ p.fmt = "last"

\* A packet that waits in a queue waits for something that will come: the
\* bubble is known and its timer runs or has expired, or the queue is going to
\* be flushed.
BubbleCovered == ~torn =>
  \A e \in Entries : que[e] # <<>> =>
    /\ valid[e] /\ bubble[e]
    /\ timer[e] \/ napi = e \/ e \in Range(timeoutQ) \/ e \in Range(flushQ)

\* Every slot in use serves the pair or is on its way to be freed, once.
SlotsAccounted ==
  /\ \A e \in Entries : valid[e] <=> (ref = e \/ e \in Range(flushQ))
  /\ IsInjective(flushQ) /\ ref \notin Range(flushQ)

\* No packet waits for ever for one that does not come: since the sender runs
\* out of new packets, each queue runs empty again and again.
EveryPacketReleased == \A e \in Entries : []<>(torn \/ que[e] = <<>>)
==============================================================================
