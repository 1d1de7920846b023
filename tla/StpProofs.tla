----------------------------- MODULE StpProofs -----------------------------
(* Proofs about Stp for every number of sequence numbers, every window that   *)
(* leaves one of them unused, and all limits and bounds: types, the agreement *)
(* of winspace with rxack and txseq, that a retry is always on its way, that  *)
(* both directions are streams without loss, repetition or reordering, and    *)
(* that the loss of a frame does not lead to a firmware assert.               *)
EXTENDS Stp, SequenceTheorems, TLAPS

----------------------------------------------------------------------------
(* Sequence numbers *)

\* INDEX_INC stays within the sequence numbers and so does a run of them.
LEMMA IncType ==
  /\ \A i \in Seqs : Inc(i) \in Seqs
  /\ \A i \in Seqs, k \in 1 .. SeqSize : Ahead(i, k) \in Seqs
  BY StpAssumption DEF Inc, Ahead, Seqs

\* The limits and bounds are natural numbers.
LEMMA LimitType ==
  /\ SeqSize \in Nat /\ WinSize \in Nat /\ WinSize > 0 /\ WinSize < SeqSize
  /\ RetryLimit \in Nat /\ LoopLimit \in Nat /\ MaxRetryOps \in Nat
  /\ MaxFaults \in Nat /\ MaxRestarts \in Nat
  BY StpAssumption

\* Fewer packets are out than there are sequence numbers.
LEMMA DistType == \A a, b \in Seqs : Dist(a, b) \in 0 .. SeqSize - 1
  BY StpAssumption DEF Dist, Seqs

\* Sending one more packet, when the window is not used up, adds one to the
\* distance.
LEMMA DistInc ==
  \A a, b \in Seqs : Dist(a, b) < SeqSize - 1 => Dist(a, Inc(b)) = Dist(a, b) + 1
  BY StpAssumption DEF Dist, Inc, Seqs

\* An acknowledgement within the window splits it.
LEMMA DistSplit ==
  \A a, b, c \in Seqs :
    Dist(a, c) < Dist(a, b) => Dist(Inc(c), b) = Dist(a, b) - Dist(a, c) - 1
  BY StpAssumption DEF Dist, Inc, Seqs

\* A context that stp_process_rxack may find, in agreement with itself.
Sound(s) == s \in SequenceContext /\ s.winspace + Unacked(s) = WinSize

\* A context with a packet more out.
LEMMA SentContext ==
  ASSUME NEW s \in SequenceContext, s.winspace > 0,
         NEW t, t = [s EXCEPT !.txseq = Inc(s.txseq), !.winspace = s.winspace - 1]
  PROVE  /\ t \in SequenceContext
         /\ t.txseq = Inc(s.txseq) /\ t.rxack = s.rxack /\ t.winspace = s.winspace - 1
<1>1. t = [txseq |-> Inc(s.txseq), txack |-> s.txack, rxack |-> s.rxack,
           winspace |-> s.winspace - 1, expected_rxseq |-> s.expected_rxseq,
           retry_times |-> s.retry_times, tx_timeout_loop |-> s.tx_timeout_loop,
           rx_resync |-> s.rx_resync, rx_resync_seq |-> s.rx_resync_seq]
  BY DEF SequenceContext
<1>2. s.winspace - 1 \in 0 .. WinSize
  BY LimitType DEF SequenceContext
<1>3. Inc(s.txseq) \in Seqs
  BY IncType DEF SequenceContext
<1> QED  BY <1>1, <1>2, <1>3 DEF SequenceContext

\* A context with other retry counts.
Counted(s, n, l) == [s EXCEPT !.retry_times = n, !.tx_timeout_loop = l]

\* The retry counts have nothing to do with the window.
LEMMA RetryContext ==
  ASSUME NEW s, Sound(s), NEW n \in 0 .. RetryLimit + 1, NEW l \in 0 .. LoopLimit
  PROVE  /\ Sound(Counted(s, n, l)) /\ Unacked(Counted(s, n, l)) = Unacked(s)
         /\ Counted(s, n, l).retry_times = n
<1> DEFINE t == Counted(s, n, l)
<1>0. s \in SequenceContext
  BY DEF Sound
<1>1. t = [s EXCEPT !.retry_times = n, !.tx_timeout_loop = l]
  BY DEF Counted
<1> HIDE DEF t
<1>2. t = [txseq |-> s.txseq, txack |-> s.txack, rxack |-> s.rxack, winspace |-> s.winspace,
           expected_rxseq |-> s.expected_rxseq, retry_times |-> n, tx_timeout_loop |-> l,
           rx_resync |-> s.rx_resync, rx_resync_seq |-> s.rx_resync_seq]
  BY <1>0, <1>1 DEF SequenceContext
<1>3. t \in SequenceContext /\ t.rxack = s.rxack /\ t.txseq = s.txseq /\ t.winspace = s.winspace
      /\ t.retry_times = n
  BY <1>0, <1>2 DEF SequenceContext
<1>4. Unacked(t) = Unacked(s)
  BY <1>3 DEF Unacked
<1>5. Sound(t)
  BY <1>3, <1>4 DEF Sound
<1> QED  BY <1>3, <1>4, <1>5 DEF t

\* A context after the expected packet x, y being expected next.
Expecting(s, x, y) == [s EXCEPT !.rx_resync = FALSE, !.txack = x, !.expected_rxseq = y]

\* What the sending side uses stays.
LEMMA ExpectedContext ==
  ASSUME NEW s, Sound(s), NEW x \in Seqs, NEW y \in Seqs
  PROVE  LET t == Expecting(s, x, y) IN
         Sound(t) /\ Unacked(t) = Unacked(s) /\ t.retry_times = s.retry_times
<1> DEFINE t == Expecting(s, x, y)
<1>0. s \in SequenceContext
  BY DEF Sound
<1>1. t = [s EXCEPT !.rx_resync = FALSE, !.txack = x, !.expected_rxseq = y]
  BY DEF Expecting
<1> HIDE DEF t
<1>2. t = [txseq |-> s.txseq, txack |-> x, rxack |-> s.rxack, winspace |-> s.winspace,
           expected_rxseq |-> y, retry_times |-> s.retry_times,
           tx_timeout_loop |-> s.tx_timeout_loop,
           rx_resync |-> FALSE, rx_resync_seq |-> s.rx_resync_seq]
  BY <1>0, <1>1 DEF SequenceContext
<1>3. t \in SequenceContext /\ t.rxack = s.rxack /\ t.txseq = s.txseq /\ t.winspace = s.winspace
      /\ t.retry_times = s.retry_times
  BY <1>0, <1>2 DEF SequenceContext
<1>4. Unacked(t) = Unacked(s)
  BY <1>3 DEF Unacked
<1>5. Sound(t) /\ Unacked(t) = Unacked(s) /\ t.retry_times = s.retry_times
  BY <1>3, <1>4 DEF Sound
<1> QED  BY <1>5 DEF t

\* A context after a resync pattern, or after a packet that follows one.
ResyncTo(s, b, q, u) == u = [s EXCEPT !.rx_resync = b, !.rx_resync_seq = q]
LEMMA ResyncContext ==
  ASSUME NEW s, Sound(s), NEW b \in BOOLEAN, NEW q \in Seqs \cup {Unset}, NEW u,
         ResyncTo(s, b, q, u)
  PROVE  Sound(u) /\ Unacked(u) = Unacked(s) /\ u.retry_times = s.retry_times
<1>0. s \in SequenceContext
  BY DEF Sound
<1>1. u = [txseq |-> s.txseq, txack |-> s.txack, rxack |-> s.rxack, winspace |-> s.winspace,
           expected_rxseq |-> s.expected_rxseq, retry_times |-> s.retry_times,
           tx_timeout_loop |-> s.tx_timeout_loop,
           rx_resync |-> b, rx_resync_seq |-> q]
  BY <1>0 DEF SequenceContext, ResyncTo
<1>2. u \in SequenceContext /\ u.rxack = s.rxack /\ u.txseq = s.txseq /\ u.winspace = s.winspace
      /\ u.retry_times = s.retry_times
  BY <1>0, <1>1 DEF SequenceContext
<1>3. Unacked(u) = Unacked(s)
  BY <1>2 DEF Unacked
<1> QED  BY <1>2, <1>3 DEF Sound

\* What stp_process_rxack leaves behind is in agreement with itself, and a
\* packet it leaves out is one that was out before.
LEMMA AckSound ==
  ASSUME NEW s, Sound(s), NEW a \in Seqs
  PROVE  /\ Sound(Acknowledged(s, a))
         /\ Unacked(Acknowledged(s, a)) > 0 => Unacked(s) > 0
         /\ AckHits(s, a) => Acknowledged(s, a).retry_times = 0
         /\ ~AckHits(s, a) => Acknowledged(s, a) = s
<1>0. /\ s \in SequenceContext /\ s.rxack \in Seqs /\ s.txseq \in Seqs
      /\ s.winspace \in 0 .. WinSize /\ s.winspace + Unacked(s) = WinSize
      /\ RetryLimit \in Nat /\ LoopLimit \in Nat /\ WinSize \in Nat
  BY StpAssumption DEF Sound, SequenceContext
<1>1. CASE ~AckHits(s, a)
  <2>1. Acknowledged(s, a) = s  BY <1>1 DEF Acknowledged
  <2> QED  BY <2>1, <1>1
<1>2. CASE AckHits(s, a)
  <2> DEFINE t == Acknowledged(s, a)
             d == Dist(Inc(s.rxack), a)
  <2>1. t = [s EXCEPT !.rxack = a, !.winspace = s.winspace + d + 1,
                      !.retry_times = 0, !.tx_timeout_loop = 0]
    BY <1>2, <1>0 DEF Acknowledged, SequenceContext
  <2>2. Inc(s.rxack) \in Seqs  BY <1>0, IncType
  <2>3. d \in Nat /\ Unacked(s) \in Nat  BY <2>2, <1>0, DistType DEF Unacked
  <2>4. d < Unacked(s)  BY <1>2 DEF AckHits
  <2>5. t.rxack = a /\ t.txseq = s.txseq /\ t.winspace = s.winspace + d + 1 /\ t.retry_times = 0
    BY <2>1, <1>0 DEF SequenceContext
  <2>6. Unacked(t) = Unacked(s) - d - 1
    BY <2>5, <2>4, <2>2, <1>0, DistSplit DEF Unacked
  <2>7. t.winspace \in 0 .. WinSize /\ t.winspace + Unacked(t) = WinSize
    BY <2>3, <2>4, <2>5, <2>6, <1>0
  <2>8. t = [txseq |-> s.txseq, txack |-> s.txack, rxack |-> a, winspace |-> t.winspace,
              expected_rxseq |-> s.expected_rxseq, retry_times |-> 0, tx_timeout_loop |-> 0,
              rx_resync |-> s.rx_resync, rx_resync_seq |-> s.rx_resync_seq]
    BY <2>1, <1>0 DEF SequenceContext
  <2> HIDE DEF t
  <2>9. t \in SequenceContext  BY <2>7, <2>8, <1>0 DEF SequenceContext
  <2>10. Sound(t)  BY <2>7, <2>9 DEF Sound
  <2> QED  BY <2>3, <2>4, <2>5, <2>6, <2>10, <1>2 DEF t
<1> QED  BY <1>1, <1>2

----------------------------------------------------------------------------
(* The frames *)

\* Frames built from typed parts are typed.
LEMMA FrameType ==
  /\ \A i, a \in Seqs, p \in Nat : DataFrame(i, a, p) \in Frames
  /\ \A a \in Seqs : AckFrame(a) \in Frames
  /\ Resync \in Frames
  BY StpAssumption DEF DataFrame, AckFrame, Resync, Frames, Seqs

\* After a frame has been parsed and answered both wires hold frames.
LEMMA ParseType ==
  ASSUME TypeOK, NEW e \in Ends, wire[Peer(e)] # <<>>,
         NEW reply \in Seq(Frames), Parse(e, reply)
  PROVE  Incoming(e) \in Frames /\ wire' \in [Ends -> Seq(Frames)]
<1>1. Peer(e) \in Ends /\ wire \in [Ends -> Seq(Frames)]
  BY DEF Peer, Ends, TypeOK
<1>2. wire[Peer(e)] \in Seq(Frames) /\ wire[e] \in Seq(Frames)
  BY <1>1
<1>3. Head(wire[Peer(e)]) \in Frames /\ Tail(wire[Peer(e)]) \in Seq(Frames)
  BY <1>2
<1>4. \A w \in Seq(Frames) : w \o reply \in Seq(Frames)
  OBVIOUS
<1>5. Peer(e) # e
  BY DEF Peer, Ends
<1>6. wire' = [wire EXCEPT ![Peer(e)] = Tail(wire[Peer(e)]), ![e] = wire[e] \o reply]
  BY <1>1, <1>5 DEF Parse
<1>7. wire[e] \o reply \in Seq(Frames)
  BY <1>2, <1>4
<1> QED  BY <1>1, <1>3, <1>6, <1>7 DEF Incoming

\* A retransmission consists of frames.
LEMMA RetransmissionType ==
  ASSUME TypeOK, WindowExact, NEW e \in Ends
  PROVE  Retransmission(e) \in Seq(Frames)
<1> DEFINE s == sequence[e]
           At(k) == Ahead(s.rxack, k)
           resent == [k \in 1 .. Unacked(s) |-> DataFrame(At(k), s.txack, txbuf[e][At(k)])]
<1>1. s.rxack \in Seqs /\ s.txack \in Seqs /\ s.txseq \in Seqs
  BY DEF TypeOK, SequenceContext
<1>2. Unacked(s) \in 0 .. SeqSize - 1
  BY <1>1, IncType, DistType DEF Unacked
<1>3. \A k \in 1 .. Unacked(s) : At(k) \in Seqs
  BY <1>1, <1>2, IncType, StpAssumption
<1>4. \A k \in 1 .. Unacked(s) : txbuf[e][At(k)] \in Nat
  BY <1>3 DEF TypeOK
<1>5. \A k \in 1 .. Unacked(s) : DataFrame(At(k), s.txack, txbuf[e][At(k)]) \in Frames
  BY <1>1, <1>3, <1>4, FrameType
<1>6. resent \in Seq(Frames)
  BY <1>2, <1>5, StpAssumption
<1>7. <<Resync>> \in Seq(Frames)
  BY FrameType
<1>8. <<Resync>> \o resent \in Seq(Frames)
  BY <1>6, <1>7
<1> QED  BY <1>8 DEF Retransmission

----------------------------------------------------------------------------
(* The invariant *)

\* Types, window and timer together; the window is needed for the timer,
\* because the code decides by winspace whether the timer has to run.
StpInv == TypeOK /\ WindowExact /\ RetryArmed

\* It holds at the start.
LEMMA StpInit == Init => StpInv
<1> SUFFICES ASSUME Init PROVE StpInv
  OBVIOUS
<1>1. FreshSequence \in SequenceContext /\ Unacked(FreshSequence) = 0
      /\ FreshSequence.winspace = WinSize
  BY StpAssumption DEF FreshSequence, SequenceContext, Unacked, Dist, Inc, Seqs, Unset
<1>2. TypeOK
  <2>1. sequence \in [Ends -> SequenceContext]
    BY <1>1 DEF Init
  <2>2. /\ retryOps \in [Ends -> 0 .. MaxRetryOps] /\ failCount \in [Ends -> 0 .. RetryLimit]
        /\ faults \in 0 .. MaxFaults /\ restarts \in 0 .. MaxRestarts
    BY LimitType DEF Init
  <2>3. txbuf \in [Ends -> [Seqs -> Nat]] /\ wire \in [Ends -> Seq(Frames)]
    BY DEF Init
  <2>4. sent \in [Ends -> Nat] /\ acked \in [Ends -> Nat] /\ got \in [Ends -> Nat]
    BY DEF Init
  <2> QED  BY <2>1, <2>2, <2>3, <2>4 DEF Init, TypeOK
<1>3. \A e \in Ends : sequence[e] = FreshSequence
  BY DEF Init
<1>4. WindowExact
  BY <1>1, <1>3, StpAssumption DEF WindowExact
<1>5. RetryArmed
  BY <1>1, <1>3 DEF RetryArmed
<1> QED  BY <1>2, <1>4, <1>5 DEF StpInv

\* A step that leaves sequence alone and takes no timer or queued retry away
\* keeps the window and the timer.
LEMMA Undisturbed ==
  ASSUME StpInv, UNCHANGED <<sequence, timer, retryOps>>
  PROVE  WindowExact' /\ RetryArmed'
<1>1. \A e \in Ends : Unacked(sequence[e])' = Unacked(sequence[e])
  BY DEF Unacked, Dist, Inc
<1> QED  BY <1>1 DEF StpInv, WindowExact, RetryArmed

\* A step in which end e, and only e, moves on to context s.
LEMMA Disturbed ==
  ASSUME StpInv, NEW e \in Ends, NEW s, Sound(s),
         sequence' = [sequence EXCEPT ![e] = s],
         \A d \in Ends \ {e} : timer'[d] = timer[d] /\ retryOps'[d] = retryOps[d],
         Unacked(s) > 0 /\ s.retry_times <= RetryLimit => timer'[e] \/ retryOps'[e] > 0
  PROVE  sequence' \in [Ends -> SequenceContext] /\ WindowExact' /\ RetryArmed'
<1>1. sequence \in [Ends -> SequenceContext]
  BY DEF StpInv, TypeOK
<1>2. sequence'[e] = s /\ \A d \in Ends \ {e} : sequence'[d] = sequence[d]
  BY <1>1
<1>3. sequence' \in [Ends -> SequenceContext]
  BY <1>1 DEF Sound
<1>4. \A d \in Ends : Unacked(sequence'[d]) = Unacked(sequence[d])'
  BY DEF Unacked, Dist, Inc
<1>5. ASSUME NEW d \in Ends
      PROVE  /\ (sequence[d].winspace + Unacked(sequence[d]) = WinSize)'
             /\ (Unacked(sequence[d]) > 0 /\ sequence[d].retry_times <= RetryLimit
                   => timer[d] \/ retryOps[d] > 0)'
  <2>1. CASE d = e
    BY <2>1, <1>2, <1>4 DEF Sound
  <2>2. CASE d # e
    BY <2>2, <1>2, <1>4 DEF StpInv, WindowExact, RetryArmed
  <2> QED  BY <2>1, <2>2
<1> QED  BY <1>3, <1>5 DEF WindowExact, RetryArmed

\* stp_process_rxack with the timer it leaves running.
LEMMA AckArmed ==
  ASSUME StpInv, NEW e \in Ends, NEW a \in Seqs
  PROVE  LET t == Acknowledged(sequence[e], a) IN
         /\ Sound(t)
         /\ TimerAfterAck(e, a) \in [Ends -> BOOLEAN]
         /\ \A d \in Ends \ {e} : TimerAfterAck(e, a)[d] = timer[d]
         /\ Unacked(t) > 0 /\ t.retry_times <= RetryLimit
              => TimerAfterAck(e, a)[e] \/ retryOps[e] > 0
<1> DEFINE t == Acknowledged(sequence[e], a)
<1>1. Sound(sequence[e])
  BY DEF StpInv, TypeOK, WindowExact, Sound
<1>2. /\ Sound(t)
      /\ ~AckHits(sequence[e], a) => t = sequence[e]
  BY <1>1, AckSound
<1>3. timer \in [Ends -> BOOLEAN]
  BY DEF StpInv, TypeOK
<1>4. /\ TimerAfterAck(e, a) \in [Ends -> BOOLEAN]
      /\ \A d \in Ends \ {e} : TimerAfterAck(e, a)[d] = timer[d]
      /\ AckHits(sequence[e], a) => (TimerAfterAck(e, a)[e] <=> t.winspace # WinSize)
      /\ ~AckHits(sequence[e], a) => (TimerAfterAck(e, a)[e] <=> timer[e])
  BY <1>3 DEF TimerAfterAck
<1>5. t.winspace \in 0 .. WinSize /\ t.winspace + Unacked(t) = WinSize /\ WinSize \in Nat
      /\ Unacked(t) \in Nat
  <2>1. t.rxack \in Seqs /\ t.txseq \in Seqs /\ t.winspace \in 0 .. WinSize
    BY <1>2 DEF Sound, SequenceContext
  <2>2. Unacked(t) \in 0 .. SeqSize - 1
    BY <2>1, IncType, DistType DEF Unacked
  <2> QED  BY <2>1, <2>2, <1>2, StpAssumption DEF Sound
<1>6. Unacked(t) > 0 => t.winspace # WinSize
  BY <1>5
<1> HIDE DEF t
<1>7. Unacked(t) > 0 /\ t.retry_times <= RetryLimit => TimerAfterAck(e, a)[e] \/ retryOps[e] > 0
  <2>1. CASE AckHits(sequence[e], a)
    <3>1. TimerAfterAck(e, a)[e] <=> t.winspace # WinSize
      BY <1>4, <2>1
    <3> QED  BY <1>6, <3>1
  <2>2. CASE ~AckHits(sequence[e], a)
    <3>1. TimerAfterAck(e, a)[e] <=> timer[e]
      BY <1>4, <2>2
    <3> QED  BY <1>2, <2>2, <3>1 DEF StpInv, RetryArmed
  <2> QED  BY <2>1, <2>2
<1> QED  BY <1>2, <1>4, <1>7 DEF t

----------------------------------------------------------------------------
(* Every action keeps it *)

\* A packet is sent: one more out, one less in winspace, and the timer runs.
LEMMA SendStep == ASSUME StpInv, NEW e \in Ends, Send(e) PROVE StpInv'
<1> DEFINE s == sequence[e]
           t == [s EXCEPT !.txseq = Inc(s.txseq), !.winspace = s.winspace - 1]
           f == DataFrame(s.txseq, s.txack, sent[e] + 1)
<1>1. /\ s \in SequenceContext /\ s.txseq \in Seqs /\ s.txack \in Seqs /\ s.rxack \in Seqs
      /\ s.winspace \in 0 .. WinSize /\ s.winspace > 0 /\ s.winspace + Unacked(s) = WinSize
      /\ sent[e] \in Nat /\ WinSize \in 1 .. SeqSize - 1 /\ SeqSize \in Nat
  BY StpAssumption DEF StpInv, TypeOK, WindowExact, SequenceContext, Send
<1>2. Inc(s.txseq) \in Seqs /\ Inc(s.rxack) \in Seqs /\ Unacked(s) \in 0 .. SeqSize - 1
  BY <1>1, IncType, DistType DEF Unacked
<1>3. /\ t.txseq = Inc(s.txseq) /\ t.rxack = s.rxack /\ t.winspace = s.winspace - 1
      /\ t \in SequenceContext
  BY <1>1, SentContext
<1>4. Unacked(t) = Unacked(s) + 1
  BY <1>1, <1>2, <1>3, DistInc DEF Unacked
<1>5. Sound(t)
  BY <1>1, <1>2, <1>3, <1>4 DEF Sound
<1>6. sequence' = [sequence EXCEPT ![e] = t]
  <2>1. sequence' = [sequence EXCEPT ![e] = [s EXCEPT !.txseq = Inc(s.txseq), !.winspace = s.winspace - 1]]
    BY <1>1 DEF Send, StpInv, TypeOK, SequenceContext
  <2> QED  BY <2>1
<1>7. timer' = [timer EXCEPT ![e] = TRUE] /\ timer \in [Ends -> BOOLEAN] /\ retryOps' = retryOps
  BY DEF Send, StpInv, TypeOK
<1> HIDE DEF t
<1>8. sequence' \in [Ends -> SequenceContext] /\ WindowExact' /\ RetryArmed'
  BY <1>5, <1>6, <1>7, Disturbed
<1>9. f \in Frames
  BY <1>1, FrameType
<1>10. wire' \in [Ends -> Seq(Frames)]
  BY <1>9 DEF Send, StpInv, TypeOK
<1>11. txbuf' \in [Ends -> [Seqs -> Nat]]
  <2>1. /\ txbuf' = [txbuf EXCEPT ![e][s.txseq] = sent[e] + 1]
        /\ txbuf \in [Ends -> [Seqs -> Nat]]
    BY DEF Send, StpInv, TypeOK
  <2>2. sent[e] + 1 \in Nat /\ s.txseq \in Seqs
    BY <1>1
  <2> QED  BY <2>1, <2>2
<1>12. sent' \in [Ends -> Nat] /\ timer' \in [Ends -> BOOLEAN]
  <2>1. sent' = [sent EXCEPT ![e] = sent[e] + 1] /\ sent \in [Ends -> Nat]
    BY DEF Send, StpInv, TypeOK
  <2>2. sent[e] + 1 \in Nat
    BY <1>1
  <2>3. sent' \in [Ends -> Nat]
    BY <2>1, <2>2
  <2> QED  BY <1>7, <2>3
<1>13. TypeOK'
  BY <1>7, <1>8, <1>10, <1>11, <1>12 DEF Send, StpInv, TypeOK
<1> QED  BY <1>8, <1>13 DEF StpInv

\* The timer becomes a queued retry.
LEMMA TimerFiresStep == ASSUME StpInv, NEW e \in Ends, TimerFires(e) PROVE StpInv'
<1>1. TypeOK'
  <2>1. timer' \in [Ends -> BOOLEAN] /\ retryOps' \in [Ends -> 0 .. MaxRetryOps] /\ upset' \in BOOLEAN
    BY LimitType DEF TimerFires, StpInv, TypeOK
  <2> QED  BY <2>1 DEF TimerFires, StpInv, TypeOK
<1>2. \A d \in Ends : Unacked(sequence[d])' = Unacked(sequence[d])
  BY DEF TimerFires, Unacked, Dist, Inc
<1>3. WindowExact'
  BY <1>2 DEF TimerFires, StpInv, WindowExact
<1>4. retryOps'[e] > 0 /\ \A d \in Ends \ {e} : timer'[d] = timer[d] /\ retryOps'[d] = retryOps[d]
  BY StpAssumption DEF TimerFires, StpInv, TypeOK
<1>5. RetryArmed'
  BY <1>2, <1>4 DEF TimerFires, StpInv, RetryArmed
<1> QED  BY <1>1, <1>3, <1>5 DEF StpInv

\* What a retransmission leaves behind: the window as it was, and the timer
\* running unless nothing is out or the end has given up.
LEMMA RetriedSound ==
  ASSUME StpInv, NEW e \in Ends, sequence[e].retry_times <= RetryLimit, NEW pending \in BOOLEAN
  PROVE  LET r == Retried(e, pending) IN
         /\ Sound(r.seq) /\ r.on \in BOOLEAN /\ r.up \in BOOLEAN
         /\ Unacked(r.seq) > 0 /\ r.seq.retry_times <= RetryLimit => r.on
<1> DEFINE s == sequence[e]
           r == Retried(e, pending)
<1>1. /\ s \in SequenceContext /\ s.winspace + Unacked(s) = WinSize /\ s.retry_times <= RetryLimit
      /\ s.retry_times \in Nat /\ s.tx_timeout_loop \in 0 .. LoopLimit
      /\ s.winspace \in 0 .. WinSize /\ Unacked(s) \in Nat
      /\ RetryLimit \in Nat /\ LoopLimit \in Nat /\ WinSize \in Nat
  <2>1. s \in SequenceContext /\ s.rxack \in Seqs /\ s.txseq \in Seqs
    BY DEF StpInv, TypeOK, SequenceContext
  <2>2. Unacked(s) \in Nat
    BY <2>1, IncType, DistType DEF Unacked
  <2> QED  BY <2>1, <2>2, StpAssumption DEF StpInv, WindowExact, SequenceContext
<1>2. ASSUME NEW n \in 0 .. RetryLimit + 1, NEW l \in 0 .. LoopLimit
      PROVE  /\ Sound(Counted(s, n, l)) /\ Unacked(Counted(s, n, l)) = Unacked(s)
             /\ Counted(s, n, l).retry_times = n
  <2>1. Sound(s)
    BY <1>1 DEF Sound
  <2> QED  BY <2>1, RetryContext
<1> DEFINE Next1 == Counted(s, s.retry_times + 1, s.tx_timeout_loop)
<1>3. [s EXCEPT !.retry_times = s.retry_times + 1] = Next1
  BY <1>1 DEF SequenceContext, Counted
<1>4. Sound(Next1) /\ Next1.retry_times = s.retry_times + 1
  <2>1. s.retry_times + 1 \in 0 .. RetryLimit + 1
    BY <1>1
  <2> QED  BY <2>1, <1>1, <1>2
<1>5. CASE s.winspace = WinSize
  <2>1. r = [seq |-> s, on |-> FALSE, up |-> FALSE]
    BY <1>5 DEF Retried
  <2> QED  BY <2>1, <1>1, <1>5 DEF Sound
<1> HIDE DEF Next1
<1>6. CASE s.winspace # WinSize /\ s.retry_times + 1 <= RetryLimit
  <2>1. r = [seq |-> Next1, on |-> TRUE, up |-> FALSE]
    BY <1>3, <1>6 DEF Retried
  <2> QED  BY <2>1, <1>4
<1>7. CASE s.winspace # WinSize /\ ~(s.retry_times + 1 <= RetryLimit)
           /\ pending /\ s.tx_timeout_loop < LoopLimit
  <2> DEFINE t == Counted(s, 0, s.tx_timeout_loop + 1)
  <2>1. r = [seq |-> t, on |-> TRUE, up |-> FALSE]
    <3>1. t = [s EXCEPT !.retry_times = 0, !.tx_timeout_loop = s.tx_timeout_loop + 1]
      BY DEF Counted
    <3>2. [s EXCEPT !.retry_times = 0, !.tx_timeout_loop = @ + 1]
            = [s EXCEPT !.retry_times = 0, !.tx_timeout_loop = s.tx_timeout_loop + 1]
      BY <1>1 DEF SequenceContext
    <3> HIDE DEF t
    <3>3. r = [seq |-> [s EXCEPT !.retry_times = 0, !.tx_timeout_loop = @ + 1],
               on |-> TRUE, up |-> FALSE]
      BY <1>7 DEF Retried
    <3> QED  BY <3>1, <3>2, <3>3
  <2>2. 0 \in 0 .. RetryLimit + 1 /\ s.tx_timeout_loop + 1 \in 0 .. LoopLimit
    BY <1>1, <1>7
  <2>3. Sound(t)
    BY <1>2, <2>2
  <2> QED  BY <2>1, <2>3
<1>8. CASE s.winspace # WinSize /\ ~(s.retry_times + 1 <= RetryLimit)
           /\ ~(pending /\ s.tx_timeout_loop < LoopLimit)
  <2>1. r = [seq |-> Next1, on |-> FALSE, up |-> TRUE]
    BY <1>3, <1>8 DEF Retried
  <2> QED  BY <2>1, <1>1, <1>4, <1>8
<1> QED  BY <1>5, <1>6, <1>7, <1>8

\* The retry is handled: the timer runs again or nothing needs it.
LEMMA DoTxTimeoutStep == ASSUME StpInv, NEW e \in Ends, DoTxTimeout(e) PROVE StpInv'
<1>1. retryOps' = [retryOps EXCEPT ![e] = @ - 1] /\ retryOps' \in [Ends -> 0 .. MaxRetryOps]
      /\ \A d \in Ends \ {e} : retryOps'[d] = retryOps[d]
  BY StpAssumption DEF DoTxTimeout, StpInv, TypeOK
<1>2. CASE sequence[e].retry_times > RetryLimit
  <2>1. UNCHANGED <<sequence, timer, wire, asserted>>
    BY <1>2 DEF DoTxTimeout
  <2>2. TypeOK'
    BY <1>1, <2>1 DEF DoTxTimeout, StpInv, TypeOK, SequenceContext
  <2>3. \A d \in Ends : Unacked(sequence[d])' = Unacked(sequence[d])
    BY <2>1 DEF Unacked, Dist, Inc
  <2>4. sequence[e].retry_times \in Int /\ RetryLimit \in Nat
    BY StpAssumption DEF StpInv, TypeOK, SequenceContext
  <2>5. WindowExact' /\ RetryArmed'
    BY <1>1, <1>2, <2>1, <2>3, <2>4 DEF StpInv, WindowExact, RetryArmed
  <2> QED  BY <2>2, <2>5 DEF StpInv
<1>3. CASE ~(sequence[e].retry_times > RetryLimit)
  <2>1. sequence[e].retry_times <= RetryLimit
    <3>1. sequence[e].retry_times \in Nat /\ RetryLimit \in Nat
      BY LimitType DEF StpInv, TypeOK, SequenceContext
    <3> QED  BY <3>1, <1>3
  <2>2. PICK pending \in BOOLEAN :
          LET r == Retried(e, pending) IN
          /\ wire' = [wire EXCEPT ![e] = @ \o Retransmission(e)]
          /\ sequence' = [sequence EXCEPT ![e] = r.seq]
          /\ timer' = [timer EXCEPT ![e] = r.on]
          /\ asserted' = [asserted EXCEPT ![e] = @ \/ r.up]
    BY <1>3 DEF DoTxTimeout
  <2> DEFINE r == Retried(e, pending)
  <2>3. /\ Sound(r.seq) /\ r.on \in BOOLEAN /\ r.up \in BOOLEAN
        /\ Unacked(r.seq) > 0 /\ r.seq.retry_times <= RetryLimit => r.on
    BY <2>1, RetriedSound
  <2>4. timer \in [Ends -> BOOLEAN] /\ asserted \in [Ends -> BOOLEAN] /\ wire \in [Ends -> Seq(Frames)]
    BY DEF StpInv, TypeOK
  <2>5. Retransmission(e) \in Seq(Frames)
    BY RetransmissionType DEF StpInv
  <2> HIDE DEF r
  <2>6. /\ timer' \in [Ends -> BOOLEAN] /\ timer'[e] = r.on
        /\ \A d \in Ends \ {e} : timer'[d] = timer[d]
    BY <2>2, <2>3, <2>4 DEF r
  <2>7. sequence' = [sequence EXCEPT ![e] = r.seq]
    BY <2>2 DEF r
  <2>8. sequence' \in [Ends -> SequenceContext] /\ WindowExact' /\ RetryArmed'
    BY <2>3, <2>6, <2>7, <1>1, Disturbed
  <2>9. wire' \in [Ends -> Seq(Frames)]
    <3>1. wire[e] \o Retransmission(e) \in Seq(Frames)
      BY <2>4, <2>5
    <3> QED  BY <2>2, <2>4, <3>1
  <2>10. asserted' \in [Ends -> BOOLEAN]
    <3>1. asserted' = [asserted EXCEPT ![e] = asserted[e] \/ r.up]
      BY <2>2 DEF r
    <3>2. (asserted[e] \/ r.up) \in BOOLEAN
      BY <2>3, <2>4
    <3> QED  BY <3>1, <3>2, <2>4
  <2>11. TypeOK'
    BY <1>1, <2>6, <2>8, <2>9, <2>10 DEF DoTxTimeout, StpInv, TypeOK
  <2> QED  BY <2>8, <2>11 DEF StpInv
<1> QED  BY <1>2, <1>3

\* The parser throws a frame away.
LEMMA RecvHuntingStep ==
  ASSUME StpInv, NEW e \in Ends, wire[Peer(e)] # <<>>, RecvHunting(e) PROVE StpInv'
<1>1. Parse(e, <<>>) /\ UNCHANGED <<sequence, timer, retryOps>> /\ TypeOK
  BY DEF RecvHunting, StpInv
<1>2. wire' \in [Ends -> Seq(Frames)]
  <2>1. <<>> \in Seq(Frames)  OBVIOUS
  <2> QED  BY <1>1, <2>1, ParseType
<1>3. WindowExact' /\ RetryArmed'
  BY <1>1, Undisturbed
<1>4. TypeOK'
  BY <1>2 DEF RecvHunting, StpInv, TypeOK
<1> QED  BY <1>3, <1>4 DEF StpInv

\* A resync pattern.
LEMMA RecvResyncStep ==
  ASSUME StpInv, NEW e \in Ends, wire[Peer(e)] # <<>>, RecvResync(e) PROVE StpInv'
<1> DEFINE s == sequence[e]
<1>1. Parse(e, <<>>) /\ TypeOK
  BY DEF RecvResync, StpInv
<1>2. wire' \in [Ends -> Seq(Frames)]
  <2>1. <<>> \in Seq(Frames)  OBVIOUS
  <2> QED  BY <1>1, <2>1, ParseType
<1>3. Sound(s) /\ s.txack \in Seqs /\ s.expected_rxseq \in Seqs
  BY DEF StpInv, TypeOK, WindowExact, Sound, SequenceContext
<1>4. PICK u : u = [s EXCEPT !.rx_resync = TRUE, !.rx_resync_seq = Unset]
  OBVIOUS
<1>5. Sound(u) /\ Unacked(u) = Unacked(s) /\ u.retry_times = s.retry_times
  <2>1. TRUE \in BOOLEAN /\ Unset \in Seqs \cup {Unset} /\ Sound(s)
    BY <1>3
  <2>2. ResyncTo(s, TRUE, Unset, u)
    BY <1>4 DEF ResyncTo
  <2> QED  BY <2>1, <2>2, ResyncContext, Zenon
<1>6. sequence' = [sequence EXCEPT ![e] = u]
  BY <1>4 DEF RecvResync, StpInv, TypeOK
<1>7. timer' = timer /\ retryOps' = retryOps
  BY DEF RecvResync
<1>8. Unacked(u) > 0 /\ u.retry_times <= RetryLimit => timer'[e] \/ retryOps'[e] > 0
  BY <1>5, <1>7 DEF StpInv, RetryArmed
<1>9. sequence' \in [Ends -> SequenceContext] /\ WindowExact' /\ RetryArmed'
  BY <1>5, <1>6, <1>7, <1>8, Disturbed
<1>10. TypeOK'
  BY <1>2, <1>9 DEF RecvResync, StpInv, TypeOK
<1> QED  BY <1>9, <1>10 DEF StpInv

\* An acknowledgement of its own.
LEMMA RecvAckStep ==
  ASSUME StpInv, NEW e \in Ends, wire[Peer(e)] # <<>>, RecvAck(e) PROVE StpInv'
<1> DEFINE a == Incoming(e).ack
           t == Acknowledged(sequence[e], a)
<1>1. Parse(e, <<>>) /\ TypeOK
  BY DEF RecvAck, StpInv
<1>2. Incoming(e) \in Frames /\ wire' \in [Ends -> Seq(Frames)]
  <2>1. <<>> \in Seq(Frames)  OBVIOUS
  <2> QED  BY <1>1, <2>1, ParseType
<1>3. a \in Seqs
  BY <1>2 DEF Frames
<1>4. /\ Sound(t)
      /\ TimerAfterAck(e, a) \in [Ends -> BOOLEAN]
      /\ \A d \in Ends \ {e} : TimerAfterAck(e, a)[d] = timer[d]
      /\ Unacked(t) > 0 /\ t.retry_times <= RetryLimit
           => TimerAfterAck(e, a)[e] \/ retryOps[e] > 0
  BY <1>3, AckArmed
<1>5. sequence' = [sequence EXCEPT ![e] = t] /\ timer' = TimerAfterAck(e, a) /\ retryOps' = retryOps
  BY DEF RecvAck, StpInv, TypeOK
<1> HIDE DEF t, a
<1>6. sequence' \in [Ends -> SequenceContext] /\ WindowExact' /\ RetryArmed'
  BY <1>4, <1>5, Disturbed
<1>7. TypeOK'
  BY <1>2, <1>4, <1>5, <1>6 DEF RecvAck, StpInv, TypeOK
<1> QED  BY <1>6, <1>7 DEF StpInv

\* The count of odd packets stays within its limit.
LEMMA CountType ==
  ASSUME TypeOK, NEW e \in Ends, NEW n \in 0 .. RetryLimit + 1, CountFailure(e, n)
  PROVE  failCount' \in [Ends -> 0 .. RetryLimit] /\ asserted' \in [Ends -> BOOLEAN]
<1>1. (IF n > RetryLimit THEN 0 ELSE n) \in 0 .. RetryLimit
  BY LimitType
<1>2. (n > RetryLimit) \in BOOLEAN
  BY LimitType
<1>3. failCount' = [failCount EXCEPT ![e] = IF n > RetryLimit THEN 0 ELSE n]
  BY DEF CountFailure
<1>4. failCount' \in [Ends -> 0 .. RetryLimit]
  BY <1>1, <1>3 DEF TypeOK
<1>5. asserted' \in [Ends -> BOOLEAN]
  <2>1. asserted' = [asserted EXCEPT ![e] = asserted[e] \/ n > RetryLimit]
    BY DEF CountFailure
  <2>2. asserted \in [Ends -> BOOLEAN]
    BY DEF TypeOK
  <2>3. (asserted[e] \/ n > RetryLimit) \in BOOLEAN
    BY <1>2, <2>2
  <2> QED  BY <2>1, <2>2, <2>3
<1> QED  BY <1>4, <1>5

\* What may become of a payload.
LEMMA EnqueuedHow ==
  ASSUME NEW e \in Ends, NEW q \in Enqueued(e)
  PROVE  /\ q.ok \in BOOLEAN /\ q.kept \in BOOLEAN
         /\ q.ok => q.fail \in {0, failCount[e]}
         /\ ~q.ok => faults # MaxFaults /\ q.fail \in {failCount[e] + 0, failCount[e] + 1}
<1>1. CASE \E n \in {0, failCount[e]}, k \in BOOLEAN : q = [ok |-> TRUE, fail |-> n, kept |-> k]
  BY <1>1
<1>2. CASE /\ faults # MaxFaults
           /\ \E n \in {0, 1} : q = [ok |-> FALSE, fail |-> failCount[e] + n, kept |-> FALSE]
  BY <1>2
<1> QED  BY <1>1, <1>2 DEF Enqueued

\* The expected packet.
LEMMA RecvExpectedStep ==
  ASSUME StpInv, NEW e \in Ends, wire[Peer(e)] # <<>>, RecvExpected(e) PROVE StpInv'
<1> DEFINE f == Incoming(e)
           s == Acknowledged(sequence[e], f.ack)
           reply == <<AckFrame(f.seq)>>
<1>1. Parse(e, reply) /\ TypeOK
  BY DEF RecvExpected, StpInv
<1>2. Incoming(e) \in Frames
  <2>1. Peer(e) \in Ends
    BY DEF Peer, Ends
  <2>2. wire[Peer(e)] \in Seq(Frames)
    BY <2>1, <1>1 DEF TypeOK
  <2> QED  BY <2>2 DEF Incoming
<1>3. f.seq \in Seqs /\ f.ack \in Seqs /\ f.pay \in Nat
  BY <1>2 DEF Frames
<1>4. wire' \in [Ends -> Seq(Frames)]
  <2>1. reply \in Seq(Frames)
    BY <1>3, FrameType
  <2> HIDE DEF reply
  <2> QED  BY <1>1, <2>1, ParseType
<1>5. /\ Sound(s)
      /\ TimerAfterAck(e, f.ack) \in [Ends -> BOOLEAN]
      /\ \A d \in Ends \ {e} : TimerAfterAck(e, f.ack)[d] = timer[d]
      /\ Unacked(s) > 0 /\ s.retry_times <= RetryLimit
           => TimerAfterAck(e, f.ack)[e] \/ retryOps[e] > 0
  BY <1>3, AckArmed
<1>6. timer' = TimerAfterAck(e, f.ack) /\ retryOps' = retryOps
  BY DEF RecvExpected
<1>7. sequence' = [sequence EXCEPT ![e] =
         [s EXCEPT !.rx_resync = FALSE, !.txack = f.seq, !.expected_rxseq = Inc(s.expected_rxseq)]]
  <2>1. s \in SequenceContext
    BY <1>5 DEF Sound
  <2> QED  BY <2>1 DEF RecvExpected, SequenceContext
<1>8. s.expected_rxseq \in Seqs /\ s.rx_resync_seq \in Seqs \cup {Unset}
  BY <1>5 DEF Sound, SequenceContext
<1> HIDE DEF s, f
<1>9. PICK t : t = [s EXCEPT !.rx_resync = FALSE, !.txack = f.seq,
                             !.expected_rxseq = Inc(s.expected_rxseq)]
  OBVIOUS
<1>10. Sound(t) /\ Unacked(t) = Unacked(s) /\ t.retry_times = s.retry_times
  <2>1. Inc(s.expected_rxseq) \in Seqs
    BY <1>8, IncType
  <2>2. Sound(s) /\ f.seq \in Seqs
    BY <1>3, <1>5
  <2>3. t = Expecting(s, f.seq, Inc(s.expected_rxseq))
    BY <1>9 DEF Expecting
  <2> QED  BY <2>1, <2>2, <2>3, ExpectedContext
<1>11. sequence' = [sequence EXCEPT ![e] = t]
  BY <1>7, <1>9
<1>12. Unacked(t) > 0 /\ t.retry_times <= RetryLimit => timer'[e] \/ retryOps'[e] > 0
  BY <1>5, <1>6, <1>10
<1>13. sequence' \in [Ends -> SequenceContext] /\ WindowExact' /\ RetryArmed'
  BY <1>5, <1>6, <1>10, <1>11, <1>12, Disturbed
<1>14. PICK q \in Enqueued(e) :
         /\ got' = IF q.kept THEN [got EXCEPT ![e] = @ + 1] ELSE got
         /\ rxOk' = [rxOk EXCEPT ![e] = q.ok]
         /\ CountFailure(e, q.fail)
         /\ upset' = (upset \/ ~q.ok)
         /\ faults' = IF q.ok THEN faults ELSE faults + 1
  BY DEF RecvExpected
<1>15. /\ q.ok \in BOOLEAN /\ q.kept \in BOOLEAN /\ q.fail \in 0 .. RetryLimit + 1
       /\ ~q.ok => faults # MaxFaults
  <2>1. failCount[e] \in 0 .. RetryLimit /\ RetryLimit \in Nat
    BY LimitType, <1>1 DEF TypeOK
  <2>2. /\ q.ok \in BOOLEAN /\ q.kept \in BOOLEAN
        /\ q.fail \in {0, failCount[e], failCount[e] + 0, failCount[e] + 1}
        /\ ~q.ok => faults # MaxFaults
    BY <1>14, EnqueuedHow
  <2> QED  BY <2>1, <2>2
<1>16. failCount' \in [Ends -> 0 .. RetryLimit] /\ asserted' \in [Ends -> BOOLEAN]
  BY <1>1, <1>14, <1>15, CountType
<1>17. rxOk' \in [Ends -> BOOLEAN] /\ upset' \in BOOLEAN
  BY <1>1, <1>14, <1>15 DEF TypeOK
<1>18. faults' \in 0 .. MaxFaults
  BY <1>1, <1>14, <1>15, LimitType DEF TypeOK
<1>19. acked' \in [Ends -> Nat] /\ got' \in [Ends -> Nat]
  <2>1. acked' = [acked EXCEPT ![e] = f.pay]
    BY DEF RecvExpected, f
  <2> QED  BY <1>1, <1>3, <1>14, <2>1 DEF TypeOK
<1>20. timer' \in [Ends -> BOOLEAN]
  BY <1>5, <1>6
<1>21. UNCHANGED <<retryOps, parser, txbuf, sent, restarts>>
  BY DEF RecvExpected
<1>22. TypeOK'
  BY <1>1, <1>4, <1>13, <1>16, <1>17, <1>18, <1>19, <1>20, <1>21 DEF TypeOK
<1> QED  BY <1>13, <1>22 DEF StpInv

\* Another packet, answered with the last acknowledgement.
LEMMA RecvUnexpectedStep ==
  ASSUME StpInv, NEW e \in Ends, wire[Peer(e)] # <<>>, RecvUnexpected(e) PROVE StpInv'
<1> DEFINE f == Incoming(e)
           s == sequence[e]
           inOrder == s.rx_resync_seq = Unset \/ f.seq = Inc(s.rx_resync_seq)
           next == IF s.rx_resync_seq = Unset THEN f.seq ELSE Inc(s.rx_resync_seq)
           reply == <<AckFrame(s.txack)>>
<1>1. Parse(e, reply) /\ TypeOK
  BY DEF RecvUnexpected, StpInv
<1>2. /\ Sound(s) /\ s.txack \in Seqs /\ s.expected_rxseq \in Seqs
      /\ s.rx_resync_seq \in Seqs \cup {Unset}
  BY DEF StpInv, TypeOK, WindowExact, Sound, SequenceContext
<1>3. Incoming(e) \in Frames /\ wire' \in [Ends -> Seq(Frames)]
  <2>1. reply \in Seq(Frames)
    BY <1>2, FrameType
  <2> HIDE DEF reply
  <2> QED  BY <1>1, <2>1, ParseType
<1>4. f.seq \in Seqs
  BY <1>3 DEF Frames
<1>5. timer' = timer /\ retryOps' = retryOps
  BY DEF RecvUnexpected
<1>6. sequence' \in [Ends -> SequenceContext] /\ WindowExact' /\ RetryArmed'
  <2>1. CASE ~s.rx_resync
    <3>1. UNCHANGED sequence
      BY <2>1 DEF RecvUnexpected
    <3>2. WindowExact' /\ RetryArmed'
      BY <3>1, <1>5, Undisturbed
    <3> QED  BY <3>1, <3>2, <1>1 DEF TypeOK
  <2>2. CASE s.rx_resync
    <3>1. next \in Seqs
      BY <1>2, <1>4, IncType
    <3>2. sequence' = [sequence EXCEPT ![e].rx_resync = inOrder, ![e].rx_resync_seq =
                         IF @ = Unset THEN f.seq ELSE Inc(@)]
      BY <2>2 DEF RecvUnexpected
    <3>3. s \in SequenceContext /\ sequence \in [Ends -> SequenceContext]
      BY <1>1, <1>2 DEF Sound, TypeOK
    <3>4. sequence' = [sequence EXCEPT ![e] =
                         [s EXCEPT !.rx_resync = inOrder, !.rx_resync_seq = next]]
      BY <3>2, <3>3 DEF SequenceContext
    <3>5. inOrder \in BOOLEAN
      OBVIOUS
    <3> HIDE DEF inOrder, next, s, f
    <3>6. PICK u : u = [s EXCEPT !.rx_resync = inOrder, !.rx_resync_seq = next]
      OBVIOUS
    <3>7. ResyncTo(s, inOrder, next, u) /\ Sound(s) /\ next \in Seqs \cup {Unset}
      BY <1>2, <3>1, <3>6 DEF ResyncTo
    <3>8. Sound(u) /\ Unacked(u) = Unacked(s) /\ u.retry_times = s.retry_times
      BY <3>5, <3>7, ResyncContext, Zenon
    <3>9. sequence' = [sequence EXCEPT ![e] = u]
      BY <3>4, <3>6
    <3>10. Unacked(u) > 0 /\ u.retry_times <= RetryLimit => timer'[e] \/ retryOps'[e] > 0
      BY <1>5, <3>8 DEF StpInv, RetryArmed, s
    <3> QED  BY <1>5, <3>8, <3>9, <3>10, Disturbed
  <2> QED  BY <2>1, <2>2
<1>7. failCount' \in [Ends -> 0 .. RetryLimit] /\ asserted' \in [Ends -> BOOLEAN]
  <2>1. PICK n : n = IF s.rx_resync /\ inOrder THEN failCount[e] ELSE failCount[e] + 1
    OBVIOUS
  <2>2. CountFailure(e, n)
    BY <2>1 DEF RecvUnexpected
  <2>3. n \in 0 .. RetryLimit + 1
    BY <1>1, <2>1, LimitType DEF TypeOK
  <2> QED  BY <1>1, <2>2, <2>3, CountType
<1>8. TypeOK'
  BY <1>1, <1>3, <1>6, <1>7 DEF RecvUnexpected, TypeOK
<1> QED  BY <1>6, <1>8 DEF StpInv

\* Another packet, not answered.
LEMMA RecvUnansweredStep ==
  ASSUME StpInv, NEW e \in Ends, wire[Peer(e)] # <<>>, RecvUnanswered(e) PROVE StpInv'
<1>1. /\ Parse(e, <<>>) /\ UNCHANGED <<sequence, timer, retryOps>> /\ TypeOK
      /\ CountFailure(e, failCount[e] + 1)
  BY DEF RecvUnanswered, StpInv
<1>2. wire' \in [Ends -> Seq(Frames)]
  <2>1. <<>> \in Seq(Frames)  OBVIOUS
  <2> QED  BY <1>1, <2>1, ParseType
<1>3. WindowExact' /\ RetryArmed'
  BY <1>1, Undisturbed
<1>4. failCount[e] + 1 \in 0 .. RetryLimit + 1
  BY <1>1, LimitType DEF TypeOK
<1>5. failCount' \in [Ends -> 0 .. RetryLimit] /\ asserted' \in [Ends -> BOOLEAN]
  BY <1>1, <1>4, CountType
<1>6. TypeOK'
  BY <1>1, <1>2, <1>5 DEF RecvUnanswered, TypeOK
<1> QED  BY <1>3, <1>6 DEF StpInv

\* A frame, or the frames up to one with a damaged header, are gone.
LEMMA LinkStep ==
  ASSUME StpInv, NEW e \in Ends, Lose(e) \/ Garble(e) PROVE StpInv'
<1>1. TypeOK /\ UNCHANGED <<sequence, timer, retryOps>>
  BY DEF Lose, Garble, StpInv
<1>2. wire[e] \in Seq(Frames) /\ wire[e] # <<>>
  BY <1>1 DEF TypeOK, Lose, Garble
<1>3. wire' \in [Ends -> Seq(Frames)]
  <2>1. CASE Lose(e)
    <3>1. Tail(wire[e]) \in Seq(Frames)
      BY <1>2
    <3>2. wire' = [wire EXCEPT ![e] = Tail(wire[e])]
      BY <2>1 DEF Lose
    <3> QED  BY <1>1, <3>1, <3>2 DEF TypeOK
  <2>2. CASE Garble(e)
    <3>1. PICK n \in 1 .. Len(wire[e]) :
            wire' = [wire EXCEPT ![e] = SubSeq(wire[e], n + 1, Len(wire[e]))]
      BY <2>2 DEF Garble
    <3>2. Len(wire[e]) \in Nat /\ \A i \in 1 .. Len(wire[e]) : wire[e][i] \in Frames
      BY <1>2
    <3>3. SubSeq(wire[e], n + 1, Len(wire[e])) \in Seq(Frames)
      BY <1>2, <3>2
    <3> QED  BY <1>1, <3>1, <3>3 DEF TypeOK
  <2> QED  BY <2>1, <2>2
<1>4. WindowExact' /\ RetryArmed'
  BY <1>1, Undisturbed
<1>5. faults' \in 0 .. MaxFaults
  BY <1>1, LimitType DEF TypeOK, Lose, Garble
<1>6. parser' \in [Ends -> {"sync", "resync"}] /\ upset' \in BOOLEAN
  BY <1>1 DEF TypeOK, Lose, Garble
<1>7. UNCHANGED <<rxOk, failCount, txbuf, asserted, sent, acked, got, restarts>>
  BY DEF Lose, Garble
<1>8. TypeOK'
  BY <1>1, <1>3, <1>5, <1>6, <1>7 DEF TypeOK
<1> QED  BY <1>4, <1>8 DEF StpInv

\* The chip starts over.
LEMMA RestartStep == ASSUME StpInv, Restart PROVE StpInv'
<1>1. /\ FreshSequence \in SequenceContext /\ Unacked(FreshSequence) = 0
      /\ FreshSequence.winspace = WinSize
  BY StpAssumption DEF FreshSequence, SequenceContext, Unacked, Dist, Inc, Seqs, Unset
<1>2. sequence' \in [Ends -> SequenceContext] /\ \A d \in Ends : sequence'[d] = FreshSequence
  BY <1>1 DEF Restart
<1>3. \A d \in Ends : (Unacked(sequence[d]))' = 0
  <2>1. \A d \in Ends : (Unacked(sequence[d]))' = Unacked(sequence'[d])
    BY DEF Unacked, Dist, Inc
  <2> QED  BY <1>1, <1>2, <2>1
<1>4. WindowExact' /\ RetryArmed'
  BY <1>1, <1>2, <1>3, LimitType DEF WindowExact, RetryArmed
<1>5. wire' \in [Ends -> Seq(Frames)]
  <2>1. <<>> \in Seq(Frames)  OBVIOUS
  <2> QED  BY <2>1 DEF Restart
<1>6. /\ timer' \in [Ends -> BOOLEAN] /\ retryOps' \in [Ends -> 0 .. MaxRetryOps]
      /\ rxOk' \in [Ends -> BOOLEAN] /\ failCount' \in [Ends -> 0 .. RetryLimit]
  <2>1. "fw" \in Ends /\ FALSE \in BOOLEAN /\ TRUE \in BOOLEAN
        /\ 0 \in 0 .. MaxRetryOps /\ 0 \in 0 .. RetryLimit
    BY LimitType DEF Ends
  <2>2. /\ timer' = [timer EXCEPT !["fw"] = FALSE] /\ retryOps' = [retryOps EXCEPT !["fw"] = 0]
        /\ rxOk' = [rxOk EXCEPT !["fw"] = TRUE] /\ failCount' = [failCount EXCEPT !["fw"] = 0]
    BY DEF Restart
  <2> QED  BY <2>1, <2>2 DEF StpInv, TypeOK
<1>7. /\ parser' \in [Ends -> {"sync", "resync"}] /\ asserted' \in [Ends -> BOOLEAN]
      /\ sent' \in [Ends -> Nat] /\ acked' \in [Ends -> Nat] /\ got' \in [Ends -> Nat]
  BY DEF Restart
<1>8. restarts' \in 0 .. MaxRestarts
  BY LimitType DEF Restart, StpInv, TypeOK
<1>9. TypeOK'
  BY <1>2, <1>5, <1>6, <1>7, <1>8 DEF Restart, StpInv, TypeOK
<1> QED  BY <1>4, <1>9 DEF StpInv

\* Nothing of the model changes.
LEMMA StutterStep == ASSUME StpInv, UNCHANGED vars PROVE StpInv'
<1>1. UNCHANGED <<sequence, timer, retryOps>>
  BY DEF vars
<1>2. WindowExact' /\ RetryArmed'
  BY <1>1, Undisturbed
<1>3. TypeOK'
  BY DEF StpInv, TypeOK, SequenceContext, vars
<1> QED  BY <1>2, <1>3 DEF StpInv

\* Every step keeps the invariant.
LEMMA StpStep == StpInv /\ [Next]_vars => StpInv'
<1> SUFFICES ASSUME StpInv, [Next]_vars PROVE StpInv'
  OBVIOUS
<1>1. ASSUME NEW e \in Ends, Send(e) PROVE StpInv'
  BY <1>1, SendStep
<1>2. ASSUME NEW e \in Ends, TimerFires(e) PROVE StpInv'
  BY <1>2, TimerFiresStep
<1>3. ASSUME NEW e \in Ends, DoTxTimeout(e) PROVE StpInv'
  BY <1>3, DoTxTimeoutStep
<1>4. ASSUME NEW e \in Ends, Receive(e) PROVE StpInv'
  BY <1>4, RecvHuntingStep, RecvResyncStep, RecvAckStep, RecvExpectedStep,
     RecvUnexpectedStep, RecvUnansweredStep DEF Receive
<1>5. ASSUME NEW e \in Ends, Lose(e) \/ Garble(e) PROVE StpInv'
  BY <1>5, LinkStep
<1>6. CASE Restart
  BY <1>6, RestartStep
<1>7. CASE UNCHANGED vars
  BY <1>7, StutterStep
<1> QED  BY <1>1, <1>2, <1>3, <1>4, <1>5, <1>6, <1>7 DEF Next

----------------------------------------------------------------------------
(* Theorems *)

\* It holds always.
LEMMA StpInvariant == Spec => []StpInv
  BY StpInit, StpStep, PTL DEF Spec

\* Every variable keeps its type: the window never shrinks below nothing or
\* grows beyond its size, and no counter passes its limit.
THEOREM TypeCorrect == Spec => []TypeOK
<1>1. StpInv => TypeOK
  BY DEF StpInv
<1> QED  BY <1>1, StpInvariant, PTL

\* winspace always agrees with the distance of rxack and txseq, whatever
\* acknowledgements arrive: old, repeated, or of a packet that is not out.
THEOREM WindowIsExact == Spec => []WindowExact
<1>1. StpInv => WindowExact
  BY DEF StpInv
<1> QED  BY <1>1, StpInvariant, PTL

\* No packet is ever left waiting for an acknowledgement with neither the
\* timer running nor a retry queued, unless its sender has given up.
THEOREM RetryIsArmed == Spec => []RetryArmed
<1>1. StpInv => RetryArmed
  BY DEF StpInv
<1> QED  BY <1>1, StpInvariant, PTL

----------------------------------------------------------------------------
(* Both directions are reliable streams *)

\* INDEX_INC k times, or for k < 0 the index from which it leads to i in -k.
Shift(i, k) ==
  IF i + k >= SeqSize THEN i + k - SeqSize ELSE IF i + k < 0 THEN i + k + SeqSize ELSE i + k

\* A data frame that the receiver, waiting for packet g + 1 under number x,
\* can still meet: none older than a window, none that was not sent, and its
\* sequence number says which packet it is.
DataFits(f, x, g, s) ==
  f.kind = "data" => /\ g - WinSize < f.pay
                     /\ f.pay <= s
                     /\ f.seq = Shift(x, f.pay - (g + 1))

\* Retransmissions put older packets behind newer ones, but not by a window.
DataAfter(f, h) == f.kind = "data" /\ h.kind = "data" => f.pay < h.pay + WinSize

\* The frames in front of the receiver.
DataWire(w, x, g, s) ==
  /\ \A i \in 1 .. Len(w) : DataFits(w[i], x, g, s)
  /\ \A i, j \in 1 .. Len(w) : i < j => DataAfter(w[i], w[j])

\* An acknowledgement on its way to a sender whose last one was a: it names
\* one of the n packets that arrived since, and none before an earlier one.
AckFits(f, a, n) == f.kind # "resync" => Dist(a, f.ack) <= n
AckAfter(f, h, a) ==
  f.kind # "resync" /\ h.kind # "resync" => Dist(a, f.ack) <= Dist(a, h.ack)

AckWire(v, a, n) ==
  /\ \A i \in 1 .. Len(v) : AckFits(v[i], a, n)
  /\ \A i, j \in 1 .. Len(v) : i < j => AckAfter(v[i], v[j], a)

\* The packets r + 1 to s are in the buffer under the numbers after a.
Kept(buf, a, r, s) == \A k \in 1 .. s - r : buf[Ahead(a, k)] = r + k

\* One direction of the link.
Agree(s, g, r, a, ta, x) ==
  /\ r \in Nat /\ g \in Nat /\ s \in Nat /\ r <= g /\ g <= s
  /\ Dist(a, ta) = g - r /\ x = Inc(ta)

Direction(s, g, r, a, ta, x, buf, w, v) ==
  /\ Agree(s, g, r, a, ta, x)
  /\ Kept(buf, a, r, s)
  /\ DataWire(w, x, g, s)
  /\ AckWire(v, a, g - r)

From(d) ==
  Direction(sent[d], acked[Peer(d)], Released(d), sequence[d].rxack,
            sequence[Peer(d)].txack, sequence[Peer(d)].expected_rxseq,
            txbuf[d], wire[d], wire[Peer(d)])

StreamInv == \A d \in Ends : From(d)

\* The index k packets on, forwards or back.
LEMMA ShiftType ==
  \A x \in Seqs, k \in Int : -SeqSize < k /\ k < SeqSize => Shift(x, k) \in Seqs
  BY LimitType DEF Shift, Seqs

\* Fewer packets on than there are sequence numbers, no index comes back.
LEMMA ShiftNone ==
  \A x \in Seqs, k \in Int :
    -SeqSize < k /\ k < SeqSize /\ Shift(x, k) = x => k = 0
  BY LimitType DEF Shift, Seqs

\* Seen from the next index everything is one packet nearer.
LEMMA ShiftInc ==
  \A x \in Seqs, k \in Int :
    1 - SeqSize < k /\ k < SeqSize => Shift(Inc(x), k - 1) = Shift(x, k)
  BY LimitType DEF Shift, Inc, Seqs

\* A distance is a step of Ahead.
LEMMA DistAhead ==
  \A a \in Seqs, k \in Nat : 0 < k /\ k < SeqSize => Dist(a, Ahead(a, k)) = k
  BY LimitType DEF Dist, Ahead, Seqs

\* ... and the other way round.
LEMMA AheadDist ==
  \A a, b \in Seqs : Dist(a, b) > 0 => Ahead(a, Dist(a, b)) = b
  BY LimitType DEF Dist, Ahead, Seqs

\* The distance from the next index is shorter by one.
LEMMA DistNext ==
  \A a, b \in Seqs : a # b => Dist(a, b) > 0 /\ Dist(Inc(a), b) = Dist(a, b) - 1
  BY LimitType DEF Dist, Inc, Seqs

\* Only an index itself is at no distance.
LEMMA DistSelf == \A a, b \in Seqs : Dist(a, b) = 0 <=> a = b
  BY LimitType DEF Dist, Seqs

\* What lies beyond an index is as much nearer from there.
LEMMA DistBeyond ==
  \A a, b, c \in Seqs : Dist(a, b) <= Dist(a, c) => Dist(b, c) = Dist(a, c) - Dist(a, b)
  BY LimitType DEF Dist, Seqs

\* Running on from an index further ahead.
LEMMA AheadBeyond ==
  \A a, b \in Seqs, k \in Nat :
    0 < k /\ Dist(a, b) + k < SeqSize => Ahead(b, k) = Ahead(a, Dist(a, b) + k)
  BY LimitType DEF Dist, Ahead, Seqs

\* One index further on.
LEMMA DistIncEnd ==
  \A a, b \in Seqs : Dist(a, b) < SeqSize - 1 => Dist(a, Inc(b)) = Dist(a, b) + 1
  BY DistInc

\* Counting from the sender's last acknowledgement a and from the number the
\* receiver expects gives the same index.
LEMMA AheadShift ==
  \A a, b \in Seqs, k \in Nat :
    0 < k /\ k < SeqSize => Ahead(a, k) = Shift(Inc(b), k - Dist(a, b) - 1)
  BY LimitType DEF Dist, Ahead, Shift, Inc, Seqs

\* The number of the next packet is that of the last acknowledged one moved on.
LEMMA NextAhead ==
  \A a, b \in Seqs :
    Dist(Inc(a), b) < SeqSize - 1 => b = Ahead(a, Dist(Inc(a), b) + 1)
  BY LimitType DEF Dist, Ahead, Inc, Seqs

----------------------------------------------------------------------------
(* The frames of one direction *)

\* What is left of a wire after its first frames are gone.
IsRest(u, w) == \E n \in 0 .. Len(w) : /\ Len(u) = Len(w) - n
                                     /\ \A i \in 1 .. Len(u) : u[i] = w[i + n]

\* The rest of a wire is as it was.
LEMMA DataRest ==
  ASSUME NEW u \in Seq(Frames), NEW w \in Seq(Frames), IsRest(u, w),
         NEW x, NEW g, NEW s, DataWire(w, x, g, s)
  PROVE  DataWire(u, x, g, s)
<1>1. PICK n \in 0 .. Len(w) : /\ Len(u) = Len(w) - n
                             /\ \A i \in 1 .. Len(u) : u[i] = w[i + n]
  BY DEF IsRest
<1>2. \A i \in 1 .. Len(u) : i + n \in 1 .. Len(w) /\ u[i] = w[i + n]
  BY <1>1
<1>3. \A i \in 1 .. Len(u) : DataFits(u[i], x, g, s)
  BY <1>2 DEF DataWire
<1>4. \A i, j \in 1 .. Len(u) : i < j => DataAfter(u[i], u[j])
  <2>1. \A i, j \in 1 .. Len(u) : i < j => i + n < j + n
    OBVIOUS
  <2> QED  BY <1>2, <2>1 DEF DataWire
<1> QED  BY <1>3, <1>4 DEF DataWire

\* ... and so are its acknowledgements.
LEMMA AckRest ==
  ASSUME NEW u \in Seq(Frames), NEW v \in Seq(Frames), IsRest(u, v),
         NEW a, NEW n, AckWire(v, a, n)
  PROVE  AckWire(u, a, n)
<1>1. PICK m \in 0 .. Len(v) : /\ Len(u) = Len(v) - m
                             /\ \A i \in 1 .. Len(u) : u[i] = v[i + m]
  BY DEF IsRest
<1>2. \A i \in 1 .. Len(u) : i + m \in 1 .. Len(v) /\ u[i] = v[i + m]
  BY <1>1
<1>3. \A i \in 1 .. Len(u) : AckFits(u[i], a, n)
  BY <1>2 DEF AckWire
<1>4. \A i, j \in 1 .. Len(u) : i < j => AckAfter(u[i], u[j], a)
  <2>1. \A i, j \in 1 .. Len(u) : i < j => i + m < j + m
    OBVIOUS
  <2> QED  BY <1>2, <2>1 DEF AckWire
<1> QED  BY <1>3, <1>4 DEF AckWire

\* Frames the sender writes: of the packets that are out, no others.
OfWindow(f, x, g, s) ==
  f.kind = "data" => /\ s - WinSize < f.pay
                     /\ f.pay <= s
                     /\ f.seq = Shift(x, f.pay - (g + 1))

OfTheWindow(u, x, g, s) == \A i \in 1 .. Len(u) : OfWindow(u[i], x, g, s)

\* The frame of packet n under the number that is due to it.
LEMMA WindowFrame ==
  ASSUME NEW s, NEW g, NEW x, NEW i, NEW b, NEW n,
         s - WinSize < n, n <= s, i = Shift(x, n - (g + 1))
  PROVE  OfWindow(DataFrame(i, b, n), x, g, s)
<1> DEFINE f == DataFrame(i, b, n)
<1>1. f.pay = n /\ f.seq = i
  BY DEF DataFrame
<1> HIDE DEF f
<1>2. f.seq = Shift(x, f.pay - (g + 1))
  BY <1>1
<1>3. OfWindow(f, x, g, s)
  BY <1>1, <1>2, Zenon DEF OfWindow
<1> QED  BY <1>3 DEF f

\* The places of two sequences in their concatenation.
LEMMA Joined ==
  ASSUME NEW w \in Seq(Frames), NEW u \in Seq(Frames)
  PROVE  /\ w \o u \in Seq(Frames)
         /\ Len(w) \in Nat /\ Len(u) \in Nat /\ Len(w \o u) = Len(w) + Len(u)
         /\ \A i \in 1 .. Len(w \o u) :
              \/ i \in 1 .. Len(w) /\ (w \o u)[i] = w[i]
              \/ i - Len(w) \in 1 .. Len(u) /\ (w \o u)[i] = u[i - Len(w)]
         /\ \A i \in 1 .. Len(w) : w[i] \in Frames
         /\ \A i \in 1 .. Len(u) : u[i] \in Frames
  OBVIOUS

\* They may be added.
LEMMA DataConcat ==
  ASSUME NEW w \in Seq(Frames), NEW u \in Seq(Frames), NEW x, NEW g \in Nat, NEW s \in Nat,
         g <= s, DataWire(w, x, g, s), OfTheWindow(u, x, g, s)
  PROVE  DataWire(w \o u, x, g, s)
<1> DEFINE z == w \o u
           FromW(i) == i \in 1 .. Len(w) /\ z[i] = w[i]
           FromU(i) == i - Len(w) \in 1 .. Len(u) /\ z[i] = u[i - Len(w)]
<1>1. /\ z \in Seq(Frames) /\ Len(w) \in Nat /\ Len(u) \in Nat /\ Len(z) = Len(w) + Len(u)
      /\ \A i \in 1 .. Len(z) : FromW(i) \/ FromU(i)
      /\ \A i \in 1 .. Len(z) : z[i] \in Frames /\ z[i].pay \in Nat
  <2>1. \A f \in Frames : f.pay \in Nat
    BY DEF Frames
  <2> QED  BY <2>1, Joined
<1> HIDE DEF z
<1>2. \A i \in 1 .. Len(z) : FromU(i) /\ z[i].kind = "data" =>
        /\ s - WinSize < z[i].pay /\ z[i].pay <= s
        /\ z[i].seq = Shift(x, z[i].pay - (g + 1))
  <2>1. \A i \in 1 .. Len(z) : FromU(i) => OfWindow(z[i], x, g, s)
    BY DEF OfTheWindow
  <2> QED  BY <2>1 DEF OfWindow
<1>3. \A i \in 1 .. Len(z) : FromW(i) => DataFits(z[i], x, g, s)
  BY DEF DataWire
<1>4. \A i \in 1 .. Len(z) : FromU(i) => DataFits(z[i], x, g, s)
  <2> SUFFICES ASSUME NEW i \in 1 .. Len(z), FromU(i), z[i].kind = "data"
               PROVE  /\ g - WinSize < z[i].pay
                      /\ z[i].pay <= s
                      /\ z[i].seq = Shift(x, z[i].pay - (g + 1))
    BY Zenon DEF DataFits
  <2>1. /\ s - WinSize < z[i].pay /\ z[i].pay <= s
        /\ z[i].seq = Shift(x, z[i].pay - (g + 1))
    BY <1>2
  <2>2. PICK n \in Nat : n = z[i].pay
    BY <1>1
  <2>3. g - WinSize < n
    BY <2>1, <2>2, LimitType
  <2> QED  BY <2>1, <2>2, <2>3
<1>5. ASSUME NEW i \in 1 .. Len(z), NEW j \in 1 .. Len(z), i < j PROVE DataAfter(z[i], z[j])
  <2>1. CASE FromW(j)
    <3>1. FromW(i)
      BY <1>1, <1>5, <2>1
    <3> QED  BY <2>1, <3>1, <1>5 DEF DataWire
  <2>2. CASE FromU(j)
    <3>1. z[i].kind = "data" => z[i].pay <= s
      BY <1>1, <1>3, <1>4 DEF DataFits
    <3>2. z[j].kind = "data" => s < z[j].pay + WinSize
      BY <1>1, <1>2, <2>2, LimitType
    <3>3. z[i].pay \in Nat /\ z[j].pay \in Nat
      BY <1>1
    <3> QED  BY <3>1, <3>2, <3>3, LimitType DEF DataAfter
  <2> QED  BY <1>1, <2>1, <2>2
<1>6. \A i \in 1 .. Len(z) : DataFits(z[i], x, g, s)
  BY <1>1, <1>3, <1>4
<1>7. DataWire(z, x, g, s)
  BY <1>5, <1>6 DEF DataWire
<1> QED  BY <1>7 DEF z

\* Frames that carry the receiver's last acknowledgement may be added.
LEMMA AckConcat ==
  ASSUME NEW v \in Seq(Frames), NEW u \in Seq(Frames), NEW a \in Seqs, NEW n \in Nat,
         AckWire(v, a, n),
         \A i \in 1 .. Len(u) : u[i].kind # "resync" => Dist(a, u[i].ack) = n
  PROVE  AckWire(v \o u, a, n)
<1> DEFINE z == v \o u
           FromV(i) == i \in 1 .. Len(v) /\ z[i] = v[i]
           FromU(i) == i - Len(v) \in 1 .. Len(u) /\ z[i] = u[i - Len(v)]
<1>1. /\ z \in Seq(Frames) /\ Len(v) \in Nat /\ Len(u) \in Nat /\ Len(z) = Len(v) + Len(u)
      /\ \A i \in 1 .. Len(z) : FromV(i) \/ FromU(i)
      /\ \A i \in 1 .. Len(z) : Dist(a, z[i].ack) \in Nat
  <2>1. \A f \in Frames : Dist(a, f.ack) \in Nat
    BY DistType, LimitType DEF Frames
  <2> QED  BY <2>1, Joined
<1> HIDE DEF z
<1>2. \A i \in 1 .. Len(z) : FromU(i) /\ z[i].kind # "resync" => Dist(a, z[i].ack) = n
  OBVIOUS
<1>3. ASSUME NEW i \in 1 .. Len(z) PROVE AckFits(z[i], a, n)
  <2>1. CASE FromV(i)
    BY <2>1 DEF AckWire
  <2>2. CASE FromU(i)
    BY <1>2, <2>2 DEF AckFits
  <2> QED  BY <1>1, <2>1, <2>2
<1>4. ASSUME NEW i \in 1 .. Len(z), NEW j \in 1 .. Len(z), i < j PROVE AckAfter(z[i], z[j], a)
  <2>1. CASE FromV(j)
    <3>1. FromV(i)
      BY <1>1, <1>4, <2>1
    <3> QED  BY <2>1, <3>1, <1>4 DEF AckWire
  <2>2. CASE FromU(j)
    <3>1. z[i].kind # "resync" => Dist(a, z[i].ack) <= n
      BY <1>3 DEF AckFits
    <3>2. z[j].kind # "resync" => Dist(a, z[j].ack) = n
      BY <1>2, <2>2
    <3> QED  BY <3>1, <3>2 DEF AckAfter
  <2> QED  BY <1>1, <2>1, <2>2
<1>5. AckWire(z, a, n)
  BY <1>3, <1>4 DEF AckWire
<1> QED  BY <1>5 DEF z

----------------------------------------------------------------------------
(* What happens to one direction *)

\* Values of their types in agreement.
Typed(s, g, r, a, ta, x, buf, w, v) ==
  /\ s \in Nat /\ g \in Nat /\ r \in Nat /\ a \in Seqs /\ ta \in Seqs /\ x \in Seqs
  /\ buf \in [Seqs -> Nat] /\ w \in Seq(Frames) /\ v \in Seq(Frames)

\* The sender sends packet s + 1 under number tx.
LEMMA DirectionSend ==
  ASSUME NEW s, NEW g, NEW r, NEW a, NEW ta, NEW x, NEW buf, NEW w, NEW v,
         Typed(s, g, r, a, ta, x, buf, w, v), Direction(s, g, r, a, ta, x, buf, w, v),
         NEW tx \in Seqs, Dist(Inc(a), tx) = s - r, s - r < WinSize, NEW b \in Seqs
  PROVE  Direction(s + 1, g, r, a, ta, x, [buf EXCEPT ![tx] = s + 1],
                   w \o <<DataFrame(tx, b, s + 1)>>, v)
<1> DEFINE u == <<DataFrame(tx, b, s + 1)>>
<1>1. /\ s \in Nat /\ g \in Nat /\ r \in Nat /\ r <= g /\ g <= s
      /\ a \in Seqs /\ ta \in Seqs /\ Dist(a, ta) = g - r /\ x = Inc(ta) /\ x \in Seqs
      /\ w \in Seq(Frames) /\ buf \in [Seqs -> Nat]
  BY DEF Typed, Direction, Agree
<1>2. tx = Ahead(a, s - r + 1)
  BY <1>1, NextAhead, LimitType
<1>3. Agree(s + 1, g, r, a, ta, x)
  BY <1>1 DEF Agree
<1> DEFINE kept == [buf EXCEPT ![tx] = s + 1]
<1>4. Kept(kept, a, r, s + 1)
  <2>1. \A k \in 1 .. s - r : buf[Ahead(a, k)] = r + k
    BY DEF Direction, Kept
  <2>2. ASSUME NEW k \in 1 .. s + 1 - r
        PROVE  kept[Ahead(a, k)] = r + k
    <3>1. k \in Nat /\ 0 < k /\ k < SeqSize /\ Ahead(a, k) \in Seqs
      BY <1>1, IncType, LimitType
    <3>2. CASE k = s - r + 1
      BY <1>1, <1>2, <3>1, <3>2
    <3>3. CASE k # s - r + 1
      <4>1. k \in 1 .. s - r
        BY <1>1, <3>3
      <4>2. Dist(a, Ahead(a, k)) = k /\ Dist(a, tx) = s - r + 1
        BY <1>1, <1>2, <3>1, DistAhead, LimitType
      <4>3. Ahead(a, k) # tx
        BY <1>1, <3>3, <4>2
      <4> QED  BY <1>1, <2>1, <3>1, <4>1, <4>3
    <3> QED  BY <3>2, <3>3
  <2> HIDE DEF kept
  <2> QED  BY <1>1, <2>2 DEF Kept
<1>5. DataWire(w, x, g, s + 1)
  <2>1. DataWire(w, x, g, s)
    BY DEF Direction
  <2>2. \A i \in 1 .. Len(w) : w[i].pay \in Nat
    <3>1. \A i \in 1 .. Len(w) : w[i] \in Frames
      BY <1>1
    <3> QED  BY <3>1 DEF Frames
  <2> QED  BY <1>1, <2>1, <2>2 DEF DataWire, DataFits
<1>6. OfTheWindow(u, x, g, s + 1)
  <2>1. tx = Shift(x, s + 1 - (g + 1))
    <3>1. tx = Shift(Inc(ta), s - r + 1 - Dist(a, ta) - 1)
      BY <1>1, <1>2, AheadShift, LimitType
    <3>2. s - r + 1 - Dist(a, ta) - 1 = s + 1 - (g + 1)
      BY <1>1
    <3> QED  BY <1>1, <3>1, <3>2
  <2>2. OfWindow(DataFrame(tx, b, s + 1), x, g, s + 1)
    <3>1. PICK n \in Nat : n = s + 1
      BY <1>1
    <3>2. n - WinSize < n /\ n <= n /\ tx = Shift(x, n - (g + 1))
      BY <1>1, <2>1, <3>1, LimitType
    <3>3. OfWindow(DataFrame(tx, b, n), x, g, n)
      BY <3>2, WindowFrame, Zenon
    <3> QED  BY <3>1, <3>3, Zenon
  <2>3. \A i \in 1 .. Len(u) : u[i] = DataFrame(tx, b, s + 1)
    OBVIOUS
  <2> HIDE DEF u
  <2> QED  BY <2>2, <2>3, Zenon DEF OfTheWindow
<1>7. u \in Seq(Frames)
  BY <1>1, FrameType
<1> HIDE DEF u
<1>8. DataWire(w \o u, x, g, s + 1)
  BY <1>1, <1>5, <1>6, <1>7, DataConcat
<1> QED  BY <1>3, <1>4, <1>8 DEF Direction, u

\* The sender writes frames of packets that are out, or no data.
LEMMA DirectionWrite ==
  ASSUME NEW s, NEW g, NEW r, NEW a, NEW ta, NEW x, NEW buf, NEW w, NEW v,
         Typed(s, g, r, a, ta, x, buf, w, v), Direction(s, g, r, a, ta, x, buf, w, v),
         NEW u \in Seq(Frames), OfTheWindow(u, x, g, s)
  PROVE  Direction(s, g, r, a, ta, x, buf, w \o u, v)
<1>1. g \in Nat /\ s \in Nat /\ g <= s /\ w \in Seq(Frames) /\ DataWire(w, x, g, s)
  BY DEF Typed, Direction, Agree
<1>2. DataWire(w \o u, x, g, s)
  BY <1>1, DataConcat
<1> QED  BY <1>2 DEF Direction

\* The receiver writes frames that carry its last acknowledgement.
LEMMA DirectionAnswer ==
  ASSUME NEW s, NEW g, NEW r, NEW a, NEW ta, NEW x, NEW buf, NEW w, NEW v,
         Typed(s, g, r, a, ta, x, buf, w, v), Direction(s, g, r, a, ta, x, buf, w, v),
         NEW u \in Seq(Frames),
         \A i \in 1 .. Len(u) : u[i].kind # "resync" => u[i].ack = ta
  PROVE  Direction(s, g, r, a, ta, x, buf, w, v \o u)
<1>1. /\ g \in Nat /\ r \in Nat /\ r <= g /\ a \in Seqs /\ Dist(a, ta) = g - r
      /\ v \in Seq(Frames) /\ AckWire(v, a, g - r)
  BY DEF Typed, Direction, Agree
<1>2. g - r \in Nat /\ \A i \in 1 .. Len(u) : u[i].kind # "resync" => Dist(a, u[i].ack) = g - r
  BY <1>1
<1>3. AckWire(v \o u, a, g - r)
  BY <1>1, <1>2, AckConcat
<1> QED  BY <1>3 DEF Direction

\* Frames are lost or thrown away on either wire.
LEMMA DirectionRest ==
  ASSUME NEW s, NEW g, NEW r, NEW a, NEW ta, NEW x, NEW buf, NEW w, NEW v,
         Typed(s, g, r, a, ta, x, buf, w, v), Direction(s, g, r, a, ta, x, buf, w, v),
         NEW y \in Seq(Frames), IsRest(y, w), NEW z \in Seq(Frames), IsRest(z, v)
  PROVE  Direction(s, g, r, a, ta, x, buf, y, z)
<1>1. /\ w \in Seq(Frames) /\ v \in Seq(Frames)
      /\ DataWire(w, x, g, s) /\ AckWire(v, a, g - r)
  BY DEF Typed, Direction
<1>2. DataWire(y, x, g, s)
  BY <1>1, DataRest
<1>3. AckWire(z, a, g - r)
  BY <1>1, AckRest
<1> QED  BY <1>2, <1>3 DEF Direction

\* The packet expected can only be the next one.
LEMMA ExpectedIsNext ==
  ASSUME NEW s \in Nat, NEW g \in Nat, NEW r \in Nat, r <= g, s - r <= WinSize,
         NEW x \in Seqs, NEW f \in Frames, f.kind = "data", f.seq = x, DataFits(f, x, g, s)
  PROVE  f.pay = g + 1
<1>1. f.pay \in Nat /\ g - WinSize < f.pay /\ f.pay <= s /\ x = Shift(x, f.pay - (g + 1))
  BY DEF DataFits, Frames
<1>2. f.pay - (g + 1) \in Int /\ -SeqSize < f.pay - (g + 1) /\ f.pay - (g + 1) < SeqSize
  BY <1>1, LimitType
<1>3. f.pay - (g + 1) = 0
  BY <1>1, <1>2, ShiftNone
<1> QED  BY <1>1, <1>3

\* The first frame of a wire and the others.
LEMMA FirstFrame ==
  ASSUME NEW w \in Seq(Frames), w # <<>>
  PROVE  /\ Head(w) \in Frames /\ Tail(w) \in Seq(Frames) /\ IsRest(Tail(w), w)
         /\ 1 \in 1 .. Len(w) /\ Head(w) = w[1] /\ Len(Tail(w)) = Len(w) - 1
         /\ \A i \in 1 .. Len(Tail(w)) :
              i + 1 \in 1 .. Len(w) /\ 1 < i + 1 /\ Tail(w)[i] = w[i + 1] /\ Tail(w)[i] \in Frames
<1>1. /\ Head(w) \in Frames /\ Tail(w) \in Seq(Frames)
      /\ 1 \in 1 .. Len(w) /\ Head(w) = w[1] /\ Len(Tail(w)) = Len(w) - 1
  OBVIOUS
<1>2. \A i \in 1 .. Len(Tail(w)) :
        i + 1 \in 1 .. Len(w) /\ 1 < i + 1 /\ Tail(w)[i] = w[i + 1] /\ Tail(w)[i] \in Frames
  BY <1>1
<1>3. IsRest(Tail(w), w)
  BY <1>1, <1>2 DEF IsRest
<1> QED  BY <1>1, <1>2, <1>3

\* The receiver takes the packet it expected over and acknowledges it.
LEMMA DirectionArrive ==
  ASSUME NEW s, NEW g, NEW r, NEW a, NEW ta, NEW x, NEW buf, NEW w, NEW v,
         Typed(s, g, r, a, ta, x, buf, w, v), Direction(s, g, r, a, ta, x, buf, w, v),
         s - r <= WinSize, w # <<>>, Head(w).kind = "data", Head(w).seq = x
  PROVE  /\ Head(w).pay = g + 1 /\ g < s
         /\ Direction(s, g + 1, r, a, x, Inc(x), buf, Tail(w), v \o <<AckFrame(x)>>)
<1> DEFINE f == Head(w)
           u == <<AckFrame(x)>>
<1>1. /\ s \in Nat /\ g \in Nat /\ r \in Nat /\ r <= g /\ g <= s
      /\ a \in Seqs /\ ta \in Seqs /\ Dist(a, ta) = g - r /\ x = Inc(ta) /\ x \in Seqs
      /\ w \in Seq(Frames) /\ v \in Seq(Frames)
  BY DEF Typed, Direction, Agree
<1>2. DataWire(w, x, g, s) /\ AckWire(v, a, g - r)
  BY DEF Direction
<1>3. f \in Frames /\ DataFits(f, x, g, s)
  BY <1>1, <1>2, FirstFrame DEF DataWire
<1>4. f.pay = g + 1
  BY <1>1, <1>3, ExpectedIsNext
<1>5. g < s
  BY <1>1, <1>3, <1>4 DEF DataFits
<1>6. Dist(a, x) = g + 1 - r
  <2>1. Dist(a, ta) < SeqSize - 1
    BY <1>1, <1>5, LimitType
  <2> QED  BY <1>1, <2>1, DistIncEnd
<1>7. Agree(s, g + 1, r, a, x, Inc(x))
  BY <1>1, <1>5, <1>6 DEF Agree
<1>8. Tail(w) \in Seq(Frames) /\ DataWire(Tail(w), x, g, s)
  BY <1>1, <1>2, FirstFrame, DataRest
<1>9. ASSUME NEW i \in 1 .. Len(Tail(w)) PROVE DataFits(Tail(w)[i], Inc(x), g + 1, s)
  <2> DEFINE h == Tail(w)[i]
  <2>1. h \in Frames /\ DataFits(h, x, g, s)
    BY <1>1, <1>8, FirstFrame DEF DataWire
  <2>2. DataAfter(f, h)
    BY <1>1, <1>2, FirstFrame DEF DataWire
  <2> HIDE DEF h
  <2> SUFFICES ASSUME h.kind = "data" PROVE DataFits(h, Inc(x), g + 1, s)
    BY DEF DataFits, h
  <2>3. PICK n \in Nat : n = h.pay
    BY <2>1 DEF Frames
  <2>4. g + 1 - WinSize < n /\ n <= s /\ h.seq = Shift(x, n - (g + 1))
    BY <1>1, <1>4, <2>1, <2>2, <2>3, LimitType DEF DataFits, DataAfter
  <2>5. 1 - SeqSize < n - (g + 1) /\ n - (g + 1) < SeqSize /\ n - (g + 1) \in Int
    BY <1>1, <2>4, LimitType
  <2>6. n - (g + 1) - 1 = n - (g + 1 + 1)
    BY <1>1
  <2>7. Shift(Inc(x), n - (g + 1) - 1) = Shift(x, n - (g + 1))
    BY <1>1, <2>5, ShiftInc
  <2>8. h.seq = Shift(Inc(x), n - (g + 1 + 1))
    BY <2>4, <2>6, <2>7
  <2>9. PICK m \in Nat : m = g + 1
    BY <1>1
  <2>10. m - WinSize < h.pay /\ h.pay <= s /\ h.seq = Shift(Inc(x), h.pay - (m + 1))
    BY <1>1, <2>3, <2>4, <2>8, <2>9, LimitType
  <2>11. DataFits(h, Inc(x), m, s)
    BY <2>10, Zenon DEF DataFits
  <2> QED  BY <2>9, <2>11, Zenon
<1>10. DataWire(Tail(w), Inc(x), g + 1, s)
  BY <1>8, <1>9 DEF DataWire
<1>11. g + 1 - r \in Nat /\ AckWire(v, a, g + 1 - r)
  <2>1. \A i \in 1 .. Len(v) : AckFits(v[i], a, g + 1 - r)
    <3>1. \A i \in 1 .. Len(v) : v[i] \in Frames /\ Dist(a, v[i].ack) \in Nat
      <4>1. \A h \in Frames : Dist(a, h.ack) \in Nat
        BY <1>1, DistType, LimitType DEF Frames
      <4> QED  BY <1>1, <4>1
    <3> QED  BY <1>1, <1>2, <3>1 DEF AckWire, AckFits
  <2>2. g + 1 - r \in Nat
    BY <1>1
  <2> QED  BY <1>2, <2>1, <2>2 DEF AckWire
<1>12. u \in Seq(Frames) /\ \A i \in 1 .. Len(u) : Dist(a, u[i].ack) = g + 1 - r
  <2>1. AckFrame(x) \in Frames /\ AckFrame(x).ack = x
    BY <1>1, FrameType DEF AckFrame
  <2>2. u \in Seq(Frames) /\ \A i \in 1 .. Len(u) : u[i] = AckFrame(x)
    BY <2>1
  <2> HIDE DEF u
  <2> QED  BY <1>6, <2>1, <2>2
<1> HIDE DEF u
<1>13. AckWire(v \o u, a, g + 1 - r)
  BY <1>1, <1>11, <1>12, AckConcat
<1>14. Kept(buf, a, r, s)
  BY DEF Direction
<1>15. Direction(s, g + 1, r, a, x, Inc(x), buf, Tail(w), v \o u)
  BY <1>1, <1>7, <1>10, <1>13, <1>14 DEF Direction
<1> QED  BY <1>4, <1>5, <1>15 DEF u

\* The sender takes note of an acknowledgement.
LEMMA DirectionAcked ==
  ASSUME NEW s, NEW g, NEW r, NEW a, NEW ta, NEW x, NEW buf, NEW w, NEW v,
         Typed(s, g, r, a, ta, x, buf, w, v), Direction(s, g, r, a, ta, x, buf, w, v),
         s - r <= WinSize, v # <<>>, Head(v).kind # "resync"
  PROVE  LET b == Head(v).ack
             n == Dist(a, b)
         IN /\ b \in Seqs /\ n \in Nat /\ n <= g - r
            /\ Direction(s, g, r + n, b, ta, x, buf, w, Tail(v))
<1> DEFINE b == Head(v).ack
           n == Dist(a, b)
<1>1. /\ s \in Nat /\ g \in Nat /\ r \in Nat /\ r <= g /\ g <= s
      /\ a \in Seqs /\ ta \in Seqs /\ Dist(a, ta) = g - r /\ x = Inc(ta)
      /\ v \in Seq(Frames)
  BY DEF Typed, Direction, Agree
<1>2. AckWire(v, a, g - r) /\ Kept(buf, a, r, s) /\ DataWire(w, x, g, s)
  BY DEF Direction
<1>3. Head(v) \in Frames /\ b \in Seqs /\ n \in Nat
  <2>1. Head(v) \in Frames
    BY <1>1, FirstFrame
  <2>2. b \in Seqs
    BY <2>1 DEF Frames
  <2> QED  BY <1>1, <2>1, <2>2, DistType, LimitType
<1>4. n <= g - r
  <2>1. AckFits(Head(v), a, g - r)
    BY <1>1, <1>2, FirstFrame DEF AckWire
  <2> QED  BY <2>1 DEF AckFits
<1>5. \A i \in 1 .. Len(Tail(v)) : AckAfter(Head(v), Tail(v)[i], a)
  BY <1>1, <1>2, FirstFrame DEF AckWire
<1>6. Tail(v) \in Seq(Frames) /\ AckWire(Tail(v), a, g - r)
  BY <1>1, <1>2, FirstFrame, AckRest
<1>7. \A c \in Seqs : n <= Dist(a, c) => Dist(b, c) = Dist(a, c) - n
  BY <1>1, <1>3, DistBeyond
<1> HIDE DEF n, b
<1>8. Agree(s, g, r + n, b, ta, x)
  <2>1. Dist(b, ta) = g - r - n
    BY <1>1, <1>3, <1>4, <1>7
  <2> QED  BY <1>1, <1>3, <1>4, <2>1 DEF Agree
<1>9. Kept(buf, b, r + n, s)
  <2> SUFFICES ASSUME NEW k \in 1 .. s - (r + n) PROVE buf[Ahead(b, k)] = r + n + k
    BY <1>1, <1>3 DEF Kept
  <2>1. k \in Nat /\ 0 < k /\ n + k < SeqSize /\ n + k \in 1 .. s - r
    BY <1>1, <1>3, <1>4, LimitType
  <2>2. Ahead(b, k) = Ahead(a, n + k)
    BY <1>1, <1>3, <2>1, AheadBeyond DEF n
  <2>3. buf[Ahead(a, n + k)] = r + (n + k)
    BY <1>2, <2>1 DEF Kept
  <2>4. r + (n + k) = r + n + k
    BY <1>1, <1>3, <2>1
  <2> QED  BY <2>2, <2>3, <2>4
<1>10. AckWire(Tail(v), b, g - (r + n))
  <2>1. ASSUME NEW i \in 1 .. Len(Tail(v)), Tail(v)[i].kind # "resync"
        PROVE  Dist(b, Tail(v)[i].ack) = Dist(a, Tail(v)[i].ack) - n
    <3>1. Tail(v)[i].ack \in Seqs
      <4>1. Tail(v)[i] \in Frames
        BY <1>6
      <4> QED  BY <4>1 DEF Frames
    <3>2. n <= Dist(a, Tail(v)[i].ack)
      BY <1>5, <2>1 DEF AckAfter, n, b
    <3> QED  BY <1>7, <3>1, <3>2
  <2>2. \A i \in 1 .. Len(Tail(v)) : Dist(a, Tail(v)[i].ack) \in Nat
    <3>1. \A f \in Frames : Dist(a, f.ack) \in Nat
      BY <1>1, DistType, LimitType DEF Frames
    <3> QED  BY <1>6, <3>1
  <2>3. \A i \in 1 .. Len(Tail(v)) : AckFits(Tail(v)[i], b, g - (r + n))
    <3> SUFFICES ASSUME NEW i \in 1 .. Len(Tail(v)), Tail(v)[i].kind # "resync"
                 PROVE  Dist(b, Tail(v)[i].ack) <= g - (r + n)
      BY DEF AckFits
    <3>1. PICK m \in Nat : m = Dist(a, Tail(v)[i].ack)
      BY <2>2
    <3>2. m <= g - r
      BY <1>6, <3>1 DEF AckWire, AckFits
    <3>3. m - n <= g - (r + n)
      BY <1>1, <1>3, <3>2
    <3> QED  BY <2>1, <3>1, <3>3
  <2>4. \A i, j \in 1 .. Len(Tail(v)) : i < j => AckAfter(Tail(v)[i], Tail(v)[j], b)
    <3> SUFFICES ASSUME NEW i \in 1 .. Len(Tail(v)), NEW j \in 1 .. Len(Tail(v)), i < j,
                        Tail(v)[i].kind # "resync", Tail(v)[j].kind # "resync"
                 PROVE  Dist(b, Tail(v)[i].ack) <= Dist(b, Tail(v)[j].ack)
      BY DEF AckAfter
    <3>1. PICK m \in Nat : m = Dist(a, Tail(v)[i].ack)
      BY <2>2
    <3>2. PICK l \in Nat : l = Dist(a, Tail(v)[j].ack)
      BY <2>2
    <3>3. m <= l
      BY <1>6, <3>1, <3>2 DEF AckWire, AckAfter
    <3>4. m - n <= l - n
      BY <1>3, <3>3
    <3> QED  BY <2>1, <3>1, <3>2, <3>4
  <2> QED  BY <2>3, <2>4 DEF AckWire
<1>11. Direction(s, g, r + n, b, ta, x, buf, w, Tail(v))
  BY <1>2, <1>8, <1>9, <1>10 DEF Direction
<1> QED  BY <1>3, <1>4, <1>11 DEF n, b

----------------------------------------------------------------------------
(* The steps *)

\* stp_process_rxack finds every acknowledgement that is under way, and moves
\* on by as many packets as it names.
LEMMA AckAdvance ==
  ASSUME NEW c, Sound(c), NEW b \in Seqs, Dist(c.rxack, b) <= Unacked(c)
  PROVE  LET t == Acknowledged(c, b) IN
         /\ t.rxack = b /\ t.winspace = c.winspace + Dist(c.rxack, b)
         /\ t.txack = c.txack /\ t.expected_rxseq = c.expected_rxseq
<1>1. /\ c \in SequenceContext /\ c.rxack \in Seqs /\ c.winspace \in Nat
      /\ Dist(c.rxack, b) \in Nat
  <2>1. c \in SequenceContext /\ c.rxack \in Seqs /\ c.winspace \in Nat
    BY LimitType DEF Sound, SequenceContext
  <2> QED  BY <2>1, DistType, LimitType
<1>2. CASE b = c.rxack
  <2>1. Acknowledged(c, b) = c
    BY <1>2 DEF Acknowledged, AckHits
  <2>2. Dist(c.rxack, b) = 0
    BY <1>1, <1>2, DistSelf
  <2> QED  BY <1>1, <1>2, <2>1, <2>2
<1>3. CASE b # c.rxack
  <2>1. Dist(Inc(c.rxack), b) = Dist(c.rxack, b) - 1
    BY <1>1, <1>3, DistNext
  <2>2. Unacked(c) \in Nat
    BY <1>1, IncType, DistType, LimitType DEF Unacked, SequenceContext
  <2>3. AckHits(c, b)
    BY <1>1, <1>3, <2>1, <2>2 DEF AckHits
  <2>4. Acknowledged(c, b) =
          [c EXCEPT !.rxack = b, !.winspace = c.winspace + Dist(Inc(c.rxack), b) + 1,
                    !.retry_times = 0, !.tx_timeout_loop = 0]
    BY <1>1, <2>3 DEF Acknowledged, SequenceContext
  <2>5. c.winspace + Dist(Inc(c.rxack), b) + 1 = c.winspace + Dist(c.rxack, b)
    BY <1>1, <2>1
  <2> QED  BY <1>1, <2>4, <2>5 DEF SequenceContext
<1> QED  BY <1>2, <1>3

\* The two ends.
LEMMA TwoEnds ==
  ASSUME NEW d \in Ends
  PROVE  /\ Peer(d) \in Ends /\ Peer(d) # d /\ Peer(Peer(d)) = d
         /\ \A e \in Ends : e = d \/ e = Peer(d)
BY DEF Ends, Peer

\* What is known about a direction of the link between steps.
LEMMA Between ==
  ASSUME StpInv, StreamInv, NEW d \in Ends
  PROVE  /\ Typed(sent[d], acked[Peer(d)], Released(d), sequence[d].rxack,
                  sequence[Peer(d)].txack, sequence[Peer(d)].expected_rxseq,
                  txbuf[d], wire[d], wire[Peer(d)])
         /\ Direction(sent[d], acked[Peer(d)], Released(d), sequence[d].rxack,
                      sequence[Peer(d)].txack, sequence[Peer(d)].expected_rxseq,
                      txbuf[d], wire[d], wire[Peer(d)])
         /\ Sound(sequence[d])
         /\ Unacked(sequence[d]) = sent[d] - Released(d)
         /\ Unacked(sequence[d]) <= WinSize
<1>1. Peer(d) \in Ends
  BY TwoEnds
<1>2. /\ sent[d] \in Nat /\ acked[Peer(d)] \in Nat
      /\ sequence[d] \in SequenceContext /\ sequence[Peer(d)] \in SequenceContext
      /\ txbuf[d] \in [Seqs -> Nat] /\ wire[d] \in Seq(Frames) /\ wire[Peer(d)] \in Seq(Frames)
  BY <1>1 DEF StpInv, TypeOK
<1>3. /\ sequence[d].rxack \in Seqs /\ sequence[Peer(d)].txack \in Seqs
      /\ sequence[Peer(d)].expected_rxseq \in Seqs /\ sequence[d].txseq \in Seqs
      /\ sequence[d].winspace \in 0 .. WinSize
  BY <1>2 DEF SequenceContext
<1>4. From(d)
  BY DEF StreamInv
<1>5. Released(d) \in Nat
  BY <1>4 DEF From, Direction, Agree
<1>6. sequence[d].winspace + Unacked(sequence[d]) = WinSize
  BY DEF StpInv, WindowExact
<1>7. Unacked(sequence[d]) \in Nat
  BY <1>3, IncType, DistType, LimitType DEF Unacked
<1>8. Unacked(sequence[d]) = sent[d] - Released(d) /\ Unacked(sequence[d]) <= WinSize
  BY <1>2, <1>3, <1>6, <1>7, LimitType DEF Released
<1>9. Sound(sequence[d])
  BY <1>2, <1>6 DEF Sound
<1> QED  BY <1>2, <1>3, <1>4, <1>5, <1>8, <1>9 DEF Typed, From

\* One direction moves on as ReliableStream allows, or does not move.
Advance(s, g, k, r, s1, g1, k1, r1) ==
  \/ s - r < WinSize /\ s1 = s + 1 /\ g1 = g /\ k1 = k /\ r1 = r
  \/ g < s /\ g1 = g + 1 /\ k1 \in {k, k + 1} /\ s1 = s /\ r1 = r
  \/ r1 \in r + 1 .. g /\ s1 = s /\ g1 = g /\ k1 = k
  \/ s1 = 0 /\ g1 = 0 /\ k1 = 0 /\ r1 = 0
  \/ s1 = s /\ g1 = g /\ k1 = k /\ r1 = r

Moves(d) == Advance(sent[d], acked[Peer(d)], got[Peer(d)], Released(d),
                    sent'[d], acked'[Peer(d)], got'[Peer(d)], Released(d)')

\* What end d writes behind what is left of its wire: packets that are out,
\* its last acknowledgement in every frame.
Written(u, d) ==
  /\ u \in Seq(Frames)
  /\ OfTheWindow(u, sequence[Peer(d)].expected_rxseq, acked[Peer(d)], sent[d])
  /\ \A i \in 1 .. Len(u) : u[i].kind # "resync" => u[i].ack = sequence[d].txack

Writes(d) == \E y \in Seq(Frames), u \in Seq(Frames) :
               IsRest(y, wire[d]) /\ wire'[d] = y \o u /\ Written(u, d)

\* What the invariant looks at in a context.
SameLink(s, t) == /\ s.rxack = t.rxack /\ s.txack = t.txack
                  /\ s.expected_rxseq = t.expected_rxseq /\ s.winspace = t.winspace

\* A step in which nothing is sent, taken over or let go of.
LEMMA QuietStream ==
  ASSUME StpInv, StreamInv, UNCHANGED <<sent, acked, got, txbuf>>,
         \A d \in Ends : SameLink(sequence'[d], sequence[d]),
         \A d \in Ends : Writes(d)
  PROVE  StreamInv' /\ \A d \in Ends : Moves(d)
<1> SUFFICES ASSUME NEW d \in Ends PROVE From(d)' /\ Moves(d)
  BY DEF StreamInv
<1> DEFINE p == Peer(d)
           s == sent[d]
           g == acked[p]
           r == Released(d)
           a == sequence[d].rxack
           ta == sequence[p].txack
           x == sequence[p].expected_rxseq
           buf == txbuf[d]
<1>1. p \in Ends
  BY TwoEnds
<1>2. Typed(s, g, r, a, ta, x, buf, wire[d], wire[p]) /\ Direction(s, g, r, a, ta, x, buf, wire[d], wire[p])
  BY Between
<1>3. PICK y \in Seq(Frames), u \in Seq(Frames) :
        IsRest(y, wire[d]) /\ wire'[d] = y \o u /\ Written(u, d)
  BY DEF Writes
<1>4. PICK z \in Seq(Frames), q \in Seq(Frames) :
        IsRest(z, wire[p]) /\ wire'[p] = z \o q /\ Written(q, p)
  BY <1>1 DEF Writes
<1>5. OfTheWindow(u, x, g, s) /\ \A i \in 1 .. Len(q) : q[i].kind # "resync" => q[i].ack = ta
  BY <1>3, <1>4 DEF Written
<1>6. sent'[d] = s /\ acked'[p] = g /\ got'[p] = got[p] /\ txbuf'[d] = buf
  OBVIOUS
<1>7. sequence'[d].rxack = a /\ sequence'[p].txack = ta /\ sequence'[p].expected_rxseq = x
      /\ sequence'[d].winspace = sequence[d].winspace
  BY <1>1 DEF SameLink
<1>8. Released(d)' = r
  BY <1>6, <1>7 DEF Released
<1> HIDE DEF s, g, r, a, ta, x, buf
<1>9. Typed(s, g, r, a, ta, x, buf, y, z) /\ Direction(s, g, r, a, ta, x, buf, y, z)
  BY <1>2, <1>3, <1>4, DirectionRest DEF Typed
<1>10. y \o u \in Seq(Frames)
  BY <1>3
<1>11. Typed(s, g, r, a, ta, x, buf, y \o u, z) /\ Direction(s, g, r, a, ta, x, buf, y \o u, z)
  BY <1>5, <1>9, <1>10, DirectionWrite DEF Typed
<1>12. Direction(s, g, r, a, ta, x, buf, y \o u, z \o q)
  BY <1>5, <1>11, DirectionAnswer
<1>13. From(d)'
  BY <1>3, <1>4, <1>6, <1>7, <1>8, <1>12 DEF From
<1>14. Moves(d)
  BY <1>6, <1>8 DEF Moves, Advance, s, g, r
<1> QED  BY <1>13, <1>14

\* Nothing written, nothing lost.
LEMMA WritesNothing ==
  ASSUME NEW y \in Seq(Frames), NEW d \in Ends, wire'[d] = y, IsRest(y, wire[d])
  PROVE  Writes(d)
<1> DEFINE u == <<>>
<1>1. u \in Seq(Frames) /\ y \o u = y /\ \A i \in 1 .. Len(u) : FALSE
  OBVIOUS
<1> HIDE DEF u
<1>2. \A x, g, s : OfTheWindow(u, x, g, s)
  BY <1>1, Zenon DEF OfTheWindow
<1>3. Written(u, d)
  BY <1>1, <1>2, Zenon DEF Written
<1>4. wire'[d] = y \o u
  BY <1>1, Zenon
<1> QED  BY <1>1, <1>3, <1>4, Zenon DEF Writes

\* A wire is what is left of it when nothing is gone.
LEMMA WholeRest == ASSUME NEW w \in Seq(Frames) PROVE IsRest(w, w)
<1>1. 0 \in 0 .. Len(w) /\ Len(w) = Len(w) - 0 /\ \A i \in 1 .. Len(w) : w[i] = w[i + 0]
  OBVIOUS
<1> QED  BY <1>1 DEF IsRest

\* One frame without data that carries the last acknowledgement.
LEMMA WrittenAck ==
  ASSUME StpInv, NEW d \in Ends
  PROVE  Written(<<AckFrame(sequence[d].txack)>>, d)
<1> DEFINE f == AckFrame(sequence[d].txack)
           u == <<f>>
<1>1. sequence[d].txack \in Seqs
  BY DEF StpInv, TypeOK, SequenceContext
<1>2. f \in Frames /\ f.kind = "ack" /\ f.ack = sequence[d].txack
  BY <1>1, FrameType DEF AckFrame
<1> HIDE DEF f
<1>3. u \in Seq(Frames) /\ \A i \in 1 .. Len(u) : u[i] = f
  BY <1>2
<1> HIDE DEF u
<1>4. Written(u, d)
  BY <1>2, <1>3 DEF Written, OfTheWindow, OfWindow
<1> QED  BY <1>4 DEF u, f

\* The wires after a frame has been parsed and answered.
LEMMA Parsed ==
  ASSUME TypeOK, NEW e \in Ends, wire[Peer(e)] # <<>>, NEW reply \in Seq(Frames), Parse(e, reply)
  PROVE  /\ wire'[Peer(e)] = Tail(wire[Peer(e)]) /\ wire'[e] = wire[e] \o reply
         /\ wire[e] \in Seq(Frames) /\ wire[Peer(e)] \in Seq(Frames)
         /\ Tail(wire[Peer(e)]) \in Seq(Frames) /\ IsRest(Tail(wire[Peer(e)]), wire[Peer(e)])
         /\ Incoming(e) = Head(wire[Peer(e)]) /\ Incoming(e) \in Frames
<1>1. Peer(e) \in Ends /\ Peer(e) # e
  BY TwoEnds
<1>2. wire \in [Ends -> Seq(Frames)] /\ wire[e] \in Seq(Frames) /\ wire[Peer(e)] \in Seq(Frames)
  BY <1>1 DEF TypeOK
<1>3. wire' = [wire EXCEPT ![Peer(e)] = Tail(wire[Peer(e)]), ![e] = wire[e] \o reply]
  BY <1>1, <1>2 DEF Parse
<1>4. wire'[Peer(e)] = Tail(wire[Peer(e)]) /\ wire'[e] = wire[e] \o reply
  BY <1>1, <1>2, <1>3
<1> QED  BY <1>2, <1>4, FirstFrame DEF Incoming

\* A frame parsed and answered with nothing, or with the last acknowledgement.
LEMMA ParsedQuietly ==
  ASSUME StpInv, NEW e \in Ends, wire[Peer(e)] # <<>>, NEW reply, Written(reply, e), Parse(e, reply)
  PROVE  \A d \in Ends : Writes(d)
<1>1. reply \in Seq(Frames) /\ TypeOK
  BY DEF Written, StpInv
<1>2. /\ wire'[Peer(e)] = Tail(wire[Peer(e)]) /\ wire'[e] = wire[e] \o reply
      /\ wire[e] \in Seq(Frames) /\ Tail(wire[Peer(e)]) \in Seq(Frames)
      /\ IsRest(Tail(wire[Peer(e)]), wire[Peer(e)])
  BY <1>1, Parsed
<1>3. Peer(e) \in Ends /\ \A d \in Ends : d = e \/ d = Peer(e)
  BY TwoEnds
<1>4. Writes(Peer(e))
  BY <1>2, <1>3, WritesNothing
<1>5. Writes(e)
  <2>1. IsRest(wire[e], wire[e])
    BY <1>2, WholeRest
  <2> QED  BY <1>1, <1>2, <2>1 DEF Writes
<1> QED  BY <1>3, <1>4, <1>5

\* Nothing happens to what the invariant looks at.
LEMMA SameLinks ==
  ASSUME UNCHANGED sequence PROVE \A d \in Ends : SameLink(sequence'[d], sequence[d])
BY DEF SameLink

\* A step in which neither wires nor contexts change.
LEMMA StillStream ==
  ASSUME StpInv, StreamInv, UNCHANGED <<sequence, wire, txbuf, sent, acked, got>>
  PROVE  StreamInv' /\ \A d \in Ends : Moves(d)
<1>1. \A d \in Ends : wire[d] \in Seq(Frames) /\ wire'[d] = wire[d]
  BY DEF StpInv, TypeOK
<1>2. \A d \in Ends : Writes(d)
  BY <1>1, WholeRest, WritesNothing
<1> QED  BY <1>2, SameLinks, QuietStream

\* The parser throws a frame away, or does not answer it.
LEMMA DroppedStream ==
  ASSUME StpInv, StreamInv, NEW e \in Ends, wire[Peer(e)] # <<>>, RecvHunting(e) \/ RecvUnanswered(e)
  PROVE  StreamInv' /\ \A d \in Ends : Moves(d)
<1>1. Parse(e, <<>>) /\ UNCHANGED <<sequence, txbuf, sent, acked, got>>
  BY DEF RecvHunting, RecvUnanswered
<1>2. Written(<<>>, e)
  BY DEF Written, OfTheWindow
<1>3. \A d \in Ends : Writes(d)
  BY <1>1, <1>2, ParsedQuietly
<1> QED  BY <1>1, <1>3, SameLinks, QuietStream

\* A resync pattern.
LEMMA ResyncStream ==
  ASSUME StpInv, StreamInv, NEW e \in Ends, wire[Peer(e)] # <<>>, RecvResync(e)
  PROVE  StreamInv' /\ \A d \in Ends : Moves(d)
<1>1. Parse(e, <<>>) /\ UNCHANGED <<txbuf, sent, acked, got>>
  BY DEF RecvResync
<1>2. Written(<<>>, e)
  BY DEF Written, OfTheWindow
<1>3. \A d \in Ends : Writes(d)
  BY <1>1, <1>2, ParsedQuietly
<1>4. ASSUME NEW d \in Ends PROVE SameLink(sequence'[d], sequence[d])
  <2>1. sequence' = [sequence EXCEPT ![e].rx_resync = TRUE, ![e].rx_resync_seq = Unset]
    BY DEF RecvResync
  <2>2. sequence \in [Ends -> SequenceContext]
    BY DEF StpInv, TypeOK
  <2> QED  BY <2>1, <2>2 DEF SameLink, SequenceContext
<1> QED  BY <1>1, <1>3, <1>4, QuietStream

\* A packet out of order is answered with the last acknowledgement.
LEMMA UnexpectedStream ==
  ASSUME StpInv, StreamInv, NEW e \in Ends, wire[Peer(e)] # <<>>, RecvUnexpected(e)
  PROVE  StreamInv' /\ \A d \in Ends : Moves(d)
<1>1. Parse(e, <<AckFrame(sequence[e].txack)>>) /\ UNCHANGED <<txbuf, sent, acked, got>>
  BY DEF RecvUnexpected
<1>2. \A d \in Ends : Writes(d)
  BY <1>1, WrittenAck, ParsedQuietly
<1>3. ASSUME NEW d \in Ends PROVE SameLink(sequence'[d], sequence[d])
  <2>1. sequence \in [Ends -> SequenceContext]
    BY DEF StpInv, TypeOK
  <2>2. CASE sequence[e].rx_resync
    <3> DEFINE s == sequence[e]
               f == Incoming(e)
               b == s.rx_resync_seq = Unset \/ f.seq = Inc(s.rx_resync_seq)
               q == IF s.rx_resync_seq = Unset THEN f.seq ELSE Inc(s.rx_resync_seq)
    <3>1. sequence' = [sequence EXCEPT ![e].rx_resync = b,
                         ![e].rx_resync_seq = IF @ = Unset THEN f.seq ELSE Inc(@)]
      BY <2>2 DEF RecvUnexpected
    <3>2. sequence' = [sequence EXCEPT ![e] = [s EXCEPT !.rx_resync = b, !.rx_resync_seq = q]]
      BY <2>1, <3>1 DEF SequenceContext
    <3> HIDE DEF b, q
    <3> QED  BY <2>1, <3>2 DEF SameLink, SequenceContext
  <2>3. CASE ~sequence[e].rx_resync
    BY <2>3 DEF RecvUnexpected, SameLink
  <2> QED  BY <2>2, <2>3
<1> QED  BY <1>1, <1>2, <1>3, QuietStream

\* Frames are lost.
LEMMA LostStream ==
  ASSUME StpInv, StreamInv, NEW e \in Ends, Lose(e) \/ Garble(e)
  PROVE  StreamInv' /\ \A d \in Ends : Moves(d)
<1>1. /\ UNCHANGED <<sequence, txbuf, sent, acked, got>> /\ wire[e] # <<>>
      /\ wire \in [Ends -> Seq(Frames)] /\ wire[e] \in Seq(Frames)
  BY DEF Lose, Garble, StpInv, TypeOK
<1>2. PICK y \in Seq(Frames) : wire' = [wire EXCEPT ![e] = y] /\ IsRest(y, wire[e])
  <2>1. CASE Lose(e)
    <3>1. wire' = [wire EXCEPT ![e] = Tail(wire[e])]
      BY <2>1 DEF Lose
    <3> QED  BY <1>1, <3>1, FirstFrame
  <2>2. CASE Garble(e)
    <3>1. PICK n \in 1 .. Len(wire[e]) :
            wire' = [wire EXCEPT ![e] = SubSeq(wire[e], n + 1, Len(wire[e]))]
      BY <2>2 DEF Garble
    <3> DEFINE y == SubSeq(wire[e], n + 1, Len(wire[e]))
    <3>2. /\ Len(wire[e]) \in Nat /\ \A i \in 1 .. Len(wire[e]) : wire[e][i] \in Frames
      BY <1>1
    <3>3. y \in Seq(Frames) /\ Len(y) = Len(wire[e]) - n
          /\ \A i \in 1 .. Len(y) : y[i] = wire[e][i + n]
      BY <1>1, <3>2
    <3>4. IsRest(y, wire[e])
      BY <3>2, <3>3 DEF IsRest
    <3> QED  BY <3>1, <3>3, <3>4
  <2> QED  BY <2>1, <2>2
<1>3. \A d \in Ends : Writes(d)
  <2>1. Writes(e)
    BY <1>1, <1>2, WritesNothing
  <2>2. ASSUME NEW d \in Ends, d # e PROVE Writes(d)
    <3>1. wire[d] \in Seq(Frames) /\ wire'[d] = wire[d]
      BY <1>1, <1>2, <2>2
    <3> QED  BY <3>1, WholeRest, WritesNothing
  <2> QED  BY <2>1, <2>2
<1> QED  BY <1>1, <1>3, SameLinks, QuietStream

\* What a retransmission writes: the packets that are out, each under its own
\* number, whatever txbuf holds from earlier rounds.
LEMMA RetransmissionWritten ==
  ASSUME StpInv, StreamInv, NEW e \in Ends
  PROVE  Written(Retransmission(e), e)
<1> DEFINE p == Peer(e)
           s == sent[e]
           g == acked[p]
           r == Released(e)
           c == sequence[e]
           a == c.rxack
           x == sequence[p].expected_rxseq
           ta == sequence[p].txack
           n == Unacked(c)
           At(k) == Ahead(a, k)
           old(k) == DataFrame(At(k), c.txack, txbuf[e][At(k)])
           resent == [k \in 1 .. n |-> old(k)]
           u == Retransmission(e)
<1>1. /\ s \in Nat /\ g \in Nat /\ r \in Nat /\ r <= g /\ g <= s
      /\ a \in Seqs /\ ta \in Seqs /\ Dist(a, ta) = g - r /\ x = Inc(ta) /\ x \in Seqs
      /\ Kept(txbuf[e], a, r, s) /\ n = s - r /\ n <= WinSize
  BY Between DEF Typed, Direction, Agree
<1>2. u \in Seq(Frames)
  BY RetransmissionType DEF StpInv
<1>3. ASSUME NEW k \in 1 .. n
      PROVE  OfWindow(old(k), x, g, s) /\ old(k).ack = c.txack
  <2>1. PICK m \in Nat : m = r + k
    BY <1>1
  <2>2. txbuf[e][At(k)] = m
    BY <1>1, <2>1 DEF Kept
  <2>3. s - WinSize < m /\ m <= s
    BY <1>1, <2>1, LimitType
  <2>4. At(k) = Shift(x, m - (g + 1))
    <3>1. k \in Nat /\ 0 < k /\ k < SeqSize
      BY <1>1, LimitType
    <3>2. At(k) = Shift(Inc(ta), k - Dist(a, ta) - 1)
      BY <1>1, <3>1, AheadShift
    <3>3. k - Dist(a, ta) - 1 = m - (g + 1)
      BY <1>1, <2>1, <3>1
    <3> QED  BY <1>1, <3>2, <3>3
  <2>5. OfWindow(DataFrame(At(k), c.txack, m), x, g, s)
    BY <2>3, <2>4, WindowFrame, Zenon
  <2>6. DataFrame(At(k), c.txack, m).ack = c.txack
    BY DEF DataFrame
  <2> QED  BY <2>2, <2>5, <2>6, Zenon
<1> HIDE DEF old
<1>4. CASE n = 0
  <2>1. u = <<>>
    BY <1>4 DEF Retransmission
  <2> QED  BY <2>1 DEF Written, OfTheWindow
<1>5. CASE n # 0
  <2>1. u = <<Resync>> \o resent
    BY <1>5 DEF Retransmission, old
  <2>2. n \in Nat /\ n >= 1
    BY <1>1, <1>5
  <2>3. /\ Len(resent) = n /\ \A k \in 1 .. n : resent[k] = old(k)
        /\ Len(<<Resync>>) = 1
    BY <2>2
  <2>4. resent \in Seq(Frames)
    <3>1. \A k \in 1 .. n : old(k) \in Frames
      <4>1. \A k \in 1 .. n : u[k + 1] = old(k) /\ k + 1 \in 1 .. Len(u)
        BY <2>1, <2>2, <2>3
      <4> QED  BY <1>2, <4>1
    <3> QED  BY <2>2, <3>1
  <2>5. ASSUME NEW i \in 1 .. Len(u)
        PROVE  u[i] = Resync \/ \E k \in 1 .. n : u[i] = old(k)
    <3> DEFINE w == <<Resync>>
    <3>1. w \in Seq(Frames) /\ Len(w) = 1 /\ w[1] = Resync /\ u = w \o resent
      BY <2>1, FrameType
    <3> HIDE DEF w, resent, u
    <3>2. \/ i \in 1 .. Len(w) /\ (w \o resent)[i] = w[i]
          \/ i - Len(w) \in 1 .. Len(resent) /\ (w \o resent)[i] = resent[i - Len(w)]
      BY <2>4, <3>1, Joined, Zenon
    <3> QED  BY <2>3, <3>1, <3>2
  <2>6. Resync.kind = "resync" /\ OfWindow(Resync, x, g, s)
    BY DEF Resync, OfWindow
  <2> HIDE DEF u, x, g, s
  <2>7. OfTheWindow(u, x, g, s)
    BY <1>3, <2>5, <2>6, Zenon DEF OfTheWindow
  <2>8. \A i \in 1 .. Len(u) : u[i].kind # "resync" => u[i].ack = c.txack
    BY <1>3, <2>5, <2>6, Zenon
  <2> QED  BY <1>2, <2>7, <2>8, Zenon DEF Written, u, x, g, s
<1> QED  BY <1>4, <1>5

\* A retransmission, or none because the limit is passed.
LEMMA TimeoutStream ==
  ASSUME StpInv, StreamInv, NEW e \in Ends, DoTxTimeout(e)
  PROVE  StreamInv' /\ \A d \in Ends : Moves(d)
<1>1. UNCHANGED <<txbuf, sent, acked, got>> /\ wire \in [Ends -> Seq(Frames)]
      /\ sequence \in [Ends -> SequenceContext]
  BY DEF DoTxTimeout, StpInv, TypeOK
<1>2. CASE sequence[e].retry_times > RetryLimit
  <2>1. UNCHANGED <<sequence, wire>>
    BY <1>2 DEF DoTxTimeout
  <2> QED  BY <1>1, <2>1, StillStream
<1>3. CASE ~(sequence[e].retry_times > RetryLimit)
  <2>1. PICK pending \in BOOLEAN :
          /\ wire' = [wire EXCEPT ![e] = wire[e] \o Retransmission(e)]
          /\ sequence' = [sequence EXCEPT ![e] = Retried(e, pending).seq]
    BY <1>3 DEF DoTxTimeout
  <2>2. SameLink(Retried(e, pending).seq, sequence[e])
    BY <1>1 DEF Retried, SameLink, SequenceContext
  <2>3. \A d \in Ends : SameLink(sequence'[d], sequence[d])
    <3>1. sequence'[e] = Retried(e, pending).seq /\ \A d \in Ends \ {e} : sequence'[d] = sequence[d]
      BY <1>1, <2>1
    <3> QED  BY <2>2, <3>1 DEF SameLink
  <2>4. Written(Retransmission(e), e)
    BY RetransmissionWritten
  <2>5. Writes(e)
    <3>1. wire[e] \in Seq(Frames) /\ wire'[e] = wire[e] \o Retransmission(e)
      BY <1>1, <2>1
    <3>2. IsRest(wire[e], wire[e]) /\ Retransmission(e) \in Seq(Frames)
      BY <2>4, <3>1, WholeRest DEF Written
    <3> QED  BY <2>4, <3>1, <3>2 DEF Writes
  <2>6. ASSUME NEW d \in Ends, d # e PROVE Writes(d)
    <3>1. wire[d] \in Seq(Frames) /\ wire'[d] = wire[d]
      BY <1>1, <2>1, <2>6
    <3> QED  BY <3>1, WholeRest, WritesNothing
  <2> QED  BY <1>1, <2>3, <2>5, <2>6, QuietStream
<1> QED  BY <1>2, <1>3

\* A packet is sent.
LEMMA SendStream ==
  ASSUME StpInv, StreamInv, NEW e \in Ends, Send(e)
  PROVE  StreamInv' /\ \A d \in Ends : Moves(d)
<1> DEFINE p == Peer(e)
           c == sequence[e]
           f == DataFrame(c.txseq, c.txack, sent[e] + 1)
           u == <<f>>
<1>1. /\ p \in Ends /\ p # e /\ Peer(p) = e /\ \A d \in Ends : d = e \/ d = p
  BY TwoEnds
<1>2. /\ sent \in [Ends -> Nat] /\ wire \in [Ends -> Seq(Frames)] /\ acked' = acked /\ got' = got
      /\ txbuf \in [Ends -> [Seqs -> Nat]] /\ sequence \in [Ends -> SequenceContext]
      /\ wire[e] \in Seq(Frames) /\ c.txseq \in Seqs /\ c.txack \in Seqs
      /\ c.winspace \in 0 .. WinSize /\ c.winspace > 0
  BY DEF Send, StpInv, TypeOK, SequenceContext
<1>3. f \in Frames /\ f.ack = c.txack
  <2>1. sent[e] + 1 \in Nat
    BY <1>2
  <2> QED  BY <1>2, <2>1, FrameType DEF DataFrame
<1>4. wire' = [wire EXCEPT ![e] = wire[e] \o u]
  <2>1. wire' = [wire EXCEPT ![e] = Append(wire[e], f)]
    BY <1>2 DEF Send
  <2>2. Append(wire[e], f) = wire[e] \o u
    BY <1>2, <1>3, AppendIsConcat, Zenon
  <2> QED  BY <2>1, <2>2
<1>5. wire'[e] = wire[e] \o u /\ wire'[p] = wire[p]
  BY <1>1, <1>2, <1>4
<1>6. sent'[e] = sent[e] + 1 /\ sent'[p] = sent[p]
  BY <1>1, <1>2 DEF Send
<1>7. txbuf'[e] = [txbuf[e] EXCEPT ![c.txseq] = sent[e] + 1] /\ txbuf'[p] = txbuf[p]
  BY <1>1, <1>2 DEF Send
<1>8. /\ sequence'[p] = sequence[p]
      /\ sequence'[e].rxack = c.rxack /\ sequence'[e].txack = c.txack
      /\ sequence'[e].expected_rxseq = c.expected_rxseq /\ sequence'[e].winspace = c.winspace - 1
  BY <1>1, <1>2 DEF Send, SequenceContext
<1>9. Released(e)' = Released(e)
  BY <1>2, <1>6, <1>8, LimitType DEF Released
<1>10. Released(p)' = Released(p)
  BY <1>6, <1>8 DEF Released
<1>11. sent[e] - Released(e) < WinSize
  BY <1>2, LimitType DEF Released
<1>12. From(e)' /\ Moves(e)
  <2> DEFINE s == sent[e]
             g == acked[p]
             r == Released(e)
             a == c.rxack
             ta == sequence[p].txack
             x == sequence[p].expected_rxseq
             buf == txbuf[e]
             w == wire[e]
             v == wire[p]
  <2>1. Typed(s, g, r, a, ta, x, buf, w, v) /\ Direction(s, g, r, a, ta, x, buf, w, v)
        /\ Dist(Inc(a), c.txseq) = s - r
    BY Between DEF Unacked
  <2> HIDE DEF s, g, r, a, ta, x, buf, w, v
  <2>2. Direction(s + 1, g, r, a, ta, x, [buf EXCEPT ![c.txseq] = s + 1],
                  w \o <<DataFrame(c.txseq, c.txack, s + 1)>>, v)
    BY <1>2, <1>11, <2>1, DirectionSend DEF s, r
  <2>3. From(e)'
    BY <1>2, <1>5, <1>6, <1>7, <1>8, <1>9, <2>2 DEF From, s, g, r, a, ta, x, buf, w, v
  <2>4. Moves(e)
    BY <1>2, <1>6, <1>9, <1>11 DEF Moves, Advance
  <2> QED  BY <2>3, <2>4
<1>13. From(p)' /\ Moves(p)
  <2> DEFINE s == sent[p]
             g == acked[e]
             r == Released(p)
             a == sequence[p].rxack
             ta == c.txack
             x == c.expected_rxseq
             buf == txbuf[p]
             w == wire[p]
             v == wire[e]
  <2>1. Typed(s, g, r, a, ta, x, buf, w, v) /\ Direction(s, g, r, a, ta, x, buf, w, v)
    BY <1>1, Between
  <2>2. u \in Seq(Frames) /\ \A i \in 1 .. Len(u) : u[i].ack = ta
    <3>1. u \in Seq(Frames) /\ \A i \in 1 .. Len(u) : u[i] = f
      BY <1>3
    <3> QED  BY <1>3, <3>1
  <2> HIDE DEF s, g, r, a, ta, x, buf, w, v, u
  <2>3. Direction(s, g, r, a, ta, x, buf, w, v \o u)
    BY <2>1, <2>2, DirectionAnswer
  <2>4. From(p)'
    BY <1>1, <1>2, <1>5, <1>6, <1>7, <1>8, <1>10, <2>3 DEF From, s, g, r, a, ta, x, buf, w, v
  <2>5. Moves(p)
    BY <1>1, <1>2, <1>6, <1>10 DEF Moves, Advance
  <2> QED  BY <2>4, <2>5
<1> QED  BY <1>1, <1>12, <1>13 DEF StreamInv

\* What stp_process_rxack does to the direction in which end e sends, when the
\* first frame in front of e carries the acknowledgement.
LEMMA AckedStream ==
  ASSUME StpInv, StreamInv, NEW e \in Ends, wire[Peer(e)] # <<>>,
         Incoming(e).kind # "resync",
         NEW u \in Seq(Frames), OfTheWindow(u, sequence[Peer(e)].expected_rxseq, acked[Peer(e)], sent[e]),
         wire'[Peer(e)] = Tail(wire[Peer(e)]), wire'[e] = wire[e] \o u,
         sent'[e] = sent[e], acked'[Peer(e)] = acked[Peer(e)], got'[Peer(e)] = got[Peer(e)],
         txbuf'[e] = txbuf[e], sequence'[Peer(e)] = sequence[Peer(e)],
         sequence'[e].rxack = Acknowledged(sequence[e], Incoming(e).ack).rxack,
         sequence'[e].winspace = Acknowledged(sequence[e], Incoming(e).ack).winspace
  PROVE  From(e)' /\ Moves(e)
<1> DEFINE p == Peer(e)
           s == sent[e]
           g == acked[p]
           r == Released(e)
           a == sequence[e].rxack
           ta == sequence[p].txack
           x == sequence[p].expected_rxseq
           buf == txbuf[e]
           w == wire[e]
           v == wire[p]
           b == Incoming(e).ack
           n == Dist(a, b)
<1>1. /\ Typed(s, g, r, a, ta, x, buf, w, v) /\ Direction(s, g, r, a, ta, x, buf, w, v)
      /\ Sound(sequence[e]) /\ Unacked(sequence[e]) = s - r /\ s - r <= WinSize
  BY Between
<1>2. Head(v).ack = b /\ Head(v).kind # "resync" /\ v # <<>>
  BY DEF Incoming
<1>3. s \in Nat /\ g \in Nat /\ r \in Nat /\ r <= g /\ g <= s /\ v \in Seq(Frames) /\ w \in Seq(Frames)
  BY <1>1 DEF Typed, Direction, Agree
<1>4. sequence[e].winspace \in Nat
  BY LimitType DEF StpInv, TypeOK, SequenceContext
<1> HIDE DEF s, g, r, a, ta, x, buf, w, v, b
<1>5. b \in Seqs /\ n \in Nat /\ n <= g - r /\ Direction(s, g, r + n, b, ta, x, buf, w, Tail(v))
  BY <1>1, <1>2, DirectionAcked
<1>6. sequence'[e].rxack = b /\ sequence'[e].winspace = sequence[e].winspace + n
  <2>1. Dist(sequence[e].rxack, b) <= Unacked(sequence[e])
    BY <1>1, <1>3, <1>5 DEF a
  <2>2. LET t == Acknowledged(sequence[e], b) IN
        t.rxack = b /\ t.winspace = sequence[e].winspace + Dist(sequence[e].rxack, b)
    BY <1>1, <1>5, <2>1, AckAdvance
  <2> QED  BY <2>2 DEF b, a
<1> HIDE DEF n
<1>7. Released(e)' = r + n
  <2>1. Released(e)' = s - (WinSize - (sequence[e].winspace + n))
    BY <1>6 DEF Released, s
  <2>2. r = s - (WinSize - sequence[e].winspace)
    BY DEF Released, r, s
  <2>3. PICK m \in Nat : m = sequence[e].winspace
    BY <1>4
  <2>4. s - (WinSize - (m + n)) = s - (WinSize - m) + n
    <3>1. s \in Int /\ m \in Int /\ n \in Int /\ WinSize \in Int
      BY <1>3, <1>5, <2>3, LimitType
    <3> QED  BY <3>1, SMTT(30)
  <2> QED  BY <2>1, <2>2, <2>3, <2>4
<1>8. Typed(s, g, r + n, b, ta, x, buf, w, Tail(v))
  BY <1>1, <1>2, <1>3, <1>5, FirstFrame DEF Typed
<1>9. Direction(s, g, r + n, b, ta, x, buf, w \o u, Tail(v))
  BY <1>5, <1>8, DirectionWrite DEF x, g, s
<1>10. From(e)'
  BY <1>6, <1>7, <1>9 DEF From, s, g, ta, x, buf, w, v
<1>11. Moves(e)
  <2>1. r + n = r \/ r + n \in r + 1 .. g
    BY <1>3, <1>5
  <2> QED  BY <1>7, <2>1 DEF Moves, Advance, s, g, r
<1> QED  BY <1>10, <1>11

\* An acknowledgement without data.
LEMMA AckStream ==
  ASSUME StpInv, StreamInv, NEW e \in Ends, wire[Peer(e)] # <<>>, RecvAck(e)
  PROVE  StreamInv' /\ \A d \in Ends : Moves(d)
<1> DEFINE p == Peer(e)
           t == Acknowledged(sequence[e], Incoming(e).ack)
<1>1. /\ p \in Ends /\ p # e /\ Peer(p) = e /\ \A d \in Ends : d = e \/ d = p
  BY TwoEnds
<1>2. /\ Parse(e, <<>>) /\ UNCHANGED <<txbuf, sent, acked, got>> /\ Incoming(e).kind = "ack"
      /\ sequence \in [Ends -> SequenceContext] /\ TypeOK
      /\ sequence' = [sequence EXCEPT ![e] = t]
  BY DEF RecvAck, StpInv, TypeOK
<1>3. sequence'[e] = t /\ sequence'[p] = sequence[p]
  BY <1>1, <1>2
<1>4. <<>> \in Seq(Frames)
  OBVIOUS
<1>5. /\ wire'[p] = Tail(wire[p]) /\ wire'[e] = wire[e] \o <<>>
      /\ wire[e] \in Seq(Frames) /\ wire[p] \in Seq(Frames) /\ Tail(wire[p]) \in Seq(Frames)
      /\ IsRest(Tail(wire[p]), wire[p]) /\ Incoming(e) \in Frames
  BY <1>2, <1>4, Parsed
<1>6. From(e)' /\ Moves(e)
  <2>1. OfTheWindow(<<>>, sequence[p].expected_rxseq, acked[p], sent[e])
    BY DEF OfTheWindow
  <2> QED  BY <1>1, <1>2, <1>3, <1>4, <1>5, <2>1, AckedStream
<1>7. From(p)' /\ Moves(p)
  <2>1. SameLink(t, sequence[e]) \/ (t.txack = sequence[e].txack /\ t.expected_rxseq = sequence[e].expected_rxseq)
    BY <1>2 DEF Acknowledged, SameLink, SequenceContext
  <2>2. t.txack = sequence[e].txack /\ t.expected_rxseq = sequence[e].expected_rxseq
    BY <2>1 DEF SameLink
  <2> DEFINE s == sent[p]
             g == acked[e]
             r == Released(p)
             a == sequence[p].rxack
             ta == sequence[e].txack
             x == sequence[e].expected_rxseq
             buf == txbuf[p]
             w == wire[p]
             v == wire[e]
  <2>3. Typed(s, g, r, a, ta, x, buf, w, v) /\ Direction(s, g, r, a, ta, x, buf, w, v)
    BY <1>1, Between
  <2>4. IsRest(v, v) /\ wire'[e] = v
    BY <1>5, WholeRest
  <2>5. Released(p)' = r
    BY <1>1, <1>2, <1>3 DEF Released
  <2> HIDE DEF t, s, g, r, a, ta, x, buf, w, v
  <2>6. Tail(w) \in Seq(Frames) /\ IsRest(Tail(w), w) /\ v \in Seq(Frames)
    BY <1>5 DEF w, v
  <2>7. Direction(s, g, r, a, ta, x, buf, Tail(w), v)
    BY <2>3, <2>4, <2>6, DirectionRest
  <2>8. From(p)'
    BY <1>1, <1>2, <1>3, <1>5, <2>2, <2>4, <2>5, <2>7 DEF From, s, g, a, ta, x, buf, w
  <2>9. Moves(p)
    BY <1>1, <1>2, <2>5 DEF Moves, Advance, r
  <2> QED  BY <2>8, <2>9
<1> QED  BY <1>1, <1>6, <1>7 DEF StreamInv

\* The expected packet: taken over and acknowledged, and the acknowledgement it
\* carries taken note of, in one step.
LEMMA ExpectedStream ==
  ASSUME StpInv, StreamInv, NEW e \in Ends, wire[Peer(e)] # <<>>, RecvExpected(e)
  PROVE  StreamInv' /\ \A d \in Ends : Moves(d)
<1> DEFINE p == Peer(e)
           f == Incoming(e)
           t == Acknowledged(sequence[e], f.ack)
           u == <<AckFrame(f.seq)>>
<1>1. /\ p \in Ends /\ p # e /\ Peer(p) = e /\ \A d \in Ends : d = e \/ d = p
  BY TwoEnds
<1>2. /\ Parse(e, u) /\ UNCHANGED <<txbuf, sent>> /\ f.kind = "data" /\ TypeOK
      /\ f.seq = t.expected_rxseq
      /\ acked' = [acked EXCEPT ![e] = f.pay] /\ acked \in [Ends -> Nat]
      /\ got' \in {got, [got EXCEPT ![e] = @ + 1]} /\ got \in [Ends -> Nat]
      /\ sequence \in [Ends -> SequenceContext]
  BY DEF RecvExpected, StpInv, TypeOK
<1>3. f \in Frames
  <2>1. wire[p] \in Seq(Frames)
    BY <1>1, <1>2 DEF TypeOK
  <2> QED  BY <2>1, FirstFrame DEF Incoming
<1>4. f.seq \in Seqs /\ f.ack \in Seqs /\ f.pay \in Nat
  BY <1>3 DEF Frames
<1>5. u \in Seq(Frames) /\ \A i \in 1 .. Len(u) : u[i] = AckFrame(f.seq)
  BY <1>4, FrameType
<1>6. /\ wire'[p] = Tail(wire[p]) /\ wire'[e] = wire[e] \o u
      /\ wire[e] \in Seq(Frames) /\ wire[p] \in Seq(Frames) /\ f = Head(wire[p])
  <2> HIDE DEF u
  <2> QED  BY <1>2, <1>5, Parsed
<1>7. Sound(t) /\ t \in SequenceContext
  <2>1. Sound(sequence[e])
    BY DEF StpInv, TypeOK, WindowExact, Sound
  <2> QED  BY <1>4, <2>1, AckSound DEF Sound
<1>8. t.txack = sequence[e].txack /\ t.expected_rxseq = sequence[e].expected_rxseq
  <2>1. sequence[e] \in SequenceContext
    BY <1>2
  <2> QED  BY <2>1 DEF Acknowledged, SequenceContext
<1>9. /\ sequence'[p] = sequence[p]
      /\ sequence'[e].rxack = t.rxack /\ sequence'[e].winspace = t.winspace
      /\ sequence'[e].txack = f.seq /\ sequence'[e].expected_rxseq = Inc(f.seq)
  <2>1. sequence' = [sequence EXCEPT ![e] =
          [t EXCEPT !.rx_resync = FALSE, !.txack = f.seq, !.expected_rxseq = Inc(@)]]
    BY DEF RecvExpected
  <2> HIDE DEF t, f
  <2>2. sequence'[p] = sequence[p] /\ sequence'[e] =
          [t EXCEPT !.rx_resync = FALSE, !.txack = f.seq, !.expected_rxseq = Inc(@)]
    BY <1>1, <1>2, <2>1
  <2> QED  BY <1>2, <1>7, <2>2 DEF SequenceContext
<1>10. /\ acked'[p] = acked[p] /\ acked'[e] = f.pay
       /\ got'[p] = got[p] /\ got'[e] \in {got[e], got[e] + 1}
  BY <1>1, <1>2
<1>11. From(e)' /\ Moves(e)
  <2>1. AckFrame(f.seq).kind = "ack"
    BY DEF AckFrame
  <2> HIDE DEF u
  <2>2. OfTheWindow(u, sequence[p].expected_rxseq, acked[p], sent[e])
    BY <1>5, <2>1 DEF OfTheWindow, OfWindow
  <2> HIDE DEF p
  <2>3. Incoming(e).kind # "resync" /\ sent'[e] = sent[e] /\ txbuf'[e] = txbuf[e]
    BY <1>2
  <2> QED  BY <1>1, <1>5, <1>6, <1>9, <1>10, <2>2, <2>3, AckedStream DEF p
<1>12. From(p)' /\ Moves(p)
  <2> DEFINE s == sent[p]
             g == acked[e]
             r == Released(p)
             a == sequence[p].rxack
             ta == sequence[e].txack
             x == sequence[e].expected_rxseq
             buf == txbuf[p]
             w == wire[p]
             v == wire[e]
  <2>1. /\ Typed(s, g, r, a, ta, x, buf, w, v) /\ Direction(s, g, r, a, ta, x, buf, w, v)
        /\ s - r <= WinSize
    BY <1>1, Between
  <2>2. w # <<>> /\ Head(w).kind = "data" /\ Head(w).seq = x /\ f = Head(w) /\ f.seq = x
    BY <1>2, <1>6, <1>8
  <2>3. Released(p)' = r
    BY <1>1, <1>2, <1>9 DEF Released
  <2>4. wire'[p] = Tail(w) /\ wire'[e] = v \o <<AckFrame(x)>>
    BY <1>6, <2>2
  <2>5. sequence'[e].txack = x /\ sequence'[e].expected_rxseq = Inc(x) /\ sequence'[p].rxack = a
    BY <1>9, <2>2
  <2> HIDE DEF t, u, f, s, g, r, a, ta, x, buf, w, v
  <2>6. /\ Head(w).pay = g + 1 /\ g < s
        /\ Direction(s, g + 1, r, a, x, Inc(x), buf, Tail(w), v \o <<AckFrame(x)>>)
    BY <2>1, <2>2, DirectionArrive
  <2>7. acked'[e] = g + 1
    BY <1>10, <2>2, <2>6
  <2>8. sent'[p] = s /\ txbuf'[p] = buf
    BY <1>2 DEF s, buf
  <2>9. From(p)'
    BY <1>1, <2>3, <2>4, <2>5, <2>6, <2>7, <2>8 DEF From
  <2>10. Moves(p)
    BY <1>1, <1>10, <2>3, <2>6, <2>7, <2>8 DEF Moves, Advance, s, g, r
  <2> QED  BY <2>9, <2>10
<1> QED  BY <1>1, <1>11, <1>12 DEF StreamInv

\* Both directions start over.
LEMMA FreshStream ==
  ASSUME NEW buf
  PROVE  /\ Direction(0, 0, 0, FreshSequence.rxack, FreshSequence.txack,
                      FreshSequence.expected_rxseq, buf, <<>>, <<>>)
         /\ 0 - (WinSize - FreshSequence.winspace) = 0
<1>1. /\ FreshSequence.rxack = SeqSize - 1 /\ FreshSequence.txack = SeqSize - 1
      /\ FreshSequence.expected_rxseq = 0 /\ FreshSequence.winspace = WinSize
  BY DEF FreshSequence
<1>2. Agree(0, 0, 0, SeqSize - 1, SeqSize - 1, 0)
  BY LimitType DEF Agree, Dist, Inc
<1>3. Kept(buf, SeqSize - 1, 0, 0)
  BY DEF Kept
<1>4. DataWire(<<>>, 0, 0, 0) /\ AckWire(<<>>, SeqSize - 1, 0 - 0)
  BY DEF DataWire, AckWire
<1>5. 0 - (WinSize - WinSize) = 0
  BY LimitType
<1> QED  BY <1>1, <1>2, <1>3, <1>4, <1>5 DEF Direction

\* The chip starts over, in the middle of anything.
LEMMA RestartStream ==
  ASSUME StpInv, StreamInv, Restart
  PROVE  StreamInv' /\ \A d \in Ends : Moves(d)
<1> SUFFICES ASSUME NEW d \in Ends PROVE From(d)' /\ Moves(d)
  BY DEF StreamInv
<1>1. Peer(d) \in Ends
  BY TwoEnds
<1>2. /\ sent'[d] = 0 /\ acked'[Peer(d)] = 0 /\ got'[Peer(d)] = 0 /\ wire'[d] = <<>> /\ wire'[Peer(d)] = <<>>
      /\ sequence'[d] = FreshSequence /\ sequence'[Peer(d)] = FreshSequence
  BY <1>1 DEF Restart
<1>3. Released(d)' = 0
  BY <1>2, FreshStream DEF Released
<1>4. From(d)'
  BY <1>2, <1>3, FreshStream DEF From
<1> QED  BY <1>2, <1>3, <1>4 DEF Moves, Advance

\* At the start nothing is sent and nothing under way.
LEMMA StreamInit == Init => StreamInv
<1> SUFFICES ASSUME Init, NEW d \in Ends PROVE From(d)
  BY DEF StreamInv
<1>1. Peer(d) \in Ends
  BY TwoEnds
<1>2. /\ sent[d] = 0 /\ acked[Peer(d)] = 0 /\ wire[d] = <<>> /\ wire[Peer(d)] = <<>>
      /\ sequence[d] = FreshSequence /\ sequence[Peer(d)] = FreshSequence
  BY <1>1 DEF Init
<1>3. Released(d) = 0
  BY <1>2, FreshStream DEF Released
<1> QED  BY <1>2, <1>3, FreshStream DEF From

\* Every step keeps both directions right and is a step of ReliableStream, or
\* none, in each of them.
LEMMA StreamStep ==
  ASSUME StpInv, StreamInv, [Next]_vars
  PROVE  StreamInv' /\ \A d \in Ends : Moves(d)
<1>1. ASSUME NEW e \in Ends, Send(e) PROVE StreamInv' /\ \A d \in Ends : Moves(d)
  BY <1>1, SendStream
<1>2. ASSUME NEW e \in Ends, TimerFires(e) PROVE StreamInv' /\ \A d \in Ends : Moves(d)
  <2>1. UNCHANGED <<sequence, wire, txbuf, sent, acked, got>>
    BY <1>2 DEF TimerFires
  <2> QED  BY <2>1, StillStream
<1>3. ASSUME NEW e \in Ends, DoTxTimeout(e) PROVE StreamInv' /\ \A d \in Ends : Moves(d)
  BY <1>3, TimeoutStream
<1>4. ASSUME NEW e \in Ends, Receive(e) PROVE StreamInv' /\ \A d \in Ends : Moves(d)
  BY <1>4, DroppedStream, ResyncStream, AckStream, ExpectedStream, UnexpectedStream DEF Receive
<1>5. ASSUME NEW e \in Ends, Lose(e) \/ Garble(e) PROVE StreamInv' /\ \A d \in Ends : Moves(d)
  BY <1>5, LostStream
<1>6. CASE Restart
  BY <1>6, RestartStream
<1>7. CASE UNCHANGED vars
  <2>1. UNCHANGED <<sequence, wire, txbuf, sent, acked, got>>
    BY <1>7 DEF vars
  <2> QED  BY <2>1, StillStream
<1> QED  BY <1>1, <1>2, <1>3, <1>4, <1>5, <1>6, <1>7 DEF Next

\* The frames under way, the buffer and the two ends always agree about which
\* packet is which.
THEOREM StreamInvariant == Spec => []StreamInv
<1>1. StpInv /\ StreamInv /\ [Next]_vars => StreamInv'
  BY StreamStep
<1> QED  BY <1>1, StreamInit, StpInvariant, PTL DEF Spec

\* In both directions every packet arrives once and in order, whatever frames are
\* lost and however early a timeout comes, and its sender keeps it until then; it
\* is handed to its function, or dropped by the receiver that has acknowledged it.
THEOREM StreamImplemented == Spec => ImplementsStream
<1>1. Init => ToFw!Init /\ ToHost!Init
  <2> SUFFICES ASSUME Init PROVE ToFw!Init /\ ToHost!Init
    OBVIOUS
  <2>1. \A d \in Ends : sent[d] = 0 /\ acked[d] = 0 /\ got[d] = 0 /\ sequence[d] = FreshSequence
    BY DEF Init
  <2>2. \A d \in Ends : Released(d) = 0
    BY <2>1, FreshStream DEF Released
  <2> QED  BY <2>1, <2>2 DEF Ends, ToFw!Init, ToHost!Init
<1>2. StpInv /\ StreamInv /\ [Next]_vars
        => [ToFw!Next]_<<sent["host"], acked["fw"], got["fw"], Released("host")>>
  <2> SUFFICES ASSUME StpInv, StreamInv, [Next]_vars
               PROVE  [ToFw!Next]_<<sent["host"], acked["fw"], got["fw"], Released("host")>>
    OBVIOUS
  <2>1. Moves("host") /\ Peer("host") = "fw"
    BY StreamStep DEF Ends, Peer
  <2> QED
    BY <2>1
    DEF Moves, Advance, ToFw!Next, ToFw!Send, ToFw!Deliver, ToFw!Drop, ToFw!Release, ToFw!Restart
<1>3. StpInv /\ StreamInv /\ [Next]_vars
        => [ToHost!Next]_<<sent["fw"], acked["host"], got["host"], Released("fw")>>
  <2> SUFFICES ASSUME StpInv, StreamInv, [Next]_vars
               PROVE  [ToHost!Next]_<<sent["fw"], acked["host"], got["host"], Released("fw")>>
    OBVIOUS
  <2>1. Moves("fw") /\ Peer("fw") = "host"
    BY StreamStep DEF Ends, Peer
  <2> QED
    BY <2>1
    DEF Moves, Advance, ToHost!Next, ToHost!Send, ToHost!Deliver, ToHost!Drop, ToHost!Release, ToHost!Restart
<1> QED
  BY <1>1, <1>2, <1>3, StpInvariant, StreamInvariant, PTL
  DEF Spec, ImplementsStream, ToFw!Spec, ToHost!Spec

----------------------------------------------------------------------------
(* The loss of one frame.  What follows speaks of a link on which nothing      *)
(* worse than the loss of one frame has happened: every timeout has found the  *)
(* wires empty, no receive ring was full and no header was damaged.            *)

\* Between places i and j of a wire there are only acknowledgements.
Silent(w, i, j) == \A k \in i + 1 .. j - 1 : w[k].kind = "ack"

\* A packet follows the one before it, or begins a retransmission with a packet
\* that the receiver has or that it expects.
Follows(f, h, g) ==
  h.kind = "data" => IF f.kind = "data" THEN h.pay = f.pay + 1 ELSE h.pay <= g + 1

\* Within a wire nothing is missing: only its head can be lost.  The last packet
\* on it is the last one sent.
Chain(w, g, s) ==
  /\ \A i, j \in 1 .. Len(w) :
       i < j /\ w[i].kind # "ack" /\ Silent(w, i, j) => Follows(w[i], w[j], g)
  /\ \A i \in 1 .. Len(w) :
       w[i].kind # "ack" /\ Silent(w, i, Len(w) + 1) => w[i].kind = "data" /\ w[i].pay = s

\* A frame that the receiver, whose context says x, b and q, does not count as
\* odd: the expected packet, or one more of a run that follows a resync pattern.
Due(f, g, x, b, q) ==
  f.kind = "data" =>
    /\ f.pay <= g + 1
    /\ f.seq = x \/ (b /\ (q = Unset \/ f.seq = Inc(q)))

\* The receiver has missed nothing.
InStep(w, g, s, x, b, q) ==
  /\ \A i \in 1 .. Len(w) : Silent(w, 0, i) => Due(w[i], g, x, b, q)
  /\ Silent(w, 0, Len(w) + 1) => g = s

\* What c odd packets leave of the limit when packet y comes next: those from
\* the missing one on, or those of a window that is repeated without its pattern.
Room(c, g, y) == IF y > g + 1 THEN c + g + 2 <= y ELSE c + g + 1 <= y + WinSize

\* The receiver has missed a frame, and counts what is in front of the next
\* resync pattern.
Behind(w, g, s, c) ==
  /\ \A i \in 1 .. Len(w) : Silent(w, 0, i) /\ w[i].kind = "data" => Room(c, g, w[i].pay)
  /\ Silent(w, 0, Len(w) + 1) => Room(c, g, s + 1)

\* What the receiver makes of the wire after n losses.
Front(w, g, s, x, b, q, c, n) ==
  /\ InStep(w, g, s, x, b, q) \/ (n = 1 /\ Behind(w, g, s, c))
  /\ c <= WinSize
  /\ n = 0 => c = 0

\* Packet x is on the wire; a frame without data acknowledges k packets more
\* than the sender knows of.
Copy(w, i, x) == w[i].kind = "data" /\ w[i].pay = x
AckOf(v, j, a, k) == v[j].kind = "ack" /\ Dist(a, v[j].ack) >= k

\* Every packet that is out will be taken over, or its acknowledgement comes.
Covered(w, v, a, r, s) ==
  \A k \in 1 .. s - r : \/ \E i \in 1 .. Len(w) : Copy(w, i, r + k)
                        \/ \E j \in 1 .. Len(v) : AckOf(v, j, a, k)

\* A frame that will make the sender's next packet acknowledged, and two of them.
OneWay(w, v, a, r) == \/ \E i \in 1 .. Len(w) : Copy(w, i, r + 1)
                      \/ \E j \in 1 .. Len(v) : AckOf(v, j, a, 1)
TwoWays(w, v, a, r) ==
  \/ \E i, j \in 1 .. Len(w) : i < j /\ Copy(w, i, r + 1) /\ Copy(w, j, r + 1)
  \/ \E i, j \in 1 .. Len(v) : i < j /\ AckOf(v, i, a, 1) /\ AckOf(v, j, a, 1)
  \/ \E i \in 1 .. Len(w), j \in 1 .. Len(v) : Copy(w, i, r + 1) /\ AckOf(v, j, a, 1)

\* A sender that has repeated its packets has two chances to be acknowledged,
\* one after a loss.
Ways(w, v, a, r, s, t, n) ==
  /\ n = 0 => Covered(w, v, a, r, s)
  /\ t > 0 => OneWay(w, v, a, r) /\ (n = 0 => TwoWays(w, v, a, r))

Calm(d) ==
  LET p == Peer(d)
      c == sequence[p]
  IN
  /\ ~asserted[d] /\ rxOk[d] /\ parser[d] = "sync"
  /\ Chain(wire[d], acked[p], sent[d])
  /\ Front(wire[d], acked[p], sent[d], c.expected_rxseq, c.rx_resync, c.rx_resync_seq,
           failCount[p], faults)
  /\ Ways(wire[d], wire[p], sequence[d].rxack, Released(d), sent[d],
          sequence[d].retry_times, faults)
  /\ sequence[d].retry_times + retryOps[d] <= MaxRetryOps

AllCalm == \A d \in Ends : Calm(d)

\* Places between which a wire without its head is silent.
LEMMA SilentTail ==
  ASSUME NEW w \in Seq(Frames), w # <<>>, NEW i \in Nat, NEW j \in Nat, j <= Len(w),
         Silent(Tail(w), i, j)
  PROVE  Silent(w, i + 1, j + 1)
<1> SUFFICES ASSUME NEW k \in i + 1 + 1 .. j + 1 - 1 PROVE w[k].kind = "ack"
  BY DEF Silent
<1>1. k - 1 \in i + 1 .. j - 1 /\ k - 1 \in 1 .. Len(w) - 1
  OBVIOUS
<1>2. Tail(w)[k - 1] = w[k - 1 + 1] /\ k - 1 + 1 = k
  BY <1>1, FirstFrame
<1> QED  BY <1>1, <1>2 DEF Silent

\* ... and two wires one after the other.
LEMMA SilentJoined ==
  ASSUME NEW w \in Seq(Frames), NEW u \in Seq(Frames), NEW i \in Nat, NEW j \in Nat,
         j <= Len(w) + Len(u) + 1, Silent(w \o u, i, j)
  PROVE  /\ j <= Len(w) + 1 => Silent(w, i, j)
         /\ i <= Len(w) /\ j > Len(w) => Silent(w, i, Len(w) + 1) /\ Silent(u, 0, j - Len(w))
         /\ i > Len(w) => Silent(u, i - Len(w), j - Len(w))
<1> DEFINE z == w \o u
<1>1. /\ Len(w) \in Nat /\ Len(u) \in Nat
      /\ \A k \in 1 .. Len(w) : z[k] = w[k]
      /\ \A k \in 1 .. Len(u) : z[k + Len(w)] = u[k]
  OBVIOUS
<1>2. \A k \in i + 1 .. j - 1 : z[k].kind = "ack"
  BY DEF Silent
<1> HIDE DEF z
<1>3. ASSUME j <= Len(w) + 1 PROVE Silent(w, i, j)
  BY <1>1, <1>2, <1>3 DEF Silent
<1>4. ASSUME i <= Len(w), j > Len(w) PROVE Silent(w, i, Len(w) + 1) /\ Silent(u, 0, j - Len(w))
  <2>1. Silent(w, i, Len(w) + 1)
    BY <1>1, <1>2, <1>4 DEF Silent
  <2>2. ASSUME NEW k \in 0 + 1 .. j - Len(w) - 1 PROVE u[k].kind = "ack"
    <3>1. k \in 1 .. Len(u) /\ k + Len(w) \in i + 1 .. j - 1
      BY <1>1, <1>4
    <3> QED  BY <1>1, <1>2, <3>1
  <2> QED  BY <2>1, <2>2 DEF Silent
<1>5. ASSUME i > Len(w) PROVE Silent(u, i - Len(w), j - Len(w))
  <2>1. ASSUME NEW k \in i - Len(w) + 1 .. j - Len(w) - 1 PROVE u[k].kind = "ack"
    <3>1. k \in 1 .. Len(u) /\ k + Len(w) \in i + 1 .. j - 1
      BY <1>1, <1>5
    <3> QED  BY <1>1, <1>2, <3>1
  <2> QED  BY <2>1 DEF Silent
<1> QED  BY <1>3, <1>4, <1>5

\* Losing the head leaves no gap within the wire.
LEMMA ChainTail ==
  ASSUME NEW w \in Seq(Frames), w # <<>>, NEW g, NEW s, Chain(w, g, s)
  PROVE  Chain(Tail(w), g, s)
<1> DEFINE u == Tail(w)
<1>1. /\ u \in Seq(Frames) /\ Len(w) \in Nat /\ Len(u) = Len(w) - 1
      /\ \A i \in 1 .. Len(u) : i + 1 \in 1 .. Len(w) /\ u[i] = w[i + 1]
  BY FirstFrame
<1>2. \A i, j \in Nat : j <= Len(w) /\ Silent(u, i, j) => Silent(w, i + 1, j + 1)
  BY SilentTail
<1> HIDE DEF u
<1>3. ASSUME NEW i \in 1 .. Len(u), NEW j \in 1 .. Len(u), i < j, u[i].kind # "ack", Silent(u, i, j)
      PROVE  Follows(u[i], u[j], g)
  <2>1. Silent(w, i + 1, j + 1)
    BY <1>1, <1>2, <1>3
  <2>2. i + 1 < j + 1
    BY <1>1, <1>3
  <2> QED  BY <1>1, <1>3, <2>1, <2>2 DEF Chain
<1>4. ASSUME NEW i \in 1 .. Len(u), u[i].kind # "ack", Silent(u, i, Len(u) + 1)
      PROVE  u[i].kind = "data" /\ u[i].pay = s
  <2>1. Silent(w, i + 1, Len(w) + 1)
    <3>1. Len(u) + 1 \in Nat /\ Len(u) + 1 <= Len(w) /\ Len(u) + 1 + 1 = Len(w) + 1
      BY <1>1
    <3> QED  BY <1>1, <1>2, <1>4, <3>1
  <2> QED  BY <1>1, <1>4, <2>1 DEF Chain
<1>5. Chain(u, g, s)
  BY <1>3, <1>4 DEF Chain
<1> QED  BY <1>5 DEF u

\* The receiver gets on.
LEMMA ChainGrows ==
  ASSUME NEW w \in Seq(Frames), NEW g \in Nat, NEW h \in Nat, g <= h, NEW s, Chain(w, g, s)
  PROVE  Chain(w, h, s)
<1>1. \A i \in 1 .. Len(w) : w[i].pay \in Nat
  <2>1. \A f \in Frames : f.pay \in Nat
    BY DEF Frames
  <2> QED  BY <2>1
<1>2. \A i, j \in 1 .. Len(w) : Follows(w[i], w[j], g) => Follows(w[i], w[j], h)
  BY <1>1 DEF Follows
<1> QED  BY <1>2 DEF Chain

\* Frames written behind the others: the first packet among them, unless it
\* comes with a resync pattern, is the next one, and without any nothing is sent.
Continues(u, s, t) ==
  /\ \A j \in 1 .. Len(u) : Silent(u, 0, j) /\ u[j].kind = "data" => u[j].pay = s + 1
  /\ Silent(u, 0, Len(u) + 1) => t = s

LEMMA ChainJoined ==
  ASSUME NEW w \in Seq(Frames), NEW u \in Seq(Frames), NEW g, NEW s, NEW t,
         Chain(w, g, s), Chain(u, g, t), Continues(u, s, t)
  PROVE  Chain(w \o u, g, t)
<1> DEFINE z == w \o u
           FromW(i) == i \in 1 .. Len(w) /\ z[i] = w[i]
           FromU(i) == i - Len(w) \in 1 .. Len(u) /\ z[i] = u[i - Len(w)]
<1>1. /\ Len(w) \in Nat /\ Len(u) \in Nat /\ Len(z) = Len(w) + Len(u)
      /\ \A i \in 1 .. Len(z) : FromW(i) \/ FromU(i)
  BY Joined
<1>2. \A i, j \in Nat : j <= Len(z) + 1 /\ Silent(z, i, j) =>
        /\ j <= Len(w) + 1 => Silent(w, i, j)
        /\ i <= Len(w) /\ j > Len(w) => Silent(w, i, Len(w) + 1) /\ Silent(u, 0, j - Len(w))
        /\ i > Len(w) => Silent(u, i - Len(w), j - Len(w))
  BY <1>1, SilentJoined
<1> HIDE DEF z
<1>3. ASSUME NEW i \in 1 .. Len(z), NEW j \in 1 .. Len(z), i < j, z[i].kind # "ack", Silent(z, i, j)
      PROVE  Follows(z[i], z[j], g)
  <2>1. i \in Nat /\ j \in Nat /\ j <= Len(z) + 1
    BY <1>1
  <2>2. CASE FromW(j)
    <3>1. FromW(i) /\ Silent(w, i, j)
      BY <1>1, <1>2, <1>3, <2>1, <2>2
    <3> QED  BY <1>3, <2>2, <3>1 DEF Chain
  <2>3. CASE FromU(j) /\ FromW(i)
    <3>1. Silent(w, i, Len(w) + 1) /\ Silent(u, 0, j - Len(w))
      BY <1>1, <1>2, <1>3, <2>1, <2>3
    <3>2. z[i].kind = "data" /\ z[i].pay = s
      BY <1>3, <2>3, <3>1 DEF Chain
    <3>3. z[j].kind = "data" => z[j].pay = s + 1
      BY <2>3, <3>1 DEF Continues
    <3> QED  BY <3>2, <3>3 DEF Follows
  <2>4. CASE FromU(j) /\ FromU(i)
    <3>1. Silent(u, i - Len(w), j - Len(w)) /\ i - Len(w) < j - Len(w)
      BY <1>1, <1>2, <1>3, <2>1, <2>4
    <3> QED  BY <1>3, <2>4, <3>1 DEF Chain
  <2> QED  BY <1>1, <2>2, <2>3, <2>4
<1>4. ASSUME NEW i \in 1 .. Len(z), z[i].kind # "ack", Silent(z, i, Len(z) + 1)
      PROVE  z[i].kind = "data" /\ z[i].pay = t
  <2>1. i \in Nat /\ Len(z) + 1 \in Nat /\ Len(z) + 1 > Len(w) /\ Len(z) + 1 - Len(w) = Len(u) + 1
    BY <1>1
  <2>2. CASE FromW(i)
    <3>1. Silent(w, i, Len(w) + 1) /\ Silent(u, 0, Len(u) + 1)
      BY <1>1, <1>2, <1>4, <2>1, <2>2
    <3> QED  BY <1>4, <2>2, <3>1 DEF Chain, Continues
  <2>3. CASE FromU(i)
    <3>1. Silent(u, i - Len(w), Len(u) + 1)
      BY <1>1, <1>2, <1>4, <2>1, <2>3
    <3> QED  BY <1>4, <2>3, <3>1 DEF Chain
  <2> QED  BY <1>1, <2>2, <2>3
<1>5. Chain(z, g, t)
  BY <1>3, <1>4 DEF Chain
<1> QED  BY <1>5 DEF z

\* Acknowledgements written.
LEMMA AcksContinue ==
  ASSUME NEW u \in Seq(Frames), \A i \in 1 .. Len(u) : u[i].kind = "ack", NEW g, NEW s
  PROVE  Chain(u, g, s) /\ Continues(u, s, s)
BY DEF Chain, Continues

\* A packet sent.
LEMMA SendContinues ==
  ASSUME NEW f \in Frames, f.kind = "data", NEW s \in Nat, f.pay = s + 1, NEW g
  PROVE  Chain(<<f>>, g, s + 1) /\ Continues(<<f>>, s, s + 1)
<1> DEFINE u == <<f>>
<1>1. Len(u) = 1 /\ u[1] = f /\ 1 \in 0 + 1 .. 1 + 1 - 1
  OBVIOUS
<1> HIDE DEF u
<1>2. ~Silent(u, 0, Len(u) + 1)
  BY <1>1 DEF Silent
<1>3. Chain(u, g, s + 1)
  BY <1>1 DEF Chain
<1>4. Continues(u, s, s + 1)
  BY <1>1, <1>2 DEF Continues
<1> QED  BY <1>3, <1>4 DEF u

\* A resync pattern and the packets r + 1 to s.
IsRepeat(u, r, s) ==
  /\ Len(u) = s - r + 1 /\ u[1].kind = "resync"
  /\ \A i \in 2 .. Len(u) : u[i].kind = "data" /\ u[i].pay = r + i - 1

LEMMA RepeatContinues ==
  ASSUME NEW u \in Seq(Frames), NEW g \in Nat, NEW r \in Nat, NEW s \in Nat, r <= g, r < s,
         IsRepeat(u, r, s)
  PROVE  Chain(u, g, s) /\ Continues(u, s, s)
<1>1. /\ Len(u) \in Nat /\ Len(u) >= 2 /\ Len(u) = s - r + 1 /\ u[1].kind = "resync"
      /\ \A i \in 2 .. Len(u) : u[i].kind = "data" /\ u[i].pay = r + i - 1
  BY DEF IsRepeat
<1>2. ASSUME NEW i \in 1 .. Len(u), NEW j \in 1 .. Len(u), i < j, Silent(u, i, j)
      PROVE  Follows(u[i], u[j], g)
  <2>1. j = i + 1
    <3>1. CASE j > i + 1
      <4>1. i + 1 \in i + 1 .. j - 1 /\ i + 1 \in 2 .. Len(u)
        BY <1>1, <1>2, <3>1
      <4> QED  BY <1>1, <1>2, <4>1 DEF Silent
    <3> QED  BY <1>2, <3>1
  <2>2. CASE i = 1
    BY <1>1, <2>1, <2>2 DEF Follows
  <2>3. CASE i > 1
    BY <1>1, <2>1, <2>3 DEF Follows
  <2> QED  BY <1>1, <2>2, <2>3
<1>3. ASSUME NEW i \in 1 .. Len(u), Silent(u, i, Len(u) + 1) PROVE u[i].kind = "data" /\ u[i].pay = s
  <2>1. i = Len(u)
    <3>1. CASE i < Len(u)
      <4>1. Len(u) \in i + 1 .. Len(u) + 1 - 1 /\ Len(u) \in 2 .. Len(u)
        BY <1>1, <3>1
      <4> QED  BY <1>1, <1>3, <4>1 DEF Silent
    <3> QED  BY <1>1, <3>1
  <2>2. i \in 2 .. Len(u) /\ r + i - 1 = s
    BY <1>1, <2>1
  <2> QED  BY <1>1, <2>2
<1>4. \A j \in 2 .. Len(u) + 1 : ~Silent(u, 0, j)
  <2>1. \A j \in 2 .. Len(u) + 1 : 1 \in 0 + 1 .. j - 1
    BY <1>1
  <2> QED  BY <1>1, <2>1 DEF Silent
<1>5. Continues(u, s, s)
  <2>1. ASSUME NEW j \in 1 .. Len(u), Silent(u, 0, j) PROVE u[j].kind # "data"
    <3>1. j = 1
      BY <1>1, <1>4, <2>1
    <3> QED  BY <1>1, <3>1
  <2> QED  BY <2>1 DEF Continues
<1> QED  BY <1>2, <1>3, <1>5 DEF Chain

\* What comes behind the head of a wire.
LEMMA NextFrame ==
  ASSUME NEW w \in Seq(Frames), w # <<>>, NEW g, NEW s, Chain(w, g, s), Head(w).kind # "ack"
  PROVE  /\ \A i \in 1 .. Len(Tail(w)) :
              Silent(Tail(w), 0, i) => Follows(Head(w), Tail(w)[i], g)
         /\ Silent(Tail(w), 0, Len(Tail(w)) + 1) => Head(w).kind = "data" /\ Head(w).pay = s
<1> DEFINE u == Tail(w)
           f == Head(w)
<1>1. /\ u \in Seq(Frames) /\ Len(w) \in Nat /\ Len(u) = Len(w) - 1 /\ 1 \in 1 .. Len(w) /\ f = w[1]
      /\ \A i \in 1 .. Len(u) : i + 1 \in 1 .. Len(w) /\ 1 < i + 1 /\ u[i] = w[i + 1]
  BY FirstFrame
<1>2. \A j \in Nat : j <= Len(w) /\ Silent(u, 0, j) => Silent(w, 1, j + 1)
  BY SilentTail
<1> HIDE DEF u, f
<1>3. ASSUME NEW i \in 1 .. Len(u), Silent(u, 0, i) PROVE Follows(f, u[i], g)
  <2>1. Silent(w, 1, i + 1)
    BY <1>1, <1>2, <1>3
  <2> QED  BY <1>1, <2>1 DEF Chain, f
<1>4. ASSUME Silent(u, 0, Len(u) + 1) PROVE f.kind = "data" /\ f.pay = s
  <2>1. Len(u) + 1 \in Nat /\ Len(u) + 1 <= Len(w) /\ Len(u) + 1 + 1 = Len(w) + 1
    BY <1>1
  <2>2. Silent(w, 1, Len(w) + 1)
    BY <1>2, <1>4, <2>1
  <2> QED  BY <1>1, <2>2 DEF Chain, f
<1> QED  BY <1>3, <1>4 DEF u, f

\* An acknowledgement at the head changes nothing for the packets behind it.
LEMMA FrontAck ==
  ASSUME NEW w \in Seq(Frames), w # <<>>, Head(w).kind = "ack",
         NEW g, NEW s, NEW x, NEW b, NEW q, NEW c, NEW n, Front(w, g, s, x, b, q, c, n)
  PROVE  Front(Tail(w), g, s, x, b, q, c, n)
<1> DEFINE u == Tail(w)
<1>1. /\ u \in Seq(Frames) /\ Len(w) \in Nat /\ Len(u) = Len(w) - 1 /\ w[1].kind = "ack"
      /\ \A i \in 1 .. Len(u) : i + 1 \in 1 .. Len(w) /\ u[i] = w[i + 1]
  BY FirstFrame
<1>2. ASSUME NEW j \in Nat, j <= Len(w), Silent(u, 0, j) PROVE Silent(w, 0, j + 1)
  <2>1. Silent(w, 1, j + 1)
    BY <1>2, SilentTail
  <2> QED  BY <1>1, <2>1 DEF Silent
<1> HIDE DEF u
<1>3. \A i \in 1 .. Len(u) : Silent(u, 0, i) => Silent(w, 0, i + 1)
  BY <1>1, <1>2
<1>4. Silent(u, 0, Len(u) + 1) => Silent(w, 0, Len(w) + 1)
  BY <1>1, <1>2
<1>5. InStep(w, g, s, x, b, q) => InStep(u, g, s, x, b, q)
  BY <1>1, <1>3, <1>4 DEF InStep
<1>6. Behind(w, g, s, c) => Behind(u, g, s, c)
  BY <1>1, <1>3, <1>4 DEF Behind
<1>7. Front(u, g, s, x, b, q, c, n)
  BY <1>5, <1>6 DEF Front
<1> QED  BY <1>7 DEF u

\* The pattern at the head: what follows is no surprise.
LEMMA FrontResync ==
  ASSUME NEW w \in Seq(Frames), w # <<>>, Head(w).kind = "resync",
         NEW g, NEW s, NEW x, NEW b, NEW q, NEW c, NEW n, Front(w, g, s, x, b, q, c, n),
         Chain(w, g, s)
  PROVE  Front(Tail(w), g, s, x, TRUE, Unset, c, n)
<1> DEFINE u == Tail(w)
           f == Head(w)
<1>1. /\ \A i \in 1 .. Len(u) : Silent(u, 0, i) => Follows(f, u[i], g)
      /\ Silent(u, 0, Len(u) + 1) => f.kind = "data"
  BY NextFrame
<1>2. f.kind = "resync"
  OBVIOUS
<1> HIDE DEF u, f
<1>3. InStep(u, g, s, x, TRUE, Unset)
  BY <1>1, <1>2 DEF InStep, Due, Follows
<1>4. Front(u, g, s, x, TRUE, Unset, c, n)
  BY <1>3 DEF Front
<1> QED  BY <1>4 DEF u

\* The expected packet at the head: the one behind it is the next.
LEMMA FrontExpected ==
  ASSUME NEW w \in Seq(Frames), w # <<>>, NEW g \in Nat, Head(w).kind = "data", Head(w).pay = g + 1,
         NEW s, NEW x, NEW y \in Seqs, NEW b, NEW q, NEW b1, NEW q1, NEW c, NEW n, NEW c1 \in {0, c},
         Front(w, g, s, x, b, q, c, n), Chain(w, g, s), DataWire(Tail(w), y, g + 1, s)
  PROVE  Front(Tail(w), g + 1, s, y, b1, q1, c1, n)
<1> DEFINE u == Tail(w)
           f == Head(w)
<1>1. /\ \A i \in 1 .. Len(u) : Silent(u, 0, i) => Follows(f, u[i], g)
      /\ Silent(u, 0, Len(u) + 1) => f.pay = s
  BY NextFrame
<1>2. f.kind = "data" /\ f.pay = g + 1
  OBVIOUS
<1>3. \A i \in 1 .. Len(u) : DataFits(u[i], y, g + 1, s)
  BY DEF DataWire
<1> HIDE DEF u, f
<1>4. ASSUME NEW i \in 1 .. Len(u), Silent(u, 0, i), u[i].kind = "data"
      PROVE  u[i].pay <= g + 1 + 1 /\ u[i].seq = y
  <2>1. u[i].pay = g + 2
    BY <1>1, <1>2, <1>4 DEF Follows
  <2>2. u[i].seq = Shift(y, g + 2 - (g + 1 + 1))
    BY <1>3, <1>4, <2>1 DEF DataFits
  <2>3. Shift(y, g + 2 - (g + 1 + 1)) = y
    BY LimitType DEF Shift, Seqs
  <2> QED  BY <2>1, <2>2, <2>3
<1>5. InStep(u, g + 1, s, y, b1, q1)
  BY <1>1, <1>2, <1>4 DEF InStep, Due
<1>6. c1 <= WinSize /\ (n = 0 => c1 = 0)
  BY LimitType DEF Front
<1>7. Front(u, g + 1, s, y, b1, q1, c1, n)
  BY <1>5, <1>6 DEF Front
<1> QED  BY <1>7 DEF u

\* One packet on, the index is the next.
LEMMA ShiftStep ==
  \A x \in Seqs, k \in Int :
    -SeqSize < k /\ k + 1 < SeqSize => Shift(x, k + 1) = Inc(Shift(x, k))
  BY LimitType DEF Shift, Inc, Seqs

\* Behind a packet at or before the last one delivered the numbers do not wrap.
LEMMA ShiftRun ==
  \A x \in Seqs, g, y \in Nat : \A z :
    g - WinSize < y /\ y <= g /\ z = y + 1 => Shift(x, z - (g + 1)) = Inc(Shift(x, y - (g + 1)))
<1> SUFFICES ASSUME NEW x \in Seqs, NEW g \in Nat, NEW y \in Nat, g - WinSize < y, y <= g,
                    NEW z, z = y + 1
             PROVE  Shift(x, z - (g + 1)) = Inc(Shift(x, y - (g + 1)))
  OBVIOUS
<1> DEFINE k == y - (g + 1)
<1>1. k \in Int /\ -SeqSize < k /\ k + 1 < SeqSize /\ z - (g + 1) = k + 1
  BY LimitType
<1> HIDE DEF k
<1>2. Shift(x, k + 1) = Inc(Shift(x, k))
  BY <1>1, ShiftStep
<1>3. Shift(x, z - (g + 1)) = Inc(Shift(x, k))
  BY <1>1, <1>2
<1> QED  BY <1>3 DEF k

\* One packet less in front of the pattern, one more counted.
LEMMA RoomStep ==
  \A c, g, y \in Nat : \A m \in {c, c + 1} :
    Room(c, g, y) /\ g - WinSize < y /\ y <= g + WinSize /\ y # g + 1
      => m \in Nat /\ Room(m, g, y + 1) /\ m <= WinSize
<1> SUFFICES ASSUME NEW c \in Nat, NEW g \in Nat, NEW y \in Nat, NEW m \in {c, c + 1},
                    Room(c, g, y), g - WinSize < y, y <= g + WinSize, y # g + 1
             PROVE  m \in Nat /\ Room(m, g, y + 1) /\ m <= WinSize
  OBVIOUS
<1>1. m \in Nat /\ m <= c + 1
  OBVIOUS
<1>2. CASE y > g + 1
  BY <1>1, <1>2, LimitType DEF Room
<1>3. CASE y < g + 1
  BY <1>1, <1>3, LimitType DEF Room
<1> QED  BY <1>2, <1>3

\* The packet goes on with a run behind a resync pattern.
InRun(b, q, f) == b /\ (q = Unset \/ f.seq = Inc(q))

\* Another packet than the expected one is at the head.
OddHead(w, g, s, r, x, b, q, c, n) ==
  /\ w \in Seq(Frames) /\ w # <<>> /\ Head(w).kind = "data" /\ Head(w).seq # x
  /\ g \in Nat /\ s \in Nat /\ r \in Nat /\ r <= g /\ g <= s /\ s - r <= WinSize
  /\ x \in Seqs /\ b \in BOOLEAN /\ c \in Nat
  /\ Front(w, g, s, x, b, q, c, n) /\ Chain(w, g, s) /\ DataWire(w, x, g, s)

\* Another packet than the expected one at the head.  Before the loss it goes on
\* with a run; after it it may count, and the limit is not reached.
LEMMA FrontOdd ==
  ASSUME NEW w, NEW g, NEW s, NEW r, NEW x, NEW b, NEW q, NEW c, NEW n,
         OddHead(w, g, s, r, x, b, q, c, n)
  PROVE  /\ InRun(b, q, Head(w)) => Front(Tail(w), g, s, x, TRUE, Head(w).seq, c, n)
         /\ ~InRun(b, q, Head(w)) => n = 1 /\ \A b1, q1 : Front(Tail(w), g, s, x, b1, q1, c + 1, n)
         /\ n = 0 => Head(w).pay <= g
<1> DEFINE u == Tail(w)
           f == Head(w)
           run == InRun(b, q, f)
<1>0. /\ w \in Seq(Frames) /\ w # <<>> /\ Head(w).kind = "data" /\ Head(w).seq # x
      /\ g \in Nat /\ s \in Nat /\ r \in Nat /\ r <= g /\ g <= s /\ s - r <= WinSize
      /\ x \in Seqs /\ b \in BOOLEAN /\ c \in Nat
      /\ Front(w, g, s, x, b, q, c, n) /\ Chain(w, g, s) /\ DataWire(w, x, g, s)
  BY DEF OddHead
<1> USE <1>0
<1>1. /\ \A i \in 1 .. Len(u) : Silent(u, 0, i) => Follows(f, u[i], g)
      /\ Silent(u, 0, Len(u) + 1) => f.pay = s
  BY NextFrame
<1>2. /\ f \in Frames /\ f.kind = "data" /\ f.seq # x /\ f = w[1] /\ 1 \in 1 .. Len(w)
      /\ f.pay \in Nat
      /\ \A i \in 1 .. Len(u) : i + 1 \in 1 .. Len(w) /\ u[i] = w[i + 1] /\ u[i] \in Frames
  <2>1. f \in Frames
    BY FirstFrame
  <2>2. f.pay \in Nat
    BY <2>1 DEF Frames
  <2> QED  BY <2>1, <2>2, FirstFrame
<1>3. \A i \in 1 .. Len(w) : DataFits(w[i], x, g, s)
  BY DEF DataWire
<1>4. Silent(w, 0, 1)
  BY DEF Silent
<1> HIDE DEF u, f
<1>5. /\ g - WinSize < f.pay /\ f.pay <= s /\ f.seq = Shift(x, f.pay - (g + 1))
      /\ f.pay # g + 1
  <2>1. g - WinSize < f.pay /\ f.pay <= s /\ f.seq = Shift(x, f.pay - (g + 1))
    BY <1>2, <1>3 DEF DataFits
  <2>2. ASSUME f.pay = g + 1 PROVE FALSE
    <3>1. f.pay - (g + 1) = 0 /\ Shift(x, 0) = x
      BY <2>2, LimitType DEF Shift, Seqs
    <3> QED  BY <1>2, <2>1, <3>1
  <2> QED  BY <2>1, <2>2
<1>6. InStep(w, g, s, x, b, q) => run /\ f.pay <= g
  <2>1. InStep(w, g, s, x, b, q) => Due(f, g, x, b, q)
    BY <1>2, <1>4 DEF InStep
  <2> QED  BY <1>2, <1>5, <2>1 DEF Due, InRun
<1>7. ASSUME InStep(w, g, s, x, b, q) PROVE InStep(u, g, s, x, TRUE, f.seq)
  <2>1. ASSUME NEW i \in 1 .. Len(u), Silent(u, 0, i), u[i].kind = "data"
        PROVE  u[i].pay <= g + 1 /\ u[i].seq = Inc(f.seq)
    <3>1. u[i].pay = f.pay + 1
      BY <1>1, <1>2, <2>1 DEF Follows
    <3>2. u[i].seq = Shift(x, u[i].pay - (g + 1))
      BY <1>2, <1>3, <2>1 DEF DataFits
    <3>3. f.pay \in Nat /\ g - WinSize < f.pay /\ f.pay <= g
      BY <1>2, <1>5, <1>6, <1>7
    <3>4. Shift(x, u[i].pay - (g + 1)) = Inc(Shift(x, f.pay - (g + 1)))
      BY <3>1, <3>3, ShiftRun
    <3>6. u[i].seq = Inc(f.seq)
      BY <1>5, <3>2, <3>4
    <3>7. u[i].pay <= g + 1
      BY <1>2, <1>6, <1>7, <3>1
    <3> QED  BY <3>6, <3>7
  <2>2. Silent(u, 0, Len(u) + 1) => g = s
    BY <1>1, <1>2, <1>6, <1>7
  <2> QED  BY <2>1, <2>2 DEF InStep, Due
<1>8. ASSUME Behind(w, g, s, c), NEW m \in {c, c + 1}
      PROVE  Behind(u, g, s, m) /\ m <= WinSize
  <2>1. Room(c, g, f.pay)
    BY <1>2, <1>4, <1>8 DEF Behind
  <2>2. m \in Nat /\ Room(m, g, f.pay + 1) /\ m <= WinSize
    <3>1. f.pay \in Nat /\ g - WinSize < f.pay /\ f.pay # g + 1
      BY <1>2, <1>5
    <3>2. f.pay <= g + WinSize
      BY <1>5, <3>1, LimitType
    <3> QED  BY <1>8, <2>1, <3>1, <3>2, RoomStep
  <2>3. \A i \in 1 .. Len(u) : Silent(u, 0, i) /\ u[i].kind = "data" => u[i].pay = f.pay + 1
    BY <1>1, <1>2 DEF Follows
  <2> QED  BY <1>1, <2>2, <2>3 DEF Behind
<1>9. ASSUME run PROVE Front(u, g, s, x, TRUE, f.seq, c, n)
  BY <1>7, <1>8 DEF Front
<1>10. ASSUME ~run PROVE n = 1 /\ \A b1, q1 : Front(u, g, s, x, b1, q1, c + 1, n)
  <2>1. n = 1 /\ Behind(w, g, s, c)
    BY <1>6, <1>10 DEF Front
  <2> QED  BY <1>8, <2>1 DEF Front
<1>11. n = 0 => f.pay <= g
  BY <1>6 DEF Front
<1> HIDE DEF run
<1>12. /\ run => Front(u, g, s, x, TRUE, f.seq, c, n)
       /\ ~run => n = 1 /\ \A b1, q1 : Front(u, g, s, x, b1, q1, c + 1, n)
       /\ n = 0 => f.pay <= g
  BY <1>9, <1>10, <1>11
<1> QED  BY <1>12 DEF run, u, f

\* The head is lost: whatever it was, the packets in front of the next pattern
\* are not more than the limit.
LEMMA FrontLost ==
  ASSUME NEW w \in Seq(Frames), w # <<>>, NEW g \in Nat, NEW s \in Nat, g <= s,
         NEW x, NEW b, NEW q, NEW c,
         Front(w, g, s, x, b, q, c, 0), Chain(w, g, s), DataWire(w, x, g, s)
  PROVE  Front(Tail(w), g, s, x, b, q, c, 1)
<1> DEFINE u == Tail(w)
           f == Head(w)
<1>1. f \in Frames /\ f = w[1] /\ 1 \in 1 .. Len(w)
      /\ \A i \in 1 .. Len(u) : i + 1 \in 1 .. Len(w) /\ u[i] = w[i + 1] /\ u[i] \in Frames
  BY FirstFrame
<1>2. InStep(w, g, s, x, b, q) /\ c = 0
  BY DEF Front
<1>3. CASE f.kind = "ack"
  <2>1. Front(w, g, s, x, b, q, c, 1)
    BY <1>2, LimitType DEF Front
  <2> QED  BY <1>3, <2>1, FrontAck
<1>4. CASE f.kind # "ack"
  <2>1. /\ \A i \in 1 .. Len(u) : Silent(u, 0, i) => Follows(f, u[i], g)
        /\ Silent(u, 0, Len(u) + 1) => f.kind = "data" /\ f.pay = s
    BY <1>4, NextFrame
  <2>2. \A i \in 1 .. Len(w) : DataFits(w[i], x, g, s)
    BY DEF DataWire
  <2>3. Silent(w, 0, 1)
    BY DEF Silent
  <2> HIDE DEF u, f
  <2>4. f.kind = "data" => f.pay \in Nat /\ f.pay <= g + 1 /\ g - WinSize < f.pay
    <3>1. f.pay \in Nat
      BY <1>1 DEF Frames
    <3> QED  BY <1>1, <1>2, <2>2, <2>3, <3>1 DEF InStep, Due, DataFits
  <2>5. f.kind = "data" => Room(0, g, f.pay + 1)
    BY <2>4, LimitType DEF Room
  <2>6. ASSUME NEW i \in 1 .. Len(u), Silent(u, 0, i), u[i].kind = "data" PROVE Room(0, g, u[i].pay)
    <3>1. CASE f.kind = "data"
      BY <2>1, <2>5, <2>6, <3>1 DEF Follows
    <3>2. CASE f.kind # "data"
      <4>1. u[i].pay <= g + 1
        BY <2>1, <2>6, <3>2 DEF Follows
      <4>2. u[i].pay \in Nat /\ g - WinSize < u[i].pay
        <5>1. u[i].pay \in Nat
          BY <1>1 DEF Frames
        <5> QED  BY <1>1, <2>2, <2>6, <5>1 DEF DataFits
      <4>3. g - WinSize + 1 <= u[i].pay
        BY <4>2, LimitType
      <4> QED  BY <4>1, <4>2, <4>3, LimitType DEF Room
    <3> QED  BY <3>1, <3>2
  <2>7. Silent(u, 0, Len(u) + 1) => Room(0, g, s + 1)
    BY <2>1, <2>5
  <2>8. Behind(u, g, s, c)
    BY <1>2, <2>6, <2>7 DEF Behind
  <2>9. Front(u, g, s, x, b, q, c, 1)
    BY <1>2, <2>8, LimitType DEF Front
  <2> QED  BY <2>9 DEF u
<1> QED  BY <1>3, <1>4

\* Frames are written behind the others.
LEMMA FrontJoined ==
  ASSUME NEW w \in Seq(Frames), NEW u \in Seq(Frames), NEW g \in Nat, NEW s \in Nat, NEW t \in Nat,
         NEW x \in Seqs, NEW b, NEW q, NEW c, NEW n, Front(w, g, s, x, b, q, c, n),
         Continues(u, s, t), DataWire(w \o u, x, g, t)
  PROVE  Front(w \o u, g, t, x, b, q, c, n)
<1> DEFINE z == w \o u
           FromW(i) == i \in 1 .. Len(w) /\ z[i] = w[i]
           FromU(i) == i - Len(w) \in 1 .. Len(u) /\ z[i] = u[i - Len(w)]
<1>1. /\ Len(w) \in Nat /\ Len(u) \in Nat /\ Len(z) = Len(w) + Len(u)
      /\ \A i \in 1 .. Len(z) : FromW(i) \/ FromU(i)
  BY Joined
<1>2. \A j \in Nat : j <= Len(z) + 1 /\ Silent(z, 0, j) =>
        /\ j <= Len(w) + 1 => Silent(w, 0, j)
        /\ j > Len(w) => Silent(w, 0, Len(w) + 1) /\ Silent(u, 0, j - Len(w))
  BY <1>1, SilentJoined
<1>3. \A i \in 1 .. Len(z) : DataFits(z[i], x, g, t)
  BY DEF DataWire
<1> HIDE DEF z
<1>4. ASSUME NEW i \in 1 .. Len(z), Silent(z, 0, i), z[i].kind = "data"
      PROVE  \/ i \in 1 .. Len(w) /\ Silent(w, 0, i) /\ z[i] = w[i]
             \/ Silent(w, 0, Len(w) + 1) /\ z[i].pay = s + 1
  <2>1. CASE FromW(i)
    <3>1. i \in Nat /\ i <= Len(z) + 1 /\ i <= Len(w) + 1
      BY <1>1, <2>1
    <3> QED  BY <1>2, <1>4, <2>1, <3>1
  <2>2. CASE FromU(i)
    <3>1. i \in Nat /\ i <= Len(z) + 1 /\ i > Len(w)
      BY <1>1, <2>2
    <3>2. Silent(w, 0, Len(w) + 1) /\ Silent(u, 0, i - Len(w))
      BY <1>2, <1>4, <3>1
    <3> QED  BY <1>4, <2>2, <3>2 DEF Continues
  <2> QED  BY <1>1, <2>1, <2>2
<1>5. Silent(z, 0, Len(z) + 1) => Silent(w, 0, Len(w) + 1) /\ t = s
  <2>1. Len(z) + 1 \in Nat /\ Len(z) + 1 > Len(w) /\ Len(z) + 1 - Len(w) = Len(u) + 1
    BY <1>1
  <2> QED  BY <1>2, <2>1 DEF Continues
<1>6. ASSUME InStep(w, g, s, x, b, q) PROVE InStep(z, g, t, x, b, q)
  <2>1. ASSUME NEW i \in 1 .. Len(z), Silent(z, 0, i), z[i].kind = "data" PROVE Due(z[i], g, x, b, q)
    <3>1. CASE i \in 1 .. Len(w) /\ Silent(w, 0, i) /\ z[i] = w[i]
      BY <1>6, <3>1 DEF InStep
    <3>2. CASE Silent(w, 0, Len(w) + 1) /\ z[i].pay = s + 1
      <4>1. g = s
        BY <1>6, <3>2 DEF InStep
      <4>2. z[i].seq = Shift(x, g + 1 - (g + 1))
        BY <1>3, <2>1, <3>2, <4>1 DEF DataFits
      <4>3. Shift(x, g + 1 - (g + 1)) = x
        BY LimitType DEF Shift, Seqs
      <4> QED  BY <3>2, <4>1, <4>2, <4>3 DEF Due
    <3> QED  BY <1>4, <2>1, <3>1, <3>2
  <2>2. \A i \in 1 .. Len(z) : z[i].kind # "data" => Due(z[i], g, x, b, q)
    BY DEF Due
  <2> QED  BY <1>5, <1>6, <2>1, <2>2 DEF InStep
<1>7. ASSUME Behind(w, g, s, c) PROVE Behind(z, g, t, c)
  BY <1>4, <1>5, <1>7 DEF Behind
<1>8. Front(z, g, t, x, b, q, c, n)
  BY <1>6, <1>7 DEF Front
<1> QED  BY <1>8 DEF z

\* Where a frame of a wire is when the head is gone, or frames were added.
LEMMA TailPlace ==
  ASSUME NEW w \in Seq(Frames), w # <<>>
  PROVE  /\ Head(w) = w[1] /\ 1 \in 1 .. Len(w) /\ Tail(w) \in Seq(Frames)
         /\ \A i \in 1 .. Len(w) :
              i # 1 => i - 1 \in 1 .. Len(Tail(w)) /\ Tail(w)[i - 1] = w[i]
<1>1. Len(w) \in Nat /\ Len(Tail(w)) = Len(w) - 1
      /\ \A i \in 1 .. Len(Tail(w)) : Tail(w)[i] = w[i + 1]
  BY FirstFrame
<1>2. ASSUME NEW i \in 1 .. Len(w), i # 1
      PROVE  i - 1 \in 1 .. Len(Tail(w)) /\ Tail(w)[i - 1] = w[i]
  <2>1. i - 1 \in 1 .. Len(Tail(w)) /\ i - 1 + 1 = i
    BY <1>1, <1>2
  <2> QED  BY <1>1, <2>1
<1> QED  BY <1>2, FirstFrame

LEMMA JoinedPlace ==
  ASSUME NEW w \in Seq(Frames), NEW u \in Seq(Frames)
  PROVE  /\ \A i \in 1 .. Len(w) : i \in 1 .. Len(w \o u) /\ (w \o u)[i] = w[i]
         /\ \A i \in 1 .. Len(u) :
              i + Len(w) \in 1 .. Len(w \o u) /\ (w \o u)[i + Len(w)] = u[i]
  OBVIOUS

\* Frames are added on both sides.
LEMMA WaysJoined ==
  ASSUME NEW w \in Seq(Frames), NEW u \in Seq(Frames), NEW v \in Seq(Frames), NEW y \in Seq(Frames),
         NEW a, NEW r, NEW s, NEW t, NEW n, Ways(w, v, a, r, s, t, n)
  PROVE  Ways(w \o u, v \o y, a, r, s, t, n)
<1> DEFINE z == w \o u
           o == v \o y
<1>1. /\ \A i \in 1 .. Len(w) : i \in 1 .. Len(z) /\ z[i] = w[i]
      /\ \A i \in 1 .. Len(v) : i \in 1 .. Len(o) /\ o[i] = v[i]
  BY JoinedPlace
<1> HIDE DEF z, o
<1>2. Covered(w, v, a, r, s) => Covered(z, o, a, r, s)
  BY <1>1 DEF Covered, Copy, AckOf
<1>3. OneWay(w, v, a, r) => OneWay(z, o, a, r)
  BY <1>1 DEF OneWay, Copy, AckOf
<1>4. TwoWays(w, v, a, r) => TwoWays(z, o, a, r)
  BY <1>1 DEF TwoWays, Copy, AckOf
<1>5. Ways(z, o, a, r, s, t, n)
  BY <1>2, <1>3, <1>4 DEF Ways
<1> QED  BY <1>5 DEF z, o

\* The sender takes a frame in that acknowledges nothing new.
LEMMA WaysKept ==
  ASSUME NEW w \in Seq(Frames), NEW v \in Seq(Frames), v # <<>>,
         NEW a \in Seqs, NEW r, NEW s \in Nat, NEW t, NEW n, Ways(w, v, a, r, s, t, n),
         Head(v).kind # "ack" \/ Head(v).ack = a
  PROVE  Ways(w, Tail(v), a, r, s, t, n)
<1> DEFINE u == Tail(v)
<1>1. \A i \in 1 .. Len(v) : i # 1 => i - 1 \in 1 .. Len(u) /\ u[i - 1] = v[i]
  BY TailPlace
<1>2. \A k \in Nat : k >= 1 => ~AckOf(v, 1, a, k)
  <2>1. v[1].kind # "ack" \/ v[1].ack = a
    BY TailPlace
  <2>2. Dist(a, a) = 0
    BY DistSelf
  <2> QED  BY <2>1, <2>2 DEF AckOf
<1> HIDE DEF u
<1>3. \A k \in Nat, j \in 1 .. Len(v) :
        k >= 1 /\ AckOf(v, j, a, k) => j - 1 \in 1 .. Len(u) /\ AckOf(u, j - 1, a, k)
  BY <1>1, <1>2 DEF AckOf
<1>4. ASSUME Covered(w, v, a, r, s) PROVE Covered(w, u, a, r, s)
  <2> SUFFICES ASSUME NEW k \in 1 .. s - r
               PROVE  \/ \E i \in 1 .. Len(w) : Copy(w, i, r + k)
                      \/ \E j \in 1 .. Len(u) : AckOf(u, j, a, k)
    BY DEF Covered
  <2>1. k \in Nat /\ k >= 1
    OBVIOUS
  <2> QED  BY <1>3, <1>4, <2>1 DEF Covered
<1>5. OneWay(w, v, a, r) => OneWay(w, u, a, r)
  BY <1>3 DEF OneWay
<1>6. ASSUME TwoWays(w, v, a, r) PROVE TwoWays(w, u, a, r)
  <2>1. ASSUME NEW i \in 1 .. Len(v), NEW j \in 1 .. Len(v), i < j, AckOf(v, i, a, 1), AckOf(v, j, a, 1)
        PROVE  \E k, l \in 1 .. Len(u) : k < l /\ AckOf(u, k, a, 1) /\ AckOf(u, l, a, 1)
    <3>1. /\ i - 1 \in 1 .. Len(u) /\ AckOf(u, i - 1, a, 1)
          /\ j - 1 \in 1 .. Len(u) /\ AckOf(u, j - 1, a, 1) /\ i - 1 < j - 1
      BY <1>3, <2>1
    <3> QED  BY <3>1
  <2>2. ASSUME NEW j \in 1 .. Len(v), AckOf(v, j, a, 1) PROVE \E l \in 1 .. Len(u) : AckOf(u, l, a, 1)
    BY <1>3, <2>2
  <2> QED  BY <1>6, <2>1, <2>2 DEF TwoWays
<1>7. Ways(w, u, a, r, s, t, n)
  BY <1>4, <1>5, <1>6 DEF Ways
<1> QED  BY <1>7 DEF u

\* It takes an acknowledgement in and starts counting its retries again.
LEMMA WaysAcked ==
  ASSUME NEW w \in Seq(Frames), NEW v \in Seq(Frames), v # <<>>, Head(v).kind # "resync",
         NEW a \in Seqs, NEW m, AckWire(v, a, m), NEW r \in Nat, NEW s \in Nat, NEW t, NEW n,
         Ways(w, v, a, r, s, t, n)
  PROVE  Ways(w, Tail(v), Head(v).ack, r + Dist(a, Head(v).ack), s, 0, n)
<1> DEFINE u == Tail(v)
           b == Head(v).ack
           h == Dist(a, b)
<1>1. /\ \A i \in 1 .. Len(v) : i # 1 => i - 1 \in 1 .. Len(u) /\ u[i - 1] = v[i]
      /\ v[1].ack = b /\ v[1].kind # "resync" /\ 1 \in 1 .. Len(v)
  BY TailPlace
<1>2. \A i \in 1 .. Len(v) : v[i].ack \in Seqs
  <2>1. \A f \in Frames : f.ack \in Seqs
    BY DEF Frames
  <2> QED  BY <2>1
<1>3. b \in Seqs /\ h \in Nat
  BY <1>1, <1>2, DistType, LimitType
<1> HIDE DEF u, b
<1>4. ASSUME NEW k \in Nat, k > h, NEW j \in 1 .. Len(v), AckOf(v, j, a, k)
      PROVE  j - 1 \in 1 .. Len(u) /\ AckOf(u, j - 1, b, k - h)
  <2>1. v[j].kind = "ack" /\ Dist(a, v[j].ack) >= k
    BY <1>4 DEF AckOf
  <2>2. j # 1
    BY <1>1, <1>3, <1>4, <2>1
  <2>3. AckAfter(v[1], v[j], a)
    BY <1>1, <2>2 DEF AckWire
  <2>4. h <= Dist(a, v[j].ack)
    BY <1>1, <2>1, <2>3 DEF AckAfter
  <2>5. Dist(b, v[j].ack) = Dist(a, v[j].ack) - h
    BY <1>2, <1>3, <2>4, DistBeyond
  <2>6. Dist(a, v[j].ack) \in Nat
    BY <1>2, DistType, LimitType
  <2>7. Dist(b, v[j].ack) >= k - h
    BY <1>3, <2>1, <2>5, <2>6
  <2> QED  BY <1>1, <2>1, <2>2, <2>7 DEF AckOf
<1> HIDE DEF h
<1>5. ASSUME n = 0 PROVE Covered(w, u, b, r + h, s)
  <2> SUFFICES ASSUME NEW k \in 1 .. s - (r + h)
               PROVE  \/ \E i \in 1 .. Len(w) : Copy(w, i, r + h + k)
                      \/ \E j \in 1 .. Len(u) : AckOf(u, j, b, k)
    BY DEF Covered
  <2>1. k + h \in 1 .. s - r /\ k + h \in Nat /\ k + h > h /\ k + h - h = k
        /\ r + (k + h) = r + h + k
    BY <1>3
  <2>2. Covered(w, v, a, r, s)
    BY <1>5 DEF Ways
  <2>3. PICK l \in 1 .. s - r : l = k + h
    BY <2>1
  <2>4. \/ \E i \in 1 .. Len(w) : Copy(w, i, r + l)
        \/ \E j \in 1 .. Len(v) : AckOf(v, j, a, l)
    BY <2>2, Zenon DEF Covered
  <2>5. r + l = r + h + k /\ l \in Nat /\ l > h /\ l - h = k
    BY <1>3, <2>1, <2>3
  <2> QED  BY <1>4, <2>4, <2>5
<1>6. Ways(w, u, b, r + h, s, 0, n)
  BY <1>5 DEF Ways
<1> QED  BY <1>6 DEF u, b, h

\* The receiver takes a frame in and answers with y: a packet that waits for its
\* acknowledgement with that.
LEMMA WaysArrived ==
  ASSUME NEW w \in Seq(Frames), w # <<>>, NEW v \in Seq(Frames), NEW y \in Seq(Frames),
         NEW a, NEW r \in Nat, NEW s \in Nat, NEW t, NEW n, Ways(w, v, a, r, s, t, n),
         \A k \in Nat : k >= 1 /\ Copy(w, 1, r + k) /\ (n = 0 \/ k = 1)
                          => Len(y) = 1 /\ AckOf(y, 1, a, k)
  PROVE  Ways(Tail(w), v \o y, a, r, s, t, n)
<1> DEFINE u == Tail(w)
           o == v \o y
           Held(k) == \E i \in 1 .. Len(u) : Copy(u, i, r + k)
           Acked(k) == \E j \in 1 .. Len(o) : AckOf(o, j, a, k)
<1>1. \A i \in 1 .. Len(w) : i # 1 => i - 1 \in 1 .. Len(u) /\ u[i - 1] = w[i]
  BY TailPlace
<1>2. /\ \A i \in 1 .. Len(v) : i \in 1 .. Len(o) /\ o[i] = v[i]
      /\ \A i \in 1 .. Len(y) : i + Len(v) \in 1 .. Len(o) /\ o[i + Len(v)] = y[i]
      /\ Len(v) \in Nat
  BY JoinedPlace
<1> HIDE DEF u, o
<1>3. \A k : \A i \in 1 .. Len(w) : i # 1 /\ Copy(w, i, k) => i - 1 \in 1 .. Len(u) /\ Copy(u, i - 1, k)
  BY <1>1 DEF Copy
<1>4. \A k : \A j \in 1 .. Len(v) : AckOf(v, j, a, k) => j \in 1 .. Len(o) /\ AckOf(o, j, a, k)
  BY <1>2 DEF AckOf
<1>5. ASSUME NEW k \in Nat, k >= 1, Copy(w, 1, r + k), n = 0 \/ k = 1
      PROVE  1 + Len(v) \in 1 .. Len(o) /\ AckOf(o, 1 + Len(v), a, k)
  <2>1. Len(y) = 1 /\ AckOf(y, 1, a, k)
    BY <1>5, Zenon
  <2> QED  BY <1>2, <2>1 DEF AckOf
<1>6. ASSUME n = 0, Covered(w, v, a, r, s) PROVE Covered(u, o, a, r, s)
  <2> SUFFICES ASSUME NEW k \in 1 .. s - r PROVE Held(k) \/ Acked(k)
    BY DEF Covered
  <2>1. k \in Nat /\ k >= 1
    OBVIOUS
  <2>2. \/ \E i \in 1 .. Len(w) : Copy(w, i, r + k)
        \/ \E j \in 1 .. Len(v) : AckOf(v, j, a, k)
    BY <1>6 DEF Covered
  <2> QED  BY <1>3, <1>4, <1>5, <1>6, <2>1, <2>2
<1>7. ASSUME OneWay(w, v, a, r) PROVE OneWay(u, o, a, r)
  <2>1. Held(1) \/ Acked(1)
    BY <1>3, <1>4, <1>5, <1>7 DEF OneWay
  <2> QED  BY <2>1 DEF OneWay
<1>8. ASSUME TwoWays(w, v, a, r) PROVE TwoWays(u, o, a, r)
  <2>1. ASSUME NEW i \in 1 .. Len(w), NEW j \in 1 .. Len(w), i < j, Copy(w, i, r + 1), Copy(w, j, r + 1)
        PROVE  TwoWays(u, o, a, r)
    <3>1. j - 1 \in 1 .. Len(u) /\ Copy(u, j - 1, r + 1)
      BY <1>3, <2>1
    <3>2. CASE i = 1
      <4>1. 1 + Len(v) \in 1 .. Len(o) /\ AckOf(o, 1 + Len(v), a, 1)
        BY <1>5, <2>1, <3>2
      <4> QED  BY <3>1, <4>1 DEF TwoWays
    <3>3. CASE i # 1
      <4>1. i - 1 \in 1 .. Len(u) /\ Copy(u, i - 1, r + 1) /\ i - 1 < j - 1
        BY <1>3, <2>1, <3>3
      <4> QED  BY <3>1, <4>1 DEF TwoWays
    <3> QED  BY <3>2, <3>3
  <2>2. ASSUME NEW i \in 1 .. Len(v), NEW j \in 1 .. Len(v), i < j, AckOf(v, i, a, 1), AckOf(v, j, a, 1)
        PROVE  TwoWays(u, o, a, r)
    BY <1>4, <2>2 DEF TwoWays
  <2>3. ASSUME NEW i \in 1 .. Len(w), NEW j \in 1 .. Len(v), Copy(w, i, r + 1), AckOf(v, j, a, 1)
        PROVE  TwoWays(u, o, a, r)
    <3>1. j \in 1 .. Len(o) /\ AckOf(o, j, a, 1)
      BY <1>4, <2>3
    <3>2. CASE i = 1
      <4>1. 1 + Len(v) \in 1 .. Len(o) /\ AckOf(o, 1 + Len(v), a, 1) /\ j < 1 + Len(v)
        BY <1>2, <1>5, <2>3, <3>2
      <4> QED  BY <3>1, <4>1 DEF TwoWays
    <3>3. CASE i # 1
      <4>1. i - 1 \in 1 .. Len(u) /\ Copy(u, i - 1, r + 1)
        BY <1>3, <2>3, <3>3
      <4> QED  BY <3>1, <4>1 DEF TwoWays
    <3> QED  BY <3>2, <3>3
  <2> QED  BY <1>8, <2>1, <2>2, <2>3 DEF TwoWays
<1>9. Ways(u, o, a, r, s, t, n)
  BY <1>6, <1>7, <1>8 DEF Ways
<1> QED  BY <1>9 DEF u, o

\* A packet is sent.
LEMMA WaysSent ==
  ASSUME NEW w \in Seq(Frames), NEW v \in Seq(Frames), NEW f \in Frames, NEW s \in Nat,
         f.kind = "data", f.pay = s + 1, NEW a, NEW r \in Nat, NEW t, NEW n, Ways(w, v, a, r, s, t, n)
  PROVE  Ways(w \o <<f>>, v, a, r, s + 1, t, n)
<1> DEFINE u == <<f>>
           z == w \o u
<1>1. u \in Seq(Frames) /\ <<>> \in Seq(Frames) /\ v \o <<>> = v /\ 1 \in 1 .. Len(u) /\ u[1] = f
  OBVIOUS
<1>2. 1 + Len(w) \in 1 .. Len(z) /\ z[1 + Len(w)] = f
  <2> HIDE DEF u
  <2> QED  BY <1>1, JoinedPlace
<1> HIDE DEF u
<1>3. Ways(z, v, a, r, s, t, n)
  <2>1. Ways(w \o u, v \o <<>>, a, r, s, t, n)
    BY <1>1, WaysJoined
  <2> QED  BY <1>1, <2>1
<1> HIDE DEF z
<1>4. ASSUME n = 0 PROVE Covered(z, v, a, r, s + 1)
  <2> SUFFICES ASSUME NEW k \in 1 .. s + 1 - r
               PROVE  \/ \E i \in 1 .. Len(z) : Copy(z, i, r + k)
                      \/ \E j \in 1 .. Len(v) : AckOf(v, j, a, k)
    BY DEF Covered
  <2>1. CASE k \in 1 .. s - r
    BY <1>3, <1>4, <2>1 DEF Ways, Covered
  <2>2. CASE r + k = s + 1
    BY <1>2, <2>2 DEF Copy
  <2> QED  BY <2>1, <2>2
<1>5. Ways(z, v, a, r, s + 1, t, n)
  BY <1>3, <1>4 DEF Ways
<1> QED  BY <1>5 DEF z, u

\* The packets that are out are repeated.
LEMMA WaysRepeated ==
  ASSUME NEW w \in Seq(Frames), NEW v \in Seq(Frames), NEW u \in Seq(Frames),
         NEW a, NEW r \in Nat, NEW s \in Nat, r < s, NEW t, NEW n, Ways(w, v, a, r, s, t, n),
         IsRepeat(u, r, s), NEW t1
  PROVE  Ways(w \o u, v, a, r, s, t1, n)
<1> DEFINE z == w \o u
<1>1. 2 \in 1 .. Len(u) /\ u[2].kind = "data" /\ u[2].pay = r + 1
  BY DEF IsRepeat
<1>2. 2 + Len(w) \in 1 .. Len(z) /\ Copy(z, 2 + Len(w), r + 1)
  BY <1>1, JoinedPlace DEF Copy
<1>3. /\ Len(w) \in Nat
      /\ \A i \in 1 .. Len(w) : i \in 1 .. Len(z) /\ z[i] = w[i] /\ i < 2 + Len(w)
  BY JoinedPlace
<1> HIDE DEF z
<1>4. OneWay(z, v, a, r)
  BY <1>2 DEF OneWay
<1>5. ASSUME n = 0 PROVE Covered(z, v, a, r, s) /\ TwoWays(z, v, a, r)
  <2>1. Covered(w, v, a, r, s)
    BY <1>5 DEF Ways
  <2>2. Covered(z, v, a, r, s)
    BY <1>3, <2>1 DEF Covered, Copy
  <2>3. \/ \E i \in 1 .. Len(w) : Copy(w, i, r + 1)
        \/ \E j \in 1 .. Len(v) : AckOf(v, j, a, 1)
    BY <2>1 DEF Covered
  <2>4. ASSUME NEW i \in 1 .. Len(w), Copy(w, i, r + 1) PROVE TwoWays(z, v, a, r)
    <3>1. i \in 1 .. Len(z) /\ Copy(z, i, r + 1) /\ i < 2 + Len(w)
      BY <1>3, <2>4 DEF Copy
    <3> QED  BY <1>2, <3>1 DEF TwoWays
  <2>5. ASSUME NEW j \in 1 .. Len(v), AckOf(v, j, a, 1) PROVE TwoWays(z, v, a, r)
    BY <1>2, <2>5 DEF TwoWays
  <2> QED  BY <2>2, <2>3, <2>4, <2>5
<1>6. Ways(z, v, a, r, s, t1, n)
  BY <1>4, <1>5 DEF Ways
<1> QED  BY <1>6 DEF z

\* One frame is lost, in one direction or the other: one of two ways is left.
LEMMA WaysLost ==
  ASSUME NEW w \in Seq(Frames), NEW v \in Seq(Frames), NEW a, NEW r, NEW s, NEW t,
         Ways(w, v, a, r, s, t, 0)
  PROVE  /\ w # <<>> => Ways(Tail(w), v, a, r, s, t, 1)
         /\ v # <<>> => Ways(w, Tail(v), a, r, s, t, 1)
<1>1. ASSUME w # <<>>, TwoWays(w, v, a, r) PROVE OneWay(Tail(w), v, a, r)
  <2> DEFINE u == Tail(w)
  <2>1. \A i \in 1 .. Len(w) : i # 1 => i - 1 \in 1 .. Len(u) /\ u[i - 1] = w[i]
    BY <1>1, TailPlace
  <2> HIDE DEF u
  <2>2. \A i \in 1 .. Len(w) : i # 1 /\ Copy(w, i, r + 1) => i - 1 \in 1 .. Len(u) /\ Copy(u, i - 1, r + 1)
    BY <2>1 DEF Copy
  <2>3. OneWay(u, v, a, r)
    BY <1>1, <2>2 DEF TwoWays, OneWay
  <2> QED  BY <2>3 DEF u
<1>2. ASSUME v # <<>>, TwoWays(w, v, a, r) PROVE OneWay(w, Tail(v), a, r)
  <2> DEFINE u == Tail(v)
  <2>1. \A i \in 1 .. Len(v) : i # 1 => i - 1 \in 1 .. Len(u) /\ u[i - 1] = v[i]
    BY <1>2, TailPlace
  <2> HIDE DEF u
  <2>2. \A i \in 1 .. Len(v) : i # 1 /\ AckOf(v, i, a, 1) => i - 1 \in 1 .. Len(u) /\ AckOf(u, i - 1, a, 1)
    BY <2>1 DEF AckOf
  <2>3. OneWay(w, u, a, r)
    BY <1>2, <2>2 DEF TwoWays, OneWay
  <2> QED  BY <2>3 DEF u
<1> QED  BY <1>1, <1>2 DEF Ways

----------------------------------------------------------------------------
(* What happens to one direction of a calm link *)

\* What is known about it between steps.
LEMMA CalmBetween ==
  ASSUME StpInv, StreamInv, NEW d \in Ends
  PROVE  LET p == Peer(d)
             s == sent[d]
             g == acked[p]
             r == Released(d)
             a == sequence[d].rxack
             c == sequence[p]
         IN /\ s \in Nat /\ g \in Nat /\ r \in Nat /\ r <= g /\ g <= s /\ s - r <= WinSize
            /\ a \in Seqs /\ c.txack \in Seqs /\ Dist(a, c.txack) = g - r
            /\ c.expected_rxseq \in Seqs /\ c.rx_resync \in BOOLEAN
            /\ wire[d] \in Seq(Frames) /\ wire[p] \in Seq(Frames)
            /\ DataWire(wire[d], c.expected_rxseq, g, s) /\ AckWire(wire[p], a, g - r)
            /\ failCount[p] \in Nat /\ retryOps[d] \in Nat /\ sequence[d].retry_times \in Nat
<1>1. Peer(d) \in Ends
  BY TwoEnds
<1>2. /\ sequence[d] \in SequenceContext /\ sequence[Peer(d)] \in SequenceContext
      /\ failCount[Peer(d)] \in Nat /\ retryOps[d] \in Nat
  BY <1>1, LimitType DEF StpInv, TypeOK
<1>3. sequence[Peer(d)].rx_resync \in BOOLEAN /\ sequence[d].retry_times \in Nat
  BY <1>2, LimitType DEF SequenceContext
<1> QED  BY <1>2, <1>3, Between DEF Typed, Direction, Agree

\* The same for the state after the step.
LEMMA CalmAfter ==
  ASSUME StreamInv', NEW d \in Ends
  PROVE  /\ Dist(sequence'[d].rxack, sequence'[Peer(d)].txack) = acked'[Peer(d)] - Released(d)'
         /\ DataWire(wire'[d], sequence'[Peer(d)].expected_rxseq, acked'[Peer(d)], sent'[d])
<1>1. From(d)'
  BY DEF StreamInv
<1> QED  BY <1>1 DEF From, Direction, Agree

\* An acknowledgement that names a packet that is out sets the retries back.
LEMMA AckRetries ==
  ASSUME NEW c, Sound(c), NEW b \in Seqs, Dist(c.rxack, b) <= Unacked(c)
  PROVE  /\ b = c.rxack => Acknowledged(c, b) = c /\ ~AckHits(c, b)
         /\ b # c.rxack => Acknowledged(c, b).retry_times = 0 /\ AckHits(c, b)
<1>1. c \in SequenceContext /\ c.rxack \in Seqs
  BY DEF Sound, SequenceContext
<1>2. ASSUME b = c.rxack PROVE Acknowledged(c, b) = c /\ ~AckHits(c, b)
  BY <1>2 DEF Acknowledged, AckHits
<1>3. ASSUME b # c.rxack PROVE Acknowledged(c, b).retry_times = 0 /\ AckHits(c, b)
  <2>1. Dist(c.rxack, b) \in Nat /\ Dist(Inc(c.rxack), b) = Dist(c.rxack, b) - 1
    BY <1>1, <1>3, DistNext, DistType, LimitType
  <2>2. Unacked(c) \in Nat
    BY <1>1, IncType, DistType, LimitType DEF Unacked, SequenceContext
  <2>3. AckHits(c, b)
    BY <1>3, <2>1, <2>2 DEF AckHits
  <2> QED  BY <1>1, <2>3 DEF Acknowledged, SequenceContext
<1> QED  BY <1>2, <1>3

\* End e takes a frame in and answers it: the direction in which e receives.
LEMMA CalmReceiver ==
  ASSUME StpInv, StreamInv, NEW e \in Ends, wire[Peer(e)] # <<>>, Calm(Peer(e)),
         NEW y \in Seq(Frames),
         wire'[Peer(e)] = Tail(wire[Peer(e)]), wire'[e] = wire[e] \o y,
         sent' = sent, faults' = faults, retryOps' = retryOps, sequence'[Peer(e)] = sequence[Peer(e)],
         asserted'[Peer(e)] = asserted[Peer(e)], rxOk'[Peer(e)] = rxOk[Peer(e)],
         parser'[Peer(e)] = parser[Peer(e)],
         acked'[e] \in Nat, acked[e] <= acked'[e],
         Front(Tail(wire[Peer(e)]), acked'[e], sent[Peer(e)], sequence'[e].expected_rxseq,
               sequence'[e].rx_resync, sequence'[e].rx_resync_seq, failCount'[e], faults),
         \A k \in Nat :
           k >= 1 /\ Copy(wire[Peer(e)], 1, Released(Peer(e)) + k) /\ (faults = 0 \/ k = 1)
             => Len(y) = 1 /\ AckOf(y, 1, sequence[Peer(e)].rxack, k)
  PROVE  Calm(Peer(e))'
<1> DEFINE p == Peer(e)
           w == wire[p]
           v == wire[e]
           a == sequence[p].rxack
           r == Released(p)
           s == sent[p]
           t == sequence[p].retry_times
<1>1. p \in Ends /\ Peer(p) = e
  BY TwoEnds
<1>2. /\ s \in Nat /\ r \in Nat /\ acked[e] \in Nat /\ w \in Seq(Frames) /\ v \in Seq(Frames) /\ w # <<>>
  BY <1>1, CalmBetween
<1>3. Released(p)' = r /\ sent'[p] = s
  BY DEF Released
<1>4. /\ Chain(w, acked[e], s) /\ Ways(w, v, a, r, s, t, faults)
      /\ ~asserted[p] /\ rxOk[p] /\ parser[p] = "sync" /\ t + retryOps[p] <= MaxRetryOps
  BY <1>1 DEF Calm
<1> HIDE DEF w, v, a, r, s, t
<1>5. Chain(Tail(w), acked'[e], s)
  BY <1>2, <1>4, ChainTail, ChainGrows, FirstFrame
<1>6. Ways(Tail(w), v \o y, a, r, s, t, faults)
  <2>1. \A k \in Nat : k >= 1 /\ Copy(w, 1, r + k) /\ (faults = 0 \/ k = 1)
                         => Len(y) = 1 /\ AckOf(y, 1, a, k)
    BY DEF w, r, a
  <2> QED  BY <1>2, <1>4, <2>1, WaysArrived
<1> QED  BY <1>1, <1>3, <1>4, <1>5, <1>6 DEF Calm, w, v, a, r, s, t

\* ... and the direction in which it sends.
LEMMA CalmSender ==
  ASSUME StpInv, StreamInv, StreamInv', NEW e \in Ends, wire[Peer(e)] # <<>>, Calm(e),
         NEW y \in Seq(Frames), \A i \in 1 .. Len(y) : y[i].kind = "ack",
         wire'[Peer(e)] = Tail(wire[Peer(e)]), wire'[e] = wire[e] \o y,
         sent' = sent, faults' = faults, retryOps' = retryOps, acked'[Peer(e)] = acked[Peer(e)],
         sequence'[Peer(e)] = sequence[Peer(e)], failCount'[Peer(e)] = failCount[Peer(e)],
         ~asserted'[e], rxOk'[e], parser'[e] = "sync",
         \/ /\ Incoming(e).kind # "ack"
            /\ sequence'[e].rxack = sequence[e].rxack
            /\ sequence'[e].winspace = sequence[e].winspace
            /\ sequence'[e].retry_times = sequence[e].retry_times
         \/ LET c == Acknowledged(sequence[e], Incoming(e).ack) IN
            /\ Incoming(e).kind # "resync"
            /\ sequence'[e].rxack = c.rxack
            /\ sequence'[e].winspace = c.winspace
            /\ sequence'[e].retry_times = c.retry_times
  PROVE  Calm(e)'
<1> DEFINE p == Peer(e)
           w == wire[e]
           v == wire[p]
           f == Head(v)
           b == f.ack
           a == sequence[e].rxack
           r == Released(e)
           s == sent[e]
           g == acked[p]
           x == sequence[p].expected_rxseq
           t == sequence[e].retry_times
           n == faults
<1>1. /\ s \in Nat /\ g \in Nat /\ r \in Nat /\ r <= g /\ g <= s /\ a \in Seqs /\ x \in Seqs
      /\ w \in Seq(Frames) /\ v \in Seq(Frames) /\ v # <<>> /\ AckWire(v, a, g - r)
      /\ retryOps[e] \in Nat /\ t \in Nat
  BY CalmBetween
<1>2. /\ Chain(w, g, s) /\ Ways(w, v, a, r, s, t, n)
      /\ Front(w, g, s, x, sequence[p].rx_resync, sequence[p].rx_resync_seq, failCount[p], n)
      /\ t + retryOps[e] <= MaxRetryOps
  BY DEF Calm
<1>3. Sound(sequence[e]) /\ Unacked(sequence[e]) = s - r
  BY Between
<1>4. sequence[e].winspace \in Nat
  BY LimitType DEF StpInv, TypeOK, SequenceContext
<1>5. DataWire(w \o y, x, g, s)
  BY CalmAfter
<1>6. f \in Frames /\ b \in Seqs /\ f = v[1] /\ 1 \in 1 .. Len(v) /\ f = Incoming(e)
  <2>1. f \in Frames /\ f = v[1] /\ 1 \in 1 .. Len(v)
    BY <1>1, FirstFrame
  <2> QED  BY <2>1 DEF Frames, Incoming
<1> HIDE DEF w, v, f, a, r, s, g, x
<1>7. Chain(w \o y, g, s)
  BY <1>1, <1>2, AcksContinue, ChainJoined
<1>8. Front(w \o y, g, s, x, sequence[p].rx_resync, sequence[p].rx_resync_seq, failCount[p], n)
  BY <1>1, <1>2, <1>5, AcksContinue, FrontJoined
<1>9. Tail(v) \in Seq(Frames) /\ <<>> \in Seq(Frames) /\ Tail(v) \o <<>> = Tail(v)
  <2>1. Tail(v) \in Seq(Frames)
    BY <1>1, FirstFrame
  <2> QED  BY <2>1
<1>10. \A a1, r1, t1 : Ways(w, Tail(v), a1, r1, s, t1, n) => Ways(w \o y, Tail(v), a1, r1, s, t1, n)
  <2> SUFFICES ASSUME NEW a1, NEW r1, NEW t1, Ways(w, Tail(v), a1, r1, s, t1, n)
               PROVE  Ways(w \o y, Tail(v), a1, r1, s, t1, n)
    OBVIOUS
  <2>1. Ways(w \o y, Tail(v) \o <<>>, a1, r1, s, t1, n)
    BY <1>1, <1>9, WaysJoined
  <2> QED  BY <1>9, <2>1
<1>11. sent'[e] = s /\ acked'[p] = g
  BY DEF s, g
<1>12. CASE /\ f.kind # "ack" \/ b = a
            /\ sequence'[e].rxack = a /\ sequence'[e].winspace = sequence[e].winspace
            /\ sequence'[e].retry_times = t
  <2>1. Released(e)' = r
    BY <1>12 DEF Released, r
  <2>2. Ways(w, Tail(v), a, r, s, t, n)
    BY <1>1, <1>2, <1>12, WaysKept DEF f
  <2> QED
    BY <1>2, <1>7, <1>8, <1>9, <1>10, <1>11, <1>12, <2>1, <2>2 DEF Calm, w, v, x, g, s
<1>13. CASE /\ f.kind # "resync" /\ b # a
            /\ sequence'[e].rxack = Acknowledged(sequence[e], b).rxack
            /\ sequence'[e].winspace = Acknowledged(sequence[e], b).winspace
            /\ sequence'[e].retry_times = Acknowledged(sequence[e], b).retry_times
  <2>1. Dist(a, b) <= g - r
    BY <1>1, <1>6, <1>13 DEF AckWire, AckFits
  <2>2. Dist(a, b) \in Nat /\ Dist(a, b) <= s - r
    BY <1>1, <1>6, <2>1, DistType, LimitType
  <2>3. /\ sequence'[e].rxack = b /\ sequence'[e].winspace = sequence[e].winspace + Dist(a, b)
        /\ sequence'[e].retry_times = 0
    BY <1>3, <1>6, <1>13, <2>2, AckAdvance, AckRetries DEF a
  <2>4. Released(e)' = r + Dist(a, b)
    <3>1. Released(e)' = s - (WinSize - (sequence[e].winspace + Dist(a, b)))
      BY <1>11, <2>3 DEF Released
    <3>2. r = s - (WinSize - sequence[e].winspace)
      BY DEF Released, r, s
    <3>3. PICK m \in Nat : m = sequence[e].winspace
      BY <1>4
    <3>4. PICK k \in Nat : k = Dist(a, b)
      BY <2>2
    <3>5. s - (WinSize - (m + k)) = s - (WinSize - m) + k
      BY <1>1, LimitType
    <3> QED  BY <3>1, <3>2, <3>3, <3>4, <3>5, Zenon
  <2>5. Ways(w, Tail(v), b, r + Dist(a, b), s, 0, n)
    BY <1>1, <1>2, <1>13, WaysAcked DEF f
  <2>6. 0 + retryOps[e] <= MaxRetryOps
    BY <1>1, <1>2, LimitType
  <2> QED
    BY <1>7, <1>8, <1>9, <1>10, <1>11, <2>3, <2>4, <2>5, <2>6 DEF Calm, w, v, x, g, s
<1>14. /\ f.kind # "resync" /\ b = a => Acknowledged(sequence[e], b) = sequence[e]
  BY <1>6 DEF Acknowledged, AckHits, a
<1> QED  BY <1>6, <1>12, <1>13, <1>14 DEF a

----------------------------------------------------------------------------
(* Every step keeps a calm link calm *)

\* End e writes something, and nothing is parsed: the direction in which e receives.
LEMMA CalmHears ==
  ASSUME StpInv, StreamInv, AllCalm, NEW e \in Ends, NEW y \in Seq(Frames),
         wire'[Peer(e)] = wire[Peer(e)], wire'[e] = wire[e] \o y,
         sent'[Peer(e)] = sent[Peer(e)], acked' = acked, faults' = faults,
         retryOps'[Peer(e)] = retryOps[Peer(e)], sequence'[Peer(e)] = sequence[Peer(e)],
         asserted'[Peer(e)] = asserted[Peer(e)], rxOk' = rxOk, parser' = parser, failCount' = failCount,
         sequence'[e].expected_rxseq = sequence[e].expected_rxseq,
         sequence'[e].rx_resync = sequence[e].rx_resync,
         sequence'[e].rx_resync_seq = sequence[e].rx_resync_seq
  PROVE  Calm(Peer(e))'
<1> DEFINE p == Peer(e)
           w == wire[p]
           v == wire[e]
           r == Released(p)
           a == sequence[p].rxack
           s == sent[p]
           t == sequence[p].retry_times
<1>1. p \in Ends /\ Peer(p) = e
  BY TwoEnds
<1>2. w \in Seq(Frames) /\ v \in Seq(Frames)
  BY <1>1, CalmBetween
<1>3. Released(p)' = r
  BY DEF Released
<1>4. Calm(p)
  BY <1>1 DEF AllCalm
<1>5. Ways(w, v, a, r, s, t, faults)
  BY <1>1, <1>4 DEF Calm
<1> HIDE DEF w, v, a, r, s, t
<1>6. Ways(w, v \o y, a, r, s, t, faults)
  <2>1. <<>> \in Seq(Frames) /\ w \o <<>> = w
    BY <1>2
  <2> QED  BY <1>2, <1>5, <2>1, WaysJoined
<1> QED  BY <1>1, <1>3, <1>4, <1>6 DEF Calm, w, v, a, r, s, t

\* A packet is sent.
LEMMA CalmSend ==
  ASSUME StpInv, StreamInv, StreamInv', AllCalm, NEW e \in Ends, Send(e)
  PROVE  AllCalm'
<1> DEFINE p == Peer(e)
           c == sequence[e]
           w == wire[e]
           v == wire[p]
           g == acked[p]
           s == sent[e]
           r == Released(e)
           a == c.rxack
           t == c.retry_times
           x == sequence[p].expected_rxseq
           n == faults
           f == DataFrame(c.txseq, c.txack, s + 1)
           u == <<f>>
<1>1. /\ p \in Ends /\ p # e /\ \A d \in Ends : d = e \/ d = p
  BY TwoEnds
<1>2. /\ sent \in [Ends -> Nat] /\ wire \in [Ends -> Seq(Frames)]
      /\ sequence \in [Ends -> SequenceContext]
      /\ c.txseq \in Seqs /\ c.txack \in Seqs /\ c.winspace \in Nat
  <2>1. /\ sequence \in [Ends -> SequenceContext] /\ c \in SequenceContext
        /\ sent \in [Ends -> Nat] /\ wire \in [Ends -> Seq(Frames)]
    BY DEF StpInv, TypeOK
  <2>2. c.txseq \in Seqs /\ c.txack \in Seqs /\ c.winspace \in Nat
    BY <2>1, LimitType DEF SequenceContext
  <2> QED  BY <2>1, <2>2
<1>3. /\ s \in Nat /\ g \in Nat /\ r \in Nat /\ a \in Seqs /\ x \in Seqs
      /\ w \in Seq(Frames) /\ v \in Seq(Frames)
  BY CalmBetween
<1>4. f \in Frames /\ f.kind = "data" /\ f.pay = s + 1
  <2>1. s + 1 \in Nat
    BY <1>3
  <2> QED  BY <1>2, <2>1, FrameType DEF DataFrame
<1>5. u \in Seq(Frames)
  BY <1>4
<1>6. wire'[e] = w \o u /\ wire'[p] = v
  <2>1. Append(w, f) = w \o u
    BY <1>3, <1>4, AppendIsConcat, Zenon
  <2> QED  BY <1>1, <1>2, <2>1 DEF Send
<1>7. /\ sent'[e] = s + 1 /\ sent'[p] = sent[p]
      /\ UNCHANGED <<retryOps, parser, rxOk, failCount, asserted, acked, faults>>
  BY <1>1, <1>2 DEF Send
<1>8. /\ sequence'[p] = sequence[p] /\ sequence'[e].winspace = c.winspace - 1
      /\ sequence'[e].rxack = a /\ sequence'[e].retry_times = t
      /\ sequence'[e].expected_rxseq = c.expected_rxseq
      /\ sequence'[e].rx_resync = c.rx_resync /\ sequence'[e].rx_resync_seq = c.rx_resync_seq
  BY <1>1, <1>2 DEF Send, SequenceContext
<1>9. Released(e)' = r
  BY <1>2, <1>7, <1>8, LimitType DEF Released
<1>10. Calm(p)'
  <2> HIDE DEF u
  <2> QED  BY <1>5, <1>6, <1>7, <1>8, CalmHears
<1>11. Calm(e)
  BY DEF AllCalm
<1>12. /\ Chain(w, g, s) /\ Ways(w, v, a, r, s, t, n)
       /\ Front(w, g, s, x, sequence[p].rx_resync, sequence[p].rx_resync_seq, failCount[p], n)
  BY <1>11 DEF Calm
<1>13. DataWire(w \o u, x, g, s + 1)
  BY <1>6, <1>7, <1>8, CalmAfter
<1>14. s + 1 \in Nat
  BY <1>3
<1> HIDE DEF w, v, g, s, r, a, t, x, n, f
<1>15. Chain(u, g, s + 1) /\ Continues(u, s, s + 1)
  BY <1>3, <1>4, SendContinues
<1>16. Ways(w \o u, v, a, r, s + 1, t, n)
  BY <1>3, <1>4, <1>12, WaysSent
<1> HIDE DEF u
<1>17. Chain(w \o u, g, s + 1)
  BY <1>3, <1>5, <1>12, <1>15, ChainJoined
<1>18. Front(w \o u, g, s + 1, x, sequence[p].rx_resync, sequence[p].rx_resync_seq, failCount[p], n)
  BY <1>3, <1>5, <1>12, <1>13, <1>14, <1>15, FrontJoined
<1>19. Calm(e)'
  BY <1>6, <1>7, <1>8, <1>9, <1>11, <1>16, <1>17, <1>18 DEF Calm, v, g, a, t, x, n
<1> QED  BY <1>1, <1>10, <1>19 DEF AllCalm

\* A timeout that finds the wires empty finds its sender without a repetition
\* that is not acknowledged yet.
LEMMA CalmTimerFires ==
  ASSUME StpInv, AllCalm, NEW e \in Ends, TimerFires(e), ~upset'
  PROVE  AllCalm'
<1>1. /\ Peer(e) \in Ends /\ Peer(e) # e /\ \A d \in Ends : d = e \/ d = Peer(e)
  BY TwoEnds
<1>2. /\ UNCHANGED <<sequence, parser, rxOk, failCount, wire, asserted, sent, acked, faults>>
      /\ retryOps \in [Ends -> 0 .. MaxRetryOps] /\ retryOps[e] < MaxRetryOps
      /\ retryOps' = [retryOps EXCEPT ![e] = @ + 1]
  BY DEF TimerFires, StpInv, TypeOK
<1>3. wire[e] = <<>> /\ wire[Peer(e)] = <<>>
  BY <1>1 DEF TimerFires
<1>4. sequence[e].retry_times = 0
  <2>1. sequence[e].retry_times \in Nat
    BY LimitType DEF StpInv, TypeOK, SequenceContext
  <2>2. Ways(<<>>, <<>>, sequence[e].rxack, Released(e), sent[e], sequence[e].retry_times, faults)
    BY <1>3 DEF AllCalm, Calm
  <2>3. ~OneWay(<<>>, <<>>, sequence[e].rxack, Released(e))
    BY DEF OneWay
  <2> QED  BY <2>1, <2>2, <2>3 DEF Ways
<1>5. ASSUME NEW d \in Ends
      PROVE  sequence[d].retry_times + retryOps'[d] <= MaxRetryOps /\ Released(d)' = Released(d)
  <2>1. CASE d = e
    <3>1. retryOps'[d] = retryOps[e] + 1 /\ retryOps[e] \in Nat /\ MaxRetryOps \in Nat
      BY <1>2, <2>1, LimitType
    <3> QED  BY <1>2, <1>4, <2>1, <3>1 DEF Released
  <2>2. CASE d # e
    BY <1>2, <2>2 DEF AllCalm, Calm, Released
  <2> QED  BY <2>1, <2>2
<1> QED  BY <1>2, <1>5 DEF AllCalm, Calm

\* A retransmission is the resync pattern and every packet that is out.
LEMMA RetransmissionRepeats ==
  ASSUME StpInv, StreamInv, NEW e \in Ends, Unacked(sequence[e]) # 0
  PROVE  IsRepeat(Retransmission(e), Released(e), sent[e])
<1> DEFINE s == sent[e]
           r == Released(e)
           c == sequence[e]
           n == Unacked(c)
           At(k) == Ahead(c.rxack, k)
           old(k) == DataFrame(At(k), c.txack, txbuf[e][At(k)])
           resent == [k \in 1 .. n |-> old(k)]
           u == Retransmission(e)
<1>1. s \in Nat /\ r \in Nat /\ n = s - r /\ n \in Nat /\ n >= 1 /\ Kept(txbuf[e], c.rxack, r, s)
  BY Between DEF Typed, Direction, Agree
<1>2. \A k \in 1 .. n : old(k).kind = "data" /\ old(k).pay = r + k
  BY <1>1 DEF Kept, DataFrame
<1> HIDE DEF old
<1>3. u = <<Resync>> \o resent
  BY DEF Retransmission, old
<1>4. Len(resent) = n /\ (\A k \in 1 .. n : resent[k] = old(k)) /\ Len(<<Resync>>) = 1
  BY <1>1
<1>5. Len(u) = n + 1 /\ u[1] = Resync /\ \A i \in 2 .. Len(u) : u[i] = old(i - 1)
  BY <1>1, <1>3, <1>4
<1>6. ASSUME NEW i \in 2 .. Len(u) PROVE u[i].kind = "data" /\ u[i].pay = r + i - 1
  <2>1. i - 1 \in 1 .. n /\ u[i] = old(i - 1) /\ r + (i - 1) = r + i - 1
    BY <1>1, <1>5
  <2> QED  BY <1>2, <2>1
<1>7. Len(u) = s - r + 1
  BY <1>1, <1>5
<1> QED  BY <1>5, <1>6, <1>7 DEF IsRepeat, Resync

\* It carries no acknowledgement but the last one.
LEMMA RetransmissionFrames ==
  ASSUME StpInv, NEW e \in Ends, NEW i \in 1 .. Len(Retransmission(e))
  PROVE  LET f == Retransmission(e)[i] IN
         f.kind # "ack" /\ (f.kind = "resync" \/ f.ack = sequence[e].txack)
<1> DEFINE c == sequence[e]
           n == Unacked(c)
           At(k) == Ahead(c.rxack, k)
           old(k) == DataFrame(At(k), c.txack, txbuf[e][At(k)])
           resent == [k \in 1 .. n |-> old(k)]
           u == Retransmission(e)
<1>1. \A k \in 1 .. n : old(k).kind = "data" /\ old(k).ack = c.txack
  BY DEF DataFrame
<1> HIDE DEF old
<1>2. n # 0
  <2>1. n = 0 => u = <<>>
    BY DEF Retransmission
  <2> QED  BY <2>1
<1>5. u = <<Resync>> \o resent
  BY <1>2 DEF Retransmission, old
<1>6. n \in Nat
  <2>1. c \in SequenceContext
    BY DEF StpInv, TypeOK
  <2> HIDE DEF c
  <2>2. c.rxack \in Seqs /\ c.txseq \in Seqs
    BY <2>1 DEF SequenceContext
  <2>3. Unacked(c) \in Nat
    BY <2>2, IncType, DistType, LimitType DEF Unacked
  <2> QED  BY <2>3
<1>7. Len(resent) = n /\ (\A k \in 1 .. n : resent[k] = old(k)) /\ Len(<<Resync>>) = 1
  BY <1>6
<1>8. Len(u) = n + 1 /\ u[1] = Resync /\ \A j \in 2 .. Len(u) : u[j] = old(j - 1)
  BY <1>5, <1>6, <1>7
<1>3. CASE i = 1
  BY <1>3, <1>8 DEF Resync
<1>4. CASE i # 1
  <2>1. i - 1 \in 1 .. n /\ u[i] = old(i - 1)
    BY <1>4, <1>6, <1>8
  <2> QED  BY <1>1, <2>1
<1> QED  BY <1>3, <1>4

\* A repetition for which there is a retry in the queue is not the last one.
LEMMA CalmRetried ==
  ASSUME StpInv, NEW e \in Ends, sequence[e].retry_times + retryOps[e] <= RetryLimit, retryOps[e] > 0,
         NEW pending \in BOOLEAN
  PROVE  LET c == sequence[e]
             u == Retried(e, pending)
         IN /\ ~(c.retry_times > RetryLimit) /\ ~u.up
            /\ Unacked(c) = 0 => u.seq = c /\ u.on = FALSE
            /\ Unacked(c) # 0 => u.seq = Counted(c, c.retry_times + 1, c.tx_timeout_loop)
<1> DEFINE c == sequence[e]
<1>1. c \in SequenceContext /\ c.winspace + Unacked(c) = WinSize /\ retryOps[e] \in Nat
  BY DEF StpInv, TypeOK, WindowExact
<1>2. c.retry_times \in Nat /\ c.rxack \in Seqs /\ c.txseq \in Seqs /\ c.winspace \in Nat
  BY <1>1, LimitType DEF SequenceContext
<1>3. Unacked(c) \in Nat
  BY <1>2, IncType, DistType, LimitType DEF Unacked
<1>4. Unacked(c) = 0 <=> c.winspace = WinSize
  BY <1>1, <1>2, <1>3, LimitType
<1>5. c.retry_times + 1 <= RetryLimit /\ ~(c.retry_times > RetryLimit)
  BY <1>1, <1>2, LimitType
<1>6. [c EXCEPT !.retry_times = @ + 1] = Counted(c, c.retry_times + 1, c.tx_timeout_loop)
  BY <1>1 DEF SequenceContext, Counted
<1> QED  BY <1>4, <1>5, <1>6 DEF Retried

\* A retry is handled.
LEMMA CalmTimeout ==
  ASSUME StpInv, StreamInv, StreamInv', AllCalm, NEW e \in Ends, DoTxTimeout(e),
         sequence[e].retry_times + retryOps[e] <= RetryLimit
  PROVE  AllCalm'
<1> DEFINE p == Peer(e)
           c == sequence[e]
           w == wire[e]
           v == wire[p]
           g == acked[p]
           s == sent[e]
           r == Released(e)
           a == c.rxack
           t == c.retry_times
           x == sequence[p].expected_rxseq
           n == faults
           u == Retransmission(e)
           m == Unacked(c)
<1>1. /\ p \in Ends /\ p # e /\ \A d \in Ends : d = e \/ d = p
  BY TwoEnds
<1>2. /\ wire \in [Ends -> Seq(Frames)] /\ sequence \in [Ends -> SequenceContext]
      /\ asserted \in [Ends -> BOOLEAN] /\ retryOps \in [Ends -> 0 .. MaxRetryOps]
      /\ retryOps[e] > 0 /\ u \in Seq(Frames) /\ retryOps[e] \in Nat
  BY RetransmissionType DEF StpInv, TypeOK, DoTxTimeout
<1>3. /\ s \in Nat /\ g \in Nat /\ r \in Nat /\ r <= g /\ g <= s
      /\ a \in Seqs /\ x \in Seqs /\ t \in Nat
      /\ w \in Seq(Frames) /\ v \in Seq(Frames)
  BY CalmBetween
<1>4. m = s - r
  BY Between
<1>5. Calm(e)
  BY DEF AllCalm
<1>6. PICK pending \in BOOLEAN :
        /\ wire' = [wire EXCEPT ![e] = w \o u]
        /\ sequence' = [sequence EXCEPT ![e] = Retried(e, pending).seq]
        /\ asserted' = [asserted EXCEPT ![e] = asserted[e] \/ Retried(e, pending).up]
  <2>1. ~(t > RetryLimit)
    BY <1>2, CalmRetried
  <2> QED  BY <2>1 DEF DoTxTimeout
<1> DEFINE k == Retried(e, pending)
<1>7. /\ m = 0 => k.seq = c
      /\ m # 0 => k.seq = Counted(c, t + 1, c.tx_timeout_loop)
  BY <1>2, CalmRetried
<1>8. /\ sequence'[p] = sequence[p] /\ sequence'[e] = k.seq
      /\ wire'[e] = w \o u /\ wire'[p] = v /\ asserted'[p] = asserted[p] /\ asserted'[e] = asserted[e]
  <2> HIDE DEF k
  <2>1. asserted'[e] = (asserted[e] \/ k.up) /\ ~k.up
    BY <1>2, <1>6, CalmRetried DEF k
  <2>2. asserted'[e] = asserted[e]
    BY <1>2, <2>1
  <2> QED  BY <1>1, <1>2, <1>6, <2>2 DEF k
<1>9. /\ UNCHANGED <<parser, rxOk, failCount, sent, acked, faults>>
      /\ retryOps'[e] = retryOps[e] - 1 /\ retryOps'[p] = retryOps[p]
  BY <1>1, <1>2 DEF DoTxTimeout
<1> HIDE DEF k
<1>10. /\ sequence'[e].rxack = a /\ sequence'[e].winspace = c.winspace
       /\ sequence'[e].expected_rxseq = c.expected_rxseq
       /\ sequence'[e].rx_resync = c.rx_resync /\ sequence'[e].rx_resync_seq = c.rx_resync_seq
       /\ m = 0 => sequence'[e].retry_times = t
       /\ m # 0 => sequence'[e].retry_times = t + 1
  <2>1. c \in SequenceContext
    BY <1>2
  <2> HIDE DEF c
  <2>2. CASE m = 0
    BY <1>7, <1>8, <2>2 DEF a, t, c
  <2>3. CASE m # 0
    BY <1>7, <1>8, <2>1, <2>3 DEF Counted, SequenceContext, a, t, c
  <2> QED  BY <2>2, <2>3
<1>11. Released(e)' = r
  BY <1>9, <1>10 DEF Released
<1>12. Calm(p)'
  <2> HIDE DEF u
  <2> QED  BY <1>2, <1>8, <1>9, <1>10, CalmHears
<1>13. /\ Chain(w, g, s) /\ Ways(w, v, a, r, s, t, n) /\ t + retryOps[e] <= MaxRetryOps
       /\ Front(w, g, s, x, sequence[p].rx_resync, sequence[p].rx_resync_seq, failCount[p], n)
  BY <1>5 DEF Calm
<1>14. DataWire(w \o u, x, g, s)
  BY <1>8, <1>9, CalmAfter
<1>15. sequence'[e].retry_times + retryOps'[e] <= MaxRetryOps
  BY <1>2, <1>3, <1>9, <1>10, <1>13, LimitType
<1>16. m # 0 => IsRepeat(u, r, s)
  BY RetransmissionRepeats
<1>17. m = 0 => u = <<>>
  BY DEF Retransmission
<1> HIDE DEF w, v, g, s, r, a, t, x, n, u, m, c
<1>18. Chain(u, g, s) /\ Continues(u, s, s)
  <2>1. CASE m = 0
    BY <1>17, <2>1 DEF Chain, Continues
  <2>2. CASE m # 0
    <3>1. r < s
      BY <1>3, <1>4, <2>2
    <3> QED  BY <1>2, <1>3, <1>16, <2>2, <3>1, RepeatContinues
  <2> QED  BY <2>1, <2>2
<1>19. Chain(w \o u, g, s)
  BY <1>2, <1>3, <1>13, <1>18, ChainJoined
<1>20. Front(w \o u, g, s, x, sequence[p].rx_resync, sequence[p].rx_resync_seq, failCount[p], n)
  BY <1>2, <1>3, <1>13, <1>14, <1>18, FrontJoined
<1>21. Ways(w \o u, v, a, r, s, sequence'[e].retry_times, n)
  <2>1. CASE m = 0
    <3>1. w \o u = w
      BY <1>3, <1>17, <2>1
    <3> QED  BY <1>10, <1>13, <2>1, <3>1
  <2>2. CASE m # 0
    <3>1. r < s
      BY <1>3, <1>4, <2>2
    <3> QED  BY <1>2, <1>3, <1>13, <1>16, <2>2, <3>1, WaysRepeated
  <2> QED  BY <2>1, <2>2
<1>22. Calm(e)'
  BY <1>5, <1>8, <1>9, <1>10, <1>11, <1>15, <1>19, <1>20, <1>21 DEF Calm, v, g, s, x, n, a
<1> QED  BY <1>1, <1>12, <1>22 DEF AllCalm

\* What the parsing of a frame does to the wires and to the other end.
LEMMA CalmParsed ==
  ASSUME StpInv, NEW e \in Ends, wire[Peer(e)] # <<>>, NEW y \in Seq(Frames), Parse(e, y)
  PROVE  LET p == Peer(e) IN
         /\ p \in Ends /\ p # e /\ Peer(p) = e /\ \A d \in Ends : d = e \/ d = p
         /\ wire'[p] = Tail(wire[p]) /\ wire'[e] = wire[e] \o y
         /\ Incoming(e) = Head(wire[p]) /\ Incoming(e) = wire[p][1] /\ Incoming(e) \in Frames
<1>1. TypeOK
  BY DEF StpInv
<1>2. /\ wire'[Peer(e)] = Tail(wire[Peer(e)]) /\ wire'[e] = wire[e] \o y
      /\ wire[Peer(e)] \in Seq(Frames) /\ Incoming(e) = Head(wire[Peer(e)]) /\ Incoming(e) \in Frames
  BY <1>1, Parsed
<1>3. Head(wire[Peer(e)]) = wire[Peer(e)][1]
  BY <1>2, FirstFrame
<1> QED  BY <1>2, <1>3, TwoEnds

\* A resync pattern.
LEMMA CalmResync ==
  ASSUME StpInv, StreamInv, StreamInv', AllCalm, NEW e \in Ends, wire[Peer(e)] # <<>>, RecvResync(e)
  PROVE  AllCalm'
<1> DEFINE p == Peer(e)
           c == sequence[e]
           w == wire[p]
<1>0. <<>> \in Seq(Frames) /\ \A i \in 1 .. Len(<<>>) : <<>>[i].kind = "ack"
  OBVIOUS
<1>1. /\ p \in Ends /\ p # e /\ Peer(p) = e /\ \A d \in Ends : d = e \/ d = p
      /\ wire'[p] = Tail(w) /\ wire'[e] = wire[e] \o <<>>
      /\ Incoming(e) = Head(w) /\ Incoming(e) = w[1]
  BY <1>0, CalmParsed DEF RecvResync
<1>2. /\ UNCHANGED <<retryOps, rxOk, failCount, asserted, sent, acked, faults>>
      /\ Incoming(e).kind = "resync" /\ parser \in [Ends -> {"sync", "resync"}]
      /\ sequence \in [Ends -> SequenceContext]
  BY DEF RecvResync, StpInv, TypeOK
<1>3. parser'[e] = "sync" /\ parser'[p] = parser[p]
  BY <1>1, <1>2 DEF RecvResync
<1>4. /\ sequence'[p] = sequence[p]
      /\ sequence'[e].rxack = c.rxack /\ sequence'[e].winspace = c.winspace
      /\ sequence'[e].retry_times = c.retry_times /\ sequence'[e].expected_rxseq = c.expected_rxseq
      /\ sequence'[e].rx_resync = TRUE /\ sequence'[e].rx_resync_seq = Unset
  BY <1>1, <1>2 DEF RecvResync, SequenceContext
<1>5. Calm(e) /\ Calm(p)
  BY <1>1 DEF AllCalm
<1>6. ~asserted'[e] /\ rxOk'[e]
  BY <1>2, <1>5 DEF Calm
<1>7. Calm(e)'
  BY <1>0, <1>1, <1>2, <1>3, <1>4, <1>5, <1>6, CalmSender
<1>8. Calm(p)'
  <2>1. acked[e] \in Nat /\ w \in Seq(Frames)
    BY <1>1, CalmBetween
  <2>2. /\ Front(w, acked[e], sent[p], c.expected_rxseq, c.rx_resync, c.rx_resync_seq, failCount[e], faults)
        /\ Chain(w, acked[e], sent[p])
    BY <1>1, <1>5 DEF Calm
  <2>3. Front(Tail(w), acked[e], sent[p], c.expected_rxseq, TRUE, Unset, failCount[e], faults)
    BY <1>1, <1>2, <2>1, <2>2, FrontResync
  <2>4. \A k \in Nat : ~Copy(w, 1, Released(p) + k)
    BY <1>1, <1>2 DEF Copy
  <2>5. acked'[e] \in Nat /\ acked[e] <= acked'[e]
    BY <1>2, <2>1
  <2> QED  BY <1>0, <1>1, <1>2, <1>3, <1>4, <1>5, <2>3, <2>4, <2>5, CalmReceiver
<1> QED  BY <1>1, <1>7, <1>8 DEF AllCalm

\* What stp_process_rxack leaves alone.
LEMMA AckLeaves ==
  ASSUME NEW c \in SequenceContext, NEW b
  PROVE  LET t == Acknowledged(c, b) IN
         /\ t.txack = c.txack /\ t.expected_rxseq = c.expected_rxseq
         /\ t.rx_resync = c.rx_resync /\ t.rx_resync_seq = c.rx_resync_seq
<1>1. CASE AckHits(c, b)
  BY <1>1 DEF Acknowledged, SequenceContext
<1>2. CASE ~AckHits(c, b)
  BY <1>2 DEF Acknowledged
<1> QED  BY <1>1, <1>2

\* An acknowledgement without data.
LEMMA CalmAck ==
  ASSUME StpInv, StreamInv, StreamInv', AllCalm, NEW e \in Ends, wire[Peer(e)] # <<>>, RecvAck(e)
  PROVE  AllCalm'
<1> DEFINE p == Peer(e)
           c == sequence[e]
           w == wire[p]
           t == Acknowledged(c, Incoming(e).ack)
<1>0. <<>> \in Seq(Frames) /\ \A i \in 1 .. Len(<<>>) : <<>>[i].kind = "ack"
  OBVIOUS
<1>1. /\ p \in Ends /\ p # e /\ Peer(p) = e /\ \A d \in Ends : d = e \/ d = p
      /\ wire'[p] = Tail(w) /\ wire'[e] = wire[e] \o <<>>
      /\ Incoming(e) = Head(w) /\ Incoming(e) = w[1]
  BY <1>0, CalmParsed DEF RecvAck
<1>2. /\ UNCHANGED <<retryOps, parser, rxOk, failCount, asserted, sent, acked, faults>>
      /\ Incoming(e).kind = "ack"
      /\ sequence \in [Ends -> SequenceContext] /\ c \in SequenceContext
  BY DEF RecvAck, StpInv, TypeOK
<1>3. sequence'[e] = t /\ sequence'[p] = sequence[p]
  BY <1>1, <1>2 DEF RecvAck
<1>4. /\ t.expected_rxseq = c.expected_rxseq
      /\ t.rx_resync = c.rx_resync /\ t.rx_resync_seq = c.rx_resync_seq
  BY <1>2, AckLeaves
<1> HIDE DEF t
<1>5. Calm(e) /\ Calm(p)
  BY <1>1 DEF AllCalm
<1>6. ~asserted'[e] /\ rxOk'[e] /\ parser'[e] = "sync"
  BY <1>2, <1>5 DEF Calm
<1>7. Calm(e)'
  BY <1>0, <1>1, <1>2, <1>3, <1>5, <1>6, CalmSender DEF t
<1>8. Calm(p)'
  <2>1. acked[e] \in Nat /\ w \in Seq(Frames)
    BY <1>1, CalmBetween
  <2>2. Front(w, acked[e], sent[p], c.expected_rxseq, c.rx_resync, c.rx_resync_seq, failCount[e], faults)
    BY <1>1, <1>5 DEF Calm
  <2>3. Front(Tail(w), acked[e], sent[p], c.expected_rxseq, c.rx_resync, c.rx_resync_seq,
              failCount[e], faults)
    BY <1>1, <1>2, <2>1, <2>2, FrontAck
  <2>4. \A k \in Nat : ~Copy(w, 1, Released(p) + k)
    BY <1>1, <1>2 DEF Copy
  <2>5. acked'[e] \in Nat /\ acked[e] <= acked'[e]
    BY <1>2, <2>1
  <2> QED  BY <1>0, <1>1, <1>2, <1>3, <1>4, <1>5, <2>3, <2>4, <2>5, CalmReceiver
<1> QED  BY <1>1, <1>7, <1>8 DEF AllCalm

\* A count within the limit leads to no assert.
LEMMA CountedCalmly ==
  ASSUME StpInv, NEW e \in Ends, NEW n \in Nat, n <= RetryLimit, CountFailure(e, n)
  PROVE  /\ failCount'[e] = n /\ asserted'[e] = asserted[e]
         /\ \A d \in Ends \ {e} : failCount'[d] = failCount[d] /\ asserted'[d] = asserted[d]
<1>1. asserted \in [Ends -> BOOLEAN] /\ failCount \in [Ends -> 0 .. RetryLimit]
  BY DEF StpInv, TypeOK
<1>2. ~(n > RetryLimit)
  BY LimitType
<1>3. failCount' = [failCount EXCEPT ![e] = n]
  BY <1>2 DEF CountFailure
<1>4. asserted' = [asserted EXCEPT ![e] = asserted[e] \/ n > RetryLimit]
  BY DEF CountFailure
<1>5. (asserted[e] \/ n > RetryLimit) = asserted[e]
  BY <1>1, <1>2
<1> QED  BY <1>1, <1>3, <1>4, <1>5
----------------------------------------------------------------------------
(* How many timeouts the BTM thread can be behind on a calm link *)

\* Every packet that the receiver still needs is on the wire.
Whole(w, g, s) == \A k \in g + 1 .. s : \E i \in 1 .. Len(w) : Copy(w, i, k)
Intact(w, g, s, x, b, q) == InStep(w, g, s, x, b, q) /\ Whole(w, g, s)

\* ... or is behind a resync pattern on it.
Repaired(w, g, s) ==
  \E i \in 1 .. Len(w) : /\ w[i].kind = "resync"
                         /\ \A k \in g + 1 .. s : \E j \in i + 1 .. Len(w) : Copy(w, j, k)

\* The last of the m packets taken over is being acknowledged.
Home(v, a, m) == m > 0 => \E j \in 1 .. Len(v) : AckOf(v, j, a, m)

\* That acknowledgement was lost: it is the one that whatever follows carries.
Late(v, a, m) == \A j \in 1 .. Len(v) : v[j].kind # "resync" => Dist(a, v[j].ack) = m

\* One loss harms the packets or their acknowledgement, not both.
Traced(w, v, g, s, r, x, b, q, a, n) ==
  \/ Intact(w, g, s, x, b, q) /\ Home(v, a, g - r)
  \/ n = 1 /\ Home(v, a, g - r)
  \/ n = 1 /\ Intact(w, g, s, x, b, q) /\ Late(v, a, g - r)

\* No timeout is needed for everything that is out to be acknowledged.
HasData(w) == \E i \in 1 .. Len(w) : w[i].kind = "data"
Safe(w, v, g, s, r, x, b, q, a) ==
  \/ Home(v, a, g - r) /\ (Intact(w, g, s, x, b, q) \/ Repaired(w, g, s))
  \/ Intact(w, g, s, x, b, q) /\ Late(v, a, g - r) /\ HasData(w)

\* Retries done and due, and the timer (k = 1) when it runs although nothing is
\* out, which takes a restart: none was added by the loss; or the sender is
\* blocked by it, and has one more for each packet that is out; or it has been
\* unblocked.
Idle(k, s, r) == IF s = r THEN k ELSE 0
Backlog(w, v, g, s, r, x, b, q, a, t, o, k, n, z) ==
  \/ t + o + Idle(k, s, r) <= z
  \/ n = 1 /\ s > r /\ t = 0 /\ ~OneWay(w, v, a, r) /\ o + k <= s - r + z
  \/ n = 1 /\ Safe(w, v, g, s, r, x, b, q, a) /\ t + o + Idle(k, s, r) <= WinSize + z

Running(d) == IF timer[d] THEN 1 ELSE 0

\* The two parts of what is kept track of.
Track(w, v, g, s, r, x, b, q, a, t, o, k, n, z) ==
  /\ Traced(w, v, g, s, r, x, b, q, a, n)
  /\ Backlog(w, v, g, s, r, x, b, q, a, t, o, k, n, z)

Trace(d) ==
  LET p == Peer(d)
      c == sequence[p]
  IN
  Track(wire[d], wire[p], acked[p], sent[d], Released(d), c.expected_rxseq, c.rx_resync,
        c.rx_resync_seq, sequence[d].rxack, sequence[d].retry_times, retryOps[d], Running(d),
        faults, restarts)

AllTraced == \A d \in Ends : Trace(d)

\* The head of the wire is no packet that is needed afterwards.
LEMMA WholeTail ==
  ASSUME NEW w \in Seq(Frames), w # <<>>, NEW g \in Nat, NEW h \in Nat, g <= h, NEW s \in Nat,
         Whole(w, g, s), Head(w).kind = "data" => Head(w).pay <= h
  PROVE  Whole(Tail(w), h, s)
<1> SUFFICES ASSUME NEW k \in h + 1 .. s PROVE \E i \in 1 .. Len(Tail(w)) : Copy(Tail(w), i, k)
  BY DEF Whole
<1>1. k \in g + 1 .. s /\ ~(k <= h)
  OBVIOUS
<1>2. PICK i \in 1 .. Len(w) : Copy(w, i, k)
  BY <1>1 DEF Whole
<1>3. i # 1
  BY <1>1, <1>2, TailPlace DEF Copy
<1>4. i - 1 \in 1 .. Len(Tail(w)) /\ Tail(w)[i - 1] = w[i]
  BY <1>3, TailPlace
<1> QED  BY <1>2, <1>4 DEF Copy

\* What u brings, up to packet t, is added.
Brings(u, s, t) == \A k \in s + 1 .. t : \E i \in 1 .. Len(u) : Copy(u, i, k)

LEMMA WholeJoined ==
  ASSUME NEW w \in Seq(Frames), NEW u \in Seq(Frames), NEW g \in Nat, NEW s \in Nat, NEW t \in Nat,
         Whole(w, g, s), Brings(u, s, t)
  PROVE  Whole(w \o u, g, t)
<1> SUFFICES ASSUME NEW k \in g + 1 .. t PROVE \E i \in 1 .. Len(w \o u) : Copy(w \o u, i, k)
  BY DEF Whole
<1>1. CASE k <= s
  <2>1. k \in g + 1 .. s
    BY <1>1
  <2>2. PICK i \in 1 .. Len(w) : Copy(w, i, k)
    BY <2>1 DEF Whole
  <2> QED  BY <2>2, JoinedPlace DEF Copy
<1>2. CASE ~(k <= s)
  <2>1. k \in s + 1 .. t
    BY <1>2
  <2>2. PICK i \in 1 .. Len(u) : Copy(u, i, k)
    BY <2>1 DEF Brings
  <2>3. i + Len(w) \in 1 .. Len(w \o u) /\ (w \o u)[i + Len(w)] = u[i]
    BY JoinedPlace
  <2> QED  BY <2>2, <2>3 DEF Copy
<1> QED  BY <1>1, <1>2

LEMMA RepairedTail ==
  ASSUME NEW w \in Seq(Frames), w # <<>>, NEW g \in Nat, NEW h \in Nat, g <= h, NEW s \in Nat,
         Repaired(w, g, s)
  PROVE  Repaired(Tail(w), h, s) \/ (Head(w).kind = "resync" /\ Whole(Tail(w), h, s))
<1> DEFINE u == Tail(w)
<1>1. PICK i \in 1 .. Len(w) :
        /\ w[i].kind = "resync"
        /\ \A k \in g + 1 .. s : \E j \in i + 1 .. Len(w) : Copy(w, j, k)
  BY DEF Repaired
<1>2. Len(w) \in Nat /\ Len(u) = Len(w) - 1 /\ Head(w) = w[1]
  BY TailPlace, FirstFrame
<1>3. ASSUME NEW k \in h + 1 .. s PROVE \E j \in i .. Len(u) : Copy(u, j, k) /\ j \in 1 .. Len(u)
  <2>1. k \in g + 1 .. s
    OBVIOUS
  <2>2. PICK j \in i + 1 .. Len(w) : Copy(w, j, k)
    BY <1>1, <2>1
  <2>3. j \in 1 .. Len(w) /\ j # 1 /\ j - 1 \in i .. Len(u)
    BY <1>2
  <2>4. j - 1 \in 1 .. Len(u) /\ u[j - 1] = w[j]
    BY <2>3, TailPlace
  <2> QED  BY <2>2, <2>3, <2>4 DEF Copy
<1>4. CASE i = 1
  BY <1>1, <1>2, <1>3, <1>4 DEF Whole
<1>5. CASE i # 1
  <2>1. i - 1 \in 1 .. Len(u) /\ u[i - 1] = w[i] /\ i - 1 + 1 = i
    BY <1>5, TailPlace
  <2> QED  BY <1>1, <1>3, <2>1 DEF Repaired
<1> QED  BY <1>4, <1>5

LEMMA RepairedJoined ==
  ASSUME NEW w \in Seq(Frames), NEW u \in Seq(Frames), NEW g \in Nat, NEW s \in Nat, NEW t \in Nat,
         Repaired(w, g, s), Brings(u, s, t)
  PROVE  Repaired(w \o u, g, t)
<1> DEFINE z == w \o u
<1>1. PICK i \in 1 .. Len(w) :
        /\ w[i].kind = "resync"
        /\ \A k \in g + 1 .. s : \E j \in i + 1 .. Len(w) : Copy(w, j, k)
  BY DEF Repaired
<1>2. Len(w) \in Nat /\ Len(u) \in Nat /\ Len(z) = Len(w) + Len(u) /\ i \in 1 .. Len(z) /\ z[i] = w[i]
  BY JoinedPlace
<1>3. ASSUME NEW k \in g + 1 .. t PROVE \E j \in i + 1 .. Len(z) : Copy(z, j, k)
  <2>1. CASE k <= s
    <3>1. k \in g + 1 .. s
      BY <2>1
    <3>2. PICK j \in i + 1 .. Len(w) : Copy(w, j, k)
      BY <1>1, <3>1
    <3>3. j \in 1 .. Len(w) /\ j \in i + 1 .. Len(z)
      BY <1>2
    <3> QED  BY <3>2, <3>3, JoinedPlace DEF Copy
  <2>2. CASE ~(k <= s)
    <3>1. k \in s + 1 .. t
      BY <2>2
    <3>2. PICK j \in 1 .. Len(u) : Copy(u, j, k)
      BY <3>1 DEF Brings
    <3>3. j + Len(w) \in i + 1 .. Len(z)
      BY <1>2
    <3> QED  BY <3>2, <3>3, JoinedPlace DEF Copy
  <2> QED  BY <2>1, <2>2
<1> QED  BY <1>1, <1>2, <1>3 DEF Repaired

\* A retransmission repairs.
LEMMA RepairedAgain ==
  ASSUME NEW w \in Seq(Frames), NEW u \in Seq(Frames), NEW g \in Nat, NEW r \in Nat, NEW s \in Nat,
         r <= g, r < s, IsRepeat(u, r, s)
  PROVE  Repaired(w \o u, g, s) /\ HasData(w \o u)
<1> DEFINE z == w \o u
<1>1. /\ Len(u) \in Nat /\ Len(u) = s - r + 1 /\ u[1].kind = "resync" /\ 1 \in 1 .. Len(u)
      /\ \A i \in 2 .. Len(u) : u[i].kind = "data" /\ u[i].pay = r + i - 1
  BY DEF IsRepeat
<1>2. Len(w) \in Nat /\ Len(z) = Len(w) + Len(u)
  OBVIOUS
<1>3. ASSUME NEW k \in r + 1 .. s
      PROVE  \E j \in Len(w) + 2 .. Len(z) : Copy(z, j, k) /\ j \in 1 .. Len(z)
  <2>1. k - r + 1 \in 2 .. Len(u) /\ r + (k - r + 1) - 1 = k
    BY <1>1
  <2>2. k - r + 1 \in 1 .. Len(u) /\ k - r + 1 + Len(w) \in Len(w) + 2 .. Len(z)
    BY <1>2, <2>1
  <2>3. k - r + 1 + Len(w) \in 1 .. Len(z) /\ z[k - r + 1 + Len(w)] = u[k - r + 1]
    BY <2>2, JoinedPlace
  <2> QED  BY <1>1, <2>1, <2>2, <2>3 DEF Copy
<1>4. 1 + Len(w) \in 1 .. Len(z) /\ z[1 + Len(w)] = u[1] /\ 1 + Len(w) + 1 = Len(w) + 2
  BY <1>1, <1>2, JoinedPlace
<1>5. \A k \in g + 1 .. s : k \in r + 1 .. s
  OBVIOUS
<1>6. HasData(z)
  <2>1. r + 1 \in r + 1 .. s
    OBVIOUS
  <2> QED  BY <1>3, <2>1 DEF HasData, Copy
<1> QED  BY <1>1, <1>3, <1>4, <1>5, <1>6 DEF Repaired

\* The sender takes note of no acknowledgement.
LEMMA HomeKept ==
  ASSUME NEW v \in Seq(Frames), v # <<>>, NEW a \in Seqs, NEW m \in Nat,
         Head(v).kind # "ack" \/ Head(v).ack = a, Home(v, a, m)
  PROVE  Home(Tail(v), a, m)
<1> SUFFICES ASSUME m > 0 PROVE \E j \in 1 .. Len(Tail(v)) : AckOf(Tail(v), j, a, m)
  BY DEF Home
<1>1. PICK j \in 1 .. Len(v) : AckOf(v, j, a, m)
  BY DEF Home
<1>2. j # 1
  <2>1. Dist(a, a) = 0
    BY DistSelf
  <2> QED  BY <1>1, <2>1, TailPlace DEF AckOf
<1>3. j - 1 \in 1 .. Len(Tail(v)) /\ Tail(v)[j - 1] = v[j]
  BY <1>2, TailPlace
<1> QED  BY <1>1, <1>3 DEF AckOf

\* It takes note of one.
LEMMA HomeAcked ==
  ASSUME NEW v \in Seq(Frames), v # <<>>, NEW a \in Seqs, NEW m \in Nat, AckWire(v, a, m),
         Head(v).kind # "resync", Home(v, a, m) \/ Late(v, a, m)
  PROVE  Home(Tail(v), Head(v).ack, m - Dist(a, Head(v).ack))
<1> DEFINE b == Head(v).ack
           u == Tail(v)
           e == Dist(a, b)
<1>1. Head(v) = v[1] /\ 1 \in 1 .. Len(v) /\ b \in Seqs
  <2>1. Head(v) \in Frames
    BY FirstFrame
  <2> QED  BY <2>1, TailPlace DEF Frames
<1>2. e \in Nat
  BY <1>1, DistType, LimitType
<1>3. CASE Late(v, a, m)
  <2>1. e = m
    BY <1>1, <1>3 DEF Late
  <2> QED  BY <2>1 DEF Home
<1>4. CASE Home(v, a, m)
  <2> SUFFICES ASSUME m - e > 0 PROVE \E j \in 1 .. Len(u) : AckOf(u, j, b, m - e)
    BY DEF Home
  <2>1. m > 0 /\ ~(e >= m)
    BY <1>2
  <2>2. PICK j \in 1 .. Len(v) : AckOf(v, j, a, m)
    BY <1>4, <2>1 DEF Home
  <2>3. j # 1
    BY <1>1, <2>1, <2>2 DEF AckOf
  <2>4. j - 1 \in 1 .. Len(u) /\ u[j - 1] = v[j]
    BY <2>3, TailPlace
  <2>5. v[j].kind = "ack" /\ Dist(a, v[j].ack) >= m /\ v[j].ack \in Seqs
    <3>1. v[j] \in Frames
      OBVIOUS
    <3> QED  BY <2>2, <3>1 DEF AckOf, Frames
  <2>6. Dist(a, v[j].ack) \in Nat
    BY <2>5, DistType, LimitType
  <2>7. Dist(b, v[j].ack) = Dist(a, v[j].ack) - e
    <3>1. e <= Dist(a, v[j].ack)
      BY <1>2, <2>1, <2>5, <2>6
    <3> QED  BY <1>1, <2>5, <3>1, DistBeyond
  <2>8. Dist(b, v[j].ack) >= m - e
    BY <1>2, <2>5, <2>6, <2>7
  <2> QED  BY <2>4, <2>5, <2>8 DEF AckOf
<1> QED  BY <1>3, <1>4

\* Frames of the other end behind the acknowledgements.
LEMMA HomeJoined ==
  ASSUME NEW v \in Seq(Frames), NEW y \in Seq(Frames), NEW a, NEW m
  PROVE  /\ Home(v, a, m) => Home(v \o y, a, m)
         /\ Len(y) = 1 /\ AckOf(y, 1, a, m) => Home(v \o y, a, m)
         /\ Late(v, a, m) /\ Late(y, a, m) => Late(v \o y, a, m)
<1>1. Home(v, a, m) => Home(v \o y, a, m)
  BY JoinedPlace DEF Home, AckOf
<1>2. ASSUME Len(y) = 1, AckOf(y, 1, a, m) PROVE Home(v \o y, a, m)
  <2>1. 1 \in 1 .. Len(y)
    BY <1>2
  <2>2. 1 + Len(v) \in 1 .. Len(v \o y) /\ (v \o y)[1 + Len(v)] = y[1]
    BY <2>1, JoinedPlace
  <2> QED  BY <1>2, <2>2 DEF Home, AckOf
<1>3. ASSUME Late(v, a, m), Late(y, a, m) PROVE Late(v \o y, a, m)
  BY <1>3, Joined DEF Late
<1> QED  BY <1>1, <1>2, <1>3

LEMMA LateTail ==
  ASSUME NEW v \in Seq(Frames), v # <<>>, NEW a, NEW m, Late(v, a, m)
  PROVE  Late(Tail(v), a, m)
BY FirstFrame DEF Late

\* A blocked sender stays blocked.
LEMMA NoWay ==
  ASSUME NEW w \in Seq(Frames), NEW v \in Seq(Frames), NEW a, NEW r, ~OneWay(w, v, a, r)
  PROVE  /\ w # <<>> => ~OneWay(Tail(w), v, a, r)
         /\ v # <<>> => ~OneWay(w, Tail(v), a, r)
         /\ \A u \in Seq(Frames) : (\A i \in 1 .. Len(u) : ~Copy(u, i, r + 1)) => ~OneWay(w \o u, v, a, r)
         /\ \A y \in Seq(Frames) : (\A i \in 1 .. Len(y) : ~AckOf(y, i, a, 1)) => ~OneWay(w, v \o y, a, r)
<1>1. /\ \A i \in 1 .. Len(w) : ~Copy(w, i, r + 1)
      /\ \A j \in 1 .. Len(v) : ~AckOf(v, j, a, 1)
  BY DEF OneWay
<1>2. w # <<>> => ~OneWay(Tail(w), v, a, r)
  BY <1>1, FirstFrame DEF OneWay, Copy
<1>3. v # <<>> => ~OneWay(w, Tail(v), a, r)
  BY <1>1, FirstFrame DEF OneWay, AckOf
<1>4. ASSUME NEW u \in Seq(Frames), \A i \in 1 .. Len(u) : ~Copy(u, i, r + 1)
      PROVE  ~OneWay(w \o u, v, a, r)
  BY <1>1, <1>4, Joined DEF OneWay, Copy
<1>5. ASSUME NEW y \in Seq(Frames), \A i \in 1 .. Len(y) : ~AckOf(y, i, a, 1)
      PROVE  ~OneWay(w, v \o y, a, r)
  BY <1>1, <1>5, Joined DEF OneWay, AckOf
<1> QED  BY <1>2, <1>3, <1>4, <1>5

\* In step is what the receiver is before any loss.
LEMMA InStepFront ==
  ASSUME NEW w, NEW g, NEW s, NEW x, NEW b, NEW q
  PROVE  InStep(w, g, s, x, b, q) <=> Front(w, g, s, x, b, q, 0, 0)
BY LimitType DEF Front

\* The receiver takes a frame from a wire that is intact.
LEMMA IntactTail ==
  ASSUME NEW w \in Seq(Frames), w # <<>>, NEW g \in Nat, NEW s \in Nat,
         NEW x, NEW b, NEW q, Intact(w, g, s, x, b, q), Chain(w, g, s)
  PROVE  /\ Head(w).kind = "ack" => Intact(Tail(w), g, s, x, b, q)
         /\ Head(w).kind = "resync" => Intact(Tail(w), g, s, x, TRUE, Unset)
         /\ \A y \in Seqs : \A b1, q1 :
              Head(w).kind = "data" /\ Head(w).pay = g + 1 /\ DataWire(Tail(w), y, g + 1, s)
                => Intact(Tail(w), g + 1, s, y, b1, q1)
<1>1. Front(w, g, s, x, b, q, 0, 0) /\ Whole(w, g, s)
  BY InStepFront DEF Intact
<1>2. ASSUME Head(w).kind = "ack" PROVE Intact(Tail(w), g, s, x, b, q)
  <2>1. Front(Tail(w), g, s, x, b, q, 0, 0)
    BY <1>1, <1>2, FrontAck
  <2>2. Whole(Tail(w), g, s)
    BY <1>1, <1>2, WholeTail
  <2> QED  BY <2>1, <2>2, InStepFront DEF Intact
<1>3. ASSUME Head(w).kind = "resync" PROVE Intact(Tail(w), g, s, x, TRUE, Unset)
  <2>1. Front(Tail(w), g, s, x, TRUE, Unset, 0, 0)
    BY <1>1, <1>3, FrontResync
  <2>2. Whole(Tail(w), g, s)
    BY <1>1, <1>3, WholeTail
  <2> QED  BY <2>1, <2>2, InStepFront DEF Intact
<1>4. ASSUME NEW y \in Seqs, NEW b1, NEW q1, Head(w).kind = "data", Head(w).pay = g + 1,
             DataWire(Tail(w), y, g + 1, s)
      PROVE  Intact(Tail(w), g + 1, s, y, b1, q1)
  <2>1. Front(Tail(w), g + 1, s, y, b1, q1, 0, 0)
    BY <1>1, <1>4, FrontExpected
  <2>2. g + 1 \in Nat /\ g <= g + 1 /\ Head(w).pay <= g + 1
    BY <1>4
  <2>3. Whole(Tail(w), g + 1, s)
    BY <1>1, <2>2, WholeTail
  <2> QED  BY <2>1, <2>3, InStepFront DEF Intact
<1> QED  BY <1>2, <1>3, <1>4

\* An odd packet on it belongs to a run behind a resync pattern.
LEMMA IntactOdd ==
  ASSUME NEW w \in Seq(Frames), w # <<>>, Head(w).kind = "data",
         NEW g \in Nat, NEW s \in Nat, NEW r \in Nat, r <= g, g <= s, s - r <= WinSize,
         NEW x \in Seqs, NEW b \in BOOLEAN, NEW q,
         Intact(w, g, s, x, b, q), Chain(w, g, s), DataWire(w, x, g, s), Head(w).seq # x
  PROVE  /\ b /\ (q = Unset \/ Head(w).seq = Inc(q)) /\ Head(w).pay <= g
         /\ Intact(Tail(w), g, s, x, TRUE, Head(w).seq)
<1> DEFINE run == InRun(b, q, Head(w))
<1>1. Front(w, g, s, x, b, q, 0, 0) /\ Whole(w, g, s)
  BY InStepFront DEF Intact
<1>2. /\ run => Front(Tail(w), g, s, x, TRUE, Head(w).seq, 0, 0)
      /\ run /\ Head(w).pay <= g
  <2> DEFINE c == 0
  <2>1. c \in Nat /\ Front(w, g, s, x, b, q, c, c)
    BY <1>1
  <2>4. c = 0 /\ c # 1
    OBVIOUS
  <2> HIDE DEF c
  <2>2. OddHead(w, g, s, r, x, b, q, c, c)
    BY <2>1 DEF OddHead
  <2>3. /\ InRun(b, q, Head(w)) => Front(Tail(w), g, s, x, TRUE, Head(w).seq, c, c)
        /\ ~InRun(b, q, Head(w)) => c = 1
        /\ c = 0 => Head(w).pay <= g
    BY <2>2, FrontOdd
  <2>5. Front(Tail(w), g, s, x, TRUE, Head(w).seq, c, c) /\ InRun(b, q, Head(w)) /\ Head(w).pay <= g
    BY <2>3, <2>4
  <2> HIDE DEF run
  <2>6. Front(Tail(w), g, s, x, TRUE, Head(w).seq, 0, 0)
    BY <2>4, <2>5
  <2> QED  BY <2>5, <2>6 DEF run
<1>3. Whole(Tail(w), g, s)
  BY <1>1, <1>2, WholeTail
<1>4. Intact(Tail(w), g, s, x, TRUE, Head(w).seq)
  BY <1>2, <1>3, InStepFront DEF Intact
<1> QED  BY <1>2, <1>4 DEF InRun

\* Its sender writes behind it.
LEMMA IntactJoined ==
  ASSUME NEW w \in Seq(Frames), NEW u \in Seq(Frames), NEW g \in Nat, NEW s \in Nat, NEW t \in Nat,
         NEW x \in Seqs, NEW b, NEW q, Intact(w, g, s, x, b, q),
         Continues(u, s, t), DataWire(w \o u, x, g, t), Brings(u, s, t)
  PROVE  Intact(w \o u, g, t, x, b, q)
<1>1. Front(w, g, s, x, b, q, 0, 0) /\ Whole(w, g, s)
  BY InStepFront DEF Intact
<1>2. Front(w \o u, g, t, x, b, q, 0, 0)
  BY <1>1, FrontJoined
<1>3. Whole(w \o u, g, t)
  BY <1>1, WholeJoined
<1> QED  BY <1>2, <1>3, InStepFront DEF Intact

\* A resync pattern puts the receiver in step.
LEMMA ResyncInStep ==
  ASSUME NEW w \in Seq(Frames), w # <<>>, Head(w).kind = "resync", NEW g, NEW s, NEW x, Chain(w, g, s)
  PROVE  InStep(Tail(w), g, s, x, TRUE, Unset)
BY NextFrame DEF InStep, Due, Follows

\* The types of what is kept track of.
Counts(g, s, r, t, o, k, n, z) ==
  /\ g \in Nat /\ s \in Nat /\ r \in Nat /\ r <= g /\ g <= s /\ s - r <= WinSize
  /\ t \in Nat /\ o \in Nat /\ k \in {0, 1} /\ n \in {0, 1} /\ z \in Nat

\* The BTM thread is not further behind.
LEMMA TrackBound ==
  ASSUME NEW w, NEW v, NEW g, NEW s, NEW r, NEW x, NEW b, NEW q, NEW a, NEW t, NEW o, NEW k,
         NEW n, NEW z, Counts(g, s, r, t, o, k, n, z), Track(w, v, g, s, r, x, b, q, a, t, o, k, n, z)
  PROVE  t + o <= WinSize + z
BY LimitType DEF Counts, Track, Backlog, Idle

\* Nothing but acknowledgements of everything is needed where no frame is.
LEMMA SafeEmpty ==
  ASSUME NEW g \in Nat, NEW s \in Nat, NEW r \in Nat, r <= g, g <= s, NEW x, NEW b, NEW q, NEW a,
         Safe(<<>>, <<>>, g, s, r, x, b, q, a)
  PROVE  s = r
<1>1. ~Repaired(<<>>, g, s) /\ ~HasData(<<>>)
  BY DEF Repaired, HasData
<1>2. Home(<<>>, a, g - r) /\ Intact(<<>>, g, s, x, b, q)
  BY <1>1 DEF Safe
<1>3. ~(g - r > 0)
  BY <1>2 DEF Home
<1>4. s = g
  <2>1. ASSUME g < s PROVE FALSE
    <3>1. g + 1 \in g + 1 .. s
      BY <2>1
    <3> QED  BY <1>2, <3>1 DEF Intact, Whole
  <2> QED  BY <2>1
<1> QED  BY <1>3, <1>4

\* A sender that is blocked, with its acknowledgements on the way: the receiver
\* has nothing that it does not know of.
LEMMA HomeBlocked ==
  ASSUME NEW w, NEW v \in Seq(Frames), NEW g \in Nat, NEW r \in Nat, r <= g, NEW a \in Seqs,
         Home(v, a, g - r), ~OneWay(w, v, a, r)
  PROVE  g = r
<1> SUFFICES ASSUME g > r PROVE FALSE
  OBVIOUS
<1>1. g - r > 0 /\ g - r >= 1
  OBVIOUS
<1>2. PICK j \in 1 .. Len(v) : AckOf(v, j, a, g - r)
  BY <1>1 DEF Home
<1>3. v[j].kind = "ack" /\ Dist(a, v[j].ack) >= g - r /\ v[j].ack \in Seqs
  <2>1. v[j] \in Frames
    OBVIOUS
  <2> QED  BY <1>2, <2>1 DEF AckOf, Frames
<1>4. Dist(a, v[j].ack) \in Nat
  BY <1>3, DistType, LimitType
<1>5. AckOf(v, j, a, 1)
  BY <1>1, <1>3, <1>4 DEF AckOf
<1> QED  BY <1>5 DEF OneWay

----------------------------------------------------------------------------
(* What the steps do to that *)

\* The other end writes frames that carry its last acknowledgement.
LEMMA TrackHears ==
  ASSUME NEW w \in Seq(Frames), NEW v \in Seq(Frames), NEW y \in Seq(Frames),
         NEW g, NEW s, NEW r, NEW x, NEW b, NEW q, NEW a, NEW t, NEW o, NEW k, NEW n, NEW z,
         Track(w, v, g, s, r, x, b, q, a, t, o, k, n, z),
         Late(y, a, g - r), \A i \in 1 .. Len(y) : y[i].kind # "ack"
  PROVE  Track(w, v \o y, g, s, r, x, b, q, a, t, o, k, n, z)
<1>1. /\ Home(v, a, g - r) => Home(v \o y, a, g - r)
      /\ Late(v, a, g - r) => Late(v \o y, a, g - r)
  BY HomeJoined
<1>2. ~OneWay(w, v, a, r) => ~OneWay(w, v \o y, a, r)
  BY NoWay DEF AckOf
<1>3. Safe(w, v, g, s, r, x, b, q, a) => Safe(w, v \o y, g, s, r, x, b, q, a)
  BY <1>1 DEF Safe
<1> QED  BY <1>1, <1>2, <1>3 DEF Track, Traced, Backlog

\* A packet is sent.
LEMMA TrackSent ==
  ASSUME NEW w \in Seq(Frames), NEW v \in Seq(Frames), NEW f \in Frames, f.kind = "data",
         NEW g, NEW s, f.pay = s + 1, NEW r, NEW x, NEW b, NEW q, NEW a, NEW t, NEW o, NEW k,
         NEW n, NEW z, Counts(g, s, r, t, o, k, n, z), s - r < WinSize,
         Track(w, v, g, s, r, x, b, q, a, t, o, k, n, z),
         Intact(w, g, s, x, b, q) => Intact(w \o <<f>>, g, s + 1, x, b, q)
  PROVE  Track(w \o <<f>>, v, g, s + 1, r, x, b, q, a, t, o, 1, n, z)
<1> DEFINE u == <<f>>
<1>1. /\ g \in Nat /\ s \in Nat /\ r \in Nat /\ r <= g /\ g <= s
      /\ t \in Nat /\ o \in Nat /\ k \in {0, 1} /\ z \in Nat
  BY DEF Counts
<1>2. u \in Seq(Frames) /\ Len(u) = 1 /\ u[1] = f
  OBVIOUS
<1>3. Brings(u, s, s + 1)
  BY <1>1, <1>2 DEF Brings, Copy
<1>4. s > r => \A i \in 1 .. Len(u) : ~Copy(u, i, r + 1)
  BY <1>1, <1>2 DEF Copy
<1> HIDE DEF u
<1>5. Repaired(w, g, s) => Repaired(w \o u, g, s + 1)
  BY <1>1, <1>2, <1>3, RepairedJoined
<1>6. HasData(w) => HasData(w \o u)
  BY <1>2, JoinedPlace DEF HasData
<1>7. s > r /\ ~OneWay(w, v, a, r) => ~OneWay(w \o u, v, a, r)
  BY <1>2, <1>4, NoWay
<1>8. Intact(w, g, s, x, b, q) => Intact(w \o u, g, s + 1, x, b, q)
  BY DEF u
<1>9. Traced(w \o u, v, g, s + 1, r, x, b, q, a, n)
  BY <1>8 DEF Track, Traced
<1>10. Safe(w, v, g, s, r, x, b, q, a) => Safe(w \o u, v, g, s + 1, r, x, b, q, a)
  BY <1>5, <1>6, <1>8 DEF Safe
<1>11. s + 1 # r /\ Idle(1, s + 1, r) = 0 /\ Idle(k, s, r) \in {0, 1}
  BY <1>1 DEF Idle
<1>12. Backlog(w \o u, v, g, s + 1, r, x, b, q, a, t, o, 1, n, z)
  <2>1. CASE t + o + Idle(k, s, r) <= z
    <3>1. t + o + Idle(1, s + 1, r) <= z
      BY <1>1, <1>11, <2>1
    <3> QED  BY <3>1 DEF Backlog
  <2>2. CASE n = 1 /\ s > r /\ t = 0 /\ ~OneWay(w, v, a, r) /\ o + k <= s - r + z
    <3> DEFINE s1 == s + 1
               w1 == w \o u
    <3>1. s1 > r /\ o + 1 <= s1 - r + z
      BY <1>1, <2>2
    <3>2. n = 1 /\ t = 0 /\ ~OneWay(w1, v, a, r)
      BY <1>7, <2>2
    <3> HIDE DEF s1, w1
    <3>3. Backlog(w1, v, g, s1, r, x, b, q, a, t, o, 1, n, z)
      BY <3>1, <3>2 DEF Backlog
    <3> QED  BY <3>3 DEF s1, w1
  <2>3. CASE n = 1 /\ Safe(w, v, g, s, r, x, b, q, a) /\ t + o + Idle(k, s, r) <= WinSize + z
    <3>1. t + o + Idle(1, s + 1, r) <= WinSize + z
      BY <1>1, <1>11, <2>3, LimitType
    <3> QED  BY <1>10, <2>3, <3>1 DEF Backlog
  <2> QED  BY <2>1, <2>2, <2>3 DEF Track, Backlog
<1> QED  BY <1>9, <1>12 DEF Track, u

\* The timer fires on empty wires.
LEMMA TrackFires ==
  ASSUME NEW g, NEW s, NEW r, NEW x, NEW b, NEW q, NEW a, NEW t, NEW o, NEW n, NEW z,
         Counts(g, s, r, t, o, 1, n, z), Track(<<>>, <<>>, g, s, r, x, b, q, a, t, o, 1, n, z), t = 0
  PROVE  Track(<<>>, <<>>, g, s, r, x, b, q, a, t, o + 1, 0, n, z)
<1>1. /\ g \in Nat /\ s \in Nat /\ r \in Nat /\ r <= g /\ g <= s
      /\ t \in Nat /\ o \in Nat /\ n \in {0, 1} /\ z \in Nat
  BY DEF Counts
<1>2. Idle(0, s, r) = 0 /\ Idle(1, s, r) = IF s = r THEN 1 ELSE 0
  BY DEF Idle
<1>3. Safe(<<>>, <<>>, g, s, r, x, b, q, a) => s = r
  BY <1>1, SafeEmpty
<1>4. ~OneWay(<<>>, <<>>, a, r)
  BY DEF OneWay
<1>5. n # 1 => Safe(<<>>, <<>>, g, s, r, x, b, q, a)
  BY DEF Track, Traced, Safe
<1>6. Backlog(<<>>, <<>>, g, s, r, x, b, q, a, t, o + 1, 0, n, z)
  <2>1. CASE t + o + Idle(1, s, r) <= z /\ s = r
    <3>1. t + (o + 1) + Idle(0, s, r) <= z
      BY <1>1, <1>2, <2>1
    <3> QED  BY <3>1 DEF Backlog
  <2>2. CASE t + o + Idle(1, s, r) <= z /\ s # r
    <3>1. n = 1 /\ s > r
      BY <1>1, <1>3, <1>5, <2>2
    <3>2. o + 1 + 0 <= s - r + z
      BY <1>1, <1>2, <2>2, <3>1
    <3> QED  BY <1>4, <3>1, <3>2 DEF Backlog
  <2>3. CASE n = 1 /\ s > r /\ t = 0 /\ o + 1 <= s - r + z
    <3>1. o + 1 + 0 <= s - r + z
      BY <1>1, <2>3
    <3> QED  BY <1>4, <2>3, <3>1 DEF Backlog
  <2>4. CASE n = 1 /\ Safe(<<>>, <<>>, g, s, r, x, b, q, a) /\ t + o + Idle(1, s, r) <= WinSize + z
    <3>1. t + (o + 1) + Idle(0, s, r) <= WinSize + z
      BY <1>1, <1>2, <1>3, <2>4, LimitType
    <3> QED  BY <2>4, <3>1 DEF Backlog
  <2> QED  BY <2>1, <2>2, <2>3, <2>4 DEF Track, Backlog
<1> QED  BY <1>6 DEF Track

\* A retry finds nothing to be repeated.
LEMMA TrackIdle ==
  ASSUME NEW w, NEW v, NEW g, NEW s, NEW x, NEW b, NEW q, NEW a, NEW t, NEW o, NEW k, NEW n, NEW z,
         Counts(g, s, s, t, o, k, n, z), o > 0, Track(w, v, g, s, s, x, b, q, a, t, o, k, n, z)
  PROVE  Track(w, v, g, s, s, x, b, q, a, t, o - 1, 0, n, z)
<1>1. /\ s \in Nat /\ t \in Nat /\ o \in Nat /\ k \in {0, 1} /\ n \in {0, 1} /\ z \in Nat
  BY DEF Counts
<1>2. Idle(0, s, s) = 0 /\ Idle(k, s, s) = k
  BY DEF Idle
<1>3. Backlog(w, v, g, s, s, x, b, q, a, t, o - 1, 0, n, z)
  <2>1. CASE t + o + k <= z
    <3>1. t + (o - 1) + 0 <= z
      BY <1>1, <2>1
    <3> QED  BY <1>2, <3>1 DEF Backlog
  <2>2. CASE n = 1 /\ Safe(w, v, g, s, s, x, b, q, a) /\ t + o + k <= WinSize + z
    <3>1. t + (o - 1) + 0 <= WinSize + z
      BY <1>1, <2>2, LimitType
    <3> QED  BY <1>2, <2>2, <3>1 DEF Backlog
  <2> QED  BY <1>1, <1>2, <2>1, <2>2 DEF Track, Backlog
<1> QED  BY <1>3 DEF Track

\* A retry repeats what is out.
LEMMA TrackRepeated ==
  ASSUME NEW w \in Seq(Frames), NEW v \in Seq(Frames), NEW u \in Seq(Frames),
         NEW g, NEW s, NEW r, NEW x, NEW b, NEW q, NEW a, NEW t, NEW o, NEW k, NEW n, NEW z,
         Counts(g, s, r, t, o, k, n, z), o > 0, r < s, IsRepeat(u, r, s),
         Track(w, v, g, s, r, x, b, q, a, t, o, k, n, z),
         Intact(w, g, s, x, b, q) => Intact(w \o u, g, s, x, b, q), NEW k1 \in {0, 1}
  PROVE  Track(w \o u, v, g, s, r, x, b, q, a, t + 1, o - 1, k1, n, z)
<1>1. /\ g \in Nat /\ s \in Nat /\ r \in Nat /\ r <= g /\ g <= s /\ s - r <= WinSize
      /\ t \in Nat /\ o \in Nat /\ k \in {0, 1} /\ n \in {0, 1} /\ z \in Nat
  BY DEF Counts
<1>2. Idle(k, s, r) = 0 /\ Idle(k1, s, r) = 0
  BY <1>1 DEF Idle
<1>3. Repaired(w \o u, g, s) /\ HasData(w \o u)
  BY <1>1, RepairedAgain
<1>4. n = 1 => Safe(w \o u, v, g, s, r, x, b, q, a)
  BY <1>3 DEF Track, Traced, Safe
<1>5. Backlog(w \o u, v, g, s, r, x, b, q, a, t + 1, o - 1, k1, n, z)
  <2>1. CASE t + o + 0 <= z
    <3>1. t + 1 + (o - 1) + 0 <= z
      BY <1>1, <2>1
    <3> QED  BY <1>2, <3>1 DEF Backlog
  <2>2. CASE n = 1 /\ t = 0 /\ o + k <= s - r + z
    <3>1. t + 1 + (o - 1) + 0 <= WinSize + z
      BY <1>1, <2>2, LimitType
    <3> QED  BY <1>2, <1>4, <2>2, <3>1 DEF Backlog
  <2>3. CASE n = 1 /\ t + o + 0 <= WinSize + z
    <3>1. t + 1 + (o - 1) + 0 <= WinSize + z
      BY <1>1, <2>3, LimitType
    <3> QED  BY <1>2, <1>4, <2>3, <3>1 DEF Backlog
  <2> QED  BY <1>2, <2>1, <2>2, <2>3 DEF Track, Backlog
<1>6. Traced(w \o u, v, g, s, r, x, b, q, a, n)
  BY DEF Track, Traced
<1> QED  BY <1>5, <1>6 DEF Track

\* The receiver takes a frame without data.
LEMMA TrackPassed ==
  ASSUME NEW w \in Seq(Frames), w # <<>>, Head(w).kind # "data", NEW v \in Seq(Frames),
         NEW g, NEW s, NEW r, NEW x, NEW b, NEW q, NEW b1, NEW q1, NEW a, NEW t, NEW o, NEW k,
         NEW n, NEW z, Counts(g, s, r, t, o, k, n, z),
         Track(w, v, g, s, r, x, b, q, a, t, o, k, n, z),
         Intact(w, g, s, x, b, q) => Intact(Tail(w), g, s, x, b1, q1),
         Head(w).kind = "resync" => InStep(Tail(w), g, s, x, b1, q1)
  PROVE  Track(Tail(w), v, g, s, r, x, b1, q1, a, t, o, k, n, z)
<1> DEFINE u == Tail(w)
<1>1. g \in Nat /\ s \in Nat
  BY DEF Counts
<1>2. Repaired(w, g, s) => Repaired(u, g, s) \/ Intact(u, g, s, x, b1, q1)
  BY <1>1, RepairedTail DEF Intact
<1>3. HasData(w) => HasData(u)
  <2> SUFFICES ASSUME NEW i \in 1 .. Len(w), w[i].kind = "data" PROVE HasData(u)
    BY DEF HasData
  <2>1. i # 1
    BY TailPlace
  <2>2. i - 1 \in 1 .. Len(u) /\ u[i - 1] = w[i]
    BY <2>1, TailPlace
  <2> HIDE DEF u
  <2> QED  BY <2>2 DEF HasData
<1>4. ~OneWay(w, v, a, r) => ~OneWay(u, v, a, r)
  BY NoWay
<1>5. Safe(w, v, g, s, r, x, b, q, a) => Safe(u, v, g, s, r, x, b1, q1, a)
  BY <1>2, <1>3 DEF Safe
<1> HIDE DEF u
<1>6. Intact(w, g, s, x, b, q) => Intact(u, g, s, x, b1, q1)
  BY DEF u
<1>7. Track(u, v, g, s, r, x, b1, q1, a, t, o, k, n, z)
  BY <1>4, <1>5, <1>6 DEF Track, Traced, Backlog
<1> QED  BY <1>7 DEF u

\* The receiver takes a packet and acknowledges what it has.
LEMMA TrackAnswered ==
  ASSUME NEW w \in Seq(Frames), w # <<>>, Head(w).kind = "data", NEW v \in Seq(Frames),
         NEW y \in Seq(Frames), Len(y) = 1, y[1].kind = "ack",
         NEW g, NEW g1 \in Nat, NEW s, NEW r, NEW x, NEW b, NEW q, NEW x1, NEW b1, NEW q1,
         NEW a \in Seqs, NEW t, NEW o, NEW k, NEW n, NEW z,
         Counts(g, s, r, t, o, k, n, z), g <= g1,
         Track(w, v, g, s, r, x, b, q, a, t, o, k, n, z),
         Dist(a, y[1].ack) = g1 - r, Head(w).pay # g + 1 => g1 = g,
         Intact(w, g, s, x, b, q) => Intact(Tail(w), g1, s, x1, b1, q1)
  PROVE  Track(Tail(w), v \o y, g1, s, r, x1, b1, q1, a, t, o, k, n, z)
<1> DEFINE u == Tail(w)
<1>1. /\ g \in Nat /\ s \in Nat /\ r \in Nat /\ r <= g /\ g <= s /\ s - r <= WinSize
      /\ t \in Nat /\ o \in Nat /\ k \in {0, 1} /\ n \in {0, 1} /\ z \in Nat
  BY DEF Counts
<1>2. Home(v \o y, a, g1 - r)
  <2>1. AckOf(y, 1, a, g1 - r)
    BY <1>1 DEF AckOf
  <2> QED  BY <2>1, HomeJoined
<1>3. Repaired(w, g, s) => Repaired(u, g1, s)
  BY <1>1, RepairedTail
<1> HIDE DEF u
<1>4. Intact(w, g, s, x, b, q) => Intact(u, g1, s, x1, b1, q1)
  BY DEF u
<1>5. Safe(w, v, g, s, r, x, b, q, a) => Safe(u, v \o y, g1, s, r, x1, b1, q1, a)
  BY <1>2, <1>3, <1>4 DEF Safe
<1>6. Traced(u, v \o y, g1, s, r, x1, b1, q1, a, n)
  BY <1>2, <1>4 DEF Track, Traced
<1>7. ASSUME n = 1, s > r, t = 0, ~OneWay(w, v, a, r), o + k <= s - r + z
      PROVE  Backlog(u, v \o y, g1, s, r, x1, b1, q1, a, t, o, k, n, z)
  <2>1. CASE Home(v, a, g - r)
    <3>1. g = r
      BY <1>1, <1>7, <2>1, HomeBlocked
    <3>2. Head(w).pay # g + 1
      <4>1. 1 \in 1 .. Len(w) /\ Head(w) = w[1]
        BY TailPlace
      <4> QED  BY <1>7, <3>1, <4>1 DEF OneWay, Copy
    <3>3. g1 - r = 0
      BY <1>1, <3>1, <3>2
    <3>4. \A i \in 1 .. Len(y) : ~AckOf(y, i, a, 1)
      BY <3>3 DEF AckOf
    <3>5. ~OneWay(u, v, a, r)
      BY <1>7, NoWay DEF u
    <3>6. u \in Seq(Frames)
      BY TailPlace DEF u
    <3>7. ~OneWay(u, v \o y, a, r)
      BY <3>4, <3>5, <3>6, NoWay
    <3> QED  BY <1>7, <3>7 DEF Backlog
  <2>2. CASE Intact(w, g, s, x, b, q)
    <3>1. Safe(u, v \o y, g1, s, r, x1, b1, q1, a)
      BY <1>2, <1>4, <2>2 DEF Safe
    <3>2. Idle(k, s, r) = 0
      BY <1>1, <1>7 DEF Idle
    <3>3. t + o + Idle(k, s, r) <= WinSize + z
      BY <1>1, <1>7, <3>2, LimitType
    <3> QED  BY <1>7, <3>1, <3>3 DEF Backlog
  <2> QED  BY <2>1, <2>2 DEF Track, Traced
<1>8. Backlog(u, v \o y, g1, s, r, x1, b1, q1, a, t, o, k, n, z)
  <2>1. CASE t + o + Idle(k, s, r) <= z
    BY <2>1 DEF Backlog
  <2>2. CASE n = 1 /\ Safe(w, v, g, s, r, x, b, q, a) /\ t + o + Idle(k, s, r) <= WinSize + z
    BY <1>5, <2>2 DEF Backlog
  <2> QED  BY <1>7, <2>1, <2>2 DEF Track, Backlog
<1> QED  BY <1>6, <1>8 DEF Track, u

\* The sender takes a frame that acknowledges nothing to it.
LEMMA TrackKept ==
  ASSUME NEW w \in Seq(Frames), NEW v \in Seq(Frames), v # <<>>, NEW y \in Seq(Frames),
         NEW g, NEW s, NEW r, NEW x, NEW b, NEW q, NEW a \in Seqs, NEW t, NEW o, NEW k,
         NEW n, NEW z, Counts(g, s, r, t, o, k, n, z),
         Track(w, v, g, s, r, x, b, q, a, t, o, k, n, z),
         Head(v).kind # "ack" \/ Head(v).ack = a, \A i \in 1 .. Len(y) : y[i].kind = "ack",
         Intact(w, g, s, x, b, q) => Intact(w \o y, g, s, x, b, q)
  PROVE  Track(w \o y, Tail(v), g, s, r, x, b, q, a, t, o, k, n, z)
<1> DEFINE u == Tail(v)
<1>1. g \in Nat /\ s \in Nat /\ g - r \in Nat
  BY DEF Counts
<1>2. Home(v, a, g - r) => Home(u, a, g - r)
  BY <1>1, HomeKept
<1>3. Late(v, a, g - r) => Late(u, a, g - r)
  BY LateTail
<1>4. Repaired(w, g, s) => Repaired(w \o y, g, s)
  <2>1. Brings(y, s, s)
    BY <1>1 DEF Brings
  <2> QED  BY <1>1, <2>1, RepairedJoined
<1>5. HasData(w) => HasData(w \o y)
  BY JoinedPlace DEF HasData
<1>6. ~OneWay(w, v, a, r) => ~OneWay(w \o y, u, a, r)
  <2>1. u \in Seq(Frames)
    BY TailPlace
  <2>2. \A i \in 1 .. Len(y) : ~Copy(y, i, r + 1)
    BY DEF Copy
  <2> QED  BY <2>1, <2>2, NoWay
<1>7. Safe(w, v, g, s, r, x, b, q, a) => Safe(w \o y, u, g, s, r, x, b, q, a)
  BY <1>2, <1>3, <1>4, <1>5 DEF Safe
<1> HIDE DEF u
<1>8. Track(w \o y, u, g, s, r, x, b, q, a, t, o, k, n, z)
  BY <1>2, <1>3, <1>6, <1>7 DEF Track, Traced, Backlog
<1> QED  BY <1>8 DEF u

\* A frame that acknowledges more is taken from v, and acknowledgements y sent.
AckTaken(v, y, g, s, r, a, r1, k1) ==
  /\ v \in Seq(Frames) /\ v # <<>> /\ y \in Seq(Frames) /\ a \in Seqs
  /\ Head(v).kind # "resync" /\ Head(v).ack # a /\ AckWire(v, a, g - r)
  /\ \A j \in 1 .. Len(y) : y[j].kind = "ack"
  /\ r1 = r + Dist(a, Head(v).ack) /\ k1 \in {0, 1} /\ (s = r1 => k1 = 0)

\* It takes one that does.
LEMMA TrackAcked ==
  ASSUME NEW w \in Seq(Frames), NEW v, NEW y,
         NEW g, NEW s, NEW r, NEW x, NEW b, NEW q, NEW a, NEW t, NEW o, NEW k,
         NEW n, NEW z, Counts(g, s, r, t, o, k, n, z),
         Track(w, v, g, s, r, x, b, q, a, t, o, k, n, z),
         NEW r1, NEW k1, AckTaken(v, y, g, s, r, a, r1, k1),
         Intact(w, g, s, x, b, q) => Intact(w \o y, g, s, x, b, q)
  PROVE  Track(w \o y, Tail(v), g, s, r1, x, b, q, Head(v).ack, 0, o, k1, n, z)
<1> DEFINE u == Tail(v)
           c == Head(v).ack
           e == Dist(a, c)
<1>0. /\ v \in Seq(Frames) /\ v # <<>> /\ y \in Seq(Frames) /\ a \in Seqs
      /\ Head(v).kind # "resync" /\ Head(v).ack # a /\ AckWire(v, a, g - r)
      /\ \A j \in 1 .. Len(y) : y[j].kind = "ack"
      /\ r1 = r + Dist(a, Head(v).ack) /\ k1 \in {0, 1} /\ (s = r1 => k1 = 0)
  BY DEF AckTaken
<1> USE <1>0
<1>1. /\ g \in Nat /\ s \in Nat /\ r \in Nat /\ r <= g /\ g <= s /\ s - r <= WinSize
      /\ t \in Nat /\ o \in Nat /\ k \in {0, 1} /\ n \in {0, 1} /\ z \in Nat /\ g - r \in Nat
  BY DEF Counts
<1>2. c \in Seqs /\ 1 \in 1 .. Len(v) /\ Head(v) = v[1]
  <2>1. Head(v) \in Frames
    BY FirstFrame
  <2> QED  BY <2>1, TailPlace DEF Frames
<1>3. e \in Nat /\ e > 0 /\ e <= g - r
  <2>1. e \in Nat
    BY <1>2, DistType, LimitType
  <2>2. c # a /\ e # 0
    BY <1>2, DistNext
  <2>3. e <= g - r
    BY <1>2 DEF AckWire, AckFits
  <2> HIDE DEF e
  <2> QED  BY <2>1, <2>2, <2>3
<1>4. Home(v, a, g - r) \/ Late(v, a, g - r) => Home(u, c, g - r1)
  <2>1. g - r1 = g - r - e
    BY <1>1, <1>3
  <2> QED  BY <1>1, <2>1, HomeAcked
<1>5. Repaired(w, g, s) => Repaired(w \o y, g, s)
  <2>1. Brings(y, s, s)
    BY <1>1 DEF Brings
  <2> QED  BY <1>1, <2>1, RepairedJoined
<1>6. Safe(w, v, g, s, r, x, b, q, a) => Safe(w \o y, u, g, s, r1, x, b, q, c)
  BY <1>4, <1>5 DEF Safe
<1>7. Idle(k1, s, r1) = 0 /\ Idle(k, s, r) \in {0, 1}
  BY <1>1 DEF Idle
<1>10. g # r
  BY <1>1, <1>3
<1> HIDE DEF u, c, e
<1>8. Traced(w \o y, u, g, s, r1, x, b, q, c, n)
  BY <1>4 DEF Track, Traced
<1>9. Backlog(w \o y, u, g, s, r1, x, b, q, c, 0, o, k1, n, z)
  <2>1. CASE t + o + Idle(k, s, r) <= z
    <3>1. 0 + o + 0 <= z
      <4> DEFINE i == Idle(k, s, r)
      <4>1. i \in {0, 1} /\ t + o + i <= z
        BY <1>7, <2>1
      <4> HIDE DEF i
      <4> QED  BY <1>1, <4>1
    <3> QED  BY <1>7, <3>1 DEF Backlog
  <2>2. CASE n = 1 /\ s > r /\ t = 0 /\ ~OneWay(w, v, a, r) /\ o + k <= s - r + z
    <3>1. ~Home(v, a, g - r)
      BY <1>1, <1>10, <2>2, HomeBlocked
    <3>2. Intact(w \o y, g, s, x, b, q) /\ Late(v, a, g - r)
      BY <3>1 DEF Track, Traced
    <3>3. Safe(w \o y, u, g, s, r1, x, b, q, c)
      BY <1>4, <3>2 DEF Safe
    <3>4. 0 + o + 0 <= WinSize + z
      BY <1>1, <2>2, LimitType
    <3> QED  BY <1>7, <2>2, <3>3, <3>4 DEF Backlog
  <2>3. CASE n = 1 /\ Safe(w, v, g, s, r, x, b, q, a) /\ t + o + Idle(k, s, r) <= WinSize + z
    <3>1. 0 + o + 0 <= WinSize + z
      <4> DEFINE i == Idle(k, s, r)
      <4>1. i \in {0, 1} /\ t + o + i <= WinSize + z
        BY <1>7, <2>3
      <4> HIDE DEF i
      <4> QED  BY <1>1, <4>1, LimitType
    <3> QED  BY <1>6, <1>7, <2>3, <3>1 DEF Backlog
  <2> QED  BY <2>1, <2>2, <2>3 DEF Track, Backlog
<1> QED  BY <1>8, <1>9 DEF Track, u, c

\* The one loss.
LEMMA TrackLost ==
  ASSUME NEW w \in Seq(Frames), NEW v \in Seq(Frames),
         NEW g, NEW s, NEW r, NEW x, NEW b, NEW q, NEW a \in Seqs, NEW t, NEW o, NEW k,
         NEW z, Counts(g, s, r, t, o, k, 0, z), AckWire(v, a, g - r),
         Track(w, v, g, s, r, x, b, q, a, t, o, k, 0, z)
  PROVE  /\ Track(Tail(w), v, g, s, r, x, b, q, a, t, o, k, 1, z)
         /\ v # <<>> => Track(w, Tail(v), g, s, r, x, b, q, a, t, o, k, 1, z)
<1>1. Intact(w, g, s, x, b, q) /\ Home(v, a, g - r) /\ t + o + Idle(k, s, r) <= z
  BY DEF Track, Traced, Backlog
<1>2. Track(Tail(w), v, g, s, r, x, b, q, a, t, o, k, 1, z)
  BY <1>1 DEF Track, Traced, Backlog
<1>3. ASSUME v # <<>> PROVE Home(Tail(v), a, g - r) \/ Late(Tail(v), a, g - r)
  <2>1. g - r \in Nat
    BY DEF Counts
  <2>2. CASE g - r = 0
    BY <2>1, <2>2 DEF Home
  <2>3. CASE g - r > 0
    <3>1. PICK j \in 1 .. Len(v) : AckOf(v, j, a, g - r)
      BY <1>1, <2>3 DEF Home
    <3>2. CASE j # 1
      BY <3>1, <3>2, TailPlace DEF Home, AckOf
    <3>3. CASE j = 1
      <4> SUFFICES ASSUME NEW i \in 1 .. Len(Tail(v)), Tail(v)[i].kind # "resync"
                   PROVE  Dist(a, Tail(v)[i].ack) = g - r
        BY DEF Late
      <4>1. i + 1 \in 1 .. Len(v) /\ 1 < i + 1 /\ Tail(v)[i] = v[i + 1] /\ 1 \in 1 .. Len(v)
        BY <1>3, FirstFrame
      <4>2. v[1].kind = "ack" /\ Dist(a, v[1].ack) >= g - r
        BY <3>1, <3>3 DEF AckOf
      <4>3. Dist(a, v[1].ack) <= Dist(a, v[i + 1].ack) /\ Dist(a, v[i + 1].ack) <= g - r
        BY <4>1, <4>2 DEF AckWire, AckAfter, AckFits
      <4>4. v[1].ack \in Seqs /\ v[i + 1].ack \in Seqs
        <5>1. v[1] \in Frames /\ v[i + 1] \in Frames
          BY <4>1
        <5> QED  BY <5>1 DEF Frames
      <4>5. Dist(a, v[1].ack) \in Nat /\ Dist(a, v[i + 1].ack) \in Nat
        <5>1. Dist(a, v[1].ack) \in Nat
          BY <4>4, DistType, LimitType
        <5>2. Dist(a, v[i + 1].ack) \in Nat
          BY <4>4, DistType, LimitType
        <5> QED  BY <5>1, <5>2
      <4> QED  BY <2>1, <4>1, <4>2, <4>3, <4>5
    <3> QED  BY <3>2, <3>3
  <2> QED  BY <2>1, <2>2, <2>3
<1>4. ASSUME v # <<>> PROVE Track(w, Tail(v), g, s, r, x, b, q, a, t, o, k, 1, z)
  BY <1>1, <1>3, <1>4 DEF Track, Traced, Backlog
<1> QED  BY <1>2, <1>4

\* Everything starts over, but for what is queued and for the timer.
LEMMA TrackFresh ==
  ASSUME NEW x, NEW b, NEW q, NEW a, NEW o \in Nat, NEW k \in {0, 1}, NEW n, NEW z,
         o + k <= z \/ (n = 1 /\ o + k <= WinSize + z)
  PROVE  Track(<<>>, <<>>, 0, 0, 0, x, b, q, a, 0, o, k, n, z)
<1>1. Intact(<<>>, 0, 0, x, b, q) /\ Home(<<>>, a, 0 - 0)
  BY DEF Intact, InStep, Whole, Home
<1>2. Idle(k, 0, 0) = k /\ 0 + o + k = o + k
  BY DEF Idle
<1> QED  BY <1>1, <1>2 DEF Track, Traced, Backlog, Safe

LEMMA TrackRestarted ==
  ASSUME NEW w, NEW v, NEW g, NEW s, NEW r, NEW x, NEW b, NEW q, NEW a, NEW t, NEW o, NEW k,
         NEW n, NEW z, Counts(g, s, r, t, o, k, n, z), Track(w, v, g, s, r, x, b, q, a, t, o, k, n, z),
         NEW o1 \in {0, o}, NEW k1 \in {0, k}
  PROVE  o1 + k1 <= z + 1 \/ (n = 1 /\ o1 + k1 <= WinSize + (z + 1))
<1> DEFINE i == Idle(k, s, r)
<1>1. /\ s \in Nat /\ r \in Nat /\ s - r <= WinSize /\ t \in Nat /\ o \in Nat /\ k \in {0, 1} /\ z \in Nat
  BY DEF Counts
<1>2. i \in {0, 1}
  BY <1>1 DEF Idle
<1>3. \/ t + o + i <= z
      \/ n = 1 /\ o + k <= s - r + z
      \/ n = 1 /\ t + o + i <= WinSize + z
  BY DEF Track, Backlog
<1> HIDE DEF i
<1> QED  BY <1>1, <1>2, <1>3, LimitType

----------------------------------------------------------------------------
(* Every step keeps track *)

LEMMA TraceCounts ==
  ASSUME StpInv, StreamInv, faults <= 1, NEW d \in Ends
  PROVE  Counts(acked[Peer(d)], sent[d], Released(d), sequence[d].retry_times, retryOps[d],
                Running(d), faults, restarts)
<1>1. faults \in {0, 1} /\ restarts \in Nat /\ Running(d) \in {0, 1}
  BY LimitType DEF StpInv, TypeOK, Running
<1> QED  BY <1>1, CalmBetween DEF Counts

\* A loss without a restart, or a queue that is not longer than the limit, leaves
\* the BTM thread no further behind than the limit.
Paced == WinSize + restarts <= RetryLimit \/ MaxRetryOps <= RetryLimit

LEMMA InTime ==
  ASSUME StpInv, StreamInv, faults <= 1, Paced, NEW e \in Ends, Calm(e), Trace(e)
  PROVE  sequence[e].retry_times + retryOps[e] <= RetryLimit
<1> DEFINE m == sequence[e].retry_times + retryOps[e]
<1>1. m \in Nat
  BY CalmBetween
<1>2. m <= WinSize + restarts
  BY TraceCounts, TrackBound DEF Trace
<1>3. m <= MaxRetryOps
  BY DEF Calm
<1>4. restarts \in Nat
  BY LimitType DEF StpInv, TypeOK
<1> HIDE DEF m
<1>5. m <= RetryLimit
  BY <1>1, <1>2, <1>3, <1>4, LimitType DEF Paced
<1> QED  BY <1>5 DEF m

\* What is behind the frames of a wire is intact if what it continues was.
LEMMA TraceIntact ==
  ASSUME StpInv, StreamInv, StreamInv', NEW e \in Ends, NEW u \in Seq(Frames),
         Continues(u, sent[e], sent'[e]), Brings(u, sent[e], sent'[e]), sent'[e] \in Nat,
         wire'[e] = wire[e] \o u, acked'[Peer(e)] = acked[Peer(e)],
         sequence'[Peer(e)] = sequence[Peer(e)], NEW b, NEW q
  PROVE  Intact(wire[e], acked[Peer(e)], sent[e], sequence[Peer(e)].expected_rxseq, b, q)
           => Intact(wire[e] \o u, acked[Peer(e)], sent'[e], sequence[Peer(e)].expected_rxseq, b, q)
<1>1. /\ sent[e] \in Nat /\ acked[Peer(e)] \in Nat /\ sequence[Peer(e)].expected_rxseq \in Seqs
      /\ wire[e] \in Seq(Frames)
  BY CalmBetween
<1>2. DataWire(wire[e] \o u, sequence[Peer(e)].expected_rxseq, acked[Peer(e)], sent'[e])
  BY CalmAfter
<1> QED  BY <1>1, <1>2, IntactJoined

\* End e writes packets, and nothing is parsed: the direction in which e receives.
LEMMA TraceHears ==
  ASSUME StpInv, StreamInv, NEW e \in Ends, Trace(Peer(e)), NEW y \in Seq(Frames),
         \A i \in 1 .. Len(y) : /\ y[i].kind # "ack"
                                /\ y[i].kind = "resync" \/ y[i].ack = sequence[e].txack,
         wire'[Peer(e)] = wire[Peer(e)], wire'[e] = wire[e] \o y,
         sent'[Peer(e)] = sent[Peer(e)], acked' = acked, faults' = faults, restarts' = restarts,
         retryOps'[Peer(e)] = retryOps[Peer(e)], sequence'[Peer(e)] = sequence[Peer(e)],
         timer'[Peer(e)] = timer[Peer(e)],
         sequence'[e].expected_rxseq = sequence[e].expected_rxseq,
         sequence'[e].rx_resync = sequence[e].rx_resync,
         sequence'[e].rx_resync_seq = sequence[e].rx_resync_seq
  PROVE  Trace(Peer(e))'
<1> DEFINE p == Peer(e)
           w == wire[p]
           v == wire[e]
           g == acked[e]
           s == sent[p]
           r == Released(p)
           x == sequence[e].expected_rxseq
           b == sequence[e].rx_resync
           q == sequence[e].rx_resync_seq
           a == sequence[p].rxack
           t == sequence[p].retry_times
           o == retryOps[p]
           k == Running(p)
           n == faults
           z == restarts
<1>1. p \in Ends /\ Peer(p) = e
  BY TwoEnds
<1>2. w \in Seq(Frames) /\ v \in Seq(Frames) /\ Dist(a, sequence[e].txack) = g - r
  BY <1>1, CalmBetween
<1>3. Released(p)' = r /\ Running(p)' = k
  BY DEF Released, Running
<1>4. Track(w, v, g, s, r, x, b, q, a, t, o, k, n, z)
  BY <1>1 DEF Trace
<1>5. Late(y, a, g - r)
  BY <1>2 DEF Late
<1> HIDE DEF w, v, g, s, r, x, b, q, a, t, o, k, n, z
<1>6. Track(w, v \o y, g, s, r, x, b, q, a, t, o, k, n, z)
  BY <1>2, <1>4, <1>5, TrackHears
<1> QED  BY <1>1, <1>3, <1>6 DEF Trace, w, v, g, s, r, x, b, q, a, t, o, n, z

\* A packet is sent.
LEMMA TraceSend ==
  ASSUME StpInv, StreamInv, StreamInv', faults <= 1, AllTraced, NEW e \in Ends, Send(e)
  PROVE  AllTraced'
<1> DEFINE p == Peer(e)
           c == sequence[e]
           w == wire[e]
           v == wire[p]
           g == acked[p]
           s == sent[e]
           r == Released(e)
           x == sequence[p].expected_rxseq
           b == sequence[p].rx_resync
           q == sequence[p].rx_resync_seq
           a == c.rxack
           t == c.retry_times
           o == retryOps[e]
           k == Running(e)
           n == faults
           z == restarts
           f == DataFrame(c.txseq, c.txack, s + 1)
           u == <<f>>
<1>1. /\ p \in Ends /\ p # e /\ Peer(p) = e /\ \A d \in Ends : d = e \/ d = p
  BY TwoEnds
<1>2. /\ sent \in [Ends -> Nat] /\ wire \in [Ends -> Seq(Frames)] /\ timer \in [Ends -> BOOLEAN]
      /\ sequence \in [Ends -> SequenceContext]
      /\ c.txseq \in Seqs /\ c.txack \in Seqs /\ c.winspace \in Nat
  <2>1. /\ sent \in [Ends -> Nat] /\ wire \in [Ends -> Seq(Frames)] /\ timer \in [Ends -> BOOLEAN]
        /\ sequence \in [Ends -> SequenceContext]
    BY DEF StpInv, TypeOK
  <2>2. c \in SequenceContext
    BY <2>1
  <2> HIDE DEF c
  <2>3. c.txseq \in Seqs /\ c.txack \in Seqs /\ c.winspace \in Nat
    BY <2>2, LimitType DEF SequenceContext
  <2> QED  BY <2>1, <2>3
<1>3. /\ s \in Nat /\ g \in Nat /\ r \in Nat /\ a \in Seqs /\ x \in Seqs
      /\ w \in Seq(Frames) /\ v \in Seq(Frames)
  BY CalmBetween
<1>4. f \in Frames /\ f.kind = "data" /\ f.pay = s + 1 /\ f.ack = c.txack /\ s + 1 \in Nat
  <2>1. s + 1 \in Nat
    BY <1>3
  <2> QED  BY <1>2, <2>1, FrameType DEF DataFrame
<1>5. u \in Seq(Frames) /\ Len(u) = 1 /\ u[1] = f
  BY <1>4
<1>6. wire'[e] = w \o u /\ wire'[p] = v
  <2>1. Append(w, f) = w \o u
    BY <1>3, <1>4, AppendIsConcat, Zenon
  <2> QED  BY <1>1, <1>2, <2>1 DEF Send
<1>7. /\ sent'[e] = s + 1 /\ sent'[p] = sent[p] /\ timer'[e] = TRUE /\ timer'[p] = timer[p]
      /\ UNCHANGED <<retryOps, acked, faults, restarts>>
  BY <1>1, <1>2 DEF Send
<1>8. /\ sequence'[p] = sequence[p] /\ sequence'[e].winspace = c.winspace - 1
      /\ sequence'[e].rxack = a /\ sequence'[e].retry_times = t
      /\ sequence'[e].expected_rxseq = c.expected_rxseq
      /\ sequence'[e].rx_resync = c.rx_resync /\ sequence'[e].rx_resync_seq = c.rx_resync_seq
  BY <1>1, <1>2 DEF Send, SequenceContext
<1>9. Released(e)' = r /\ s - r < WinSize /\ Running(e)' = 1
  <2>1. c.winspace > 0
    BY DEF Send
  <2> QED  BY <1>2, <1>3, <1>7, <1>8, <2>1, LimitType DEF Released, Running
<1>10. Trace(e) /\ Trace(p) /\ Counts(g, s, r, t, o, k, n, z)
  BY <1>1, TraceCounts DEF AllTraced
<1>11. Trace(p)'
  <2>1. \A i \in 1 .. Len(u) : u[i].kind # "ack" /\ (u[i].kind = "resync" \/ u[i].ack = c.txack)
    BY <1>4, <1>5
  <2> HIDE DEF u
  <2> QED  BY <1>5, <1>6, <1>7, <1>8, <1>10, <2>1, TraceHears
<1>12. Continues(u, s, s + 1)
  <2> HIDE DEF f
  <2> QED  BY <1>3, <1>4, SendContinues
<1>13. Brings(u, s, s + 1)
  BY <1>3, <1>4, <1>5 DEF Brings, Copy
<1>14. Track(w, v, g, s, r, x, b, q, a, t, o, k, n, z)
  BY <1>10 DEF Trace
<1>15. Intact(w, g, s, x, b, q) => Intact(w \o u, g, s + 1, x, b, q)
  <2> HIDE DEF u
  <2> QED  BY <1>4, <1>5, <1>6, <1>7, <1>8, <1>12, <1>13, TraceIntact
<1> HIDE DEF w, v, g, s, r, x, b, q, a, t, o, k, n, z, f
<1>16. Track(w \o u, v, g, s + 1, r, x, b, q, a, t, o, 1, n, z)
  BY <1>3, <1>4, <1>9, <1>10, <1>14, <1>15, TrackSent
<1> HIDE DEF u
<1>17. Trace(e)'
  BY <1>6, <1>7, <1>8, <1>9, <1>16 DEF Trace, v, g, x, b, q, a, t, o, n, z
<1> QED  BY <1>1, <1>11, <1>17 DEF AllTraced

\* A timeout finds the wires empty.
LEMMA TraceTimerFires ==
  ASSUME StpInv, StreamInv, faults <= 1, AllCalm, AllTraced, NEW e \in Ends, TimerFires(e), ~upset'
  PROVE  AllTraced'
<1> DEFINE p == Peer(e)
           g == acked[p]
           s == sent[e]
           r == Released(e)
           x == sequence[p].expected_rxseq
           b == sequence[p].rx_resync
           q == sequence[p].rx_resync_seq
           a == sequence[e].rxack
           t == sequence[e].retry_times
           o == retryOps[e]
           n == faults
           z == restarts
<1>1. p \in Ends /\ p # e /\ Peer(p) = e /\ \A d \in Ends : d = e \/ d = p
  BY TwoEnds
<1>2. /\ UNCHANGED <<sequence, wire, sent, acked, faults, restarts>>
      /\ retryOps \in [Ends -> 0 .. MaxRetryOps] /\ timer \in [Ends -> BOOLEAN] /\ timer[e]
      /\ retryOps' = [retryOps EXCEPT ![e] = @ + 1] /\ timer' = [timer EXCEPT ![e] = FALSE]
  BY DEF TimerFires, StpInv, TypeOK
<1>3. wire[e] = <<>> /\ wire[p] = <<>>
  BY <1>1 DEF TimerFires
<1>4. t = 0
  <2>1. t \in Nat
    BY LimitType DEF StpInv, TypeOK, SequenceContext
  <2>2. Ways(<<>>, <<>>, a, r, s, t, faults)
    BY <1>3 DEF AllCalm, Calm
  <2>3. ~OneWay(<<>>, <<>>, a, r)
    BY DEF OneWay
  <2> QED  BY <2>1, <2>2, <2>3 DEF Ways
<1>5. \A d \in Ends : Released(d)' = Released(d)
  BY <1>2 DEF Released
<1>6. Trace(p)'
  <2>1. retryOps'[p] = retryOps[p] /\ Running(p)' = Running(p)
    BY <1>1, <1>2 DEF Running
  <2> QED  BY <1>1, <1>2, <1>5, <2>1 DEF AllTraced, Trace
<1>7. retryOps'[e] = o + 1 /\ Running(e) = 1 /\ Running(e)' = 0
  BY <1>2 DEF Running
<1>8. Counts(g, s, r, t, o, 1, n, z) /\ Track(<<>>, <<>>, g, s, r, x, b, q, a, t, o, 1, n, z)
  <2>1. Trace(e) /\ Counts(g, s, r, t, o, Running(e), n, z)
    BY TraceCounts DEF AllTraced
  <2> QED  BY <1>3, <1>7, <2>1 DEF Trace
<1> HIDE DEF g, s, r, x, b, q, a, t, o, n, z
<1>9. Track(<<>>, <<>>, g, s, r, x, b, q, a, t, o + 1, 0, n, z)
  BY <1>4, <1>8, TrackFires
<1>10. Trace(e)'
  BY <1>2, <1>3, <1>5, <1>7, <1>9 DEF Trace, g, s, r, x, b, q, a, t, n, z
<1> QED  BY <1>1, <1>6, <1>10 DEF AllTraced

\* A retry is handled.
LEMMA TraceTimeout ==
  ASSUME StpInv, StreamInv, StreamInv', faults <= 1, Paced, AllCalm, AllTraced,
         NEW e \in Ends, DoTxTimeout(e)
  PROVE  AllTraced'
<1> DEFINE p == Peer(e)
           c == sequence[e]
           w == wire[e]
           v == wire[p]
           g == acked[p]
           s == sent[e]
           r == Released(e)
           x == sequence[p].expected_rxseq
           b == sequence[p].rx_resync
           q == sequence[p].rx_resync_seq
           a == c.rxack
           t == c.retry_times
           o == retryOps[e]
           k == Running(e)
           n == faults
           z == restarts
           u == Retransmission(e)
           m == Unacked(c)
<1>1. /\ p \in Ends /\ p # e /\ Peer(p) = e /\ \A d \in Ends : d = e \/ d = p
  BY TwoEnds
<1>2. /\ wire \in [Ends -> Seq(Frames)] /\ sequence \in [Ends -> SequenceContext]
      /\ timer \in [Ends -> BOOLEAN] /\ retryOps \in [Ends -> 0 .. MaxRetryOps]
      /\ o > 0 /\ u \in Seq(Frames)
  BY RetransmissionType DEF StpInv, TypeOK, DoTxTimeout
<1>3. /\ s \in Nat /\ g \in Nat /\ r \in Nat /\ r <= g /\ g <= s /\ t \in Nat
      /\ w \in Seq(Frames) /\ v \in Seq(Frames)
  BY CalmBetween
<1>4. m = s - r
  BY Between
<1>5. Calm(e) /\ Trace(e) /\ Trace(p) /\ Counts(g, s, r, t, o, k, n, z)
  BY <1>1, TraceCounts DEF AllCalm, AllTraced
<1>6. t + o <= RetryLimit
  BY <1>5, InTime
<1>7. PICK pending \in BOOLEAN :
        /\ wire' = [wire EXCEPT ![e] = w \o u]
        /\ sequence' = [sequence EXCEPT ![e] = Retried(e, pending).seq]
        /\ timer' = [timer EXCEPT ![e] = Retried(e, pending).on]
  <2>1. ~(t > RetryLimit)
    BY <1>2, <1>6, CalmRetried
  <2> QED  BY <2>1 DEF DoTxTimeout
<1> DEFINE h == Retried(e, pending)
<1>8. /\ m = 0 => h.seq = c /\ h.on = FALSE
      /\ m # 0 => h.seq = Counted(c, t + 1, c.tx_timeout_loop)
  BY <1>2, <1>6, CalmRetried
<1>9. /\ sequence'[p] = sequence[p] /\ sequence'[e] = h.seq /\ wire'[e] = w \o u /\ wire'[p] = v
      /\ timer'[p] = timer[p] /\ timer'[e] = h.on
  <2> HIDE DEF h
  <2> QED  BY <1>1, <1>2, <1>7 DEF h
<1>10. /\ UNCHANGED <<sent, acked, faults, restarts>>
       /\ retryOps'[e] = o - 1 /\ retryOps'[p] = retryOps[p]
  BY <1>1, <1>2 DEF DoTxTimeout
<1> HIDE DEF h
<1>11. /\ sequence'[e].rxack = a /\ sequence'[e].winspace = c.winspace
       /\ sequence'[e].expected_rxseq = c.expected_rxseq
       /\ sequence'[e].rx_resync = c.rx_resync /\ sequence'[e].rx_resync_seq = c.rx_resync_seq
       /\ m = 0 => sequence'[e].retry_times = t
       /\ m # 0 => sequence'[e].retry_times = t + 1
  <2>1. c \in SequenceContext
    BY <1>2
  <2> HIDE DEF c
  <2>2. CASE m = 0
    BY <1>8, <1>9, <2>2 DEF a, t, c
  <2>3. CASE m # 0
    BY <1>8, <1>9, <2>1, <2>3 DEF Counted, SequenceContext, a, t, c
  <2> QED  BY <2>2, <2>3
<1>12. Released(e)' = r
  BY <1>10, <1>11 DEF Released
<1>13. Running(e)' \in {0, 1} /\ (m = 0 => Running(e)' = 0)
  BY <1>8, <1>9 DEF Running
<1>14. Track(w, v, g, s, r, x, b, q, a, t, o, k, n, z)
  BY <1>5 DEF Trace
<1>15. Trace(p)'
  <2>1. \A i \in 1 .. Len(u) : u[i].kind # "ack" /\ (u[i].kind = "resync" \/ u[i].ack = c.txack)
    BY RetransmissionFrames
  <2> HIDE DEF u
  <2> QED  BY <1>2, <1>5, <1>9, <1>10, <1>11, <2>1, TraceHears
<1>16. CASE m = 0
  <2>1. u = <<>> /\ w \o u = w /\ r = s
    BY <1>3, <1>4, <1>16 DEF Retransmission
  <2> HIDE DEF w, v, g, s, r, x, b, q, a, t, o, k, n, z, u, m
  <2>2. Track(w, v, g, s, r, x, b, q, a, t, o - 1, 0, n, z)
    BY <1>2, <1>5, <1>14, <2>1, TrackIdle
  <2>3. Trace(e)'
    BY <1>9, <1>10, <1>11, <1>12, <1>13, <1>16, <2>1, <2>2 DEF Trace, v, g, s, x, b, q, a, n, z
  <2> QED  BY <1>1, <1>15, <2>3 DEF AllTraced
<1>17. CASE m # 0
  <2>1. IsRepeat(u, r, s) /\ r < s
    BY <1>3, <1>4, <1>17, RetransmissionRepeats
  <2>2. Continues(u, s, s)
    <3> HIDE DEF u, r, s
    <3> QED  BY <1>2, <1>3, <2>1, RepeatContinues
  <2>3. Brings(u, s, s)
    BY <1>3 DEF Brings
  <2>4. Intact(w, g, s, x, b, q) => Intact(w \o u, g, s, x, b, q)
    <3> HIDE DEF u
    <3> QED  BY <1>2, <1>3, <1>9, <1>10, <2>2, <2>3, TraceIntact
  <2> HIDE DEF w, v, g, s, r, x, b, q, a, t, o, k, n, z, u, m
  <2> DEFINE k1 == Running(e)'
  <2>5. k1 \in {0, 1}
    BY <1>13
  <2> HIDE DEF k1
  <2>6. Track(w \o u, v, g, s, r, x, b, q, a, t + 1, o - 1, k1, n, z)
    BY <1>2, <1>3, <1>5, <1>14, <2>1, <2>4, <2>5, TrackRepeated
  <2>7. Trace(e)'
    BY <1>9, <1>10, <1>11, <1>12, <1>17, <2>6 DEF Trace, v, g, s, x, b, q, a, n, z, k1
  <2> QED  BY <1>1, <1>15, <2>7 DEF AllTraced
<1> QED  BY <1>16, <1>17

\* A sender whose released packets are all it has sent has its whole window.
LEMMA AllReleased ==
  ASSUME NEW s \in Int, NEW r \in Int, NEW m \in Int, NEW i \in Int, NEW t \in Int,
         r = s - (t - i), s = r + m
  PROVE  i + m = t
  OBVIOUS

\* End e takes a frame in and answers it with acknowledgements: the direction in
\* which it sends.
LEMMA TraceSender ==
  ASSUME StpInv, StreamInv, StreamInv', faults <= 1, NEW e \in Ends, wire[Peer(e)] # <<>>, Trace(e),
         NEW y \in Seq(Frames), \A i \in 1 .. Len(y) : y[i].kind = "ack",
         wire'[Peer(e)] = Tail(wire[Peer(e)]), wire'[e] = wire[e] \o y,
         sent' = sent, faults' = faults, restarts' = restarts, retryOps' = retryOps,
         acked'[Peer(e)] = acked[Peer(e)], sequence'[Peer(e)] = sequence[Peer(e)],
         \/ /\ Incoming(e).kind # "ack" /\ timer'[e] = timer[e]
            /\ sequence'[e].rxack = sequence[e].rxack
            /\ sequence'[e].winspace = sequence[e].winspace
            /\ sequence'[e].retry_times = sequence[e].retry_times
         \/ LET c == Acknowledged(sequence[e], Incoming(e).ack) IN
            /\ Incoming(e).kind # "resync" /\ timer' = TimerAfterAck(e, Incoming(e).ack)
            /\ sequence'[e].rxack = c.rxack
            /\ sequence'[e].winspace = c.winspace
            /\ sequence'[e].retry_times = c.retry_times
  PROVE  Trace(e)'
<1> DEFINE p == Peer(e)
           w == wire[e]
           v == wire[p]
           h == Incoming(e)
           g == acked[p]
           s == sent[e]
           r == Released(e)
           x == sequence[p].expected_rxseq
           b == sequence[p].rx_resync
           q == sequence[p].rx_resync_seq
           a == sequence[e].rxack
           t == sequence[e].retry_times
           o == retryOps[e]
           k == Running(e)
           n == faults
           z == restarts
           m == Dist(a, h.ack)
<1>1. /\ s \in Nat /\ g \in Nat /\ r \in Nat /\ r <= g /\ g <= s /\ a \in Seqs /\ x \in Seqs
      /\ w \in Seq(Frames) /\ v \in Seq(Frames) /\ v # <<>> /\ AckWire(v, a, g - r)
  BY CalmBetween
<1>2. Counts(g, s, r, t, o, k, n, z) /\ Track(w, v, g, s, r, x, b, q, a, t, o, k, n, z)
  BY TraceCounts DEF Trace
<1>3. Intact(w, g, s, x, b, q) => Intact(w \o y, g, s, x, b, q)
  <2>1. Continues(y, s, s)
    BY AcksContinue
  <2>2. Brings(y, s, s)
    BY <1>1 DEF Brings
  <2> QED  BY <1>1, <2>1, <2>2, TraceIntact
<1>4. h = Head(v) /\ h = v[1] /\ 1 \in 1 .. Len(v) /\ h \in Frames /\ h.ack \in Seqs
  <2>1. Head(v) \in Frames
    BY <1>1, FirstFrame
  <2> QED  BY <1>1, <2>1, TailPlace DEF Incoming, Frames
<1>5. Sound(sequence[e]) /\ Unacked(sequence[e]) = s - r /\ sequence[e].winspace \in Nat
      /\ timer \in [Ends -> BOOLEAN]
  <2>1. sequence[e] \in SequenceContext /\ timer \in [Ends -> BOOLEAN]
    BY DEF StpInv, TypeOK
  <2>2. sequence[e].winspace \in Nat
    BY <2>1, LimitType DEF SequenceContext
  <2> QED  BY <2>1, <2>2, Between
<1>6. ASSUME h.kind # "ack" \/ h.ack = a, Released(e)' = r, Running(e)' = k,
             sequence'[e].rxack = a, sequence'[e].retry_times = t
      PROVE  Trace(e)'
  <2> HIDE DEF w, v, g, s, r, x, b, q, a, t, o, k, n, z
  <2>1. Track(w \o y, Tail(v), g, s, r, x, b, q, a, t, o, k, n, z)
    BY <1>1, <1>2, <1>3, <1>4, <1>6, TrackKept
  <2> QED  BY <1>6, <2>1 DEF Trace, w, v, g, s, x, b, q, o, n, z
<1>7. ASSUME h.kind # "ack", timer'[e] = timer[e], sequence'[e].rxack = a,
             sequence'[e].winspace = sequence[e].winspace, sequence'[e].retry_times = t
      PROVE  Trace(e)'
  <2>1. Released(e)' = r /\ Running(e)' = k
    BY <1>7 DEF Released, Running
  <2> QED  BY <1>6, <1>7, <2>1
<1>8. ASSUME h.kind # "resync", timer' = TimerAfterAck(e, h.ack),
             sequence'[e].rxack = Acknowledged(sequence[e], h.ack).rxack,
             sequence'[e].winspace = Acknowledged(sequence[e], h.ack).winspace,
             sequence'[e].retry_times = Acknowledged(sequence[e], h.ack).retry_times
      PROVE  Trace(e)'
  <2>1. m \in Nat /\ m <= g - r
    BY <1>1, <1>4, <1>8, DistType, LimitType DEF AckWire, AckFits
  <2>2. m <= Unacked(sequence[e])
    BY <1>1, <1>5, <2>1
  <2>3. CASE h.ack = a
    <3>1. Acknowledged(sequence[e], h.ack) = sequence[e] /\ ~AckHits(sequence[e], h.ack)
      BY <1>4, <1>5, <2>2, <2>3, AckRetries
    <3>2. timer' = timer
      BY <1>5, <1>8, <3>1 DEF TimerAfterAck
    <3>3. Released(e)' = r /\ Running(e)' = k
      BY <1>8, <3>1, <3>2 DEF Released, Running
    <3> QED  BY <1>6, <1>8, <2>3, <3>1, <3>3
  <2>4. CASE h.ack # a
    <3> DEFINE i == sequence[e].winspace
               k1 == Running(e)'
               r1 == r + m
    <3>1. /\ AckHits(sequence[e], h.ack) /\ sequence'[e].retry_times = 0
          /\ sequence'[e].rxack = h.ack /\ sequence'[e].winspace = i + m
          /\ Acknowledged(sequence[e], h.ack).winspace = i + m
      BY <1>4, <1>5, <1>8, <2>2, <2>4, AckRetries, AckAdvance
    <3>2. timer'[e] = (i + m # WinSize)
      <4> DEFINE l == (i + m # WinSize)
      <4>1. timer' = [timer EXCEPT ![e] = l]
        BY <1>8, <3>1 DEF TimerAfterAck
      <4> HIDE DEF l
      <4>2. timer'[e] = l
        BY <1>5, <4>1
      <4> QED  BY <4>2 DEF l
    <3>3. Released(e)' = r1
      <4>1. r = s - (WinSize - i) /\ Released(e)' = s - (WinSize - (i + m))
        BY <3>1 DEF Released
      <4> QED  BY <1>1, <1>5, <2>1, <4>1, LimitType
    <3>4. k1 \in {0, 1} /\ (s = r1 => k1 = 0)
      <4>1. r = s - (WinSize - i)
        BY DEF Released
      <4>2. s = r + m => i + m = WinSize
        <5>1. i \in Nat
          BY <1>5
        <5>2. s \in Int /\ r \in Int /\ m \in Int /\ i \in Int /\ WinSize \in Int
          BY <1>1, <2>1, <5>1, LimitType
        <5> HIDE DEF s, r, m, i
        <5> QED  BY <4>1, <5>2, AllReleased
      <4> QED  BY <3>2, <4>2 DEF Running
    <3> HIDE DEF w, v, g, s, r, x, b, q, a, t, o, k, n, z, k1, h
    <3>6. Head(v).kind # "resync" /\ Head(v).ack # a /\ r1 = r + Dist(a, Head(v).ack)
      BY <1>4, <1>8, <2>4
    <3> HIDE DEF r1
    <3>7. Track(w \o y, Tail(v), g, s, r1, x, b, q, Head(v).ack, 0, o, k1, n, z)
      <4>1. AckTaken(v, y, g, s, r, a, r1, k1)
        BY <1>1, <3>4, <3>6 DEF AckTaken
      <4> QED  BY <1>1, <1>2, <1>3, <4>1, TrackAcked
    <3>5. Track(w \o y, Tail(v), g, s, r1, x, b, q, h.ack, 0, o, k1, n, z)
      BY <1>4, <3>7
    <3> QED  BY <3>1, <3>3, <3>5 DEF Trace, w, v, g, s, x, b, q, o, n, z, k1
  <2> QED  BY <2>3, <2>4
<1> QED  BY <1>7, <1>8

\* ... and the direction in which it receives.
LEMMA TraceReceiver ==
  ASSUME NEW e \in Ends, NEW y,
         wire'[Peer(e)] = Tail(wire[Peer(e)]), wire'[e] = wire[e] \o y,
         sent' = sent, faults' = faults, restarts' = restarts, retryOps' = retryOps,
         sequence'[Peer(e)] = sequence[Peer(e)], timer'[Peer(e)] = timer[Peer(e)],
         Track(Tail(wire[Peer(e)]), wire[e] \o y, acked'[e], sent[Peer(e)], Released(Peer(e)),
               sequence'[e].expected_rxseq, sequence'[e].rx_resync, sequence'[e].rx_resync_seq,
               sequence[Peer(e)].rxack, sequence[Peer(e)].retry_times, retryOps[Peer(e)],
               Running(Peer(e)), faults, restarts)
  PROVE  Trace(Peer(e))'
<1>1. Peer(Peer(e)) = e
  BY TwoEnds
<1>2. Released(Peer(e))' = Released(Peer(e)) /\ Running(Peer(e))' = Running(Peer(e))
  BY DEF Released, Running
<1> QED  BY <1>1, <1>2 DEF Trace

\* An acknowledgement concerns the timer of the end that takes it.
LEMMA TimerElsewhere ==
  ASSUME StpInv, NEW e \in Ends, NEW b, NEW d \in Ends \ {e}
  PROVE  TimerAfterAck(e, b)[d] = timer[d]
BY DEF StpInv, TypeOK, TimerAfterAck

\* A resync pattern.
LEMMA TraceResync ==
  ASSUME StpInv, StreamInv, StreamInv', faults <= 1, AllCalm, AllTraced, NEW e \in Ends,
         wire[Peer(e)] # <<>>, RecvResync(e)
  PROVE  AllTraced'
<1> DEFINE p == Peer(e)
           c == sequence[e]
           w == wire[p]
           v == wire[e]
           g == acked[e]
           s == sent[p]
           r == Released(p)
           x == c.expected_rxseq
           a == sequence[p].rxack
           t == sequence[p].retry_times
           o == retryOps[p]
           k == Running(p)
           n == faults
           z == restarts
<1>0. <<>> \in Seq(Frames) /\ \A i \in 1 .. Len(<<>>) : <<>>[i].kind = "ack"
  OBVIOUS
<1>1. /\ p \in Ends /\ p # e /\ Peer(p) = e /\ \A d \in Ends : d = e \/ d = p
      /\ wire'[p] = Tail(w) /\ wire'[e] = v \o <<>>
      /\ Incoming(e) = Head(w) /\ Incoming(e) = w[1]
  BY <1>0, CalmParsed DEF RecvResync
<1>2. /\ UNCHANGED <<timer, retryOps, sent, acked, faults, restarts>>
      /\ Incoming(e).kind = "resync" /\ sequence \in [Ends -> SequenceContext]
  BY DEF RecvResync, StpInv, TypeOK
<1>3. /\ sequence'[p] = sequence[p]
      /\ sequence'[e].rxack = c.rxack /\ sequence'[e].winspace = c.winspace
      /\ sequence'[e].retry_times = c.retry_times /\ sequence'[e].expected_rxseq = x
      /\ sequence'[e].rx_resync = TRUE /\ sequence'[e].rx_resync_seq = Unset
  BY <1>1, <1>2 DEF RecvResync, SequenceContext
<1>4. Trace(e) /\ Trace(p) /\ Calm(p) /\ Counts(g, s, r, t, o, k, n, z)
  BY <1>1, TraceCounts DEF AllCalm, AllTraced
<1>5. Trace(e)'
  BY <1>0, <1>1, <1>2, <1>3, <1>4, TraceSender
<1>6. g \in Nat /\ s \in Nat /\ w \in Seq(Frames) /\ v \in Seq(Frames)
  BY <1>1, CalmBetween
<1>7. /\ Chain(w, g, s)
      /\ Track(w, v, g, s, r, x, c.rx_resync, c.rx_resync_seq, a, t, o, k, n, z)
  BY <1>1, <1>4 DEF Calm, Trace
<1>8. v \o <<>> = v
  BY <1>6
<1>9. Track(Tail(w), v, g, s, r, x, TRUE, Unset, a, t, o, k, n, z)
  <2>1. w # <<>> /\ Head(w).kind = "resync" /\ Head(w).kind # "data"
    BY <1>1, <1>2
  <2> HIDE DEF w, v, g, s, r, x, a, t, o, k, n, z
  <2>2. Intact(w, g, s, x, c.rx_resync, c.rx_resync_seq) => Intact(Tail(w), g, s, x, TRUE, Unset)
    BY <1>6, <1>7, <2>1, IntactTail
  <2>3. InStep(Tail(w), g, s, x, TRUE, Unset)
    BY <1>6, <1>7, <2>1, ResyncInStep
  <2> QED  BY <1>4, <1>6, <1>7, <2>1, <2>2, <2>3, TrackPassed
<1>10. Trace(p)'
  <2> HIDE DEF w, v, g, s, r, x, a, t, o, k, n, z
  <2>1. Track(Tail(w), v \o <<>>, acked'[e], s, r, sequence'[e].expected_rxseq, sequence'[e].rx_resync,
              sequence'[e].rx_resync_seq, a, t, o, k, n, z)
    BY <1>2, <1>3, <1>8, <1>9 DEF g
  <2> QED  BY <1>0, <1>1, <1>2, <1>3, <2>1, TraceReceiver DEF w, v, s, r, a, t, o, k, n, z
<1> QED  BY <1>1, <1>5, <1>10 DEF AllTraced

\* An acknowledgement without data.
LEMMA TraceAck ==
  ASSUME StpInv, StreamInv, StreamInv', faults <= 1, AllCalm, AllTraced, NEW e \in Ends,
         wire[Peer(e)] # <<>>, RecvAck(e)
  PROVE  AllTraced'
<1> DEFINE p == Peer(e)
           c == sequence[e]
           w == wire[p]
           v == wire[e]
           g == acked[e]
           s == sent[p]
           r == Released(p)
           x == c.expected_rxseq
           b == c.rx_resync
           q == c.rx_resync_seq
           a == sequence[p].rxack
           t == sequence[p].retry_times
           o == retryOps[p]
           k == Running(p)
           n == faults
           z == restarts
           h == Acknowledged(c, Incoming(e).ack)
<1>0. <<>> \in Seq(Frames) /\ \A i \in 1 .. Len(<<>>) : <<>>[i].kind = "ack"
  OBVIOUS
<1>1. /\ p \in Ends /\ p # e /\ Peer(p) = e /\ \A d \in Ends : d = e \/ d = p
      /\ wire'[p] = Tail(w) /\ wire'[e] = v \o <<>>
      /\ Incoming(e) = Head(w) /\ Incoming(e) = w[1]
  BY <1>0, CalmParsed DEF RecvAck
<1>2. /\ UNCHANGED <<retryOps, sent, acked, faults, restarts>>
      /\ Incoming(e).kind = "ack" /\ timer' = TimerAfterAck(e, Incoming(e).ack)
      /\ sequence \in [Ends -> SequenceContext] /\ c \in SequenceContext
  BY DEF RecvAck, StpInv, TypeOK
<1>3. /\ sequence'[e] = h /\ sequence'[p] = sequence[p] /\ timer'[p] = timer[p]
  BY <1>1, <1>2, TimerElsewhere DEF RecvAck
<1>4. h.expected_rxseq = x /\ h.rx_resync = b /\ h.rx_resync_seq = q
  BY <1>2, AckLeaves
<1> HIDE DEF h
<1>5. Trace(e) /\ Trace(p) /\ Calm(p) /\ Counts(g, s, r, t, o, k, n, z)
  BY <1>1, TraceCounts DEF AllCalm, AllTraced
<1>6. Trace(e)'
  BY <1>0, <1>1, <1>2, <1>3, <1>5, TraceSender DEF h
<1>7. g \in Nat /\ s \in Nat /\ w \in Seq(Frames) /\ v \in Seq(Frames)
  BY <1>1, CalmBetween
<1>8. /\ Chain(w, g, s)
      /\ Track(w, v, g, s, r, x, b, q, a, t, o, k, n, z)
  BY <1>1, <1>5 DEF Calm, Trace
<1>9. v \o <<>> = v
  BY <1>7
<1>10. Track(Tail(w), v, g, s, r, x, b, q, a, t, o, k, n, z)
  <2>1. w # <<>> /\ Head(w).kind = "ack" /\ Head(w).kind # "data" /\ Head(w).kind # "resync"
    BY <1>1, <1>2
  <2> HIDE DEF w, v, g, s, r, x, b, q, a, t, o, k, n, z
  <2>2. Intact(w, g, s, x, b, q) => Intact(Tail(w), g, s, x, b, q)
    BY <1>7, <1>8, <2>1, IntactTail
  <2> QED  BY <1>5, <1>7, <1>8, <2>1, <2>2, TrackPassed
<1>11. Trace(p)'
  <2> HIDE DEF w, v, g, s, r, x, b, q, a, t, o, k, n, z
  <2>1. Track(Tail(w), v \o <<>>, acked'[e], s, r, sequence'[e].expected_rxseq, sequence'[e].rx_resync,
              sequence'[e].rx_resync_seq, a, t, o, k, n, z)
    BY <1>2, <1>3, <1>4, <1>9, <1>10 DEF g
  <2> QED  BY <1>0, <1>1, <1>2, <1>3, <2>1, TraceReceiver DEF w, v, s, r, a, t, o, k, n, z
<1> QED  BY <1>1, <1>6, <1>11 DEF AllTraced

\* The expected packet: taken over, acknowledged and enqueued.
LEMMA CalmExpected ==
  ASSUME StpInv, StreamInv, StreamInv', faults <= 1, AllCalm, ~upset', NEW e \in Ends,
         wire[Peer(e)] # <<>>, RecvExpected(e)
  PROVE  AllCalm' /\ (AllTraced => AllTraced')
<1> DEFINE p == Peer(e)
           c == sequence[e]
           w == wire[p]
           f == Incoming(e)
           t == Acknowledged(c, f.ack)
           u == <<AckFrame(f.seq)>>
           g == acked[e]
           s == sent[p]
           r == Released(p)
           x == c.expected_rxseq
           a == sequence[p].rxack
           n == faults
<1>1. f \in Frames /\ f.seq \in Seqs /\ f.ack \in Seqs /\ f.pay \in Nat
  <2>1. wire[p] \in Seq(Frames)
    BY TwoEnds DEF StpInv, TypeOK
  <2> QED  BY <2>1, FirstFrame DEF Incoming, Frames
<1>2. u \in Seq(Frames) /\ Len(u) = 1 /\ u[1] = AckFrame(f.seq)
      /\ AckFrame(f.seq).kind = "ack" /\ AckFrame(f.seq).ack = f.seq
  BY <1>1, FrameType DEF AckFrame
<1>3. \A i \in 1 .. Len(u) : u[i].kind = "ack"
  BY <1>2
<1>4. Parse(e, u) /\ f.kind = "data" /\ f.seq = t.expected_rxseq /\ parser[e] = "sync"
      /\ UNCHANGED <<retryOps, parser, sent>>
  BY DEF RecvExpected
<1> HIDE DEF u
<1>5. /\ p \in Ends /\ p # e /\ Peer(p) = e /\ \A d \in Ends : d = e \/ d = p
      /\ wire'[p] = Tail(w) /\ wire'[e] = wire[e] \o u /\ f = Head(w) /\ f = w[1]
  BY <1>2, <1>4, CalmParsed
<1>6. Calm(e) /\ Calm(p)
  BY <1>5 DEF AllCalm
<1>7. /\ sequence \in [Ends -> SequenceContext] /\ c \in SequenceContext /\ acked \in [Ends -> Nat]
      /\ rxOk \in [Ends -> BOOLEAN] /\ failCount[e] \in Nat /\ failCount[e] <= RetryLimit
  BY LimitType DEF StpInv, TypeOK
<1>8. PICK q \in Enqueued(e) :
        /\ rxOk' = [rxOk EXCEPT ![e] = q.ok]
        /\ CountFailure(e, q.fail)
        /\ upset' = (upset \/ ~q.ok)
        /\ faults' = IF q.ok THEN faults ELSE faults + 1
  BY DEF RecvExpected
<1>9. q.ok /\ q.fail \in {0, failCount[e]} /\ faults' = faults
  <2>1. q.ok
    BY <1>8
  <2>2. q.ok = FALSE \/ q.fail \in {0, failCount[e]}
    BY EnqueuedHow
  <2> QED  BY <1>8, <2>1, <2>2
<1>10. /\ failCount'[e] = q.fail /\ asserted'[e] = asserted[e]
       /\ failCount'[p] = failCount[p] /\ asserted'[p] = asserted[p]
  <2>1. q.fail \in Nat /\ q.fail <= RetryLimit
    BY <1>7, <1>9, LimitType
  <2> QED  BY <1>5, <1>8, <2>1, CountedCalmly
<1>11. rxOk'[e] /\ rxOk'[p] = rxOk[p] /\ acked'[e] = f.pay /\ acked'[p] = acked[p]
  BY <1>5, <1>7, <1>8, <1>9 DEF RecvExpected
<1>12. t.txack = c.txack /\ t.expected_rxseq = x
  BY <1>7, AckLeaves
<1>13. t \in SequenceContext
  <2>1. Sound(c)
    BY DEF StpInv, TypeOK, WindowExact, Sound
  <2> QED  BY <1>1, <2>1, AckSound DEF Sound
<1>14. /\ sequence'[p] = sequence[p]
       /\ sequence'[e].rxack = t.rxack /\ sequence'[e].winspace = t.winspace
       /\ sequence'[e].retry_times = t.retry_times
       /\ sequence'[e].txack = f.seq /\ sequence'[e].expected_rxseq = Inc(f.seq)
  <2>1. sequence' = [sequence EXCEPT ![e] =
          [t EXCEPT !.rx_resync = FALSE, !.txack = f.seq, !.expected_rxseq = Inc(@)]]
    BY DEF RecvExpected
  <2> HIDE DEF t, f
  <2>2. sequence'[p] = sequence[p] /\ sequence'[e] =
          [t EXCEPT !.rx_resync = FALSE, !.txack = f.seq, !.expected_rxseq = Inc(@)]
    BY <1>5, <1>7, <2>1
  <2> QED  BY <1>4, <1>13, <2>2 DEF SequenceContext
<1>15. Calm(e)'
  <2>1. ~asserted'[e] /\ parser'[e] = "sync" /\ sent' = sent /\ retryOps' = retryOps
    BY <1>4, <1>6, <1>10 DEF Calm
  <2>2. Incoming(e).kind # "resync"
    BY <1>4
  <2> HIDE DEF t
  <2> QED
    BY <1>2, <1>3, <1>5, <1>6, <1>9, <1>10, <1>11, <1>14, <2>1, <2>2, CalmSender DEF t
<1>16. /\ s \in Nat /\ g \in Nat /\ r \in Nat /\ s - r <= WinSize /\ r <= g /\ a \in Seqs
       /\ x \in Seqs /\ w \in Seq(Frames) /\ DataWire(w, x, g, s)
  BY <1>5, CalmBetween
<1>17. f.pay = g + 1
  <2>1. DataFits(f, x, g, s)
    BY <1>5, <1>16, FirstFrame DEF DataWire
  <2> QED  BY <1>1, <1>4, <1>12, <1>16, <2>1, ExpectedIsNext
<1>18. /\ Front(w, g, s, x, c.rx_resync, c.rx_resync_seq, failCount[e], n) /\ Chain(w, g, s)
  BY <1>5, <1>6 DEF Calm
<1>19. Released(p)' = r
  BY <1>4, <1>14 DEF Released
<1>20. /\ Dist(a, f.seq) = g + 1 - r
       /\ DataWire(Tail(w), Inc(f.seq), g + 1, s)
  <2>1. /\ Dist(sequence'[p].rxack, sequence'[e].txack) = acked'[e] - Released(p)'
        /\ DataWire(wire'[p], sequence'[e].expected_rxseq, acked'[e], sent'[p])
    BY <1>5, CalmAfter
  <2>2. /\ sequence'[p].rxack = a /\ sequence'[e].txack = f.seq /\ sent'[p] = s
        /\ sequence'[e].expected_rxseq = Inc(f.seq) /\ acked'[e] = g + 1 /\ wire'[p] = Tail(w)
    BY <1>4, <1>5, <1>11, <1>14, <1>17
  <2> HIDE DEF p, w, f, g, s, r, a
  <2>3. acked'[e] - Released(p)' = g + 1 - r
    BY <1>16, <1>19, <2>2
  <2>4. Dist(a, f.seq) = g + 1 - r
    BY <2>1, <2>2, <2>3
  <2> QED  BY <2>1, <2>2, <2>4
<1> HIDE DEF w, f, t, g, s, r, x, a, n
<1>21. Front(Tail(w), g + 1, s, Inc(f.seq), sequence'[e].rx_resync, sequence'[e].rx_resync_seq,
             q.fail, n)
  <2>1. Inc(f.seq) \in Seqs
    BY <1>1, IncType
  <2> QED  BY <1>4, <1>5, <1>9, <1>16, <1>17, <1>18, <1>20, <2>1, FrontExpected DEF w
<1>22. ASSUME NEW k \in Nat, Copy(w, 1, r + k) PROVE Len(u) = 1 /\ AckOf(u, 1, a, k)
  <2>1. g + 1 = r + k
    BY <1>5, <1>17, <1>22 DEF Copy
  <2>2. Dist(a, f.seq) >= k
    BY <1>16, <1>20, <2>1
  <2> QED  BY <1>2, <2>2 DEF AckOf
<1>23. Calm(p)'
  <2>1. acked'[e] \in Nat /\ acked[e] <= acked'[e]
    BY <1>11, <1>16, <1>17 DEF g
  <2>2. Front(Tail(wire[p]), acked'[e], sent[p], sequence'[e].expected_rxseq, sequence'[e].rx_resync,
              sequence'[e].rx_resync_seq, failCount'[e], faults)
    BY <1>10, <1>11, <1>14, <1>17, <1>21 DEF w, s, n
  <2>3. \A k \in Nat : Copy(wire[p], 1, Released(p) + k)
                         => Len(u) = 1 /\ AckOf(u, 1, sequence[p].rxack, k)
    BY <1>22 DEF w, r, a
  <2>4. parser'[p] = parser[p] /\ sent' = sent /\ retryOps' = retryOps
    BY <1>4
  <2>5. wire'[p] = Tail(wire[p])
    BY <1>5 DEF w
  <2> QED
    BY <1>2, <1>5, <1>6, <1>9, <1>10, <1>11, <1>14, <2>1, <2>2, <2>3, <2>4, <2>5, CalmReceiver
<1>24. ASSUME AllTraced PROVE AllTraced'
  <2> DEFINE v == wire[e]
             b == c.rx_resync
             q0 == c.rx_resync_seq
             b1 == sequence'[e].rx_resync
             q1 == sequence'[e].rx_resync_seq
             m == sequence[p].retry_times
             o == retryOps[p]
             k == Running(p)
             z == restarts
  <2>1. Trace(e) /\ Trace(p) /\ Counts(g, s, r, m, o, k, n, z)
    BY <1>5, <1>24, TraceCounts DEF AllTraced, g, s, r, n
  <2>2. /\ timer' = TimerAfterAck(e, f.ack) /\ restarts' = restarts /\ sent' = sent
        /\ retryOps' = retryOps
    BY DEF RecvExpected, f
  <2>3. Incoming(e) = f /\ timer'[p] = timer[p]
    BY <1>5, <2>2, TimerElsewhere DEF f
  <2>4. Trace(e)'
    <3>1. /\ f.kind # "resync" /\ wire'[p] = Tail(wire[p]) /\ t = Acknowledged(sequence[e], f.ack)
      BY <1>4, <1>5 DEF w, t
    <3> HIDE DEF c
    <3> QED
      BY <1>2, <1>3, <1>5, <1>9, <1>11, <1>14, <2>1, <2>2, <2>3, <3>1, TraceSender
  <2>5. Track(w, v, g, s, r, x, b, q0, a, m, o, k, n, z)
    BY <1>5, <2>1 DEF Trace, w, g, s, r, x, a, n
  <2>6. v \in Seq(Frames) /\ g + 1 \in Nat /\ g <= g + 1
    BY <1>5, <1>16, CalmBetween
  <2> HIDE DEF v, b, q0, b1, q1, m, o, k, z
  <2>7. Intact(w, g, s, x, b, q0) => Intact(Tail(w), g + 1, s, Inc(f.seq), b1, q1)
    <3>1. Inc(f.seq) \in Seqs /\ w # <<>> /\ s \in Nat /\ Head(w).kind = "data" /\ Head(w).pay = g + 1
      BY <1>1, <1>4, <1>5, <1>16, <1>17, IncType DEF w
    <3> QED  BY <1>16, <1>18, <1>20, <3>1, IntactTail
  <2>8. Track(Tail(w), v \o u, g + 1, s, r, Inc(f.seq), b1, q1, a, m, o, k, n, z)
    <3>1. /\ w # <<>> /\ Head(w).kind = "data" /\ Head(w).pay = g + 1
          /\ u[1].kind = "ack" /\ Dist(a, u[1].ack) = g + 1 - r
      BY <1>2, <1>4, <1>5, <1>17, <1>20 DEF w
    <3> DEFINE g1 == g + 1
               x1 == Inc(f.seq)
    <3>2. /\ w \in Seq(Frames) /\ u \in Seq(Frames) /\ Len(u) = 1 /\ a \in Seqs
          /\ g1 \in Nat /\ g <= g1 /\ (Head(w).pay # g + 1 => g1 = g)
          /\ Dist(a, u[1].ack) = g1 - r
          /\ (Intact(w, g, s, x, b, q0) => Intact(Tail(w), g1, s, x1, b1, q1))
      BY <1>2, <1>16, <2>6, <2>7, <3>1
    <3> HIDE DEF g1, x1
    <3>3. Track(Tail(w), v \o u, g1, s, r, x1, b1, q1, a, m, o, k, n, z)
      BY <2>1, <2>5, <2>6, <3>1, <3>2, TrackAnswered
    <3> QED  BY <3>3 DEF g1, x1
  <2>9. Trace(p)'
    <3>1. /\ acked'[e] = g + 1 /\ sequence'[e].expected_rxseq = Inc(f.seq)
      BY <1>11, <1>14, <1>17
    <3>2. Track(Tail(w), v \o u, acked'[e], s, r, sequence'[e].expected_rxseq, b1, q1, a, m, o, k, n, z)
      BY <2>8, <3>1
    <3>3. wire'[p] = Tail(wire[p]) /\ wire'[e] = wire[e] \o u
      BY <1>5 DEF w
    <3> QED
      BY <1>9, <1>14, <2>2, <2>3, <3>2, <3>3, TraceReceiver DEF w, v, s, r, b1, q1, a, m, o, k, n, z
  <2> QED  BY <1>5, <2>4, <2>9 DEF AllTraced
<1> QED  BY <1>5, <1>15, <1>23, <1>24 DEF AllCalm

\* A packet out of order: before the loss one that was here before, after it one
\* more of at most a window.
LEMMA CalmUnexpected ==
  ASSUME StpInv, StreamInv, StreamInv', faults <= 1, AllCalm, WinSize <= RetryLimit, NEW e \in Ends,
         wire[Peer(e)] # <<>>, RecvUnexpected(e)
  PROVE  AllCalm' /\ (AllTraced => AllTraced')
<1> DEFINE p == Peer(e)
           c == sequence[e]
           w == wire[p]
           f == Incoming(e)
           u == <<AckFrame(c.txack)>>
           g == acked[e]
           s == sent[p]
           r == Released(p)
           x == c.expected_rxseq
           a == sequence[p].rxack
           n == faults
           inOrder == c.rx_resync_seq = Unset \/ f.seq = Inc(c.rx_resync_seq)
           run == c.rx_resync /\ inOrder
           m == IF run THEN failCount[e] ELSE failCount[e] + 1
<1>1. sequence \in [Ends -> SequenceContext] /\ c \in SequenceContext /\ c.txack \in Seqs
      /\ c.rx_resync \in BOOLEAN
  BY DEF StpInv, TypeOK, SequenceContext
<1>2. u \in Seq(Frames) /\ Len(u) = 1 /\ u[1] = AckFrame(c.txack)
      /\ AckFrame(c.txack).kind = "ack" /\ AckFrame(c.txack).ack = c.txack
  BY <1>1, FrameType DEF AckFrame
<1>3. \A i \in 1 .. Len(u) : u[i].kind = "ack"
  BY <1>2
<1>4. Parse(e, u) /\ f.kind = "data" /\ f.seq # x /\ parser[e] = "sync"
      /\ UNCHANGED <<retryOps, parser, rxOk, sent, acked, faults>>
      /\ CountFailure(e, m)
  BY DEF RecvUnexpected
<1> HIDE DEF u
<1>5. /\ p \in Ends /\ p # e /\ Peer(p) = e /\ \A d \in Ends : d = e \/ d = p
      /\ wire'[p] = Tail(w) /\ wire'[e] = wire[e] \o u /\ f = Head(w) /\ f = w[1]
  BY <1>2, <1>4, CalmParsed
<1>6. Calm(e) /\ Calm(p)
  BY <1>5 DEF AllCalm
<1>7. /\ s \in Nat /\ g \in Nat /\ r \in Nat /\ s - r <= WinSize /\ r <= g /\ g <= s /\ a \in Seqs
      /\ x \in Seqs /\ w \in Seq(Frames) /\ DataWire(w, x, g, s)
      /\ failCount[e] \in Nat /\ Dist(a, c.txack) = g - r
  BY <1>5, CalmBetween
<1>8. /\ Front(w, g, s, x, c.rx_resync, c.rx_resync_seq, failCount[e], n) /\ Chain(w, g, s)
  BY <1>5, <1>6 DEF Calm
<1>9. /\ run => Front(Tail(w), g, s, x, TRUE, f.seq, failCount[e], n)
      /\ ~run => n = 1 /\ \A b1, q1 : Front(Tail(w), g, s, x, b1, q1, failCount[e] + 1, n)
      /\ n = 0 => f.pay <= g
  <2> DEFINE b == c.rx_resync
             q == c.rx_resync_seq
             h == failCount[e]
  <2> HIDE DEF w, f, g, s, r, x, n
  <2>1. InRun(b, q, f) <=> run
    BY DEF InRun
  <2>2. w # <<>> /\ Head(w).kind = "data" /\ Head(w).seq # x /\ Head(w) = f
    BY <1>4, <1>5 DEF w
  <2>3. b \in BOOLEAN /\ h \in Nat /\ Front(w, g, s, x, b, q, h, n)
    BY <1>1, <1>7, <1>8
  <2> HIDE DEF run, b, q, h
  <2>4. /\ InRun(b, q, Head(w)) => Front(Tail(w), g, s, x, TRUE, Head(w).seq, h, n)
        /\ ~InRun(b, q, Head(w)) => n = 1 /\ \A b1, q1 : Front(Tail(w), g, s, x, b1, q1, h + 1, n)
        /\ n = 0 => Head(w).pay <= g
    <3>1. OddHead(w, g, s, r, x, b, q, h, n)
      BY <1>7, <1>8, <2>2, <2>3 DEF OddHead
    <3> QED  BY <3>1, FrontOdd
  <2>5. /\ run => Front(Tail(w), g, s, x, TRUE, f.seq, h, n)
        /\ ~run => n = 1 /\ \A b1, q1 : Front(Tail(w), g, s, x, b1, q1, h + 1, n)
        /\ n = 0 => f.pay <= g
    BY <2>1, <2>2, <2>4
  <2> QED  BY <2>5 DEF h
<1>10. /\ sequence'[p] = sequence[p]
       /\ sequence'[e].rxack = c.rxack /\ sequence'[e].winspace = c.winspace
       /\ sequence'[e].retry_times = c.retry_times /\ sequence'[e].expected_rxseq = x
       /\ run => sequence'[e].rx_resync = TRUE /\ sequence'[e].rx_resync_seq = f.seq
  <2>1. CASE c.rx_resync
    <3> DEFINE q == IF c.rx_resync_seq = Unset THEN f.seq ELSE Inc(c.rx_resync_seq)
    <3>1. sequence' = [sequence EXCEPT ![e].rx_resync = inOrder,
                         ![e].rx_resync_seq = IF @ = Unset THEN f.seq ELSE Inc(@)]
      BY <2>1 DEF RecvUnexpected
    <3>2. sequence' = [sequence EXCEPT ![e] = [c EXCEPT !.rx_resync = inOrder, !.rx_resync_seq = q]]
      BY <1>1, <3>1 DEF SequenceContext
    <3>3. run => inOrder = TRUE /\ q = f.seq
      BY DEF Unset
    <3> HIDE DEF q, inOrder, run
    <3> QED  BY <1>1, <1>5, <3>2, <3>3 DEF SequenceContext
  <2>2. CASE ~c.rx_resync
    BY <2>2 DEF RecvUnexpected
  <2> QED  BY <2>1, <2>2
<1> HIDE DEF run, inOrder
<1>11. Front(Tail(w), g, s, x, sequence'[e].rx_resync, sequence'[e].rx_resync_seq, m, n)
  <2>1. CASE run
    BY <1>9, <1>10, <2>1
  <2>2. CASE ~run
    BY <1>9, <2>2
  <2> QED  BY <2>1, <2>2
<1>12. m \in Nat /\ m <= WinSize
  BY <1>7, <1>11 DEF Front
<1>13. /\ failCount'[e] = m /\ asserted'[e] = asserted[e]
       /\ failCount'[p] = failCount[p] /\ asserted'[p] = asserted[p]
  <2>1. m <= RetryLimit
    BY <1>12, LimitType
  <2> HIDE DEF m
  <2> QED  BY <1>4, <1>5, <1>12, <2>1, CountedCalmly
<1> HIDE DEF m
<1>14. Calm(e)'
  <2>1. ~asserted'[e] /\ parser'[e] = "sync" /\ rxOk'[e] /\ sent' = sent /\ retryOps' = retryOps
        /\ faults' = faults /\ acked'[p] = acked[p]
    BY <1>4, <1>6, <1>13 DEF Calm
  <2>2. Incoming(e).kind # "ack"
    BY <1>4
  <2> QED  BY <1>2, <1>3, <1>5, <1>6, <1>10, <1>13, <2>1, <2>2, CalmSender
<1>17. f.pay # g + 1
  <2>1. DataFits(f, x, g, s)
    BY <1>5, <1>7, FirstFrame DEF DataWire
  <2>2. f.pay = g + 1 => f.pay - (g + 1) = 0
    BY <1>7
  <2>3. Shift(x, 0) = x
    BY <1>7, LimitType DEF Shift, Seqs
  <2> QED  BY <1>4, <2>1, <2>2, <2>3 DEF DataFits
<1>15. ASSUME NEW k \in Nat, k >= 1, Copy(w, 1, r + k), n = 0 \/ k = 1
       PROVE  Len(u) = 1 /\ AckOf(u, 1, a, k)
  <2>1. f.pay = r + k
    BY <1>5, <1>15 DEF Copy
  <2>2. f.pay # g + 1
    BY <1>17
  <2>3. k <= g - r
    <3>1. CASE n = 0
      BY <1>7, <1>9, <2>1, <3>1
    <3>2. CASE k = 1
      BY <1>7, <2>1, <2>2, <3>2
    <3> QED  BY <1>15, <3>1, <3>2
  <2>4. Dist(a, c.txack) >= k
    BY <1>7, <2>3
  <2> QED  BY <1>2, <2>4 DEF AckOf
<1>16. Calm(p)'
  <2>1. acked'[e] \in Nat /\ acked[e] <= acked'[e]
    BY <1>4, <1>7
  <2>2. Front(Tail(wire[p]), acked'[e], sent[p], sequence'[e].expected_rxseq, sequence'[e].rx_resync,
              sequence'[e].rx_resync_seq, failCount'[e], faults)
    BY <1>4, <1>10, <1>11, <1>13
  <2>3. parser'[p] = parser[p] /\ sent' = sent /\ retryOps' = retryOps /\ faults' = faults
        /\ rxOk'[p] = rxOk[p]
    BY <1>4
  <2> QED  BY <1>2, <1>5, <1>6, <1>10, <1>13, <1>15, <2>1, <2>2, <2>3, CalmReceiver
<1>18. ASSUME AllTraced PROVE AllTraced'
  <2> DEFINE v == wire[e]
             b == c.rx_resync
             q0 == c.rx_resync_seq
             b1 == sequence'[e].rx_resync
             q1 == sequence'[e].rx_resync_seq
             t == sequence[p].retry_times
             o == retryOps[p]
             k == Running(p)
             z == restarts
  <2>1. Trace(e) /\ Trace(p) /\ Counts(g, s, r, t, o, k, n, z)
    BY <1>5, <1>18, TraceCounts DEF AllTraced
  <2>2. /\ UNCHANGED <<timer, retryOps, sent, acked, faults, restarts>>
    BY DEF RecvUnexpected
  <2>3. Trace(e)'
    <3>1. Incoming(e).kind # "ack" /\ wire'[p] = Tail(wire[p])
      BY <1>4, <1>5
    <3> QED  BY <1>2, <1>3, <1>5, <1>10, <2>1, <2>2, <3>1, TraceSender
  <2>4. Track(w, v, g, s, r, x, b, q0, a, t, o, k, n, z)
    BY <1>5, <2>1 DEF Trace
  <2>5. v \in Seq(Frames) /\ w # <<>> /\ Head(w) = f /\ b \in BOOLEAN
    BY <1>1, <1>5, CalmBetween
  <2>6. Intact(w, g, s, x, b, q0) => Intact(Tail(w), g, s, x, b1, q1)
    <3> SUFFICES ASSUME Intact(w, g, s, x, b, q0) PROVE Intact(Tail(w), g, s, x, b1, q1)
      OBVIOUS
    <3> DEFINE h == f.seq
    <3>1. Head(w).kind = "data" /\ Head(w).seq # x /\ Head(w).seq = h
      BY <1>4, <2>5
    <3> HIDE DEF w, v, g, s, r, x, a, n, f, b, q0, b1, q1, h
    <3>2. b /\ (q0 = Unset \/ h = Inc(q0)) /\ Intact(Tail(w), g, s, x, TRUE, h)
      BY <1>7, <1>8, <2>5, <3>1, IntactOdd
    <3>3. b1 = TRUE /\ q1 = h
      BY <1>10, <3>2 DEF run, inOrder, b, q0, b1, q1, h
    <3> QED  BY <3>2, <3>3
  <2>7. Track(Tail(w), v \o u, g, s, r, x, b1, q1, a, t, o, k, n, z)
    <3>1. /\ Head(w).kind = "data" /\ Head(w).pay # g + 1
          /\ u[1].kind = "ack" /\ Dist(a, u[1].ack) = g - r
      BY <1>2, <1>4, <1>7, <1>17, <2>5
    <3> HIDE DEF w, v, g, s, r, x, a, n, f, b, q0, b1, q1, t, o, k, z
    <3>2. g <= g /\ (Head(w).pay # g + 1 => g = g)
      BY <1>7
    <3>3. u \in Seq(Frames) /\ Len(u) = 1 /\ g \in Nat /\ a \in Seqs /\ w \in Seq(Frames)
      BY <1>2, <1>7
    <3> QED  BY <2>1, <2>4, <2>5, <2>6, <3>1, <3>2, <3>3, TrackAnswered
  <2> HIDE DEF w, v, g, s, r, x, a, n, b1, q1, t, o, k, z
  <2>8. Trace(p)'
    <3>1. Track(Tail(w), v \o u, acked'[e], s, r, sequence'[e].expected_rxseq, b1, q1, a, t, o, k, n, z)
      BY <1>10, <2>2, <2>7 DEF g
    <3>2. wire'[p] = Tail(wire[p]) /\ wire'[e] = wire[e] \o u
      BY <1>5 DEF w
    <3> QED
      BY <1>10, <2>2, <3>1, <3>2, TraceReceiver DEF w, v, s, r, b1, q1, a, t, o, k, n, z
  <2> QED  BY <1>5, <2>3, <2>8 DEF AllTraced
<1> QED  BY <1>5, <1>14, <1>16, <1>18 DEF AllCalm

\* The one loss.
LEMMA CalmLost ==
  ASSUME StpInv, StreamInv, AllCalm, NEW e \in Ends, Lose(e), faults' <= 1
  PROVE  AllCalm'
<1> DEFINE p == Peer(e)
           w == wire[e]
           v == wire[p]
<1>1. /\ p \in Ends /\ p # e /\ Peer(p) = e /\ \A d \in Ends : d = e \/ d = p
  BY TwoEnds
<1>2. faults = 0 /\ faults' = 1
  BY DEF Lose, StpInv, TypeOK
<1>3. /\ UNCHANGED <<sequence, retryOps, parser, rxOk, failCount, asserted, sent, acked>>
      /\ w # <<>> /\ wire'[e] = Tail(w) /\ wire'[p] = v
  BY <1>1 DEF Lose, StpInv, TypeOK
<1>4. \A d \in Ends : Calm(d) /\ Released(d)' = Released(d)
  BY <1>3 DEF AllCalm, Released
<1>5. Calm(e)'
  <2> DEFINE g == acked[p]
             s == sent[e]
             x == sequence[p].expected_rxseq
             b == sequence[p].rx_resync
             q == sequence[p].rx_resync_seq
             c == failCount[p]
             a == sequence[e].rxack
             r == Released(e)
             t == sequence[e].retry_times
  <2>1. /\ g \in Nat /\ s \in Nat /\ g <= s /\ w \in Seq(Frames) /\ v \in Seq(Frames)
        /\ DataWire(w, x, g, s)
    BY CalmBetween
  <2>2. Chain(w, g, s) /\ Front(w, g, s, x, b, q, c, 0) /\ Ways(w, v, a, r, s, t, 0)
    BY <1>2, <1>4 DEF Calm
  <2> HIDE DEF w, v, g, s, x, b, q, c, a, r, t
  <2>3. Chain(Tail(w), g, s)
    BY <1>3, <2>1, <2>2, ChainTail
  <2>4. Front(Tail(w), g, s, x, b, q, c, 1)
    BY <1>3, <2>1, <2>2, FrontLost
  <2>5. Ways(Tail(w), v, a, r, s, t, 1)
    BY <1>3, <2>1, <2>2, WaysLost
  <2> QED
    BY <1>2, <1>3, <1>4, <2>3, <2>4, <2>5 DEF Calm, g, s, x, b, q, c, a, r, t
<1>6. Calm(p)'
  <2> DEFINE g == acked[e]
             s == sent[p]
             x == sequence[e].expected_rxseq
             b == sequence[e].rx_resync
             q == sequence[e].rx_resync_seq
             c == failCount[e]
             a == sequence[p].rxack
             r == Released(p)
             t == sequence[p].retry_times
  <2>1. w \in Seq(Frames) /\ v \in Seq(Frames)
    BY CalmBetween
  <2>2. Front(v, g, s, x, b, q, c, 0) /\ Ways(v, w, a, r, s, t, 0)
    BY <1>1, <1>2, <1>4 DEF Calm
  <2> HIDE DEF w, v, g, s, x, b, q, c, a, r, t
  <2>3. Front(v, g, s, x, b, q, c, 1)
    BY <2>2 DEF Front
  <2>4. Ways(v, Tail(w), a, r, s, t, 1)
    BY <1>3, <2>1, <2>2, WaysLost
  <2> QED
    BY <1>1, <1>2, <1>3, <1>4, <2>3, <2>4 DEF Calm, v, g, s, x, b, q, c, a, r, t
<1> QED  BY <1>1, <1>5, <1>6 DEF AllCalm

LEMMA TraceLost ==
  ASSUME StpInv, StreamInv, AllTraced, NEW e \in Ends, Lose(e), faults' <= 1
  PROVE  AllTraced'
<1> DEFINE p == Peer(e)
           w == wire[e]
           v == wire[p]
<1>1. /\ p \in Ends /\ p # e /\ Peer(p) = e /\ \A d \in Ends : d = e \/ d = p
  BY TwoEnds
<1>2. faults = 0 /\ faults' = 1 /\ faults <= 1
  BY DEF Lose, StpInv, TypeOK
<1>3. /\ UNCHANGED <<sequence, timer, retryOps, sent, acked, restarts>>
      /\ w # <<>> /\ wire'[e] = Tail(w) /\ wire'[p] = v
  BY <1>1 DEF Lose, StpInv, TypeOK
<1>4. \A d \in Ends : Released(d)' = Released(d) /\ Running(d)' = Running(d)
  BY <1>3 DEF Released, Running
<1>5. Trace(e)'
  <2> DEFINE c == sequence[p]
             T(i, j, n) == Track(i, j, acked[p], sent[e], Released(e), c.expected_rxseq, c.rx_resync,
                                 c.rx_resync_seq, sequence[e].rxack, sequence[e].retry_times,
                                 retryOps[e], Running(e), n, restarts)
  <2>1. T(w, v, 0)
    BY <1>2 DEF AllTraced, Trace
  <2>2. T(Tail(w), v, 1)
    BY <1>2, <2>1, CalmBetween, TraceCounts, TrackLost
  <2> QED  BY <1>2, <1>3, <1>4, <2>2 DEF Trace
<1>6. Trace(p)'
  <2> DEFINE c == sequence[e]
             T(i, j, n) == Track(i, j, acked[e], sent[p], Released(p), c.expected_rxseq, c.rx_resync,
                                 c.rx_resync_seq, sequence[p].rxack, sequence[p].retry_times,
                                 retryOps[p], Running(p), n, restarts)
  <2>1. T(v, w, 0)
    BY <1>1, <1>2 DEF AllTraced, Trace
  <2>2. T(v, Tail(w), 1)
    BY <1>1, <1>2, <1>3, <2>1, CalmBetween, TraceCounts, TrackLost
  <2> QED  BY <1>1, <1>2, <1>3, <1>4, <2>2 DEF Trace
<1> QED  BY <1>1, <1>5, <1>6 DEF AllTraced

\* A direction in which nothing has been sent.
LEMMA CalmFresh ==
  ASSUME NEW x, NEW b, NEW q, NEW c \in Nat, c <= WinSize, NEW n, n = 0 => c = 0, NEW a
  PROVE  /\ Chain(<<>>, 0, 0) /\ Front(<<>>, 0, 0, x, b, q, c, n)
         /\ Ways(<<>>, <<>>, a, 0, 0, 0, n)
BY DEF Chain, Front, InStep, Ways, Covered

\* The chip starts over.
LEMMA CalmRestart == ASSUME StpInv, AllCalm, Restart PROVE AllCalm'
<1> SUFFICES ASSUME NEW d \in Ends PROVE Calm(d)'
  BY DEF AllCalm
<1> DEFINE p == Peer(d)
<1>1. p \in Ends
  BY TwoEnds
<1>2. /\ sent'[d] = 0 /\ acked'[p] = 0 /\ wire'[d] = <<>> /\ wire'[p] = <<>>
      /\ sequence'[d] = FreshSequence /\ sequence'[p] = FreshSequence
      /\ asserted'[d] = FALSE /\ parser'[d] = "sync" /\ faults' = faults
  BY <1>1 DEF Restart
<1>3. Released(d)' = 0
  BY <1>2, FreshStream DEF Released
<1>4. /\ rxOk'[d] \in {TRUE, rxOk[d]} /\ retryOps'[d] \in {0, retryOps[d]}
      /\ failCount'[p] \in {0, failCount[p]}
  BY <1>1 DEF Restart, StpInv, TypeOK
<1>5. Calm(d) /\ retryOps[d] \in Nat /\ retryOps[d] <= MaxRetryOps /\ failCount[p] \in Nat
  BY <1>1, LimitType DEF AllCalm, StpInv, TypeOK
<1>6. failCount'[p] \in Nat /\ failCount'[p] <= WinSize /\ (faults = 0 => failCount'[p] = 0)
  <2>1. failCount[p] <= WinSize /\ (faults = 0 => failCount[p] = 0)
    BY <1>5 DEF Calm, Front
  <2> QED  BY <1>4, <1>5, <2>1, LimitType
<1>7. FreshSequence.retry_times = 0
  BY DEF FreshSequence
<1>8. FreshSequence.retry_times + retryOps'[d] <= MaxRetryOps
  BY <1>4, <1>5, <1>7, LimitType
<1>9. rxOk'[d]
  BY <1>4, <1>5 DEF Calm
<1> QED  BY <1>2, <1>3, <1>6, <1>7, <1>8, <1>9, CalmFresh DEF Calm

LEMMA TraceRestart ==
  ASSUME StpInv, StreamInv, faults <= 1, AllTraced, Restart
  PROVE  AllTraced'
<1> SUFFICES ASSUME NEW d \in Ends PROVE Trace(d)'
  BY DEF AllTraced
<1> DEFINE p == Peer(d)
           o1 == retryOps'[d]
           k1 == Running(d)'
           c == FreshSequence
<1>1. p \in Ends
  BY TwoEnds
<1>2. /\ sent'[d] = 0 /\ acked'[p] = 0 /\ wire'[d] = <<>> /\ wire'[p] = <<>>
      /\ sequence'[d] = c /\ sequence'[p] = c
      /\ faults' = faults /\ restarts' = restarts + 1 /\ c.retry_times = 0
  BY <1>1 DEF Restart, FreshSequence
<1>3. Released(d)' = 0
  BY <1>2, FreshStream DEF Released
<1>4. /\ timer'[d] \in {FALSE, timer[d]} /\ o1 \in {0, retryOps[d]}
      /\ timer[d] \in BOOLEAN /\ retryOps[d] \in Nat /\ restarts \in Nat
  BY LimitType DEF Restart, StpInv, TypeOK
<1>5. k1 \in {0, Running(d)} /\ k1 \in {0, 1} /\ o1 \in Nat
  <2>1. CASE timer'[d] = FALSE
    BY <1>4, <2>1 DEF Running
  <2>2. CASE timer'[d] = timer[d]
    BY <1>4, <2>2 DEF Running
  <2> QED  BY <1>4, <2>1, <2>2
<1> HIDE DEF o1, k1, c
<1>6. o1 + k1 <= restarts + 1 \/ (faults = 1 /\ o1 + k1 <= WinSize + (restarts + 1))
  BY <1>4, <1>5, TraceCounts, TrackRestarted DEF AllTraced, Trace
<1>7. Track(<<>>, <<>>, 0, 0, 0, c.expected_rxseq, c.rx_resync, c.rx_resync_seq, c.rxack, 0, o1, k1,
            faults, restarts + 1)
  BY <1>5, <1>6, TrackFresh
<1> QED  BY <1>2, <1>3, <1>7 DEF Trace, o1, k1

\* Both parts of the argument, as long as nothing worse than one loss has happened.
CalmInv == faults <= 1 /\ ~upset /\ Paced => AllCalm /\ AllTraced

\* It holds at the start.
LEMMA CalmInit == Init => CalmInv
<1> SUFFICES ASSUME Init, NEW d \in Ends PROVE Calm(d) /\ Trace(d)
  BY DEF CalmInv, AllCalm, AllTraced
<1>1. Peer(d) \in Ends
  BY TwoEnds
<1>2. /\ sent[d] = 0 /\ acked[Peer(d)] = 0 /\ wire[d] = <<>> /\ wire[Peer(d)] = <<>>
      /\ sequence[d] = FreshSequence /\ sequence[Peer(d)] = FreshSequence
      /\ ~asserted[d] /\ parser[d] = "sync" /\ rxOk[d] /\ faults = 0
      /\ retryOps[d] = 0 /\ failCount[Peer(d)] = 0 /\ timer[d] = FALSE /\ restarts = 0
  BY <1>1 DEF Init
<1>3. Released(d) = 0
  BY <1>2, FreshStream DEF Released
<1>4. FreshSequence.retry_times = 0 /\ 0 + 0 <= MaxRetryOps /\ 0 <= WinSize
  BY LimitType DEF FreshSequence
<1>5. Calm(d)
  BY <1>2, <1>3, <1>4, CalmFresh DEF Calm
<1>6. Trace(d)
  <2> DEFINE c == FreshSequence
  <2>1. Running(d) = 0
    BY <1>2 DEF Running
  <2> HIDE DEF c
  <2>2. Track(<<>>, <<>>, 0, 0, 0, c.expected_rxseq, c.rx_resync, c.rx_resync_seq, c.rxack, 0, 0, 0, 0, 0)
    BY TrackFresh
  <2> QED  BY <1>2, <1>3, <1>4, <2>1, <2>2 DEF Trace, c
<1> QED  BY <1>5, <1>6

\* What is remembered of the link does not get better.
LEMMA NoBetter ==
  ASSUME StpInv, [Next]_vars
  PROVE  faults <= faults' /\ (upset => upset') /\ (Paced' => Paced)
<1> DEFINE Worse == /\ faults' \in {faults, faults + 1} /\ (upset => upset')
                    /\ restarts' \in {restarts, restarts + 1}
<1>1. /\ faults \in Nat /\ restarts \in Nat /\ MaxRetryOps \in Nat /\ RetryLimit \in Nat
      /\ WinSize \in Nat
  BY LimitType DEF StpInv, TypeOK
<1>2. ASSUME NEW e \in Ends, Send(e) \/ DoTxTimeout(e) \/ TimerFires(e) PROVE Worse
  <2>1. ASSUME Send(e) \/ DoTxTimeout(e) PROVE UNCHANGED <<faults, upset, restarts>>
    BY <2>1 DEF Send, DoTxTimeout
  <2>2. ASSUME TimerFires(e) PROVE UNCHANGED <<faults, restarts>> /\ (upset => upset')
    BY <2>2 DEF TimerFires
  <2> QED  BY <1>2, <2>1, <2>2
<1>3. ASSUME NEW e \in Ends, Receive(e) PROVE Worse
  <2>1. ASSUME RecvExpected(e) PROVE Worse
    BY <2>1 DEF RecvExpected
  <2>2. ASSUME RecvHunting(e) \/ RecvResync(e) \/ RecvAck(e) \/ RecvUnexpected(e) \/ RecvUnanswered(e)
        PROVE  Worse
    BY <2>2 DEF RecvHunting, RecvResync, RecvAck, RecvUnexpected, RecvUnanswered
  <2> QED  BY <1>3, <2>1, <2>2 DEF Receive
<1>4. ASSUME NEW e \in Ends, Lose(e) \/ Garble(e) PROVE Worse
  BY <1>4 DEF Lose, Garble
<1>5. ASSUME Restart \/ UNCHANGED vars PROVE Worse
  BY <1>5 DEF Restart, vars
<1> HIDE DEF Worse
<1>6. Worse
  BY <1>2, <1>3, <1>4, <1>5 DEF Next
<1>7. faults <= faults' /\ (Paced' => Paced)
  <2>1. faults' \in {faults, faults + 1} /\ restarts' \in {restarts, restarts + 1}
    BY <1>6 DEF Worse
  <2>2. faults <= faults' /\ restarts' \in Nat /\ restarts <= restarts'
    BY <1>1, <2>1
  <2>3. \A i, j \in Nat : i <= j /\ WinSize + j <= RetryLimit => WinSize + i <= RetryLimit
    BY LimitType
  <2>4. WinSize + restarts' <= RetryLimit => WinSize + restarts <= RetryLimit
    BY <1>1, <2>2, <2>3
  <2> QED  BY <2>2, <2>4 DEF Paced
<1>8. upset => upset'
  BY <1>6 DEF Worse
<1> QED  BY <1>7, <1>8

\* While nothing worse has happened than the loss of one frame, the link is calm.
LEMMA CalmStep ==
  ASSUME WinSize <= RetryLimit, StpInv, StreamInv, StreamInv', CalmInv, [Next]_vars
  PROVE  CalmInv'
<1> SUFFICES ASSUME faults' <= 1, ~upset', Paced' PROVE AllCalm' /\ AllTraced'
  BY DEF CalmInv
<1>1. AllCalm /\ AllTraced /\ faults <= 1 /\ Paced
  <2>1. faults \in Nat /\ faults' \in Nat
    BY LimitType, StpStep DEF StpInv, TypeOK
  <2>2. faults <= 1 /\ ~upset /\ Paced
    BY <2>1, NoBetter
  <2> QED  BY <2>2 DEF CalmInv
<1>2. ASSUME NEW e \in Ends, Send(e) PROVE AllCalm' /\ AllTraced'
  BY <1>1, <1>2, CalmSend, TraceSend
<1>3. ASSUME NEW e \in Ends, TimerFires(e) PROVE AllCalm' /\ AllTraced'
  BY <1>1, <1>3, CalmTimerFires, TraceTimerFires
<1>4. ASSUME NEW e \in Ends, DoTxTimeout(e) PROVE AllCalm' /\ AllTraced'
  <2>1. sequence[e].retry_times + retryOps[e] <= RetryLimit
    BY <1>1, InTime DEF AllCalm, AllTraced
  <2> QED  BY <1>1, <1>4, <2>1, CalmTimeout, TraceTimeout
<1>5. ASSUME NEW e \in Ends, Receive(e) PROVE AllCalm' /\ AllTraced'
  <2>1. wire[Peer(e)] # <<>>
    BY <1>5 DEF Receive
  <2>2. ~RecvHunting(e) /\ ~RecvUnanswered(e)
    BY <1>1 DEF AllCalm, Calm, RecvHunting, RecvUnanswered
  <2>3. ASSUME RecvResync(e) PROVE AllCalm' /\ AllTraced'
    BY <1>1, <2>1, <2>3, CalmResync, TraceResync
  <2>4. ASSUME RecvAck(e) PROVE AllCalm' /\ AllTraced'
    BY <1>1, <2>1, <2>4, CalmAck, TraceAck
  <2>5. ASSUME RecvExpected(e) PROVE AllCalm' /\ AllTraced'
    BY <1>1, <2>1, <2>5, CalmExpected
  <2>6. ASSUME RecvUnexpected(e) PROVE AllCalm' /\ AllTraced'
    BY <1>1, <2>1, <2>6, CalmUnexpected
  <2> QED  BY <1>5, <2>2, <2>3, <2>4, <2>5, <2>6 DEF Receive
<1>6. ASSUME NEW e \in Ends, Lose(e) PROVE AllCalm' /\ AllTraced'
  BY <1>1, <1>6, CalmLost, TraceLost
<1>7. ASSUME NEW e \in Ends, Garble(e) PROVE AllCalm' /\ AllTraced'
  BY <1>7 DEF Garble
<1>8. ASSUME Restart PROVE AllCalm' /\ AllTraced'
  BY <1>1, <1>8, CalmRestart, TraceRestart
<1>9. ASSUME UNCHANGED vars PROVE AllCalm' /\ AllTraced'
  <2>1. AllCalm'
    BY <1>1, <1>9 DEF AllCalm, Calm, Released, vars
  <2>2. AllTraced'
    BY <1>1, <1>9 DEF AllTraced, Trace, Released, Running, vars
  <2> QED  BY <2>1, <2>2
<1> QED  BY <1>2, <1>3, <1>4, <1>5, <1>6, <1>7, <1>8, <1>9 DEF Next

LEMMA CalmInvariant ==
  ASSUME WinSize <= RetryLimit
  PROVE  Spec => []CalmInv
<1>1. StpInv /\ StreamInv /\ CalmInv /\ [Next]_vars => CalmInv'
  BY StreamStep, CalmStep
<1> QED  BY <1>1, CalmInit, StpInvariant, StreamInvariant, PTL DEF Spec

\* A frame that is lost never brings an end to ask for a firmware assert, as long
\* as every timeout finds the wires empty, no receive ring is full and no header
\* is damaged.  It takes a limit of odd packets and of retransmissions that is not
\* below the window (10 and 7 in the code), whatever the window, the number of
\* packets and the length of the BTM thread's queue; and, because a restart
\* leaves the timer and the queued retries alone, no more restarts than the
\* difference, or a queue that is not longer than the limit.
THEOREM LossIsSurvived ==
  ASSUME WinSize <= RetryLimit
  PROVE  Spec => [](faults <= 1 /\ Paced => LossSurvived)
<1>1. StpInv /\ CalmInv => (faults <= 1 /\ Paced => LossSurvived)
  BY DEF CalmInv, AllCalm, Calm, LossSurvived
<1> QED  BY <1>1, CalmInvariant, StpInvariant, PTL
=============================================================================
