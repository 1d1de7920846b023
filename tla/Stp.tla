-------------------------------- MODULE Stp --------------------------------
(* The serial transport protocol (STP) of the combo chips in its full mode    *)
(* over UART or BTIF: sequence numbers, a sliding window, acknowledgements     *)
(* that ride on data, retransmission after a timeout with a resync pattern,    *)
(* and a receiver that drops what is out of order.  The host end is the code;  *)
(* the firmware end is taken to run the same protocol.                         *)
EXTENDS Integers, Sequences

CONSTANTS
  SeqSize,        \* number of sequence numbers (8 in the code)
  WinSize,        \* packets an end may have out (7 in the code)
  RetryLimit,     \* retransmissions, and odd packets in a row, that are accepted
  LoopLimit,      \* times the retransmissions may start over
  MaxRetryOps,    \* bound: retry requests queued to the BTM thread at once
  MaxData,        \* bound: packets each end sends between restarts
  MaxWire,        \* bound: frames on both wires when a retransmission starts
  MaxFaults,      \* bound: frames lost or damaged, receive rings found full
  MaxDrops,       \* bound: packets an end drops between restarts without a full ring
  MaxRestarts     \* bound: restarts of the chip

Ends == {"host", "fw"}
Peer(e) == IF e = "host" THEN "fw" ELSE "host"

ASSUME StpAssumption ==
  /\ SeqSize \in Nat /\ WinSize \in 1 .. SeqSize - 1
  /\ {RetryLimit, LoopLimit, MaxRetryOps, MaxWire, MaxFaults, MaxRestarts} \subseteq Nat
  /\ MaxData \in [Ends -> Nat] /\ MaxDrops \in [Ends -> Nat]

VARIABLES
  sequence,       \* mtkstp_sequence_context_struct of each end
  timer,          \* tx_timer is running
  retryOps,       \* STP_OPID_BTM_RETRY requests the BTM thread has not handled
  parser,         \* "sync", or "resync": hunting for the resync pattern
  rxOk,           \* fgRxOk = 0: the last expected packet could be enqueued
  failCount,      \* stp_process_packet_fail_count
  txbuf,          \* number of the packet kept under each sequence number
  wire,           \* frames each end has written and the other has not parsed
  asserted,       \* the end has asked for a firmware assert
  sent,           \* history: packets sent
  acked,          \* history: number of the last packet the end has acknowledged
  got,            \* history: how many packets reached their function
  faults, restarts,
  upset           \* history: something worse than a loss has happened

vars == <<sequence, timer, retryOps, parser, rxOk, failCount, txbuf, wire,
          asserted, sent, acked, got, faults, restarts, upset>>

Seqs == 0 .. SeqSize - 1
Unset == SeqSize                    \* 0xFF in rx_resync_seq

Frames == [kind : {"data", "ack", "resync"}, seq : Seqs, ack : Seqs, pay : Nat]
DataFrame(i, a, p) == [kind |-> "data", seq |-> i, ack |-> a, pay |-> p]
AckFrame(a) == [kind |-> "ack", seq |-> 0, ack |-> a, pay |-> 0]
Resync == [kind |-> "resync", seq |-> 0, ack |-> 0, pay |-> 0]

----------------------------------------------------------------------------
(* Sequence numbers *)

\* INDEX_INC, and k times INDEX_INC (k <= SeqSize).
Inc(i) == IF i = SeqSize - 1 THEN 0 ELSE i + 1
Ahead(i, k) == IF i + k < SeqSize THEN i + k ELSE i + k - SeqSize

\* How many times INDEX_INC leads from a to b.
Dist(a, b) == IF a <= b THEN b - a ELSE b - a + SeqSize

\* Packets sent and not yet acknowledged: from rxack + 1 up to txseq.
Unacked(s) == Dist(Inc(s.rxack), s.txseq)

\* The search of stp_process_rxack: does the acknowledgement name one of them?
AckHits(s, a) == a # s.rxack /\ Dist(Inc(s.rxack), a) < Unacked(s)

\* Mutant: j counts the packets before the acknowledged one.
AcknowledgedShort(s, a) ==
  IF AckHits(s, a)
  THEN [s EXCEPT !.rxack = a, !.winspace = @ + Dist(Inc(s.rxack), a),
                 !.retry_times = 0, !.tx_timeout_loop = 0]
  ELSE s

\* The effect of an acknowledgement on the window.
Acknowledged(s, a) ==
  IF AckHits(s, a)
  THEN [s EXCEPT !.rxack = a, !.winspace = @ + Dist(Inc(s.rxack), a) + 1,
                 !.retry_times = 0, !.tx_timeout_loop = 0]
  ELSE s

\* Mutant: an acknowledgement stops the timer for good.
TimerStopped(e, a) ==
  [timer EXCEPT ![e] = IF AckHits(sequence[e], a) THEN FALSE ELSE @]

TimerAfterAck(e, a) ==
  [timer EXCEPT ![e] = IF AckHits(sequence[e], a)
                       THEN Acknowledged(sequence[e], a).winspace # WinSize ELSE @]

FreshSequence ==
  [txseq |-> 0, txack |-> SeqSize - 1, rxack |-> SeqSize - 1, winspace |-> WinSize,
   expected_rxseq |-> 0, retry_times |-> 0, tx_timeout_loop |-> 0,
   rx_resync |-> FALSE, rx_resync_seq |-> Unset]

Init ==
  /\ sequence = [e \in Ends |-> FreshSequence]
  /\ timer = [e \in Ends |-> FALSE]
  /\ retryOps = [e \in Ends |-> 0]
  /\ parser = [e \in Ends |-> "sync"]
  /\ rxOk = [e \in Ends |-> TRUE]
  /\ failCount = [e \in Ends |-> 0]
  /\ txbuf = [e \in Ends |-> [i \in Seqs |-> 0]]
  /\ wire = [e \in Ends |-> <<>>]
  /\ asserted = [e \in Ends |-> FALSE]
  /\ sent = [e \in Ends |-> 0]
  /\ acked = [e \in Ends |-> 0]
  /\ got = [e \in Ends |-> 0]
  /\ faults = 0 /\ restarts = 0
  /\ upset = FALSE

----------------------------------------------------------------------------
(* Sending *)

\* Mutant: the packet is remembered under the sequence number after its own.
SendLateSave(e) ==
  LET s == sequence[e] IN
  /\ sent[e] < MaxData[e]
  /\ s.winspace > 0
  /\ sent' = [sent EXCEPT ![e] = @ + 1]
  /\ txbuf' = [txbuf EXCEPT ![e][Inc(s.txseq)] = sent[e] + 1]
  /\ wire' = [wire EXCEPT ![e] = Append(@, DataFrame(s.txseq, s.txack, sent[e] + 1))]
  /\ sequence' = [sequence EXCEPT ![e].txseq = Inc(@), ![e].winspace = @ - 1]
  /\ timer' = [timer EXCEPT ![e] = TRUE]
  /\ UNCHANGED <<retryOps, parser, rxOk, failCount, asserted, acked, got, faults,
                 restarts, upset>>

\* mtk_wcn_stp_send_data: the packet is kept for retransmission and written out.
Send(e) ==
  LET s == sequence[e] IN
  /\ sent[e] < MaxData[e]
  /\ s.winspace > 0
  /\ sent' = [sent EXCEPT ![e] = @ + 1]
  /\ txbuf' = [txbuf EXCEPT ![e][s.txseq] = sent[e] + 1]
  /\ wire' = [wire EXCEPT ![e] = Append(@, DataFrame(s.txseq, s.txack, sent[e] + 1))]
  /\ sequence' = [sequence EXCEPT ![e].txseq = Inc(@), ![e].winspace = @ - 1]
  /\ timer' = [timer EXCEPT ![e] = TRUE]
  /\ UNCHANGED <<retryOps, parser, rxOk, failCount, asserted, acked, got, faults,
                 restarts, upset>>

\* stp_tx_timeout_handler hands the work to the BTM thread.  While frames are
\* still under way the timeout is premature.
TimerFires(e) ==
  /\ timer[e]
  /\ retryOps[e] < MaxRetryOps
  /\ timer' = [timer EXCEPT ![e] = FALSE]
  /\ retryOps' = [retryOps EXCEPT ![e] = @ + 1]
  /\ upset' = (upset \/ \E d \in Ends : wire[d] # <<>>)
  /\ UNCHANGED <<sequence, parser, rxOk, failCount, txbuf, wire, asserted, sent, acked,
                 got, faults, restarts>>

\* The resync pattern and every unacknowledged packet, with txack of today.
Retransmission(e) ==
  LET s == sequence[e]
      At(k) == Ahead(s.rxack, k)
  IN IF Unacked(s) = 0 THEN <<>>
     ELSE <<Resync>> \o
          [k \in 1 .. Unacked(s) |-> DataFrame(At(k), s.txack, txbuf[e][At(k)])]

\* Mutant: the timer is not started again.
RetriedOnce(e, pending) ==
  LET s == sequence[e] IN
  [seq |-> IF s.winspace = WinSize \/ s.retry_times > RetryLimit THEN s
           ELSE [s EXCEPT !.retry_times = @ + 1], on |-> FALSE, up |-> FALSE]

\* What follows a retransmission: nothing was outstanding and the timer stays
\* off, or it is counted, the count starts over because data is still pending
\* in the interface, or the end gives up.
Retried(e, pending) ==
  LET s == sequence[e] IN
  IF s.winspace = WinSize THEN [seq |-> s, on |-> FALSE, up |-> FALSE]
  ELSE IF s.retry_times + 1 <= RetryLimit
       THEN [seq |-> [s EXCEPT !.retry_times = @ + 1], on |-> TRUE, up |-> FALSE]
  ELSE IF pending /\ s.tx_timeout_loop < LoopLimit
       THEN [seq |-> [s EXCEPT !.retry_times = 0, !.tx_timeout_loop = @ + 1],
             on |-> TRUE, up |-> FALSE]
  ELSE [seq |-> [s EXCEPT !.retry_times = @ + 1], on |-> FALSE, up |-> TRUE]

\* stp_do_tx_timeout
DoTxTimeout(e) ==
  /\ retryOps[e] > 0
  /\ Len(wire["host"]) + Len(wire["fw"]) <= MaxWire
  /\ retryOps' = [retryOps EXCEPT ![e] = @ - 1]
  /\ IF sequence[e].retry_times > RetryLimit
     THEN UNCHANGED <<sequence, timer, wire, asserted>>
     ELSE \E pending \in BOOLEAN :
            LET r == Retried(e, pending) IN
            /\ wire' = [wire EXCEPT ![e] = @ \o Retransmission(e)]
            /\ sequence' = [sequence EXCEPT ![e] = r.seq]
            /\ timer' = [timer EXCEPT ![e] = r.on]
            /\ asserted' = [asserted EXCEPT ![e] = @ \/ r.up]
  /\ UNCHANGED <<parser, rxOk, failCount, txbuf, sent, acked, got, faults, restarts,
                 upset>>

----------------------------------------------------------------------------
(* Receiving *)

\* The next frame e has to parse, and the wires once it is parsed and
\* answered with the frames of reply.
Incoming(e) == Head(wire[Peer(e)])
Parse(e, reply) ==
  wire' = [wire EXCEPT ![Peer(e)] = Tail(@), ![e] = @ \o reply]

\* Mutant: the count is kept after it has led to an assert.
CountFailureOn(e, n) ==
  /\ failCount' = [failCount EXCEPT ![e] = n]
  /\ asserted' = [asserted EXCEPT ![e] = @ \/ n > RetryLimit]

\* An odd packet is counted; after too many the firmware is asked to assert.
CountFailure(e, n) ==
  /\ failCount' = [failCount EXCEPT ![e] = IF n > RetryLimit THEN 0 ELSE n]
  /\ asserted' = [asserted EXCEPT ![e] = @ \/ n > RetryLimit]

\* While it hunts for the pattern the parser throws everything away.
RecvHunting(e) ==
  /\ parser[e] = "resync"
  /\ Incoming(e).kind # "resync"
  /\ Parse(e, <<>>)
  /\ UNCHANGED <<sequence, timer, retryOps, parser, rxOk, failCount, txbuf, asserted,
                 sent, acked, got, faults, restarts, upset>>

RecvResync(e) ==
  /\ Incoming(e).kind = "resync"
  /\ parser' = [parser EXCEPT ![e] = "sync"]
  /\ sequence' = [sequence EXCEPT ![e].rx_resync = TRUE, ![e].rx_resync_seq = Unset]
  /\ Parse(e, <<>>)
  /\ UNCHANGED <<timer, retryOps, rxOk, failCount, txbuf, asserted, sent, acked, got,
                 faults, restarts, upset>>

\* stp_process_header_only_packet
RecvAck(e) ==
  /\ parser[e] = "sync"
  /\ Incoming(e).kind = "ack"
  /\ sequence' = [sequence EXCEPT ![e] = Acknowledged(@, Incoming(e).ack)]
  /\ timer' = TimerAfterAck(e, Incoming(e).ack)
  /\ Parse(e, <<>>)
  /\ UNCHANGED <<retryOps, parser, rxOk, failCount, txbuf, asserted, sent, acked, got,
                 faults, restarts, upset>>

\* What may become of the payload of an expected packet.  Nobody complains: bluez
\* or the ring has it, or it is dropped, since bluez is not there, the function is
\* inactive or it is the earlier part of a WMT packet whose last part found room.
\* Or the ring is full and it is dropped, which counts as a failure unless the
\* packet is for BT or GPS.
Enqueued(e) ==
  {[ok |-> TRUE, fail |-> n, kept |-> TRUE] : n \in {0, failCount[e]}}
  \cup (IF acked[e] - got[e] < MaxDrops[e]
        THEN {[ok |-> TRUE, fail |-> n, kept |-> FALSE] : n \in {0, failCount[e]}} ELSE {})
  \cup (IF faults = MaxFaults THEN {}
        ELSE {[ok |-> FALSE, fail |-> failCount[e] + n, kept |-> FALSE] : n \in {0, 1}})

\* stp_process_packet, the sequence number expected: the packet is
\* acknowledged first and enqueued afterwards, if it can be.
RecvExpected(e) ==
  LET f == Incoming(e)
      s == Acknowledged(sequence[e], f.ack)
  IN
  /\ parser[e] = "sync"
  /\ f.kind = "data"
  /\ f.seq = s.expected_rxseq
  /\ sequence' = [sequence EXCEPT ![e] =
       [s EXCEPT !.rx_resync = FALSE, !.txack = f.seq, !.expected_rxseq = Inc(@)]]
  /\ timer' = TimerAfterAck(e, f.ack)
  /\ Parse(e, <<AckFrame(f.seq)>>)
  /\ acked' = [acked EXCEPT ![e] = f.pay]
  /\ \E q \in Enqueued(e) :
       /\ got' = IF q.kept THEN [got EXCEPT ![e] = @ + 1] ELSE got
       /\ rxOk' = [rxOk EXCEPT ![e] = q.ok]
       /\ CountFailure(e, q.fail)
       /\ upset' = (upset \/ ~q.ok)
       /\ faults' = IF q.ok THEN faults ELSE faults + 1
  /\ UNCHANGED <<retryOps, parser, txbuf, sent, restarts>>

\* Mutant: what was here before is dropped without an answer.
RecvUnexpectedSilent(e) ==
  /\ parser[e] = "sync"
  /\ Incoming(e).kind = "data"
  /\ Incoming(e).seq # sequence[e].expected_rxseq
  /\ rxOk[e]
  /\ Parse(e, <<>>)
  /\ UNCHANGED <<sequence, timer, retryOps, parser, rxOk, failCount, txbuf, asserted,
                 sent, acked, got, faults, restarts, upset>>

\* Another sequence number after a packet that could be enqueued: the last
\* acknowledgement is repeated.  After a resync pattern a run of consecutive
\* packets that were here before is no failure.
RecvUnexpected(e) ==
  LET f == Incoming(e)
      s == sequence[e]
      inOrder == s.rx_resync_seq = Unset \/ f.seq = Inc(s.rx_resync_seq)
  IN
  /\ parser[e] = "sync"
  /\ f.kind = "data"
  /\ f.seq # s.expected_rxseq
  /\ rxOk[e]
  /\ Parse(e, <<AckFrame(s.txack)>>)
  /\ IF s.rx_resync
     THEN sequence' = [sequence EXCEPT ![e].rx_resync = inOrder,
                         ![e].rx_resync_seq = IF @ = Unset THEN f.seq ELSE Inc(@)]
     ELSE UNCHANGED sequence
  /\ CountFailure(e, IF s.rx_resync /\ inOrder THEN failCount[e] ELSE failCount[e] + 1)
  /\ UNCHANGED <<timer, retryOps, parser, rxOk, txbuf, sent, acked, got, faults,
                 restarts, upset>>

\* ... after one that could not: no answer, the other side is to time out.
RecvUnanswered(e) ==
  LET f == Incoming(e) IN
  /\ parser[e] = "sync"
  /\ f.kind = "data"
  /\ f.seq # sequence[e].expected_rxseq
  /\ ~rxOk[e]
  /\ Parse(e, <<>>)
  /\ CountFailure(e, failCount[e] + 1)
  /\ UNCHANGED <<sequence, timer, retryOps, parser, rxOk, txbuf, sent, acked, got, faults,
                 restarts, upset>>

Receive(e) ==
  /\ wire[Peer(e)] # <<>>
  /\ \/ RecvHunting(e) \/ RecvResync(e) \/ RecvAck(e)
     \/ RecvExpected(e) \/ RecvUnexpected(e) \/ RecvUnanswered(e)

----------------------------------------------------------------------------
(* The link and the chip *)

\* A frame is lost: the interface overflowed or the checksum of its payload
\* is wrong.
Lose(e) ==
  /\ wire[e] # <<>>
  /\ faults < MaxFaults
  /\ faults' = faults + 1
  /\ wire' = [wire EXCEPT ![e] = Tail(@)]
  /\ UNCHANGED <<sequence, timer, retryOps, parser, rxOk, failCount, txbuf, asserted,
                 sent, acked, got, restarts, upset>>

\* A header with a wrong checksum: the parser drops what it has been given in
\* the same call, here the next n frames, and hunts for the resync pattern.
Garble(e) ==
  /\ wire[e] # <<>>
  /\ parser[Peer(e)] = "sync"
  /\ faults < MaxFaults
  /\ faults' = faults + 1
  /\ \E n \in 1 .. Len(wire[e]) :
       wire' = [wire EXCEPT ![e] = SubSeq(@, n + 1, Len(@))]
  /\ parser' = [parser EXCEPT ![Peer(e)] = "resync"]
  /\ upset' = TRUE
  /\ UNCHANGED <<sequence, timer, retryOps, rxOk, failCount, txbuf, asserted, sent,
                 acked, got, restarts>>

\* The chip is reset or powered off and on: stp_rest_ctx_state on this side,
\* the firmware starts anew.  The timer, the queued retries and the two static
\* variables of stp_process_packet stay as they are.
Restart ==
  /\ restarts < MaxRestarts
  /\ restarts' = restarts + 1
  /\ sequence' = [e \in Ends |-> FreshSequence]
  /\ parser' = [e \in Ends |-> "sync"]
  /\ wire' = [e \in Ends |-> <<>>]
  /\ asserted' = [e \in Ends |-> FALSE]
  /\ sent' = [e \in Ends |-> 0]
  /\ acked' = [e \in Ends |-> 0]
  /\ got' = [e \in Ends |-> 0]
  /\ timer' = [timer EXCEPT !["fw"] = FALSE]
  /\ retryOps' = [retryOps EXCEPT !["fw"] = 0]
  /\ rxOk' = [rxOk EXCEPT !["fw"] = TRUE]
  /\ failCount' = [failCount EXCEPT !["fw"] = 0]
  /\ UNCHANGED <<txbuf, faults, upset>>

Next ==
  \/ \E e \in Ends : \/ Send(e) \/ TimerFires(e) \/ DoTxTimeout(e)
                     \/ Receive(e) \/ Lose(e) \/ Garble(e)
  \/ Restart

Spec == Init /\ [][Next]_vars

\* The receive thread, the timers and the BTM thread run; drivers need not
\* send, the link need not fail.
Fairness == \A e \in Ends : /\ WF_vars(Receive(e))
                            /\ WF_vars(TimerFires(e))
                            /\ WF_vars(DoTxTimeout(e))

FairSpec == Spec /\ Fairness

----------------------------------------------------------------------------
(* Properties *)

SequenceContext ==
  [txseq : Seqs, txack : Seqs, rxack : Seqs, winspace : 0 .. WinSize, expected_rxseq : Seqs,
   retry_times : 0 .. RetryLimit + 1, tx_timeout_loop : 0 .. LoopLimit,
   rx_resync : BOOLEAN, rx_resync_seq : Seqs \cup {Unset}]

TypeOK ==
  /\ sequence \in [Ends -> SequenceContext]
  /\ timer \in [Ends -> BOOLEAN] /\ retryOps \in [Ends -> 0 .. MaxRetryOps]
  /\ parser \in [Ends -> {"sync", "resync"}]
  /\ rxOk \in [Ends -> BOOLEAN] /\ failCount \in [Ends -> 0 .. RetryLimit]
  /\ txbuf \in [Ends -> [Seqs -> Nat]]
  /\ wire \in [Ends -> Seq(Frames)]
  /\ asserted \in [Ends -> BOOLEAN]
  /\ sent \in [Ends -> Nat] /\ acked \in [Ends -> Nat] /\ got \in [Ends -> Nat]
  /\ faults \in 0 .. MaxFaults /\ restarts \in 0 .. MaxRestarts
  /\ upset \in BOOLEAN

\* winspace, which decides about sending and about the timer, agrees with the
\* distance of rxack and txseq, which decides about retransmission and about
\* which acknowledgements count.
WindowExact == \A e \in Ends : sequence[e].winspace + Unacked(sequence[e]) = WinSize

\* While a packet waits for its acknowledgement and the end has not given up,
\* the timer runs or a retry is queued, whatever acknowledgements, packets and
\* restarts come between a timeout and its handling.
RetryArmed ==
  \A e \in Ends :
    Unacked(sequence[e]) > 0 /\ sequence[e].retry_times <= RetryLimit
      => timer[e] \/ retryOps[e] > 0

\* A frame that is merely lost (MaxFaults = 1) never brings an end to ask for a
\* firmware assert: it makes at most a window of packets odd, no more than the
\* limit, and the retransmission gets through before its own is reached.
LossSurvived == \A e \in Ends : asserted[e] => upset

\* A packet the sender has let go of: sent and outside the window.
Released(e) == sent[e] - (WinSize - sequence[e].winspace)

\* In both directions every packet arrives once, in the order sent, and leaves the
\* window only afterwards, although sequence numbers are reused, frames are lost and
\* timeouts come early.  What arrives is handed to its function or, where the
\* function has no room or is inactive, dropped for good: the acknowledgement of
\* stp_process_packet promises the former but not the latter.
ToFw == INSTANCE ReliableStream
          WITH Window <- WinSize, sent <- sent["host"], acked <- acked["fw"],
               got <- got["fw"], released <- Released("host")
ToHost == INSTANCE ReliableStream
          WITH Window <- WinSize, sent <- sent["fw"], acked <- acked["host"],
               got <- got["host"], released <- Released("fw")
ImplementsStream == ToFw!Spec /\ ToHost!Spec

\* Whatever is out is acknowledged in the end, or its sender has used up its
\* retransmissions.
Progress ==
  \A e \in Ends :
    Unacked(sequence[e]) > 0
      ~> Unacked(sequence[e]) = 0 \/ sequence[e].retry_times > RetryLimit
============================================================================
