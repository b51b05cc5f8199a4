------------------------------- MODULE PseudoTcp -------------------------------
(***************************************************************************)
(* cricket::PseudoTcp (p2p/base/pseudotcp.cc) with the FifoBuffers that it *)
(* keeps (base/stream.cc): two ends over a network that loses, duplicates  *)
(* and reorders packets.                                                   *)
(*                                                                         *)
(* An end's control block is a record, and the functions of the code are   *)
(* operators from a record to a record; out collects the packets that they *)
(* write.  Sequence numbers count units of data, SeqRange of them, from 0  *)
(* as in the code, and wrap; a byte of a stream is its position in it, 0   *)
(* is the connect message.  Times are not modelled: a timer may fire when  *)
(* the packets and the delayed acknowledgements that it would wait for are *)
(* gone, or early, a bounded number of times.                              *)
(***************************************************************************)
EXTENDS Integers, Sequences, SequencesExt, FiniteSets, FiniteSetsExt

CONSTANTS Ends,        \* the two of them
          Opener,      \* the one that calls Connect
          Closers,     \* those whose application calls Close in the end
          ToSend,      \* how much the application of each one writes
          Chunk,       \* the most that it writes or reads at a time
          SndBuf, RcvBuf,   \* capacities of m_sbuf and m_rbuf
          WndUnit,     \* 2^m_rwnd_scale
          Levels,      \* payloads of PACKET_MAXIMUMS, descending
          PathMss,     \* what TcpWritePacket accepts
          MaxXmit,     \* 15 (30 before the connection is established)
          MaxProbes,   \* probes until the time-out of a probe exceeds 15 s
          Nagling,     \* m_use_nagling
          SeqRange,    \* 2^32
          MaxFaults    \* bound: how often something goes wrong

ASSUME PseudoTcpAssumption ==
  /\ IsFiniteSet(Ends) /\ Cardinality(Ends) = 2
  /\ Opener \in Ends /\ Closers \subseteq Ends
  /\ ToSend \in [Ends -> Nat]
  /\ {Chunk, SndBuf, RcvBuf, WndUnit, PathMss, MaxXmit} \subseteq Nat \ {0}
  /\ WndUnit <= RcvBuf
  /\ Levels \in Seq(Nat \ {0}) /\ Levels # <<>>
  /\ \A i \in 1..Len(Levels) - 1 : Levels[i] > Levels[i + 1]
  /\ Levels[Len(Levels)] \in 1..PathMss
  /\ Nagling \in BOOLEAN /\ SeqRange \in Nat \ {0} /\ MaxFaults \in Nat

VARIABLES tcb,         \* the control block of each end
          net,         \* the packets on their way to each end
          written,     \* how much each application has written
          got,         \* what it has read
          toRead,      \* it has been told of data and has not been blocked since
          toWrite,     \* the same for writing
          faults       \* how often something has gone wrong

vars == <<tcb, net, written, got, toRead, toWrite, faults>>

Peer(e) == CHOOSE f \in Ends : f # e

Garbage == -1   \* what was never written to a buffer

Plus(a, b)  == (a + b) % SeqRange
Minus(a, b) == (a - b) % SeqRange

Smaller(a, b) == IF a < b THEN a ELSE b
Larger(a, b)  == IF a > b THEN a ELSE b

-------------------------------------------------------------------------------
NewTcb ==
  [state |-> "listen", shutdown |-> FALSE,
   slist |-> <<>>, sbuf |-> <<>>,
   una |-> 0, nxt |-> 0, wnd |-> 1, scaled |-> FALSE,
   rto |-> FALSE, probes |-> 0,
   cwnd |-> 2 * Levels[Len(Levels)], ssthresh |-> RcvBuf, dups |-> 0, recover |-> 0,
   mss |-> Levels[Len(Levels)], level |-> 1,
   rnxt |-> 0, rwnd |-> RcvBuf, rlist |-> <<>>, rbuf |-> <<>>, stash |-> <<>>,
   tack |-> FALSE, lastack |-> 0, readEnable |-> TRUE, writeEnable |-> FALSE,
   out |-> <<>>, readable |-> FALSE, writable |-> FALSE]

InFlight(s) == Minus(s.nxt, s.una)
SndSpace(s) == SndBuf - Len(s.sbuf)
RcvSpace(s) == RcvBuf - Len(s.rbuf)

\* Bound: beyond this the congestion window makes no difference.
MaxCwnd == 2 * RcvBuf + 3 * Levels[1]
WithCwnd(s, n) == [s EXCEPT !.cwnd = Smaller(n, MaxCwnd)]

Segment(seq, len, ctrl, xmit) ==
  [seq |-> seq, len |-> len, ctrl |-> ctrl, xmit |-> xmit]

Longer(slist, n) == [slist EXCEPT ![Len(slist)].len = @ + n]

\* Write data, as one segment or with the last one.
Queue(s, data, ctrl) ==
  LET n == Len(s.slist)
      joins == n > 0 /\ s.slist[n].ctrl = ctrl /\ s.slist[n].xmit = 0
  IN  [s EXCEPT !.sbuf = @ \o data,
                !.slist = IF joins THEN Longer(@, Len(data))
                          ELSE Append(@, Segment(Plus(s.una, Len(s.sbuf)),
                                                 Len(data), ctrl, 0))]

QueueConnectMessage(s) == Queue([s EXCEPT !.wnd = 1], <<0>>, TRUE)

\* What m_sbuf has from offset on.
Payload(s, offset, len) ==
  [i \in 1..len |-> IF offset + i <= Len(s.sbuf) THEN s.sbuf[offset + i]
                                                 ELSE Garbage]

Written(s, seq, ctrl, data) ==
  [s EXCEPT !.out = Append(@, [seq |-> seq, ack |-> s.rnxt, ctrl |-> ctrl,
                               wnd |-> s.rwnd \div WndUnit, data |-> data]),
            !.tack = FALSE, !.lastack = s.rnxt]

Ack(s) == Written(s, s.nxt, FALSE, <<>>)

Split(s, i, len) ==
  LET seg == s.slist[i]
  IN  IF len >= seg.len THEN s
      ELSE [s EXCEPT !.slist =
              InsertAt([@ EXCEPT ![i].len = len], i + 1,
                       Segment(Plus(seg.seq, len), seg.len - len, seg.ctrl, seg.xmit))]

\* TcpWritePacket answers WR_TOO_LARGE: descend to a level that it accepts.
LowerMss(s) ==
  LET l == Min({k \in s.level + 1..Len(Levels) : Levels[k] <= PathMss})
  IN  WithCwnd([s EXCEPT !.level = l, !.mss = Levels[l]], 2 * Levels[l])

\* transmit, unless the segment has been transmitted too often.
TooOften(s, i) ==
  s.slist[i].xmit >= (IF s.state = "established" THEN 1 ELSE 2) * MaxXmit

\* n units, segment i, have been given to the network.
Transmitted(s, i, n) ==
  [s EXCEPT !.slist[i].xmit = @ + 1,
            !.nxt = IF s.slist[i].xmit = 0 THEN Plus(@, n) ELSE @,
            !.rto = TRUE]

Transmit(s, i) ==
  LET seg == s.slist[i]
      wanted == Smaller(seg.len, s.mss)
      t == IF wanted <= PathMss THEN s ELSE LowerMss(s)
      n == IF wanted <= PathMss THEN wanted ELSE t.mss
      data == Payload(s, Minus(seg.seq, s.una), n)
  IN  Transmitted(Split(Written(t, seg.seq, seg.ctrl, data), i, n), i, n)

Closedown(s) == [s EXCEPT !.state = "closed"]

-------------------------------------------------------------------------------
\* Mutant: only the congestion window is respected.
Available_CwndOnly(s) ==
  LET useable == Larger(0, s.cwnd - InFlight(s))
      avail   == Smaller(Minus(Len(s.sbuf), InFlight(s)), s.mss)
  IN  IF avail <= useable THEN avail
      ELSE IF useable * 4 < s.cwnd THEN 0 ELSE useable

\* What attemptSend may send of its next segment.
Available(s) ==
  LET cwnd    == s.cwnd + (IF s.dups \in {1, 2} THEN s.dups * s.mss ELSE 0)
      window  == Smaller(s.wnd, cwnd)
      useable == Larger(0, window - InFlight(s))
      avail   == Smaller(Minus(Len(s.sbuf), InFlight(s)), s.mss)
  IN  IF avail <= useable THEN avail
      ELSE IF useable * 4 < window THEN 0 ELSE useable

SendAck(s, flag) ==
  CASE flag = "none" -> s
    [] flag = "immediate" \/ (flag = "delayed" /\ s.tack) -> Ack(s)
    [] OTHER -> [s EXCEPT !.tack = TRUE]

\* Nagle's algorithm keeps back less than a full segment.
HoldsBack(s) == Nagling /\ s.nxt > s.una /\ Available(s) < s.mss

\* A pass of attemptSend's loop: the next segment, or nothing.
SendNext(s) ==
  LET i == CHOOSE k \in 1..Len(s.slist) :
             s.slist[k].xmit = 0 /\ \A j \in 1..k - 1 : s.slist[j].xmit > 0
  IN  IF Available(s) = 0 \/ HoldsBack(s) THEN s
      ELSE Transmit(Split(s, i, Available(s)), i)

\* The loop sends something with each pass but the last.
SendPasses(s) ==
  LET pass[k \in 0..Len(s.sbuf)] == IF k = 0 THEN s ELSE SendNext(pass[k - 1])
  IN  pass

SendAvailable(s, flag) ==
  CASE Available(s) = 0 -> SendAck(s, flag)
    [] Available(s) > 0 /\ HoldsBack(s) -> s
    [] OTHER -> SendPasses(s)[Len(s.sbuf)]

\* idle: the last packet was sent longer ago than the retransmission time-out.
AttemptSend(s, flag, idle) ==
  SendAvailable(IF idle THEN WithCwnd(s, s.mss) ELSE s, flag)

-------------------------------------------------------------------------------
\* The stages of process.

AdjustMTU(s) ==
  WithCwnd([s EXCEPT !.level = 1, !.mss = Levels[1],
                     !.ssthresh = Larger(@, 2 * Levels[1])],
           Larger(s.cwnd, Levels[1]))

Establish(s) == AdjustMTU([s EXCEPT !.state = "established", !.writable = TRUE])

TakeConnect(s, p) ==
  LET t == [s EXCEPT !.scaled = TRUE]
  IN  CASE ~p.ctrl -> s
        [] p.ctrl /\ s.state = "listen" ->
             QueueConnectMessage([t EXCEPT !.state = "syn_received"])
        [] p.ctrl /\ s.state = "syn_sent" -> Establish(t)
        [] OTHER -> t

\* n units of the segments' have been acknowledged: a segment less, or a part of it.
FreeFirst(x) ==
  CASE x.n = 0 -> x
    [] x.n > 0 /\ x.n < Head(x.slist).len ->
         [slist |-> [x.slist EXCEPT ![1].len = @ - x.n], n |-> 0]
    [] OTHER -> [slist |-> Tail(x.slist), n |-> x.n - Head(x.slist).len]

FreePasses(slist, n) ==
  LET pass[k \in 0..Len(slist)] ==
        IF k = 0 THEN [slist |-> slist, n |-> n] ELSE FreeFirst(pass[k - 1])
  IN  pass

Acked(slist, n) == FreePasses(slist, n)[Len(slist)].slist

Window(s, p) == IF s.scaled THEN p.wnd * WndUnit ELSE p.wnd

\* A retransmission of the first segment; the connection ends if it is refused.
Retransmit(s) == IF TooOften(s, 1) THEN Closedown(s) ELSE Transmit(s, 1)

\* Mutant: the timer goes on although everything has been acknowledged.
NewAck_KeepsTimer(s, p) ==
  LET n == Minus(p.ack, s.una)
  IN  [s EXCEPT !.wnd = Window(s, p), !.una = p.ack, !.dups = 0, !.probes = 0,
                !.sbuf = SubSeq(@, n + 1, Len(@)), !.slist = Acked(@, n)]

NewAck(s, p) ==
  LET n == Minus(p.ack, s.una)
      t == [s EXCEPT !.wnd = Window(s, p), !.una = p.ack, !.rto = p.ack # s.nxt,
                     !.sbuf = SubSeq(@, n + 1, Len(@)), !.slist = Acked(@, n),
                     !.probes = 0]
      r == Retransmit(t)
  IN  CASE s.dups >= 3 /\ p.ack >= s.recover ->
             WithCwnd([t EXCEPT !.dups = 0],
                      Smaller(t.ssthresh, InFlight(t) + t.mss))
        [] s.dups >= 3 /\ p.ack < s.recover ->
             IF r.state = "closed" THEN r
             ELSE WithCwnd(r, r.cwnd + r.mss - Smaller(n, r.cwnd))
        [] OTHER ->
             WithCwnd([t EXCEPT !.dups = 0],
                      t.cwnd + IF t.cwnd < t.ssthresh THEN t.mss
                               ELSE Larger(1, (t.mss * t.mss) \div t.cwnd))

\* Bound: dups counts to 4.
SameAck(s, p) ==
  LET t == [s EXCEPT !.wnd = Window(s, p)]
      d == [t EXCEPT !.dups = Smaller(@ + 1, 4)]
      r == Retransmit(d)
      ssthresh == Larger(InFlight(r) \div 2, 2 * r.mss)
  IN  CASE p.data # <<>> -> t
        [] p.data = <<>> /\ s.una = s.nxt -> [t EXCEPT !.dups = 0]
        [] p.data = <<>> /\ s.una # s.nxt /\ s.dups = 2 ->
             IF r.state = "closed" THEN r
             ELSE WithCwnd([r EXCEPT !.recover = r.nxt, !.ssthresh = ssthresh],
                           ssthresh + 3 * r.mss)
        [] OTHER -> IF s.dups > 2 THEN WithCwnd(d, d.cwnd + d.mss) ELSE d

TakeAck(s, p) ==
  CASE p.ack > s.una /\ p.ack <= s.nxt -> NewAck(s, p)
    [] p.ack = s.una -> SameAck(s, p)
    [] OTHER -> s

\* Mutant: the threshold is the difference of the buffers, not their mean.
NotifyWriteable_Late(s) ==
  IF s.writeEnable /\ Len(s.sbuf) < (SndBuf - RcvBuf) \div 2
  THEN [s EXCEPT !.writeEnable = FALSE, !.writable = TRUE] ELSE s

NotifyWriteable(s) ==
  IF s.writeEnable /\ Len(s.sbuf) < (SndBuf + RcvBuf) \div 2
  THEN [s EXCEPT !.writeEnable = FALSE, !.writable = TRUE] ELSE s

\* Drop what has been received, and what there is no space for.
Trim(s, p) ==
  LET old   == IF p.seq < s.rnxt THEN s.rnxt - p.seq ELSE 0
      fresh == IF old < Len(p.data)
               THEN [p EXCEPT !.seq = Plus(@, old), !.data = SubSeq(@, old + 1, Len(@))]
               ELSE [p EXCEPT !.data = <<>>]
      over  == Larger(0, Minus(Plus(fresh.seq, Len(fresh.data)), s.rnxt) - RcvSpace(s))
  IN  [fresh EXCEPT !.data = SubSeq(@, 1, Len(@) - over)]

\* Consume n units that have been written to m_rbuf behind its data.
Consume(s, n) ==
  [s EXCEPT !.rbuf = @ \o [i \in 1..n |-> IF i <= Len(s.stash) THEN s.stash[i]
                                                               ELSE Garbage],
            !.stash = SubSeq(@, n + 1, Len(@)),
            !.rnxt = Plus(@, n), !.rwnd = @ - n]

\* Mutant: the data is written where the next data is expected.
WriteOffset_Front(s, data, offset) ==
  [s EXCEPT !.stash = data \o SubSeq(@, Len(data) + 1, Len(@))]

\* stash has what is in m_rbuf behind its data.
WriteOffset(s, data, offset) ==
  LET n == Larger(Len(s.stash), offset + Len(data))
  IN  [s EXCEPT !.stash =
         [i \in 1..n |-> IF i \in offset + 1..offset + Len(data) THEN data[i - offset]
                         ELSE IF i <= Len(@) THEN @[i] ELSE Garbage]]

\* The first of what has been kept, if it is not beyond what is expected.
RecoverFirst(x) ==
  LET s == x.tcb
      r == Head(s.rlist)
      t == [s EXCEPT !.rlist = Tail(@)]
  IN  CASE s.rlist = <<>> \/ r.seq > s.rnxt -> x
        [] s.rlist # <<>> /\ r.seq <= s.rnxt /\ Plus(r.seq, r.len) > s.rnxt ->
             [tcb |-> Consume(t, Minus(Plus(r.seq, r.len), s.rnxt)), flag |-> "immediate"]
        [] OTHER -> [tcb |-> t, flag |-> x.flag]

RecoverPasses(s, flag) ==
  LET pass[k \in 0..Len(s.rlist)] ==
        IF k = 0 THEN [tcb |-> s, flag |-> flag] ELSE RecoverFirst(pass[k - 1])
  IN  pass

Recover(s, flag) == RecoverPasses(s, flag)[Len(s.rlist)]

\* Insert by sequence number, before those that are equal.
Inserted(rlist, r) ==
  InsertAt(rlist, 1 + Cardinality({i \in DOMAIN rlist : rlist[i].seq < r.seq}), r)

TakeData(s, p, flag) ==
  LET n      == Len(p.data)
      stored == WriteOffset(s, p.data, Minus(p.seq, s.rnxt))
  IN  CASE n = 0 -> [tcb |-> s, flag |-> flag]
        [] n > 0 /\ (p.ctrl \/ s.shutdown) ->
             [tcb |-> IF p.seq = s.rnxt THEN [s EXCEPT !.rnxt = Plus(@, n)] ELSE s,
              flag |-> flag]
        [] n > 0 /\ ~p.ctrl /\ ~s.shutdown /\ p.seq = s.rnxt ->
             Recover(Consume(stored, n), flag)
        [] OTHER -> [tcb |-> [stored EXCEPT !.rlist = Inserted(@, [seq |-> p.seq, len |-> n])],
                     flag |-> flag]

Process(s, p, idle) ==
  LET acked == TakeAck(TakeConnect(s, p), p)
      known == IF acked.state = "syn_received" /\ ~p.ctrl THEN Establish(acked)
                                                         ELSE acked
      flag == CASE p.seq # s.rnxt -> "immediate"
                [] p.seq = s.rnxt /\ p.data # <<>> -> "delayed"
                [] OTHER -> "none"
      d == TakeData(NotifyWriteable(known), Trim(known, p), flag)
      e == AttemptSend(d.tcb, d.flag, idle)
      new == Len(e.rbuf) > Len(s.rbuf)
  IN  IF acked.state = "closed" THEN acked
      ELSE IF new /\ e.readEnable
           THEN [e EXCEPT !.readEnable = FALSE, !.readable = TRUE] ELSE e

-------------------------------------------------------------------------------
Init ==
  /\ tcb = [e \in Ends |-> NewTcb]
  /\ net = [e \in Ends |-> <<>>]
  /\ written = [e \in Ends |-> 0]
  /\ got = [e \in Ends |-> <<>>]
  /\ toRead = [e \in Ends |-> FALSE]
  /\ toWrite = [e \in Ends |-> FALSE]
  /\ faults = 0

\* End e becomes s: its packets go to the network and its notifications to the
\* application.
Becomes(e, s, rest) ==
  /\ tcb' = [tcb EXCEPT ![e] = [s EXCEPT !.out = <<>>, !.readable = FALSE,
                                         !.writable = FALSE]]
  /\ net' = [f \in Ends |-> IF f = e THEN rest ELSE net[f] \o s.out]
  /\ toRead' = [toRead EXCEPT ![e] = @ \/ s.readable]
  /\ toWrite' = [toWrite EXCEPT ![e] = @ \/ s.writable]

Alive(e) == tcb[e].state \notin {"closed", "destroyed"}

\* The link is idle only when nothing is in flight; and if the window is at its
\* smallest it makes no difference.
Idles(e) == {FALSE} \cup {InFlight(tcb[e]) = 0 /\ tcb[e].cwnd > tcb[e].mss}

GoesWrong == faults < MaxFaults /\ faults' = faults + 1

Connect ==
  LET s == [tcb[Opener] EXCEPT !.state = "syn_sent"]
  IN  /\ tcb[Opener].state = "listen"
      /\ Becomes(Opener, AttemptSend(QueueConnectMessage(s), "none", FALSE),
                 net[Opener])
      /\ UNCHANGED <<written, got, faults>>

\* The network delivers the first packet, or another one, or keeps a duplicate.
Receive(e) ==
  /\ \E i \in DOMAIN net[e], idle \in Idles(e), again \in BOOLEAN :
       LET rest == IF again THEN net[e] ELSE RemoveAt(net[e], i)
       IN  /\ IF i = 1 /\ ~again THEN UNCHANGED faults ELSE GoesWrong
           /\ IF Alive(e) THEN Becomes(e, Process(tcb[e], net[e][i], idle), rest)
              ELSE net' = [net EXCEPT ![e] = rest] /\ UNCHANGED <<tcb, toRead, toWrite>>
  /\ UNCHANGED <<written, got>>

\* The application writes until it is blocked.
Send(e) ==
  LET s == tcb[e]
      k == Smaller(Chunk, Smaller(SndSpace(s), ToSend[e] - written[e]))
      data == [i \in 1..k |-> written[e] + i]
  IN  /\ toWrite[e] /\ s.state = "established" /\ ~s.shutdown
      /\ written[e] < ToSend[e]
      /\ IF k = 0
         THEN /\ tcb' = [tcb EXCEPT ![e].writeEnable = TRUE]
              /\ toWrite' = [toWrite EXCEPT ![e] = FALSE]
              /\ UNCHANGED <<net, toRead, written>>
         ELSE /\ \E idle \in Idles(e) :
                   Becomes(e, AttemptSend(Queue(s, data, FALSE), "none", idle), net[e])
              /\ written' = [written EXCEPT ![e] = @ + k]
      /\ UNCHANGED <<got, faults>>

\* What Recv does to the control block when it reads k units.
Read(s, k, idle) ==
  LET t == [s EXCEPT !.rbuf = SubSeq(@, k + 1, Len(@))]
      u == [t EXCEPT !.rwnd = RcvSpace(t)]
  IN  CASE RcvSpace(t) - t.rwnd < Smaller(RcvBuf \div 2, t.mss) -> t
        [] RcvSpace(t) - t.rwnd >= Smaller(RcvBuf \div 2, t.mss) /\ t.rwnd = 0 ->
             AttemptSend(u, "immediate", idle)
        [] OTHER -> u

\* The application reads until it is blocked.
Recv(e) ==
  LET s == tcb[e]
      k == Smaller(Chunk, Len(s.rbuf))
  IN  /\ toRead[e] /\ s.state = "established"
      /\ IF k = 0
         THEN /\ tcb' = [tcb EXCEPT ![e].readEnable = TRUE]
              /\ toRead' = [toRead EXCEPT ![e] = FALSE]
              /\ UNCHANGED <<net, toWrite, got>>
         ELSE /\ \E idle \in Idles(e) : Becomes(e, Read(s, k, idle), net[e])
              /\ got' = [got EXCEPT ![e] = @ \o SubSeq(s.rbuf, 1, k)]
      /\ UNCHANGED <<written, faults>>

-------------------------------------------------------------------------------
\* NotifyClock, a timer at a time.

\* No packet is on its way, and no acknowledgement is delayed: more time than
\* that is what the other timers are set to.
Quiet == \A e \in Ends : net[e] = <<>> /\ (~tcb[e].tack \/ ~Alive(e))

MayFire == IF Quiet THEN UNCHANGED faults ELSE GoesWrong

\* The time-out doubles with each retransmission, so that of two ends that wait
\* the one that has retransmitted more does so longer.
Waits(e) ==
  \E f \in Ends \ {e} : Alive(f) /\ tcb[f].rto
                       /\ Head(tcb[f].slist).xmit < Head(tcb[e].slist).xmit

RetransmitTimer(e) ==
  LET r == Retransmit(tcb[e])
      ssthresh == Larger(InFlight(r) \div 2, 2 * r.mss)
  IN  /\ Alive(e) /\ tcb[e].rto /\ ~Waits(e) /\ MayFire
      /\ Becomes(e, IF r.state = "closed" THEN r
                    ELSE WithCwnd([r EXCEPT !.ssthresh = ssthresh], r.mss), net[e])
      /\ UNCHANGED <<written, got>>

\* Each probe doubles the time-out; when that is more than 15 s nothing has
\* been received for as long.
ProbeTimer(e) ==
  LET s == tcb[e]
  IN  /\ Alive(e) /\ s.wnd = 0 /\ MayFire
      /\ Becomes(e, IF s.probes = MaxProbes THEN Closedown(s)
                    ELSE [Written(s, Minus(s.nxt, 1), FALSE, <<>>) EXCEPT
                            !.probes = @ + 1], net[e])
      /\ UNCHANGED <<written, got>>

AckTimer(e) ==
  /\ Alive(e) /\ tcb[e].tack
  /\ Becomes(e, Ack(tcb[e]), net[e])
  /\ UNCHANGED <<written, got, faults>>

-------------------------------------------------------------------------------
\* The application closes when it has written everything.
Close(e) ==
  /\ e \in Closers /\ tcb[e].state = "established" /\ ~tcb[e].shutdown
  /\ written[e] = ToSend[e]
  /\ tcb' = [tcb EXCEPT ![e].shutdown = TRUE]
  /\ UNCHANGED <<net, written, got, toRead, toWrite, faults>>

\* Mutant: it does not wait for what is in m_sbuf.
Destroy_Unsent(e) ==
  /\ Alive(e) /\ tcb[e].shutdown /\ ~tcb[e].tack
  /\ tcb' = [tcb EXCEPT ![e].state = "destroyed"]
  /\ UNCHANGED <<net, written, got, toRead, toWrite, faults>>

\* GetNextClock says that it is ready to be destroyed.
Destroy(e) ==
  /\ Alive(e) /\ tcb[e].shutdown
  /\ tcb[e].state # "established" \/ (tcb[e].sbuf = <<>> /\ ~tcb[e].tack)
  /\ tcb' = [tcb EXCEPT ![e].state = "destroyed"]
  /\ UNCHANGED <<net, written, got, toRead, toWrite, faults>>

Lose(e) ==
  /\ net[e] # <<>> /\ GoesWrong
  /\ net' = [net EXCEPT ![e] = Tail(@)]
  /\ UNCHANGED <<tcb, written, got, toRead, toWrite>>

EndNext(e) ==
  \/ Receive(e) \/ Send(e) \/ Recv(e)
  \/ RetransmitTimer(e) \/ ProbeTimer(e) \/ AckTimer(e) \/ Destroy(e)

Next == Connect \/ \E e \in Ends : EndNext(e) \/ Close(e) \/ Lose(e)

Spec == Init /\ [][Next]_vars

-------------------------------------------------------------------------------
States == {"listen", "syn_sent", "syn_received", "established", "closed",
           "destroyed"}
Seqs == 0..SeqRange - 1

\* m_rcv_wnd and what attemptSend has left to send, which are unsigned, never
\* pass 0, and the buffers never their capacities.
TypeOK ==
  /\ \A e \in Ends :
       LET s == tcb[e]
       IN  /\ s.state \in States /\ {s.una, s.nxt, s.rnxt} \subseteq Seqs
           /\ InFlight(s) <= Len(s.sbuf)
           /\ s.rwnd \in 0..RcvBuf /\ Len(s.rbuf) <= RcvBuf
           /\ Len(s.sbuf) <= SndBuf /\ Len(s.stash) <= RcvSpace(s)
           /\ s.cwnd \in 0..MaxCwnd /\ s.mss \in ToSet(Levels)
           /\ {s.rto, s.tack, s.readEnable, s.writeEnable, s.shutdown} \subseteq BOOLEAN
           /\ written[e] \in 0..ToSend[e]
  /\ faults \in 0..MaxFaults

\* The streams: what an application reads, and what waits for it, is the
\* beginning of what the other one wrote.
InOrder ==
  \A e \in Ends :
    LET s == got[e] \o tcb[e].rbuf
    IN  Len(s) <= written[Peer(e)] /\ \A i \in 1..Len(s) : s[i] = i

\* The segments cover what m_sbuf has, in order, and those that have been
\* transmitted are what is in flight; an acknowledgement never ends within a
\* segment, whose seq process would not adjust.  The timer runs if, and only
\* if, there is something in flight (NotifyClock asserts one half of it).
Start(s, k) ==
  IF k <= Len(s.slist) THEN s.slist[k].seq ELSE Plus(s.una, Len(s.sbuf))

SegmentsMatch ==
  \A e \in Ends : Alive(e) =>
    LET s == tcb[e]
        sent == {k \in DOMAIN s.slist : s.slist[k].xmit > 0}
    IN  /\ Start(s, 1) = s.una
        /\ \A k \in DOMAIN s.slist :
             Start(s, k + 1) = Plus(s.slist[k].seq, s.slist[k].len)
        /\ sent = 1..Cardinality(sent) /\ Start(s, Cardinality(sent) + 1) = s.nxt
        /\ s.rto <=> s.una # s.nxt

\* Nothing that an end has on its way to the other finds no space there: the
\* windows that were announced leave room for it, scaled or not.
NoOverrun ==
  \A e \in Ends : Alive(e) => \A i \in DOMAIN net[e] :
    LET p == net[e][i]
    IN  p.seq + Len(p.data) - tcb[e].rnxt <= RcvSpace(tcb[e])

\* An end that was closed and says that it may be destroyed has left nothing:
\* the other end has received all that was written, or is gone or closed too.
CloseDelivers ==
  \A e \in Ends : tcb[e].state = "destroyed" =>
    \/ ~Alive(Peer(e)) \/ tcb[Peer(e)].shutdown
    \/ Len(got[Peer(e)]) + Len(tcb[Peer(e)].rbuf) = written[e]

\* Whatever is lost and whichever windows close, an end that has something to
\* write, or that its peer has not read, can count on a packet, a timer or an
\* application that has been told; each of them happens a bounded number of
\* times, so that in the end all is read, unless an end stops reading.
Unfinished(e) == written[e] < ToSend[e] \/ Len(got[Peer(e)]) < written[e]

Awake(e) ==
  \/ net[e] # <<>> \/ tcb[e].rto \/ tcb[e].tack \/ tcb[e].wnd = 0
  \/ toRead[e] \/ (toWrite[e] /\ written[e] < ToSend[e])

NeverStuck ==
  \/ tcb[Opener].state = "listen"
  \/ \E e \in Ends : ~Alive(e) \/ tcb[e].shutdown \/ Awake(e)
  \/ \A e \in Ends : ~Unfinished(e)

\* An end gives up only when nearly as many packets have been lost or late as it
\* transmits one, or the other is gone, or has not read for all the probes.  One
\* transmission may be in vain without a loss: attemptSend returns without the
\* acknowledgement when Nagle's algorithm keeps data back.
GivesUp ==
  \A e \in Ends : tcb[e].state = "closed" =>
    \/ faults >= MaxXmit - 1 \/ ~Alive(Peer(e)) \/ tcb[e].probes = MaxProbes

\* Received data is acknowledged, or its acknowledgement is due.
AcksDue ==
  \A e \in Ends : Alive(e) => (tcb[e].lastack # tcb[e].rnxt => tcb[e].tack)
===============================================================================
